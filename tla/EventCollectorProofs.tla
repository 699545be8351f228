------------------------ MODULE EventCollectorProofs ------------------------
(***************************************************************************)
(* Proofs about EventCollector.  Everything rests on one inductive         *)
(* invariant, IInv: the queue is the contiguous tail of the events         *)
(* accepted, and whatever left its head is settled or in exactly one hand. *)
(***************************************************************************)
EXTENDS EventCollector, FiniteSetTheorems, TLAPS

\* The events 1..Taken have left the queue.
Taken == total - Len(queue)

QueueIsTail == /\ Len(queue) <= total
               /\ \A i \in 1..Len(queue) : queue[i] = Taken + i

HandsHoldTaken == \A c \in Busy : item[c] \in 1..Taken /\ fate[item[c]] = "none"

HandsDisjoint == \A c, d \in Busy : item[c] = item[d] => c = d

TakenAreOwned == \A e \in 1..Taken : fate[e] = "none" => \E c \in Busy : item[c] = e

QueuedUnsettled == \A e \in Events : e > Taken => fate[e] = "none"

\* Publishers suspended in put() keep their share of the bound.
Budget == total + Cardinality(Waiting) <= MaxEvents

OffBeforeStart == phase = "new" => \A c \in Consumers : cons[c] = "off"

Cancelling == phase \in {"gathering", "stopped"}

CancelIsLate == /\ \A c \in Consumers : cancel[c] => Cancelling
                /\ \A e \in Events : fate[e] = "cut" => Cancelling

AtStopAccepted == atStop <= total

Ownership == /\ QueueIsTail /\ HandsHoldTaken /\ HandsDisjoint
             /\ TakenAreOwned /\ QueuedUnsettled

Ending == OffBeforeStart /\ CancelIsLate /\ AtStopAccepted /\ GracefulStop

IInv == TypeOK /\ Budget /\ Ownership /\ JoinCount /\ Ending

-----------------------------------------------------------------------------
\* The consumers with an event in hand can be counted.
LEMMA BusyFinite == IsFiniteSet(Busy) /\ Cardinality(Busy) \in Nat
  BY CollectorAssumption, FS_Subset, FS_CardinalityType DEF Busy

\* The publishers suspended in put() can be counted.
LEMMA WaitingFinite == IsFiniteSet(Waiting) /\ Cardinality(Waiting) \in Nat
  BY CollectorAssumption, FS_Subset, FS_CardinalityType DEF Waiting

\* The collector as __init__() leaves it satisfies the invariant.
THEOREM InitIInv == Init => IInv
<1> SUFFICES ASSUME Init PROVE IInv
  OBVIOUS
<1> USE CollectorAssumption DEF Init
<1>1. TypeOK
  <2>1. queue \in Seq(Events) /\ 0 \in 0..MaxEvents
    OBVIOUS
  <2>2. pub \in [Publishers -> {"idle", "waiting"}]
    OBVIOUS
  <2>3. fate \in [Events -> Fates]
    BY DEF Fates
  <2> QED BY <2>1, <2>2, <2>3 DEF TypeOK, Phases
<1>2. Busy = {} /\ Waiting = {} /\ Len(queue) = 0 /\ Cardinality({}) = 0
  BY FS_EmptySet DEF Busy, Waiting
<1>3. Budget /\ JoinCount
  BY <1>2 DEF Budget, JoinCount
<1>4. Ownership
  BY <1>2 DEF Ownership, QueueIsTail, HandsHoldTaken, HandsDisjoint,
              TakenAreOwned, QueuedUnsettled, Taken, Events
<1>5. Ending
  BY DEF Ending, OffBeforeStart, CancelIsLate, AtStopAccepted, GracefulStop, Events
<1> QED BY <1>1, <1>3, <1>4, <1>5 DEF IInv

-----------------------------------------------------------------------------
\* publish(): an event joins the tail of the queue.
LEMMA PutKeepsOwnership ==
  ASSUME IInv, Put, total < MaxEvents,
         UNCHANGED <<cons, item, fate>>
  PROVE  /\ Ownership' /\ JoinCount'
         /\ queue' \in Seq(Events) /\ unfinished' \in Nat /\ total' \in 0..MaxEvents
<1> USE CollectorAssumption DEF IInv, TypeOK, Put
<1>1. queue' \in Seq(Events) /\ unfinished' \in Nat /\ total' \in 0..MaxEvents
  BY DEF Events
<1>2. Len(queue') = Len(queue) + 1 /\ Taken' = Taken /\ Busy' = Busy
  BY DEF Taken, Busy
<1>3. QueueIsTail'
  <2>1. \A i \in 1..Len(queue) : queue'[i] = queue[i]
    OBVIOUS
  <2>2. queue'[Len(queue) + 1] = total + 1
    OBVIOUS
  <2>3. total + 1 = Taken + (Len(queue) + 1)
    BY DEF Taken
  <2> QED BY <1>2, <2>1, <2>2, <2>3 DEF QueueIsTail, Ownership
<1>4. HandsHoldTaken' /\ HandsDisjoint' /\ TakenAreOwned' /\ QueuedUnsettled'
  BY <1>2 DEF Ownership, HandsHoldTaken, HandsDisjoint, TakenAreOwned, QueuedUnsettled
<1>5. JoinCount'
  BY <1>2, BusyFinite DEF JoinCount
<1> QED BY <1>1, <1>3, <1>4, <1>5 DEF Ownership

\* _consume_loop(): a step that moves a task between states in which it holds
\* the same event, or none before and after.
LEMMA MoveKeepsOwnership ==
  ASSUME IInv, Busy' = Busy, UNCHANGED <<queue, total, unfinished, item, fate>>
  PROVE  Ownership' /\ JoinCount'
BY DEF IInv, Ownership, QueueIsTail, HandsHoldTaken, HandsDisjoint,
       TakenAreOwned, QueuedUnsettled, JoinCount, Taken

\* get(): the head of the queue passes into the hands of one consumer.
LEMMA GetKeepsOwnership ==
  ASSUME IInv, NEW c \in Consumers, Get(c)
  PROVE  Ownership' /\ JoinCount' /\ queue' \in Seq(Events)
         /\ item' \in [Consumers -> 0..MaxEvents]
<1> USE CollectorAssumption DEF IInv, TypeOK, Get
<1>1. /\ Len(queue) \in Nat /\ Len(queue) > 0
      /\ queue' = Tail(queue) /\ queue' \in Seq(Events)
      /\ Len(queue') = Len(queue) - 1
      /\ \A i \in 1..Len(queue') : queue'[i] = queue[i + 1]
  OBVIOUS
<1>2. Taken' = Taken + 1 /\ Taken \in Nat /\ Taken < total
  BY <1>1 DEF Taken, Ownership, QueueIsTail
<1>3. item' = [item EXCEPT ![c] = Taken + 1]
  <2>1. Head(queue) = queue[1]
    BY <1>1
  <2>2. queue[1] = Taken + 1
    BY <1>1 DEF Ownership, QueueIsTail
  <2> QED BY <2>1, <2>2
<1>4. item' \in [Consumers -> 0..MaxEvents]
  BY <1>2, <1>3
<1>5. Busy' = Busy \cup {c} /\ c \notin Busy
  BY DEF Busy
<1>6. QueueIsTail'
  BY <1>1, <1>2 DEF Ownership, QueueIsTail
<1>7. HandsHoldTaken'
  BY <1>2, <1>3, <1>5 DEF Ownership, HandsHoldTaken, QueuedUnsettled, Events
<1>8. HandsDisjoint'
  BY <1>2, <1>3, <1>5 DEF Ownership, HandsHoldTaken, HandsDisjoint, Busy
<1>9. TakenAreOwned'
  <2> SUFFICES ASSUME NEW e \in 1..(Taken + 1), fate[e] = "none"
               PROVE  \E d \in Busy' : item'[d] = e
    BY <1>2 DEF TakenAreOwned
  <2>1. CASE e = Taken + 1
    BY <2>1, <1>3, <1>5
  <2>2. CASE e \in 1..Taken
    <3>1. PICK d \in Busy : item[d] = e
      BY <2>2 DEF Ownership, TakenAreOwned
    <3> QED BY <3>1, <1>3, <1>5 DEF Busy
  <2> QED BY <2>1, <2>2, <1>2
<1>10. QueuedUnsettled'
  BY <1>2 DEF Ownership, QueuedUnsettled, Events
<1>11. JoinCount'
  <2>1. Cardinality(Busy \cup {c}) = Cardinality(Busy) + 1
    BY <1>5, BusyFinite, FS_AddElement
  <2> QED BY <1>1, <1>5, <2>1, BusyFinite DEF JoinCount
<1> QED BY <1>1, <1>4, <1>6, <1>7, <1>8, <1>9, <1>10, <1>11 DEF Ownership

\* task_done(): the event leaves the hands of its consumer with a fate.
LEMMA SettleKeepsOwnership ==
  ASSUME IInv, NEW c \in Consumers, cons[c] = "handling",
         NEW f \in Fates \ {"none"}, fate' = [fate EXCEPT ![item[c]] = f],
         NEW s, s \notin {"held", "handling"}, cons' = [cons EXCEPT ![c] = s],
         unfinished' = unfinished - 1, UNCHANGED <<queue, total, item>>
  PROVE  /\ Ownership' /\ JoinCount' /\ unfinished' \in Nat
         /\ fate' \in [Events -> Fates]
         /\ item[c] \in Events /\ fate[item[c]] = "none"
<1> USE CollectorAssumption DEF IInv, TypeOK
<1>1. Busy' = Busy \ {c} /\ c \in Busy /\ Taken' = Taken
  BY DEF Busy, Taken
<1>2. Taken \in 0..total /\ item[c] \in 1..Taken /\ fate[item[c]] = "none"
  BY <1>1 DEF Ownership, HandsHoldTaken, Taken, QueueIsTail
<1>3. item[c] \in Events /\ fate' \in [Events -> Fates]
  BY <1>2 DEF Events
<1>4. QueueIsTail' /\ HandsDisjoint'
  BY <1>1 DEF Ownership, QueueIsTail, HandsDisjoint
<1>5. HandsHoldTaken'
  BY <1>1, <1>2, <1>3 DEF Ownership, HandsHoldTaken, HandsDisjoint, Events
<1>6. TakenAreOwned'
  BY <1>1, <1>2, <1>3 DEF Ownership, TakenAreOwned, Events
<1>7. QueuedUnsettled'
  BY <1>1, <1>2, <1>3 DEF Ownership, QueuedUnsettled
<1>8. JoinCount' /\ unfinished' \in Nat
  <2>1. Cardinality(Busy \ {c}) = Cardinality(Busy) - 1
    BY <1>1, BusyFinite, FS_RemoveElement
  <2>2. Cardinality(Busy \ {c}) \in Nat
    BY BusyFinite, FS_RemoveElement, FS_CardinalityType
  <2> QED BY <1>1, <2>1, <2>2, BusyFinite DEF JoinCount
<1> QED BY <1>2, <1>3, <1>4, <1>5, <1>6, <1>7, <1>8 DEF Ownership

\* When join() finds nothing unfinished, every accepted event has ended in a
\* consumer that was not cut off.
LEMMA EmptyMeansSettled ==
  ASSUME IInv, unfinished = 0, ~Cancelling
  PROVE  \A e \in 1..total : fate[e] \in {"handled", "failed"}
<1> USE DEF IInv, TypeOK
<1>1. Cardinality(Busy) = 0 /\ Len(queue) = 0
  BY BusyFinite DEF JoinCount
<1>2. Busy = {} /\ Taken = total
  BY <1>1, BusyFinite, FS_EmptySet DEF Taken
<1> QED
  BY <1>2, CollectorAssumption
  DEF Ownership, TakenAreOwned, Ending, CancelIsLate, Events, Fates

\* A step that leaves start() and stop() where they are keeps what is known of
\* the ending, if no consumer runs before start().
LEMMA SameEnding ==
  ASSUME IInv, UNCHANGED <<stopVars, fate>>, total' \in {total, total + 1},
         \A c \in Consumers : cancel'[c] => cancel[c],
         phase = "new" => cons' = cons
  PROVE  Ending'
BY DEF IInv, TypeOK, Ending, stopVars, OffBeforeStart, CancelIsLate, Cancelling,
       AtStopAccepted, GracefulStop

-----------------------------------------------------------------------------
\* Every step of publish() keeps the invariant.
THEOREM PublisherKeepsIInv ==
  ASSUME IInv, NEW p \in Publishers,
         Publish(p) \/ Resume(p) \/ CancelPublish(p)
  PROVE  IInv'
<1> USE CollectorAssumption DEF consVars, stopVars, qVars
<1>1. CASE Publish(p) /\ ~Full
  <2>1. Put /\ UNCHANGED <<pub, cons, item, cancel, fate, stopVars>>
    BY <1>1 DEF Publish
  <2>2. Waiting' = Waiting /\ total + Cardinality(Waiting) < MaxEvents
    BY <1>1, <2>1 DEF Publish, Waiting
  <2>3. total < MaxEvents /\ Budget'
    BY <2>1, <2>2, WaitingFinite DEF Put, Budget, IInv, TypeOK
  <2>4. Ending'
    BY <2>1, SameEnding DEF Put
  <2> QED BY <2>1, <2>3, <2>4, PutKeepsOwnership DEF IInv, TypeOK
<1>2. CASE Publish(p) /\ Full
  <2>1. /\ UNCHANGED <<queue, unfinished, total, cons, item, cancel, fate, stopVars>>
        /\ pub' = [pub EXCEPT ![p] = "waiting"]
    BY <1>2 DEF Publish
  <2>2. Waiting' = Waiting \cup {p} /\ total + Cardinality(Waiting) < MaxEvents /\ p \notin Waiting
    BY <1>2, <2>1 DEF Publish, Waiting, IInv, TypeOK
  <2>3. Cardinality(Waiting \cup {p}) = Cardinality(Waiting) + 1
    BY <2>2, WaitingFinite, FS_AddElement
  <2>4. Budget'
    BY <2>1, <2>2, <2>3, WaitingFinite DEF Budget, IInv, TypeOK
  <2>5. Ownership' /\ JoinCount' /\ Ending'
    BY <2>1, MoveKeepsOwnership, SameEnding DEF Busy
  <2> QED BY <2>1, <2>4, <2>5 DEF IInv, TypeOK
<1>3. CASE Resume(p)
  <2>1. /\ Put /\ UNCHANGED <<cons, item, cancel, fate, stopVars>>
        /\ pub' = [pub EXCEPT ![p] = "idle"]
    BY <1>3 DEF Resume
  <2>2. Waiting' = Waiting \ {p} /\ p \in Waiting
    BY <1>3, <2>1 DEF Resume, Waiting, IInv, TypeOK
  <2>3. /\ Cardinality(Waiting \ {p}) = Cardinality(Waiting) - 1
        /\ Cardinality(Waiting \ {p}) \in Nat
    BY <2>2, WaitingFinite, FS_RemoveElement, FS_CardinalityType
  <2>4. total < MaxEvents /\ Budget'
    BY <2>1, <2>2, <2>3, WaitingFinite DEF Put, Budget, IInv, TypeOK
  <2>5. Ending'
    BY <2>1, SameEnding DEF Put
  <2> QED BY <2>1, <2>4, <2>5, PutKeepsOwnership DEF IInv, TypeOK
<1>4. CASE CancelPublish(p)
  <2>1. /\ UNCHANGED <<queue, unfinished, total, cons, item, cancel, fate, stopVars>>
        /\ pub' = [pub EXCEPT ![p] = "idle"]
    BY <1>4 DEF CancelPublish
  <2>2. Waiting' = Waiting \ {p} /\ p \in Waiting
    BY <1>4, <2>1 DEF CancelPublish, Waiting, IInv, TypeOK
  <2>3. /\ Cardinality(Waiting \ {p}) = Cardinality(Waiting) - 1
        /\ Cardinality(Waiting \ {p}) \in Nat
    BY <2>2, WaitingFinite, FS_RemoveElement, FS_CardinalityType
  <2>4. Budget'
    BY <2>1, <2>2, <2>3, WaitingFinite DEF Budget, IInv, TypeOK
  <2>5. Ownership' /\ JoinCount' /\ Ending'
    BY <2>1, MoveKeepsOwnership, SameEnding DEF Busy
  <2> QED BY <2>1, <2>4, <2>5 DEF IInv, TypeOK
<1> QED BY <1>1, <1>2, <1>3, <1>4

-----------------------------------------------------------------------------
\* A consumer's task that holds no event before or after its step.
LEMMA IdleConsumerKeepsIInv ==
  ASSUME IInv, NEW c \in Consumers, Begin(c) \/ GetTimeout(c) \/ LeaveLoop(c)
  PROVE  IInv'
<1> USE DEF consVars, stopVars, qVars
<1>1. /\ UNCHANGED <<queue, unfinished, total, stopVars, pub, item, cancel, fate>>
      /\ cons[c] \in {"created", "getting"}
      /\ \E s \in {"getting", "done"} : cons' = [cons EXCEPT ![c] = s]
  BY DEF Begin, GetTimeout, LeaveLoop, LoopTop
<1>2. Busy' = Busy
  BY <1>1 DEF Busy, IInv, TypeOK
<1>3. phase # "new"
  BY <1>1 DEF IInv, Ending, OffBeforeStart
<1>4. Ownership' /\ JoinCount'
  BY <1>1, <1>2, MoveKeepsOwnership
<1>5. Ending'
  BY <1>1, <1>3, SameEnding
<1>6. Budget'
  BY <1>1 DEF IInv, Budget, Waiting
<1>7. TypeOK'
  BY <1>1 DEF IInv, TypeOK
<1> QED BY <1>4, <1>5, <1>6, <1>7 DEF IInv

\* get() keeps the invariant.
LEMMA GetKeepsIInv ==
  ASSUME IInv, NEW c \in Consumers, Get(c)
  PROVE  IInv'
<1> USE DEF stopVars, Get
<1>1. phase # "new"
  BY DEF IInv, Ending, OffBeforeStart
<1>2. Ending'
  BY <1>1, SameEnding
<1>3. Budget'
  BY DEF IInv, Budget, Waiting
<1> QED BY <1>2, <1>3, GetKeepsOwnership DEF IInv, TypeOK

\* Handing the event over keeps the invariant: its holder is the same.
LEMMA DeliverKeepsIInv ==
  ASSUME IInv, NEW c \in Consumers, Deliver(c)
  PROVE  IInv'
<1> USE DEF stopVars, qVars, Deliver
<1>1. Busy' = Busy /\ phase # "new"
  BY DEF IInv, TypeOK, Busy, Ending, OffBeforeStart
<1>2. Ownership' /\ JoinCount'
  BY <1>1, MoveKeepsOwnership
<1>3. Ending'
  BY <1>1, SameEnding DEF IInv, TypeOK
<1>4. Budget'
  BY DEF IInv, Budget, Waiting
<1> QED BY <1>2, <1>3, <1>4 DEF IInv, TypeOK

\* The step that settles an event may also be the one that wakes join().
LEMMA SettleKeepsIInv ==
  ASSUME IInv, NEW c \in Consumers, Finish(c) \/ CutOff(c)
  PROVE  IInv'
<1> USE DEF Finish, CutOff, TaskDone, LoopTop
<1>1. PICK f \in Fates \ {"none"} :
        /\ fate' = [fate EXCEPT ![item[c]] = f]
        /\ f = "cut" => cancel[c]
  BY DEF Fates
<1>2. PICK s \in {"getting", "done"} : cons' = [cons EXCEPT ![c] = s]
  OBVIOUS
<1>3. /\ Ownership' /\ JoinCount' /\ unfinished' \in Nat
      /\ fate' \in [Events -> Fates]
      /\ item[c] \in Events /\ fate[item[c]] = "none"
  BY <1>1, <1>2, SettleKeepsOwnership
<1>4. TypeOK'
  BY <1>2, <1>3 DEF IInv, TypeOK, Phases
<1>5. Budget'
  BY DEF IInv, Budget, Waiting
<1>6. phase # "new" /\ phase' # "new"
  BY DEF IInv, Ending, OffBeforeStart
<1>7. CancelIsLate'
  BY <1>1, <1>3 DEF IInv, TypeOK, Ending, CancelIsLate, Cancelling
<1>8. GracefulStop'
  <2> SUFFICES ASSUME phase' \in {"joined", "gathering", "stopped"}, ~timedOut,
                      NEW e \in 1..atStop
               PROVE  fate'[e] \in {"handled", "failed"}
    BY DEF GracefulStop
  <2>1. e \in 1..total /\ e \in Events
    BY CollectorAssumption DEF IInv, TypeOK, Ending, AtStopAccepted, Events
  <2>2. CASE phase' = phase
    <3>1. fate[e] \in {"handled", "failed"}
      BY <2>2 DEF IInv, Ending, GracefulStop
    <3> QED BY <3>1, <2>1, <1>1, <1>3 DEF IInv, TypeOK
  <2>3. CASE phase' # phase
    <3>1. unfinished' = 0 /\ phase' = "joined"
      BY <2>3
    <3>2. Cardinality(Busy') = 0 /\ Len(queue) = 0 /\ queue' = queue
      BY <1>3, <1>4, <3>1, BusyFinite, CollectorAssumption, FS_Subset, FS_CardinalityType
      DEF JoinCount, TypeOK, Busy
    <3>3. Busy' = {}
      BY <3>2, CollectorAssumption, FS_Subset, FS_EmptySet DEF Busy
    <3>4. Taken' = total'
      <4>1. total' \in Int /\ Len(queue') = 0
        BY <3>2, <1>4, CollectorAssumption DEF TypeOK
      <4>2. \A n \in Int : n - 0 = n
        OBVIOUS
      <4> QED BY <4>1, <4>2 DEF Taken
    <3>5. fate'[e] # "none"
      <4>1. TakenAreOwned'
        BY <1>3 DEF Ownership
      <4>2. e \in 1..Taken'
        BY <3>4, <2>1
      <4> QED BY <4>1, <4>2, <3>3 DEF TakenAreOwned
    <3>6. fate'[e] # "cut"
      BY <1>7, <3>1, <2>1 DEF CancelIsLate, Cancelling
    <3> QED BY <3>5, <3>6, <1>3, <2>1 DEF Fates
  <2> QED BY <2>2, <2>3
<1>9. Ending'
  BY <1>6, <1>7, <1>8 DEF IInv, Ending, OffBeforeStart, AtStopAccepted
<1> QED BY <1>3, <1>4, <1>5, <1>9 DEF IInv

\* Every step of _consume_loop() keeps the invariant.
THEOREM ConsumerKeepsIInv ==
  ASSUME IInv, NEW c \in Consumers, ConsumerStep(c)
  PROVE  IInv'
BY IdleConsumerKeepsIInv, GetKeepsIInv, DeliverKeepsIInv, SettleKeepsIInv
DEF ConsumerStep

-----------------------------------------------------------------------------
\* start() and stop() move no event; join() returning is the step that relies
\* on the exactness of the unfinished count.
THEOREM LifecycleKeepsIInv ==
  ASSUME IInv, Start \/ Stop \/ StopStep
  PROVE  IInv'
<1> USE DEF StopStep, CancelTasks, consVars, qVars
<1>1. UNCHANGED <<queue, unfinished, total, pub, item, fate>>
  BY DEF Start, Stop, JoinStart, JoinReturns, JoinTimeout, Gathered
<1>2. Busy' = Busy
  BY DEF Start, Stop, JoinStart, JoinReturns, JoinTimeout, Gathered, Busy, IInv,
         Ending, OffBeforeStart
<1>3. Ownership' /\ JoinCount'
  BY <1>1, <1>2, MoveKeepsOwnership
<1>4. Budget'
  BY <1>1 DEF IInv, Budget, Waiting
<1>5. TypeOK'
  BY <1>1 DEF Start, Stop, JoinStart, JoinReturns, JoinTimeout, Gathered, IInv,
              TypeOK, Phases
<1>6. ASSUME JoinStart PROVE Ending'
  <2>1. /\ phase = "joining" /\ ~Cancelling
        /\ UNCHANGED <<cons, cancel, fate, total, atStop, timedOut>>
    BY <1>6 DEF JoinStart, Cancelling
  <2>2. unfinished = 0 => \A e \in 1..total : fate[e] \in {"handled", "failed"}
    BY <2>1, EmptyMeansSettled
  <2>3. unfinished > 0 \/ unfinished = 0
    BY DEF IInv, TypeOK
  <2>4. \/ phase' = "waiting"
        \/ phase' = "joined" /\ unfinished = 0
    BY <1>6, <2>3 DEF JoinStart
  <2>5. GracefulStop'
    BY <2>1, <2>2, <2>4, CollectorAssumption
    DEF IInv, TypeOK, Ending, AtStopAccepted, GracefulStop
  <2> QED BY <2>1, <2>4, <2>5
          DEF IInv, Ending, OffBeforeStart, CancelIsLate, Cancelling, AtStopAccepted
<1>7. ASSUME Start PROVE Ending'
  BY <1>7, <1>1 DEF Start, IInv, Ending, OffBeforeStart, CancelIsLate,
              Cancelling, AtStopAccepted, GracefulStop
<1>8. ASSUME Stop PROVE Ending'
  BY <1>8, <1>1 DEF Stop, IInv, TypeOK, Ending, OffBeforeStart, CancelIsLate,
              Cancelling, AtStopAccepted, GracefulStop
<1>9. ASSUME JoinReturns \/ JoinTimeout \/ Gathered PROVE Ending'
  BY <1>9, <1>1 DEF JoinReturns, JoinTimeout, Gathered, IInv, Ending, OffBeforeStart,
              CancelIsLate, Cancelling, AtStopAccepted, GracefulStop
<1> QED BY <1>3, <1>4, <1>5, <1>6, <1>7, <1>8, <1>9 DEF IInv

-----------------------------------------------------------------------------
\* Every step of the collector keeps the invariant.
THEOREM NextIInv == IInv /\ [Next]_vars => IInv'
<1> SUFFICES ASSUME IInv, [Next]_vars PROVE IInv'
  OBVIOUS
<1>1. CASE UNCHANGED vars
  <2>1. Busy' = Busy /\ Taken' = Taken
    BY <1>1 DEF vars, Busy, Taken
  <2>2. Ownership' /\ JoinCount'
    BY <1>1, <2>1, MoveKeepsOwnership DEF vars
  <2>3. Ending'
    BY <1>1, SameEnding DEF vars, stopVars
  <2> QED BY <1>1, <2>2, <2>3 DEF vars, IInv, TypeOK, Budget, Waiting
<1>2. CASE Next
  BY <1>2, PublisherKeepsIInv, ConsumerKeepsIInv, LifecycleKeepsIInv DEF Next
<1> QED BY <1>1, <1>2

\* The invariant holds in every state the collector can reach.
THEOREM IInvHolds == Spec => []IInv
BY InitIInv, NextIInv, PTL DEF Spec

-----------------------------------------------------------------------------
\* The invariant says where each accepted event is: in the queue if it is
\* younger than Taken, in one hand or settled otherwise.
LEMMA IInvOnePlace == IInv => OnePlace
<1> SUFFICES ASSUME IInv PROVE OnePlace
  OBVIOUS
<1> USE CollectorAssumption DEF IInv, TypeOK, Ownership
<1>1. Taken \in 0..total /\ Len(queue) \in Nat /\ total = Taken + Len(queue)
  BY DEF Taken, QueueIsTail
<1>2. Queued = (Taken + 1)..total
  <2>1. ASSUME NEW e \in (Taken + 1)..total PROVE e \in Queued
    <3>1. e - Taken \in 1..Len(queue)
      BY <1>1
    <3>2. queue[e - Taken] = Taken + (e - Taken)
      BY <3>1 DEF QueueIsTail
    <3>3. queue[e - Taken] = e
      BY <1>1, <3>2
    <3> QED BY <3>1, <3>3 DEF Queued
  <2>2. ASSUME NEW e \in Queued PROVE e \in (Taken + 1)..total
    <3>1. PICK i \in 1..Len(queue) : e = queue[i]
      BY <2>2 DEF Queued
    <3>2. e = Taken + i
      BY <3>1 DEF QueueIsTail
    <3> QED BY <1>1, <3>1, <3>2
  <2> QED BY <2>1, <2>2
<1>3. InHand \subseteq 1..Taken /\ InHand \cap Settled = {}
  BY DEF InHand, HandsHoldTaken, Settled
<1>4. Settled \subseteq 1..Taken
  BY <1>1 DEF Settled, QueuedUnsettled, Events
<1>5. 1..Taken \subseteq InHand \cup Settled
  <2> SUFFICES ASSUME NEW e \in 1..Taken, fate[e] = "none" PROVE e \in InHand
    BY <1>1 DEF Settled
  <2>1. PICK c \in Busy : item[c] = e
    BY DEF TakenAreOwned
  <2> QED BY <2>1 DEF InHand
<1>6. \A i, j \in 1..Len(queue) : queue[i] = queue[j] => i = j
  BY <1>1 DEF QueueIsTail
<1>7. Queued \cup InHand \cup Settled = 1..total
  <2>1. 1..total = (1..Taken) \cup ((Taken + 1)..total)
    BY <1>1
  <2> QED BY <1>2, <1>3, <1>4, <1>5, <2>1
<1>8. Queued \cap InHand = {} /\ Queued \cap Settled = {}
  BY <1>1, <1>2, <1>3, <1>4
<1> QED BY <1>3, <1>6, <1>7, <1>8 DEF OnePlace, HandsDisjoint

\* Every variable keeps its type, for any number of publishers and consumers
\* and any queue size.
THEOREM TypeCorrect == Spec => []TypeOK
BY IInvHolds, PTL DEF IInv

\* No accepted event is ever lost or duplicated inside the collector.
THEOREM Conservation == Spec => []OnePlace
BY IInvHolds, IInvOnePlace, PTL

\* join() counts exactly the events queued or in a consumer's hands.
THEOREM JoinCountExact == Spec => []JoinCount
BY IInvHolds, PTL DEF IInv

\* A stop() that did not time out abandons nothing accepted before it.
THEOREM GracefulStopHolds == Spec => []GracefulStop
BY IInvHolds, PTL DEF IInv, Ending

-----------------------------------------------------------------------------
\* A function that maps no two elements to one is an injection.
LEMMA InjectionIntro ==
  ASSUME NEW A, NEW B, NEW g \in [A -> B], \A a, b \in A : g[a] = g[b] => a = b
  PROVE  g \in Injection(A, B)
BY DEF Injection, IsInjective

\* An event is settled before at most as many older ones as there are other
\* consumers: those it overtakes are in their hands.
LEMMA OvertakesFew ==
  ASSUME IInv, NEW c \in Busy
  PROVE  Cardinality(Delivery!Overtaken(item[c])) < Cardinality(Consumers)
<1> USE CollectorAssumption DEF IInv, TypeOK, Ownership
<1> DEFINE S == Delivery!Overtaken(item[c])
           T == Busy \ {c}
           f == [d \in S |-> CHOOSE b \in T : item[b] = d]
<1>1. \A d \in S : \E b \in T : item[b] = d
  <2> SUFFICES ASSUME NEW d \in S PROVE \E b \in T : item[b] = d
    OBVIOUS
  <2>1. item[c] \in 1..Taken /\ Taken \in Int
    BY DEF HandsHoldTaken, Taken
  <2>2. d \in 1..Taken /\ d # item[c] /\ fate[d] = "none"
    BY <2>1 DEF Delivery!Overtaken
  <2> QED BY <2>2 DEF TakenAreOwned
<1>2. \A d \in S : f[d] \in T /\ item[f[d]] = d
  BY <1>1
<1>3. f \in Injection(S, T)
  <2>1. f \in [S -> T]
    BY <1>2
  <2>2. \A a, b \in S : f[a] = f[b] => a = b
    BY <1>2
  <2> HIDE DEF f, S, T
  <2> QED BY <2>1, <2>2, InjectionIntro
<1>4. IsFiniteSet(T) /\ Cardinality(T) = Cardinality(Busy) - 1
  BY BusyFinite, FS_RemoveElement
<1>5. Cardinality(S) <= Cardinality(T) /\ Cardinality(S) \in Nat
  BY <1>3, <1>4, FS_Injection, FS_CardinalityType
<1>6. Cardinality(Busy) <= Cardinality(Consumers) /\ Cardinality(Consumers) \in Nat
  BY FS_Subset, FS_CardinalityType DEF Busy
<1> QED BY <1>4, <1>5, <1>6, BusyFinite

\* Every step of the collector is one of the contract's or changes nothing it
\* speaks of.
LEMMA StepImplementsDelivery ==
  ASSUME IInv, [Next]_vars
  PROVE  [Delivery!Next]_(Delivery!vars)
<1> USE DEF Delivery!vars, qVars
<1>1. ASSUME Put, total < MaxEvents, UNCHANGED fate PROVE Delivery!Next
  BY <1>1 DEF Put, Delivery!Next, Delivery!Accept
<1>2. ASSUME NEW c \in Consumers, Finish(c) \/ CutOff(c) PROVE Delivery!Next
  <2>1. /\ total' = total /\ c \in Busy
        /\ \E g \in Fates \ {"none"} : fate' = [fate EXCEPT ![item[c]] = g]
    BY <1>2 DEF Finish, CutOff, TaskDone, Busy, Fates
  <2>2. item[c] \in 1..MaxEvents /\ item[c] <= total /\ fate[item[c]] = "none"
    BY <2>1, CollectorAssumption
    DEF IInv, TypeOK, Ownership, HandsHoldTaken, QueueIsTail, Taken
  <2>3. Delivery!Cardinality(Delivery!Overtaken(item[c])) < Cardinality(Consumers)
    <3>1. \A S : Delivery!Cardinality(S) = Cardinality(S)
      BY DEF Delivery!Cardinality, Cardinality
    <3> QED BY <2>1, <3>1, OvertakesFew
  <2>4. \E g \in Delivery!Fates \ {"none"} : fate' = [fate EXCEPT ![item[c]] = g]
    BY <2>1 DEF Fates, Delivery!Fates
  <2>5. Delivery!Settle(item[c])
    BY <2>1, <2>2, <2>3, <2>4 DEF Delivery!Settle
  <2> QED BY <2>2, <2>5 DEF Delivery!Next
<1>3. ASSUME NEW p \in Publishers, Publish(p) PROVE [Delivery!Next]_(Delivery!vars)
  <2>1. total < MaxEvents
    BY <1>3, WaitingFinite, CollectorAssumption DEF Publish, IInv, TypeOK
  <2> QED BY <1>1, <1>3, <2>1 DEF Publish
<1>4. ASSUME NEW p \in Publishers, Resume(p) PROVE Delivery!Next
  <2>1. p \in Waiting
    BY <1>4 DEF Resume, Waiting
  <2>2. Cardinality(Waiting) # 0
    BY <2>1, WaitingFinite, FS_EmptySet
  <2>3. total < MaxEvents
    BY <2>2, WaitingFinite, CollectorAssumption DEF IInv, TypeOK, Budget
  <2> QED BY <1>1, <1>4, <2>3 DEF Resume
<1>5. ASSUME NEW c \in Consumers, Begin(c) \/ Get(c) \/ Deliver(c)
                                 \/ GetTimeout(c) \/ LeaveLoop(c)
      PROVE  UNCHANGED <<total, fate>>
  BY <1>5 DEF Begin, Get, Deliver, GetTimeout, LeaveLoop
<1>6. ASSUME NEW p \in Publishers, CancelPublish(p) PROVE UNCHANGED <<total, fate>>
  BY <1>6 DEF CancelPublish
<1>7. ASSUME Start \/ Stop \/ StopStep PROVE UNCHANGED <<total, fate>>
  BY <1>7 DEF Start, Stop, StopStep, JoinStart, JoinReturns, JoinTimeout, Gathered,
              CancelTasks
<1>8. ASSUME UNCHANGED vars PROVE UNCHANGED <<total, fate>>
  BY <1>8 DEF vars
<1> QED BY <1>2, <1>3, <1>4, <1>5, <1>6, <1>7, <1>8 DEF Next, ConsumerStep

\* The collector implements the delivery contract: at most one fate per event,
\* and in order up to the number of consumers.
THEOREM ImplementsDelivery == Spec => DeliverySpec
<1>1. Init => Delivery!Init
  BY DEF Init, Delivery!Init, Events
<1> QED BY <1>1, IInvHolds, StepImplementsDelivery, PTL
        DEF Spec, DeliverySpec, Delivery!Spec
=============================================================================
