---------------------------- MODULE EventPathProofs ----------------------------
(***************************************************************************)
(* Theorems about EventPath, for every log, queue size, flush interval and *)
(* number of failed flushes and of processes: the log bridge, the event    *)
(* collector and the JSONL storage keep their promises also when app.py    *)
(* puts them together, across its start(), its stop(), kills and restarts, *)
(* and together they implement EventPipeline.                              *)
(*                                                                         *)
(* The invariant is that of each component, taken from its own proofs by   *)
(* INSTANCE, and what couples them: how the lines in hand, in the queue    *)
(* and on the disk are numbered, and in which order the stages of stop()   *)
(* reach the components.                                                   *)
(***************************************************************************)
EXTENDS EventPath, SequenceTheorems, FiniteSetTheorems, TLAPS

\* The proofs of the components.
BP == INSTANCE LogBridgeProofs WITH MaxRotations <- 0, Splits <- FALSE
CP == INSTANCE EventCollectorProofs WITH Publishers <- {"watcher"},
                                         Consumers <- {"store"},
                                         MaxEvents <- MaxLines
SP == INSTANCE JSONLStorageProofs WITH MaxEvents <- MaxLines, Days <- 1

\* The log holds whole lines and has not been rotated.
Whole == /\ base = 0 /\ end % 2 = 0
         /\ ~rotated /\ ~moved /\ raced = {}
         /\ watch = "opening" => stat % 2 = 0

\* What is excused has been passed over: it is not in hand and is not read again.
Passed == \A n \in excused : 2 * n <= pos /\ n \notin batch

\* The stages of start() and stop() go with those of the components.
Orderly ==
    /\ stage \in {"new", "serving", "unbridged", "stopped", "failed", "down"}
    /\ up <=> stage # "down"
    /\ stage = "new" => phase = "new" /\ pub["watcher"] = "idle"
    /\ stage = "serving" => phase = "running"
    /\ stage = "unbridged" => phase # "new"
    /\ stage \in {"stopped", "failed"} => phase = "stopped"

\* The watcher runs while the application serves, and publishes or has left put().
Watched ==
    /\ watch # "off" => stage = "serving"
    /\ pub["watcher"] = "waiting" => stage = "down" \/ watch = "publishing"

\* The collector stops after the last put, its consumer before it, and stop()
\* ends with an empty buffer.
Settling ==
    /\ up /\ phase \notin {"new", "running"} => atStop = total
    /\ phase = "stopped" => cons["store"] = "done"
    /\ stage = "stopped" => buffer = <<>>

\* The consumer has an event that the storage has not been given yet.
Holding == cons["store"] \in {"held", "handling"}

\* The events this process's collector has handed to the storage, and those
\* that earlier processes did.
Kept == total - Len(queue) - (IF Holding THEN 1 ELSE 0)
Older == offered - Kept

\* Each event published by this process is counted by the collector, each that
\* the storage was given by `lineOf', and the consumer has the next one.
Counted ==
    /\ before \in Nat /\ Len(published) = before + total
    /\ lineOf \in Seq(Lines) /\ Len(lineOf) = offered
    /\ Kept \in Nat /\ Kept <= offered
    /\ Holding => item["store"] = Kept + 1

\* The storage is given the published lines one by one.
Lined ==
    /\ \A e \in 1..Kept : lineOf[Older + e] = published[before + e]
    /\ \A w \in 1..Older : \E i \in 1..before : lineOf[w] = published[i]

\* Of the events of this process none is lost, and the first are on the disk.
Stored ==
    up => /\ gone \subseteq 1..Older
          /\ SP!Rising(buffer)
          /\ Range(buffer) \subseteq Older + 1..offered
          /\ \A v, w \in Older + 1..offered :
                v < w /\ w \in SP!Recorded => v \in SP!Recorded

\* Each component keeps, in every process, the invariant it has alone.
Parts == BP!IInv /\ CP!IInv /\ SP!IInv

\* What the components keep alone, and what couples them.
IInv == Parts /\ Whole /\ Passed /\ Orderly /\ Watched /\ Settling
        /\ Counted /\ Lined /\ Stored

(***************************************************************************)
(* The components keep their invariants                                    *)
(***************************************************************************)
\* The constants of the path are such as the components assume.
LEMMA Assumed == BP!BridgeAssumption /\ CP!CollectorAssumption /\ SP!StorageAssumption
<1>1. IsFiniteSet({"watcher"}) /\ IsFiniteSet({"store"})
  BY FS_Singleton
<1>2. CP!IsFiniteSet({"watcher"}) /\ CP!IsFiniteSet({"store"})
  BY <1>1 DEF IsFiniteSet, CP!IsFiniteSet
<1> QED
  BY <1>2, PathAssumption
  DEF BP!BridgeAssumption, CP!CollectorAssumption, SP!StorageAssumption

\* The steps of the composed bridge are those its invariant is proved for.
LEMMA BridgeSteps ==
    /\ B!Init => BP!Init
    /\ B!AppendUnits => BP!AppendUnits
    /\ B!Start => BP!Start
    /\ B!Read => BP!Read
    /\ B!ReadNothing => BP!ReadNothing
    /\ B!Stat => BP!Stat
    /\ B!OpenFails => BP!OpenFails
    /\ B!Drop => BP!Drop
    /\ B!Raise => BP!Raise
    /\ B!Wake => BP!Wake
    /\ B!Publish => BP!Publish
    /\ B!Stop => BP!Stop
    /\ UNCHANGED bridge => UNCHANGED BP!vars
<1> USE DEF B!logVars, BP!logVars, B!raceVars, BP!raceVars
<1>1. B!Init => BP!Init
  BY DEF B!Init, BP!Init
<1>2. B!AppendUnits => BP!AppendUnits
  BY DEF B!AppendUnits, BP!AppendUnits
<1>3. B!Start => BP!Start
  BY DEF B!Start, BP!Start, B!size, BP!size, B!Head1, BP!Head1, B!LineNumbers,
         BP!LineNumbers, B!Range, BP!Range
<1>4. /\ B!Read => BP!Read
      /\ B!ReadNothing => BP!ReadNothing
  BY DEF B!Read, BP!Read, B!ReadNothing, BP!ReadNothing, B!size, BP!size, B!Head1, BP!Head1,
         B!Tail1, BP!Tail1, B!LineNumbers, BP!LineNumbers, B!LastPos, BP!LastPos,
         B!Overgrown, BP!Overgrown
<1>5. /\ B!Stat => BP!Stat
      /\ B!OpenFails => BP!OpenFails
      /\ B!Wake => BP!Wake
  BY DEF B!Stat, BP!Stat, B!OpenFails, BP!OpenFails, B!Wake, BP!Wake, B!size, BP!size,
         B!LastPos, BP!LastPos
<1>6. /\ B!Drop => BP!Drop
      /\ B!Raise => BP!Raise
      /\ B!Publish => BP!Publish
  BY DEF B!Drop, BP!Drop, B!Raise, BP!Raise, B!Publish, BP!Publish, B!Continue,
         BP!Continue, B!First, BP!First
<1>7. /\ B!Stop => BP!Stop
      /\ UNCHANGED bridge => UNCHANGED BP!vars
  BY DEF B!Stop, BP!Stop, bridge, BP!vars
<1> QED
  BY <1>1, <1>2, <1>3, <1>4, <1>5, <1>6, <1>7

\* The same for the collector.
LEMMA CollectorSteps ==
    /\ C!Init => CP!Init
    /\ (C!Begin("store") \/ C!Get("store") \/ C!Deliver("store") \/ C!GetTimeout("store")
         \/ C!LeaveLoop("store") \/ C!Finish("store")) => CP!ConsumerStep("store")
    /\ C!Publish("watcher") => CP!Publish("watcher")
    /\ C!Resume("watcher") => CP!Resume("watcher")
    /\ C!CancelPublish("watcher") => CP!CancelPublish("watcher")
    /\ C!Start => CP!Start
    /\ C!Stop => CP!Stop
    /\ C!StopStep => CP!StopStep
    /\ UNCHANGED collector => UNCHANGED CP!vars
<1> USE DEF C!qVars, C!stopVars, C!consVars, CP!qVars, CP!stopVars, CP!consVars
<1>1. C!Init => CP!Init
  BY DEF C!Init, CP!Init, C!Events, CP!Events
<1>2. /\ C!Begin("store") => CP!Begin("store")
      /\ C!GetTimeout("store") => CP!GetTimeout("store")
  BY DEF C!Begin, CP!Begin, C!GetTimeout, CP!GetTimeout, C!LoopTop, CP!LoopTop
<1>3. /\ C!Get("store") => CP!Get("store")
      /\ C!Deliver("store") => CP!Deliver("store")
      /\ C!LeaveLoop("store") => CP!LeaveLoop("store")
  BY DEF C!Get, CP!Get, C!Deliver, CP!Deliver, C!LeaveLoop, CP!LeaveLoop
<1>4. C!Finish("store") => CP!Finish("store")
  BY DEF C!Finish, CP!Finish, C!LoopTop, CP!LoopTop, C!TaskDone, CP!TaskDone
<1>5. /\ C!Publish("watcher") => CP!Publish("watcher")
      /\ C!Resume("watcher") => CP!Resume("watcher")
      /\ C!CancelPublish("watcher") => CP!CancelPublish("watcher")
  BY DEF C!Publish, CP!Publish, C!Resume, CP!Resume, C!CancelPublish,
         CP!CancelPublish, C!Put, CP!Put, C!Full, CP!Full, C!Waiting, CP!Waiting,
         C!Cardinality, CP!Cardinality, C!IsFiniteSet, CP!IsFiniteSet
<1>6. /\ C!Start => CP!Start
      /\ C!Stop => CP!Stop
  BY DEF C!Start, CP!Start, C!Stop, CP!Stop
<1>7. C!StopStep => CP!StopStep
  BY DEF C!StopStep, CP!StopStep, C!JoinStart, CP!JoinStart, C!JoinReturns,
         CP!JoinReturns, C!JoinTimeout, CP!JoinTimeout, C!CancelTasks, CP!CancelTasks,
         C!Gathered, CP!Gathered
<1>8. UNCHANGED collector => UNCHANGED CP!vars
  BY DEF collector, CP!vars
<1>9. (C!Begin("store") \/ C!Get("store") \/ C!Deliver("store") \/ C!GetTimeout("store")
        \/ C!LeaveLoop("store") \/ C!Finish("store")) => CP!ConsumerStep("store")
  BY <1>2, <1>3, <1>4, Zenon DEF CP!ConsumerStep
<1> QED
  BY <1>1, <1>5, <1>6, <1>7, <1>8, <1>9

\* The same for the storage.
LEMMA StorageSteps ==
    /\ S!Init => SP!Init
    /\ S!Write => SP!Write
    /\ S!Flush => SP!Flush
    /\ S!End => SP!End
    /\ S!Restart => SP!Restart
    /\ S!Tick => SP!Tick
    /\ UNCHANGED storage => UNCHANGED SP!vars
<1> USE DEF S!diskVars, S!histVars, SP!diskVars, SP!histVars
<1>1. S!Init => SP!Init
  BY DEF S!Init, SP!Init
<1>2. ASSUME NEW b
      PROVE  /\ S!FlushOK(b) => SP!FlushOK(b)
             /\ S!FlushFails(b) => SP!FlushFails(b)
  BY DEF S!FlushOK, SP!FlushOK, S!FlushFails, SP!FlushFails, S!Appended, SP!Appended
<1>3. /\ S!Write => SP!Write
      /\ S!Flush => SP!Flush
  BY <1>2 DEF S!Write, SP!Write, S!Flush, SP!Flush
<1>4. S!End => SP!End
  BY DEF S!End, SP!End, S!Recorded, SP!Recorded, S!Readable, SP!Readable, S!Range,
         SP!Range, S!Events, SP!Events
<1>5. /\ S!Restart => SP!Restart
      /\ S!Tick => SP!Tick
      /\ UNCHANGED storage => UNCHANGED SP!vars
  BY DEF S!Restart, SP!Restart, S!Tick, SP!Tick, storage, SP!vars
<1> QED
  BY <1>1, <1>3, <1>4, <1>5

\* Each component starts in its own first state.
LEMMA PartsStart == Init => Parts
BY BridgeSteps, CollectorSteps, StorageSteps, Assumed, BP!InitIInv, CP!InitIInv,
   SP!InitIInv
DEF Init, Parts

\* A collector that starts anew, in the next process, has its invariant.
LEMMA CollectorStartsAgain == CP!Init' => CP!IInv'
BY Assumed, CP!InitIInv, PTL

\* Restart gives the next process a collector in its first state.
LEMMA RestartedCollector ==
    ASSUME CP!IInv, Restart
    PROVE  CP!Init'
BY DEF CP!IInv, CP!TypeOK, Restart, CP!Init, C!Events, CP!Events

\* A step of the path is a step or a stutter of each component; only a restart is
\* no step of the collector.
LEMMA PartsKept ==
    ASSUME Parts, [Next]_vars
    PROVE  Parts'
<1> USE BridgeSteps, CollectorSteps, StorageSteps
<1>1. BP!IInv'
  <2>1. [BP!Next]_(BP!vars)
    BY DEF Next, vars, Log, Clock, Watch, Consume, Publish, PublishLater, Store,
           Start, StopBridge, StopCollector, CollectorStops, FlushStorage, End,
           Restart, BP!Next, BP!WatchStep
  <2> QED
    BY <2>1, Assumed, BP!NextIInv DEF Parts
<1>2. CP!IInv'
  <2>1. CASE Restart
    BY <2>1, RestartedCollector, CollectorStartsAgain DEF Parts
  <2>2. CASE ~Restart
    <3>1. [CP!Next]_(CP!vars)
     BY <2>2
     DEF Next, vars, Log, Clock, Watch, Consume, Publish, PublishLater, Store, Start,
         StopBridge, StopCollector, CollectorStops, FlushStorage, End, CP!Next
    <3> QED
      BY <3>1, Assumed, CP!NextIInv DEF Parts
  <2> QED
    BY <2>1, <2>2
<1>3. SP!IInv'
  <2>1. [SP!Next]_(SP!vars)
    BY DEF Next, vars, Log, Clock, Watch, Consume, Publish, PublishLater, Store,
           Start, StopBridge, StopCollector, CollectorStops, FlushStorage, End,
           Restart, SP!Next
  <2> QED
    BY <2>1, Assumed, SP!NextIInv DEF Parts
<1> QED
  BY <1>1, <1>2, <1>3 DEF Parts

\* What the invariant of the bridge says of a log that is never rotated.
BridgeIs ==
    /\ end \in Nat /\ pos \in Nat /\ pos <= end /\ end <= 2 * MaxLines
    /\ batch \subseteq Lines /\ excused \subseteq Lines /\ published \in Seq(Lines)
    /\ \A n \in Range(published) \cup batch : 2 * n <= pos
    /\ \A n \in Range(published), m \in batch : n < m
    /\ \A i, j \in 1..Len(published) : i < j => published[i] < published[j]
    /\ batch # {} <=> watch = "publishing"
    /\ watch = "opening" => stat \in Nat /\ pos <= stat /\ stat <= end

\* It does say so.
LEMMA BridgeFacts == Parts /\ Whole => BridgeIs
<1> SUFFICES ASSUME Parts, Whole PROVE BridgeIs
  OBVIOUS
<1>1. /\ BP!TypeOK /\ BP!Grows /\ BP!InHand /\ BP!ReadBefore /\ BP!InOrderOnce
  BY DEF Parts, BP!IInv
<1>2. BP!LineNumbers = Lines
  BY DEF BP!LineNumbers, Lines
<1>3. BP!size = end /\ BP!Seen = pos
  BY <1>1, PathAssumption DEF BP!TypeOK, BP!size, BP!Seen, Whole
<1>4. /\ end \in Nat /\ pos \in Nat /\ pos <= end /\ end <= 2 * MaxLines
  BY <1>1, <1>3, PathAssumption DEF BP!TypeOK, Whole, BP!Grows
<1>5. /\ batch \subseteq Lines /\ excused \subseteq Lines /\ published \in Seq(Lines)
  BY <1>1, <1>2 DEF BP!TypeOK
<1>6. BP!Range(published) = Range(published)
  BY DEF BP!Range, Range
<1>7. /\ \A n \in Range(published) \cup batch : 2 * n <= pos
      /\ \A n \in Range(published), m \in batch : n < m
  BY <1>1, <1>3, <1>6 DEF BP!ReadBefore, BP!Passed, BP!Tail1, Whole
<1>8. \A i, j \in 1..Len(published) : i < j => published[i] < published[j]
  BY <1>1 DEF BP!InOrderOnce, Whole
<1>9. batch # {} <=> watch = "publishing"
  BY <1>1 DEF BP!InHand
<1>10. watch = "opening" => stat \in Nat /\ pos <= stat /\ stat <= end
  BY <1>1, <1>3, PathAssumption DEF BP!TypeOK, BP!Grows, Whole
<1> QED
  BY <1>4, <1>5, <1>7, <1>8, <1>9, <1>10 DEF BridgeIs

\* A log of whole lines ends with a line.
LEMMA EvenEnd ==
    ASSUME Parts, Whole
    PROVE  \E m \in Nat : end = 2 * m
<1>1. end \in Nat /\ end % 2 = 0
  BY BridgeFacts DEF BridgeIs, Whole
<1>2. end \div 2 \in Nat /\ end = 2 * (end \div 2)
  BY <1>1
<1> QED
  BY <1>2

\* _read_new_lines(): the lines after the position, all of which are in the log still.
LEMMA ReadMoves ==
    ASSUME Parts, Whole, B!Read
    PROVE  /\ batch = {} /\ excused' = excused /\ pos' = stat
           /\ stat \in Nat /\ pos <= stat /\ stat <= end
           /\ batch' = {n \in Lines : 2 * n - 1 > pos /\ 2 * n <= stat}
           /\ UNCHANGED <<base, end, published, raced>> /\ ~rotated' /\ ~moved'
           /\ watch' # "opening"
<1>1. BridgeIs /\ watch = "opening"
  BY BridgeFacts DEF B!Read
<1>2. /\ stat \in Nat /\ pos <= stat /\ stat <= end /\ stat % 2 = 0 /\ batch = {}
      /\ base = 0 /\ ~rotated /\ ~moved /\ pos \in Nat /\ end \in Nat
  BY <1>1 DEF Whole, BridgeIs
<1>3. B!LastPos(stat) = pos /\ B!LineNumbers = Lines /\ B!Overgrown(stat) = {}
  BY <1>2 DEF B!LastPos, B!LineNumbers, Lines, B!Overgrown
<1>4. \A n \in Lines : 2 * n - 1 # stat
  <2>1. stat \div 2 \in Nat /\ stat = 2 * (stat \div 2)
    BY <1>2
  <2> QED
    BY <2>1, PathAssumption DEF Lines
<1>5. \A n \in Lines : n \in Nat
  BY PathAssumption DEF Lines
<1>6. batch' = {n \in Lines : 2 * n - 1 > pos /\ 2 * n <= stat}
  BY <1>2, <1>3, <1>5 DEF B!Read, B!Head1, B!Tail1
<1>7. {n \in B!LineNumbers : B!Head1(n) = base + stat} = {}
  BY <1>2, <1>3, <1>4 DEF B!Head1
<1> QED
  BY <1>2, <1>3, <1>6, <1>7 DEF B!Read, B!logVars

\* A poll that returns nothing passes over nothing.
LEMMA ReadsNothing ==
    ASSUME Whole, B!ReadNothing
    PROVE  /\ UNCHANGED <<base, end, pos, batch, published, excused, rotated, stat, moved, raced>>
           /\ watch' # "opening"
<1>1. B!Overgrown(B!size) = {}
  BY DEF B!Overgrown, Whole
<1> QED
  BY <1>1 DEF B!ReadNothing, B!logVars, B!raceVars

\* start() passes over what the log holds.
LEMMA StartMoves ==
    ASSUME Parts, Whole, B!Start
    PROVE  /\ batch = {} /\ pos' = end
           /\ excused' = excused
                           \cup {n \in Lines : 2 * n <= end /\ n \notin Range(published)}
           /\ UNCHANGED <<base, end, batch, published, stat, moved, raced>> /\ ~rotated'
           /\ watch' # "opening"
<1>1. BridgeIs
  BY BridgeFacts
<1>2. B!size = end /\ B!LineNumbers = Lines /\ B!Range(published) = Range(published)
  BY <1>1 DEF Whole, BridgeIs, B!size, B!LineNumbers, Lines, B!Range, Range
<1>3. \A n \in Lines : 2 * n - 1 <= end <=> 2 * n <= end
  BY EvenEnd, PathAssumption DEF Lines
<1> QED
  BY <1>1, <1>2, <1>3 DEF B!Start, Whole, BridgeIs, B!logVars, B!raceVars, B!Head1

\* The line that is next in hand.
LEMMA FirstInHand ==
    ASSUME Parts, Whole, watch = "publishing"
    PROVE  B!First(batch) \in batch /\ \A m \in batch : B!First(batch) <= m
<1>1. batch # {} /\ batch \subseteq BP!LineNumbers
  BY BridgeFacts DEF BridgeIs, BP!LineNumbers, Lines
<1> QED
  BY <1>1, Assumed, BP!FirstIsFirst DEF B!First, BP!First

\* No step of the bridge breaks a line or rotates the log, and what it passes over
\* stays behind its position.
LEMMA BridgeKeeps ==
    ASSUME Parts, Whole, Passed,
           \/ B!AppendUnits \/ B!ReadNothing \/ B!Stat \/ B!Read \/ B!OpenFails
           \/ B!Drop \/ B!Raise \/ B!Wake \/ B!Publish \/ B!Start \/ B!Stop
           \/ UNCHANGED bridge
    PROVE  Whole' /\ Passed'
<1> USE DEF Whole, Passed, B!logVars, B!raceVars
<1>1. BridgeIs
  BY BridgeFacts
<1>2. CASE B!AppendUnits
  BY <1>2 DEF B!AppendUnits
<1>3. CASE B!Read
  <2>1. \A n \in excused : n \in Nat /\ 2 * n <= pos
    BY <1>1, PathAssumption DEF BridgeIs, Lines
  <2>2. pos \in Nat
    BY <1>1 DEF BridgeIs
  <2>3. \A n \in excused' : 2 * n <= pos' /\ n \notin batch'
    BY <1>3, <2>1, <2>2, ReadMoves
  <2> QED
    BY <1>3, <2>3, ReadMoves
<1>4. CASE B!ReadNothing \/ B!Stat \/ B!OpenFails \/ B!Wake
  <2>1. CASE B!ReadNothing
    BY <2>1, ReadsNothing
  <2>2. CASE B!Stat
    BY <1>1, <2>2 DEF B!Stat, B!size, BridgeIs
  <2>3. CASE B!OpenFails \/ B!Wake
    BY <2>3 DEF B!OpenFails, B!Wake
  <2> QED
    BY <1>4, <2>1, <2>2, <2>3
<1>5. CASE B!Drop
  BY <1>1, <1>5, FirstInHand DEF B!Drop, BridgeIs, B!Continue
<1>6. CASE B!Raise
  BY <1>1, <1>6 DEF B!Raise, BridgeIs, B!Continue
<1>7. CASE B!Publish
  BY <1>1, <1>7 DEF B!Publish, BridgeIs, B!Continue
<1>8. CASE B!Start
  <2>1. \A n \in excused : 2 * n <= end
    BY <1>1, PathAssumption DEF BridgeIs, Lines
  <2> QED
    BY <1>8, <2>1, StartMoves
<1>9. CASE B!Stop
  BY <1>1, <1>9 DEF B!Stop, BridgeIs
<1>10. CASE UNCHANGED bridge
  BY <1>10 DEF bridge
<1> QED
  BY <1>2, <1>3, <1>4, <1>5, <1>6, <1>7, <1>8, <1>9, <1>10

\* What the invariant of the collector says of one publisher and one consumer.
CollectorIs ==
    /\ queue \in Seq(Lines) /\ total \in Nat /\ Len(queue) <= total
    /\ queue # <<>> => Head(queue) = total - Len(queue) + 1
    /\ pub \in [{"watcher"} -> {"idle", "waiting"}]
    /\ cons \in [{"store"} -> {"off", "created", "getting", "held", "handling", "done"}]
    /\ item \in [{"store"} -> 0..MaxLines]
    /\ Holding => total - Len(queue) >= 1
    /\ phase = "new" => cons["store"] = "off"

\* It does say so.
LEMMA CollectorFacts == Parts => CollectorIs
<1> SUFFICES ASSUME Parts PROVE CollectorIs
  OBVIOUS
<1> USE PathAssumption
<1>1. CP!TypeOK /\ CP!QueueIsTail /\ CP!HandsHoldTaken
  BY DEF Parts, CP!IInv, CP!Ownership
<1>2. CP!Events = Lines
  BY DEF CP!Events, Lines
<1>3. /\ queue \in Seq(Lines) /\ total \in Nat /\ Len(queue) <= total
      /\ pub \in [{"watcher"} -> {"idle", "waiting"}]
      /\ cons \in [{"store"} -> {"off", "created", "getting", "held", "handling", "done"}]
      /\ item \in [{"store"} -> 0..MaxLines]
  BY <1>1, <1>2 DEF CP!TypeOK, CP!QueueIsTail
<1>4. queue # <<>> => Head(queue) = total - Len(queue) + 1
  BY <1>1, <1>3 DEF CP!QueueIsTail, CP!Taken
<1>5. Holding => total - Len(queue) >= 1
  BY <1>1, <1>3 DEF Holding, CP!HandsHoldTaken, CP!Busy, CP!Taken
<1>6. phase = "new" => cons["store"] = "off"
  BY DEF Parts, CP!IInv, CP!Ending, CP!OffBeforeStart
<1> QED
  BY <1>3, <1>4, <1>5, <1>6 DEF CollectorIs

\* What the invariant of the storage says with the files of one day.
StorageIs ==
    /\ buffer \in Seq(Lines) /\ offered \in Nat /\ failures \in Nat
    /\ Range(buffer) \cup SP!Recorded \cup gone \subseteq 1..offered
    /\ (1..offered) \ gone \subseteq SP!Recorded \cup Range(buffer)
    /\ ~up => buffer = <<>>

\* It does say so.
LEMMA StorageFacts == Parts => StorageIs
<1> SUFFICES ASSUME Parts PROVE StorageIs
  OBVIOUS
<1>1. SP!TypeOK /\ SP!Written /\ SP!NoneForgotten /\ SP!Waiting
  BY DEF Parts, SP!IInv
<1>2. SP!Events = Lines /\ SP!Range(buffer) = Range(buffer)
  BY DEF SP!Events, Lines, SP!Range, Range
<1>3. buffer \in Seq(Lines) /\ offered \in Nat /\ failures \in Nat
  BY <1>1, <1>2, PathAssumption DEF SP!TypeOK
<1>4. /\ Range(buffer) \cup SP!Recorded \cup gone \subseteq 1..offered
      /\ (1..offered) \ gone \subseteq SP!Recorded \cup Range(buffer)
      /\ ~up => buffer = <<>>
  BY <1>1, <1>2 DEF SP!Written, SP!NoneForgotten, SP!Accepted, SP!Waiting
<1> QED
  BY <1>3, <1>4 DEF StorageIs

(***************************************************************************)
(* What couples the components: stages and numbers                         *)
(***************************************************************************)
\* start() and stop() reach the components in the order of app.py.
LEMMA OrderKept ==
    ASSUME Parts, Whole, Orderly, Watched, Settling, Next
    PROVE  Orderly' /\ Watched' /\ Settling'
<1> USE DEF Orderly, Watched, Settling
<1>1. BridgeIs /\ CollectorIs
  BY BridgeFacts, CollectorFacts
<1>2. CASE Log
  BY <1>2 DEF Log, B!AppendUnits, collector, storage, appVars
<1>3. CASE Clock
  BY <1>3 DEF Clock, S!Tick, bridge, collector, appVars
<1>4. CASE Watch
  BY <1>4
  DEF Watch, B!Read, B!ReadNothing, B!Stat, B!OpenFails, B!Drop, B!Raise, B!Wake,
      B!Continue, collector, storage, appVars
<1>5. CASE Consume
  BY <1>1, <1>5
  DEF Consume, CollectorIs, C!Begin, C!Get, C!Deliver, C!GetTimeout, C!LeaveLoop,
      bridge, storage, appVars, C!qVars, C!stopVars
<1>6. CASE Publish
  BY <1>1, <1>6
  DEF Publish, CollectorIs, C!Publish, B!Publish, B!Continue, bridge, storage,
      appVars, C!qVars, C!stopVars, C!consVars
<1>7. CASE PublishLater
  BY <1>1, <1>7
  DEF PublishLater, CollectorIs, C!Resume, B!Publish, B!Continue, bridge, storage,
      appVars, C!qVars, C!stopVars, C!consVars
<1>8. CASE Store
  BY <1>1, <1>8 DEF Store, CollectorIs, C!Finish, C!TaskDone, S!Write, bridge
<1>9. CASE Start
  BY <1>1, <1>9 DEF Start, CollectorIs, C!Start, B!Start, storage, C!qVars, C!stopVars
<1>10. CASE StopBridge
  BY <1>1, <1>10
  DEF StopBridge, CollectorIs, C!CancelPublish, B!Stop, storage, collector, C!qVars,
      C!stopVars, C!consVars
<1>11. CASE StopCollector
  BY <1>1, <1>11
  DEF StopCollector, CollectorIs, C!Stop, storage, bridge, appVars, C!qVars, C!consVars
<1>12. CASE CollectorStops
  BY <1>1, <1>12
  DEF CollectorStops, CollectorIs, C!StopStep, C!JoinStart, C!JoinReturns,
      C!JoinTimeout, C!CancelTasks, C!Gathered, storage, bridge, appVars, C!qVars,
      C!consVars
<1>13. CASE FlushStorage
  BY <1>1, <1>13, StorageFacts
  DEF FlushStorage, CollectorIs, StorageIs, S!Flush, S!FlushOK, S!FlushFails,
      S!histVars, bridge, collector
<1>14. CASE End
  BY <1>1, <1>14 DEF End, CollectorIs, S!End, B!Stop, bridge, collector
<1>15. CASE Restart
  BY <1>1, <1>15 DEF Restart, CollectorIs, S!Restart, bridge
<1> QED
  BY <1>2, <1>3, <1>4, <1>5, <1>6, <1>7, <1>8, <1>9, <1>10, <1>11, <1>12, <1>13,
     <1>14, <1>15
  DEF Next

\* The line that the bridge hands to the callback.
LEMMA PublishMoves ==
    ASSUME Parts, Whole, B!Publish
    PROVE  \E n \in batch :
              /\ \A m \in batch : n <= m
              /\ published' = Append(published, n) /\ batch' = batch \ {n}
              /\ excused' = excused
BY FirstInHand DEF B!Publish, B!Continue

\* A step that hands nothing to the storage moves no line to another number.
LEMMA CountKept ==
    ASSUME BridgeIs, CollectorIs, StorageIs, Counted, Lined,
           UNCHANGED <<lineOf, offered, before>>, Kept' = Kept,
           \/ published' = published /\ total' = total
           \/ total' = total + 1 /\ \E n \in Lines : published' = Append(published, n),
           Holding' => item'["store"] = Kept + 1
    PROVE  Counted' /\ Lined' /\ Older' = Older
<1>1. /\ Len(published') = before + total'
      /\ \A i \in 1..Len(published) : published'[i] = published[i]
  <2>1. published \in Seq(Lines) /\ total \in Nat /\ Len(published) = before + total
    BY DEF BridgeIs, CollectorIs, Counted
  <2>2. CASE \E n \in Lines : published' = Append(published, n) /\ total' = total + 1
    BY <2>1, <2>2 DEF Counted
  <2> QED
    BY <2>1, <2>2
<1>2. /\ Kept \in Nat /\ Kept <= total /\ total \in Nat /\ before \in Nat
      /\ Len(published) = before + total
  BY DEF CollectorIs, Kept, Counted
<1>3. Counted' /\ Older' = Older
  BY <1>1 DEF Counted, Older
<1>4. Lined'
  <2>1. /\ \A e \in 1..Kept : before + e \in 1..Len(published)
        /\ \A i \in 1..before : i \in 1..Len(published)
    BY <1>2
  <2> QED
    BY <1>1, <1>3, <2>1 DEF Lined
<1> QED
  BY <1>3, <1>4

\* write() is given the next of the published lines.
LEMMA StoreCounts ==
    ASSUME Parts, Whole, Counted, Lined, Store
    PROVE  /\ Counted' /\ Lined' /\ Older' = Older /\ ~Holding'
           /\ offered' = offered + 1 /\ Kept' = Kept + 1
           /\ lineOf' = Append(lineOf, published[before + Kept'])
<1>1. BridgeIs /\ CollectorIs /\ StorageIs
  BY BridgeFacts, CollectorFacts, StorageFacts
<1>2. /\ cons["store"] = "handling" /\ cons'["store"] \in {"getting", "done"}
      /\ UNCHANGED <<queue, total, item, published, before>> /\ offered' = offered + 1
      /\ lineOf' = Append(lineOf, published[before + item["store"]])
  BY <1>1 DEF Store, C!Finish, C!TaskDone, C!LoopTop, S!Write, CollectorIs, bridge
<1>3. Kept' = Kept + 1 /\ ~Holding' /\ item["store"] = Kept'
  <2>1. Holding /\ ~Holding' /\ item["store"] = Kept + 1
    BY <1>2 DEF Holding, Counted
  <2>2. total \in Nat /\ Len(queue) \in Nat
    BY <1>1 DEF CollectorIs
  <2>3. Kept = total - Len(queue) - 1 /\ Kept' = total - Len(queue) - 0
    BY <1>2, <2>1 DEF Kept
  <2> QED
    BY <2>1, <2>2, <2>3
<1>4. /\ Older' = Older /\ Kept' \in Nat /\ Kept' <= total /\ Older \in Nat
      /\ total \in Nat /\ Kept \in Nat /\ Kept <= offered /\ offered \in Nat
      /\ Older + Kept = offered
  <2>1. offered \in Nat /\ Kept \in Nat /\ Kept <= offered /\ total \in Nat
    BY <1>1 DEF Counted, StorageIs, CollectorIs
  <2>2. Kept' <= total
    BY <1>1, <1>2, <1>3 DEF Kept, CollectorIs
  <2> QED
    BY <1>2, <1>3, <2>1, <2>2 DEF Older
<1>5. published[before + Kept'] \in Lines
  BY <1>1, <1>3, <1>4 DEF Counted, BridgeIs
<1>6. /\ lineOf' \in Seq(Lines) /\ Len(lineOf') = offered + 1
      /\ \A w \in 1..offered : lineOf'[w] = lineOf[w]
      /\ lineOf'[offered + 1] = published[before + Kept']
  BY <1>2, <1>3, <1>5 DEF Counted
<1>7. Counted'
  BY <1>1, <1>2, <1>3, <1>4, <1>6 DEF Counted, StorageIs
<1>8. Lined'
  <2>1. ASSUME NEW e \in 1..Kept' PROVE lineOf'[Older + e] = published[before + e]
    <3>1. CASE e = Kept'
      <4>1. Older + e = offered + 1
        BY <1>3, <1>4, <3>1
      <4> QED
        BY <1>6, <3>1, <4>1
    <3>2. CASE e \in 1..Kept
      <4>1. Older + e \in 1..offered
        BY <1>4, <3>2
      <4> QED
        BY <1>6, <3>2, <4>1 DEF Lined
    <3>3. e = Kept' \/ e \in 1..Kept
      BY <1>3, <1>4
    <3> QED
      BY <3>1, <3>2, <3>3
  <2>2. ASSUME NEW w \in 1..Older PROVE \E i \in 1..before : lineOf'[w] = published[i]
    <3>1. w \in 1..offered
      BY <1>4
    <3> QED
      BY <1>6, <3>1 DEF Lined
  <2> QED
    BY <1>2, <1>4, <2>1, <2>2 DEF Lined
<1> QED
  BY <1>2, <1>3, <1>4, <1>7, <1>8

\* For the next process all that was written before is old.
LEMMA RestartCounts ==
    ASSUME Parts, Whole, Counted, Lined, Restart
    PROVE  Counted' /\ Lined' /\ Kept' = 0 /\ Older' = offered
<1>1. BridgeIs /\ CollectorIs /\ StorageIs
  BY BridgeFacts, CollectorFacts, StorageFacts
<1>2. /\ total' = 0 /\ queue' = <<>> /\ cons'["store"] = "off" /\ before' = Len(published)
      /\ UNCHANGED <<published, offered, lineOf>>
  BY <1>1 DEF Restart, S!Restart, CollectorIs, bridge
<1>3. Kept' = 0 /\ ~Holding' /\ Older' = offered
  <2>1. ~Holding' /\ Len(queue') = 0 /\ total' = 0
    BY <1>2 DEF Holding
  <2>2. Kept' = total' - Len(queue') - 0
    BY <2>1 DEF Kept
  <2>3. Kept' = 0
    BY <2>1, <2>2
  <2> QED
    BY <1>1, <1>2, <2>1, <2>2 DEF Older, StorageIs
<1>4. Counted'
  BY <1>1, <1>2, <1>3 DEF Counted, StorageIs, BridgeIs
<1>5. Lined'
  <2>1. ASSUME NEW w \in 1..offered
        PROVE  \E i \in 1..Len(published) : lineOf[w] = published[i]
    <3>1. Kept <= total /\ Kept \in Nat /\ Older \in Nat /\ offered = Older + Kept
      BY <1>1 DEF Kept, CollectorIs, Counted, StorageIs, Older
    <3>2. CASE w \in 1..Older
      <4>1. PICK i \in 1..before : lineOf[w] = published[i]
        BY <3>2 DEF Lined
      <4>2. i \in 1..Len(published)
        BY <1>1 DEF Counted, CollectorIs
      <4> QED
        BY <4>1, <4>2
    <3>3. CASE w > Older
      <4>1. w - Older \in 1..Kept /\ Older + (w - Older) = w
        BY <3>1, <3>3
      <4>2. lineOf[w] = published[before + (w - Older)]
        BY <4>1 DEF Lined
      <4>3. before + (w - Older) \in 1..Len(published)
        BY <1>1, <3>1, <4>1 DEF Counted, CollectorIs
      <4> QED
        BY <4>2, <4>3
    <3> QED
      BY <3>1, <3>2, <3>3
  <2> QED
    BY <1>2, <1>3, <2>1 DEF Lined
<1> QED
  BY <1>3, <1>4, <1>5

\* Every step keeps the numbering of the lines.
LEMMA CountsKept ==
    ASSUME Parts, Whole, Counted, Lined, Next
    PROVE  Counted' /\ Lined' /\ (Older' = Older \/ Restart)
<1>1. BridgeIs /\ CollectorIs /\ StorageIs
  BY BridgeFacts, CollectorFacts, StorageFacts
<1> DEFINE Still == /\ UNCHANGED <<lineOf, offered, before, published, total>>
                    /\ Kept' = Kept
                    /\ Holding' => item'["store"] = Kept + 1
<1>2. Still => Counted' /\ Lined' /\ Older' = Older
  BY <1>1, CountKept
<1>3. CASE Log \/ Clock \/ Watch \/ FlushStorage \/ End
  <2>1. UNCHANGED <<queue, total, cons, item, published, lineOf, offered, before>>
    BY <1>3
    DEF Log, Clock, Watch, FlushStorage, End, B!AppendUnits, S!Tick, B!Read,
        B!ReadNothing, B!Stat, B!OpenFails, B!Drop, B!Raise, B!Wake, B!Continue, B!Stop, S!Flush, S!End,
        bridge, collector, storage, appVars
  <2>2. Still
    BY <2>1 DEF Kept, Holding, Counted
  <2> QED
    BY <1>2, <2>2
<1>4. CASE Consume
  <2>1. UNCHANGED <<total, published, lineOf, offered, before>>
    BY <1>4
    DEF Consume, C!Begin, C!Get, C!Deliver, C!GetTimeout, C!LeaveLoop, C!qVars,
        bridge, storage, appVars
  <2>2. CASE C!Get("store")
    <3>1. /\ ~Holding /\ Holding' /\ Len(queue') = Len(queue) - 1 /\ Len(queue) \in Nat
          /\ item'["store"] = total - Len(queue) + 1
      BY <1>1, <2>2 DEF C!Get, CollectorIs, Holding
    <3> QED
      BY <1>1, <1>2, <2>1, <3>1 DEF Kept, CollectorIs
  <2>3. CASE ~C!Get("store")
    <3>1. queue' = queue /\ item' = item /\ (Holding' <=> Holding)
      BY <1>1, <1>4, <2>3
      DEF Consume, C!Begin, C!Deliver, C!GetTimeout, C!LeaveLoop, C!LoopTop, C!qVars,
          CollectorIs, Holding
    <3> QED
      BY <1>2, <2>1, <3>1 DEF Kept, Counted
  <2> QED
    BY <2>2, <2>3
<1>5. CASE Publish \/ PublishLater
  <2>1. UNCHANGED <<cons, item, lineOf, offered, before>>
    BY <1>5 DEF Publish, PublishLater, C!Publish, C!Resume, C!consVars, storage, appVars
  <2>2. CASE UNCHANGED bridge /\ UNCHANGED <<queue, total>>
    BY <1>2, <2>1, <2>2 DEF bridge, Kept, Holding, Counted
  <2>3. CASE B!Publish /\ C!Put
    <3>1. total' = total + 1 /\ Len(queue') = Len(queue) + 1 /\ Len(queue) \in Nat
      BY <1>1, <2>3 DEF C!Put, CollectorIs
    <3>2. \E n \in Lines : published' = Append(published, n)
      BY <1>1, <2>3, PublishMoves DEF BridgeIs
    <3>3. Kept' = Kept /\ (Holding' => item'["store"] = Kept + 1)
      BY <1>1, <2>1, <3>1 DEF Kept, Holding, Counted, CollectorIs
    <3> QED
      BY <1>1, <2>1, <3>1, <3>2, <3>3, CountKept
  <2> QED
    BY <1>5, <2>2, <2>3 DEF Publish, PublishLater, C!Publish, C!Resume, C!qVars
<1>6. CASE Start \/ StopBridge \/ StopCollector \/ CollectorStops
  <2>1. /\ UNCHANGED <<queue, total, item, published, lineOf, offered, before>>
        /\ Holding' <=> Holding
    BY <1>1, <1>6
    DEF Start, StopBridge, StopCollector, CollectorStops, C!Start, B!Start,
        C!CancelPublish, B!Stop, C!Stop, C!StopStep, C!JoinStart, C!JoinReturns,
        C!JoinTimeout, C!CancelTasks, C!Gathered, C!qVars, C!consVars, bridge,
        collector, storage, appVars, CollectorIs, Holding
  <2> QED
    BY <1>2, <2>1 DEF Kept, Counted
<1>7. CASE Store
  BY <1>7, StoreCounts
<1>8. CASE Restart
  BY <1>8, RestartCounts
<1> QED
  BY <1>3, <1>4, <1>5, <1>6, <1>7, <1>8 DEF Next

\* A flush writes the lines of its batch from the first on.
FlushTo(b, k) ==
    /\ SP!Recorded' = SP!Recorded \cup {b[i] : i \in 1..k}
    /\ buffer' = b \/ (buffer' = <<>> /\ k = Len(b))

\* A flush, one that fails in the middle included, writes a first part of its batch.
LEMMA FlushRecords ==
    ASSUME Parts, NEW b \in Seq(Lines), S!FlushOK(b) \/ S!FlushFails(b)
    PROVE  \E k \in 0..Len(b) : FlushTo(b, k)
<1>1. SP!TypeOK /\ SP!Batches = Seq(Lines)
  BY DEF Parts, SP!IInv, SP!Batches, SP!Events, Lines
<1>2. ASSUME NEW s \in Seq(Lines)
      PROVE  SP!Range(s) = {s[i] : i \in 1..Len(s)}
  <2>1. DOMAIN s = 1..Len(s)
    OBVIOUS
  <2> QED
    BY <2>1, Zenon DEF SP!Range
<1>3. ASSUME NEW s \in Seq(Lines), files' = S!Appended(s)
      PROVE  SP!Recorded' = SP!Recorded \cup {s[i] : i \in 1..Len(s)}
  <2>1. files' = SP!Appended(s)
    BY <1>3 DEF S!Appended, SP!Appended
  <2>2. s \in SP!Batches
    BY <1>1
  <2>3. SP!Recorded' = SP!Recorded \cup SP!Range(s)
    BY <1>1, <2>1, <2>2, Assumed, SP!AppendedEffect
  <2> QED
    BY <1>2, <2>3
<1>4. CASE S!FlushOK(b)
  <2>1. FlushTo(b, Len(b))
    BY <1>3, <1>4 DEF S!FlushOK, FlushTo
  <2> QED
    BY <2>1
<1>5. CASE S!FlushFails(b)
  <2>1. PICK k \in 0..Len(b) : files' = S!Appended(SubSeq(b, 1, k)) /\ buffer' = b
    BY <1>5 DEF S!FlushFails
  <2>2. /\ SubSeq(b, 1, k) \in Seq(Lines) /\ Len(SubSeq(b, 1, k)) = k
        /\ \A i \in 1..k : SubSeq(b, 1, k)[i] = b[i]
    OBVIOUS
  <2> DEFINE s == SubSeq(b, 1, k)
  <2>3. /\ s \in Seq(Lines) /\ Len(s) = k /\ files' = S!Appended(s)
        /\ \A i \in 1..k : s[i] = b[i]
    BY <2>1, <2>2
  <2> HIDE DEF s
  <2>4. SP!Recorded' = SP!Recorded \cup {s[i] : i \in 1..Len(s)}
    BY <1>3, <2>3
  <2>5. {s[i] : i \in 1..Len(s)} = {b[i] : i \in 1..k}
    BY <2>3
  <2> QED
    BY <2>1, <2>4, <2>5 DEF FlushTo
<1> QED
  BY <1>4, <1>5

\* Of the numbers from lo + 1 to hi the first are in R, and b rises through the others.
Completes(b, R, lo, hi) ==
    /\ lo \in Nat /\ hi \in Nat /\ lo <= hi /\ b \in Seq(Nat)
    /\ \A i, j \in 1..Len(b) : i < j => b[i] < b[j]
    /\ \A i \in 1..Len(b) : b[i] \in lo + 1..hi
    /\ \A v \in lo + 1..hi : v \in R \/ \E i \in 1..Len(b) : v = b[i]
    /\ \A v, w \in lo + 1..hi : v < w /\ w \in R => v \in R

\* Events that are recorded from the first on, with a batch that holds the others,
\* are so after the first events of the batch are recorded.
LEMMA PrefixRecorded ==
    ASSUME NEW lo, NEW hi, NEW R, NEW b, NEW k \in 0..Len(b), Completes(b, R, lo, hi)
    PROVE  \E x \in lo..hi : /\ x = lo \/ x \notin R
                             /\ R \cup {b[i] : i \in 1..k} = R \cup (lo + 1..x)
<1> USE DEF Completes
<1>1. Len(b) \in Nat /\ \A i \in 1..Len(b) : b[i] \in Nat
  BY DEF Completes
<1> DEFINE P == {b[i] : i \in 1..k}
<1>2. CASE k = 0 \/ (k > 0 /\ b[k] \in R)
  <2>1. ASSUME NEW i \in 1..k PROVE b[i] \in R
    <3>1. CASE i = k
      BY <1>2, <3>1
    <3>2. CASE i # k
      <4>1. b[i] < b[k] /\ b[i] \in lo + 1..hi /\ b[k] \in lo + 1..hi
        BY <1>1, <3>2
      <4> QED
        BY <1>1, <1>2, <4>1
    <3> QED
      BY <3>1, <3>2
  <2>2. lo + 1..lo = {}
    OBVIOUS
  <2>3. P \subseteq R
    BY ONLY <2>1
  <2> HIDE DEF P
  <2>4. R \cup P = R \cup (lo + 1..lo)
    BY <2>2, <2>3
  <2>5. lo \in lo..hi
    OBVIOUS
  <2> QED
    BY <2>4, <2>5 DEF P
<1>3. CASE k > 0 /\ b[k] \notin R
  <2>1. k \in 1..Len(b) /\ b[k] \in lo + 1..hi
    BY <1>1, <1>3
  <2>2. P \subseteq lo + 1..b[k]
    <3> SUFFICES ASSUME NEW i \in 1..k PROVE b[i] \in lo + 1..b[k]
      OBVIOUS
    <3>1. i \in 1..Len(b) /\ b[i] \in lo + 1..hi /\ (i = k \/ b[i] < b[k])
      BY <1>1, <2>1
    <3> QED
      BY <2>1, <3>1
  <2>3. ASSUME NEW v \in lo + 1..b[k], v \notin R
        PROVE  v \in P
    <3>1. v \in lo + 1..hi
      BY <1>1, <2>1
    <3>2. PICK i \in 1..Len(b) : v = b[i]
      BY <2>3, <3>1
    <3>3. i <= k
      BY <1>1, <2>1, <3>2
    <3> QED
      BY <3>2, <3>3
  <2> HIDE DEF P
  <2>4. R \cup P = R \cup (lo + 1..b[k])
    BY <2>2, <2>3
  <2>5. b[k] \in lo..hi
    BY <2>1
  <2> QED
    BY <1>3, <2>4, <2>5 DEF P
<1>4. k = 0 \/ k > 0
  BY <1>1
<1> QED
  BY <1>2, <1>3, <1>4

\* What the storage does with a line, and at stop(): of this process's events it
\* records those up to the x-th write() of all, unless it has recorded them before.
RecordsTo(x) ==
    /\ x = Older \/ x \notin SP!Recorded
    /\ SP!Recorded' = SP!Recorded \cup (Older + 1..x)

\* A flush keeps the events of this process recorded from the first on.
LEMMA FlushStores ==
    ASSUME Parts, Whole, Counted, Stored, up, up', gone' = gone,
           Older' = Older, offered <= offered', offered' \in Nat,
           NEW b \in Seq(Lines), SP!Rising(b),
           \A i \in 1..Len(b) : b[i] \in Older + 1..offered',
           \A v \in Older + 1..offered' :
              v \in SP!Recorded \/ \E i \in 1..Len(b) : v = b[i],
           S!FlushOK(b) \/ S!FlushFails(b)
    PROVE  Stored' /\ \E x \in Older..offered' : RecordsTo(x)
<1>1. BridgeIs /\ CollectorIs /\ StorageIs
  BY BridgeFacts, CollectorFacts, StorageFacts
<1>2. Older \in Nat /\ Older <= offered'
  BY <1>1 DEF Older, Counted, StorageIs
<1>3. PICK k \in 0..Len(b) : FlushTo(b, k)
  BY FlushRecords
<1>4. b \in Seq(Nat) /\ \A i, j \in 1..Len(b) : i < j => b[i] < b[j]
  BY PathAssumption DEF SP!Rising, Lines
<1>5. \A v, w \in Older + 1..offered' : v < w /\ w \in SP!Recorded => v \in SP!Recorded
  <2> SUFFICES ASSUME NEW v \in Older + 1..offered', NEW w \in Older + 1..offered',
                      v < w, w \in SP!Recorded
               PROVE  v \in SP!Recorded
    OBVIOUS
  <2>1. w \in 1..offered /\ offered \in Nat
    BY <1>1 DEF StorageIs
  <2>2. v \in Older + 1..offered /\ w \in Older + 1..offered
    BY <1>2, <2>1
  <2> QED
    BY <2>2 DEF Stored
<1>6. PICK x \in Older..offered' :
         /\ x = Older \/ x \notin SP!Recorded
         /\ SP!Recorded \cup {b[i] : i \in 1..k} = SP!Recorded \cup (Older + 1..x)
  <2>1. Completes(b, SP!Recorded, Older, offered')
    BY <1>2, <1>4, <1>5 DEF Completes
  <2> QED
    BY <2>1, PrefixRecorded
<1>7. RecordsTo(x)
  BY <1>3, <1>6 DEF RecordsTo, FlushTo
<1>8. SP!Rising(buffer') /\ Range(buffer') \subseteq Older + 1..offered'
  <2>1. CASE buffer' = b
    <3>1. Range(b) = {b[i] : i \in 1..Len(b)}
      <4>1. DOMAIN b = 1..Len(b)
        OBVIOUS
      <4> QED
        BY <4>1, Zenon DEF Range
    <3> QED
      BY <2>1, <3>1
  <2>2. CASE buffer' = <<>>
    BY <2>2 DEF SP!Rising, Range
  <2> QED
    BY <1>3, <2>1, <2>2 DEF FlushTo
<1>9. ASSUME NEW v \in Older + 1..offered', NEW w \in Older + 1..offered', v < w,
             w \in SP!Recorded'
      PROVE  v \in SP!Recorded'
  BY <1>2, <1>5, <1>7, <1>9 DEF RecordsTo
<1>10. Stored'
  BY <1>8, <1>9 DEF Stored
<1> QED
  BY <1>7, <1>10

\* write() of the storage does, whether it flushes or not.
LEMMA StoreStores ==
    ASSUME Parts, Whole, Counted, Lined, Stored, Store
    PROVE  Stored' /\ \E x \in Older..offered' : RecordsTo(x)
<1>1. BridgeIs /\ CollectorIs /\ StorageIs
  BY BridgeFacts, CollectorFacts, StorageFacts
<1> DEFINE b == Append(buffer, offered + 1)
<1>2. /\ up /\ up' /\ gone' = gone /\ offered' = offered + 1 /\ offered < MaxLines
      /\ \/ S!FlushOK(b) \/ S!FlushFails(b)
         \/ buffer' = b /\ files' = files
  BY DEF Store, S!Write, S!diskVars
<1>3. Older' = Older
  BY StoreCounts
<1>4. Older \in Nat /\ offered \in Nat /\ Older <= offered
  BY <1>1 DEF Older, Counted, StorageIs
<1>5. /\ SP!Rising(buffer) /\ Range(buffer) \subseteq Older + 1..offered
      /\ \A v \in Older + 1..offered : v \in SP!Recorded \/ v \in Range(buffer)
  BY <1>1, <1>2, <1>4 DEF Stored, StorageIs
<1>6. Len(buffer) \in Nat /\ Range(buffer) = {buffer[i] : i \in 1..Len(buffer)}
  <2>1. DOMAIN buffer = 1..Len(buffer) /\ Len(buffer) \in Nat
    BY <1>1 DEF StorageIs
  <2> QED
    BY <2>1, Zenon DEF Range
<1>7. /\ b \in Seq(Lines) /\ Len(b) = Len(buffer) + 1 /\ b[Len(buffer) + 1] = offered + 1
      /\ \A i \in 1..Len(buffer) : b[i] = buffer[i]
  BY <1>1, <1>2, <1>4, PathAssumption DEF StorageIs, Lines
<1> HIDE DEF b
<1>8. SP!Rising(b)
  <2> SUFFICES ASSUME NEW i \in 1..Len(b), NEW j \in 1..Len(b), i < j
               PROVE  b[i] < b[j]
    BY DEF SP!Rising
  <2>1. i \in 1..Len(buffer) /\ b[i] = buffer[i] /\ buffer[i] \in Older + 1..offered
    BY <1>5, <1>6, <1>7
  <2>2. CASE j \in 1..Len(buffer)
    BY <1>5, <1>7, <2>1, <2>2 DEF SP!Rising
  <2>3. CASE j = Len(buffer) + 1
    BY <1>4, <1>7, <2>1, <2>3
  <2> QED
    BY <1>6, <1>7, <2>2, <2>3
<1>9. \A i \in 1..Len(b) : b[i] \in Older + 1..offered'
  <2> SUFFICES ASSUME NEW i \in 1..Len(b) PROVE b[i] \in Older + 1..offered'
    OBVIOUS
  <2>1. CASE i \in 1..Len(buffer)
    <3>1. b[i] \in Older + 1..offered
      BY <1>5, <1>6, <1>7, <2>1
    <3> QED
      BY <1>2, <1>4, <3>1
  <2>2. CASE i = Len(buffer) + 1
    BY <1>2, <1>4, <1>7, <2>2
  <2> QED
    BY <1>6, <1>7, <2>1, <2>2
<1>10. \A v \in Older + 1..offered' : v \in SP!Recorded \/ \E i \in 1..Len(b) : v = b[i]
  BY <1>2, <1>4, <1>5, <1>6, <1>7
<1>11. CASE S!FlushOK(b) \/ S!FlushFails(b)
  BY <1>2, <1>3, <1>4, <1>7, <1>8, <1>9, <1>10, <1>11, FlushStores
<1>12. CASE buffer' = b /\ files' = files
  <2>1. SP!Recorded' = SP!Recorded
    BY <1>12 DEF SP!Recorded, SP!Readable
  <2>2. Range(buffer') \subseteq Older + 1..offered'
    <3>1. Range(b) = {b[i] : i \in 1..Len(b)}
      <4>1. DOMAIN b = 1..Len(b)
        BY <1>7
      <4> QED
        BY <4>1, Zenon DEF Range
    <3> QED
      BY <1>9, <1>12, <3>1
  <2>3. \A v, w \in Older + 1..offered' : v < w /\ w \in SP!Recorded => v \in SP!Recorded
    BY <1>1, <1>2, <1>4 DEF Stored, StorageIs
  <2>4. Stored'
    BY <1>2, <1>3, <1>4, <1>8, <1>12, <2>1, <2>2, <2>3 DEF Stored
  <2>5. RecordsTo(Older)
    BY <1>4, <2>1 DEF RecordsTo
  <2> QED
    BY <1>2, <1>4, <2>4, <2>5
<1> QED
  BY <1>2, <1>11, <1>12

\* The flush at stop() does.
LEMMA FlushStorageStores ==
    ASSUME Parts, Whole, Counted, Lined, Stored, FlushStorage
    PROVE  Stored' /\ \E x \in Older..offered' : RecordsTo(x)
<1>1. BridgeIs /\ CollectorIs /\ StorageIs
  BY BridgeFacts, CollectorFacts, StorageFacts
<1>2. /\ up /\ up' /\ gone' = gone /\ offered' = offered
      /\ S!FlushOK(buffer) \/ S!FlushFails(buffer)
  BY DEF FlushStorage, S!Flush
<1>3. Older' = Older
  BY <1>2 DEF FlushStorage, collector, Older, Kept, Holding
<1>4. Older \in Nat /\ offered \in Nat /\ Older <= offered
  BY <1>1 DEF Older, Counted, StorageIs
<1>5. /\ SP!Rising(buffer) /\ Range(buffer) \subseteq Older + 1..offered
      /\ \A v \in Older + 1..offered : v \in SP!Recorded \/ v \in Range(buffer)
  BY <1>1, <1>2, <1>4 DEF Stored, StorageIs
<1>6. Len(buffer) \in Nat /\ Range(buffer) = {buffer[i] : i \in 1..Len(buffer)}
  <2>1. DOMAIN buffer = 1..Len(buffer) /\ Len(buffer) \in Nat
    BY <1>1 DEF StorageIs
  <2> QED
    BY <2>1, Zenon DEF Range
<1>7. buffer \in Seq(Lines)
  BY <1>1 DEF StorageIs
<1>8. /\ \A i \in 1..Len(buffer) : buffer[i] \in Older + 1..offered'
      /\ \A v \in Older + 1..offered' :
            v \in SP!Recorded \/ \E i \in 1..Len(buffer) : v = buffer[i]
  BY <1>2, <1>5, <1>6
<1> QED
  BY <1>2, <1>3, <1>4, <1>5, <1>7, <1>8, FlushStores

\* Every step keeps the events of this process recorded from the first on.
LEMMA StoredKept ==
    ASSUME Parts, Whole, Orderly, Counted, Lined, Stored, Next
    PROVE  Stored'
<1>1. BridgeIs /\ CollectorIs /\ StorageIs
  BY BridgeFacts, CollectorFacts, StorageFacts
<1>2. CASE Store
  BY <1>2, StoreStores
<1>3. CASE FlushStorage
  BY <1>3, FlushStorageStores
<1>4. CASE End
  BY <1>4 DEF End, S!End, Stored
<1>5. CASE Restart
  <2>1. Older' = offered /\ offered \in Nat
    BY <1>1, <1>5, RestartCounts DEF StorageIs
  <2>2. /\ ~up /\ gone' = gone /\ buffer' = buffer /\ offered' = offered
    BY <1>5 DEF Restart, S!Restart
  <2>3. gone' \subseteq 1..Older' /\ buffer' = <<>>
    BY <1>1, <2>1, <2>2 DEF StorageIs
  <2>4. Older' + 1..offered' = {}
    BY <2>1, <2>2
  <2>5. SP!Rising(buffer') /\ Range(buffer') = {}
    BY <2>3 DEF SP!Rising, Range
  <2> QED
    BY <2>3, <2>4, <2>5 DEF Stored
<1>6. CASE \/ Log \/ Clock \/ Watch \/ Consume \/ Publish \/ PublishLater
           \/ Start \/ StopBridge \/ StopCollector \/ CollectorStops
  <2>1. UNCHANGED <<buffer, files, up, offered, gone>>
    BY <1>6
    DEF Log, Clock, Watch, Consume, Publish, PublishLater, Start, StopBridge,
        StopCollector, CollectorStops, S!Tick, S!diskVars, storage
  <2>2. Older' = Older
    <3>1. ~Restart
      BY <1>6
      DEF Log, Clock, Watch, Consume, Publish, PublishLater, Start, StopBridge,
          StopCollector, CollectorStops, Restart, appVars, Orderly, S!Restart, C!Begin
    <3> QED
      BY <3>1, CountsKept
  <2>3. SP!Recorded' = SP!Recorded
    BY <2>1 DEF SP!Recorded, SP!Readable
  <2> QED
    BY <2>1, <2>2, <2>3 DEF Stored
<1> QED
  BY <1>2, <1>3, <1>4, <1>5, <1>6 DEF Next

(***************************************************************************)
(* The invariant is inductive                                              *)
(***************************************************************************)
\* The first process starts with an empty log and empty files.
LEMMA InitIInv == Init => IInv
<1> SUFFICES ASSUME Init PROVE IInv
  OBVIOUS
<1>1. Parts
  BY PartsStart
<1>2. /\ base = 0 /\ end = 0 /\ ~rotated /\ ~moved /\ raced = {} /\ excused = {} /\ watch = "off"
      /\ published = <<>> /\ total = 0 /\ queue = <<>> /\ phase = "new"
      /\ cons["store"] = "off" /\ pub["watcher"] = "idle"
      /\ offered = 0 /\ buffer = <<>> /\ up /\ gone = {}
      /\ stage = "new" /\ lives = 1 /\ before = 0 /\ lineOf = <<>>
  BY DEF Init, B!Init, C!Init, S!Init
<1>3. Whole /\ Passed /\ Orderly /\ Watched /\ Settling
  BY <1>2 DEF Whole, Passed, Orderly, Watched, Settling
<1>4. /\ Len(queue) = 0 /\ Len(published) = 0 /\ Len(lineOf) = 0
      /\ lineOf \in Seq(Lines) /\ ~Holding
  BY <1>2 DEF Holding
<1>5. Kept = total - Len(queue) - 0
  BY <1>4 DEF Kept
<1>6. Kept = 0 /\ Older = 0
  BY <1>2, <1>4, <1>5 DEF Older
<1>7. Counted /\ Lined
  BY <1>2, <1>4, <1>6 DEF Counted, Lined
<1>8. Stored
  BY <1>2, <1>6 DEF Stored, SP!Rising, Range
<1> QED
  BY <1>1, <1>3, <1>7, <1>8 DEF IInv

\* Every step keeps the invariant.
LEMMA NextIInv == IInv /\ [Next]_vars => IInv'
<1> SUFFICES ASSUME IInv, [Next]_vars PROVE IInv'
  OBVIOUS
<1>1. Parts'
  BY PartsKept DEF IInv
<1>2. CASE Next
  <2>1. Whole' /\ Passed'
    BY <1>2, BridgeKeeps
    DEF IInv, Next, Log, Clock, Watch, Consume, Publish, PublishLater, Store, Start,
        StopBridge, StopCollector, CollectorStops, FlushStorage, End, Restart
  <2> QED
    BY <1>1, <1>2, <2>1, OrderKept, CountsKept, StoredKept DEF IInv
<1>3. CASE UNCHANGED vars
  <2>1. /\ UNCHANGED <<base, end, rotated, excused, pos, batch, watch, published>>
        /\ UNCHANGED <<stat, moved, raced>>
        /\ UNCHANGED <<queue, total, phase, atStop, pub, cons, item>>
        /\ UNCHANGED <<buffer, files, up, offered, gone>>
        /\ UNCHANGED <<stage, lives, before, lineOf>>
    BY <1>3 DEF vars, bridge, collector, storage, appVars
  <2>2. /\ Kept' = Kept /\ Older' = Older /\ SP!Recorded' = SP!Recorded
        /\ Holding' <=> Holding
    BY <2>1 DEF Kept, Older, Holding, SP!Recorded, SP!Readable
  <2>3. Whole' /\ Passed' /\ Orderly' /\ Watched' /\ Settling'
    BY <2>1 DEF IInv, Whole, Passed, Orderly, Watched, Settling
  <2>4. Counted' /\ Lined' /\ Stored'
    BY <2>1, <2>2 DEF IInv, Counted, Lined, Stored, SP!Rising
  <2> QED
    BY <1>1, <2>3, <2>4 DEF IInv
<1> QED
  BY <1>2, <1>3

\* In every state of every process the bridge, the collector and the JSONL storage
\* keep what each of them keeps alone, and _on_honeypot_event(), _store_event(),
\* start() and stop() of app.py couple them as the parts of IInv say.
THEOREM IInvHolds == Spec => []IInv
BY InitIInv, NextIInv, PTL DEF Spec

(***************************************************************************)
(* What stop() leaves behind                                               *)
(***************************************************************************)
\* The files hold the same events in both instances of the storage.
LEMMA SameRecorded == S!Recorded = SP!Recorded
  BY DEF S!Recorded, SP!Recorded, S!Readable, SP!Readable, S!Range, SP!Range,
         S!Events, SP!Events

\* When stop() returns the consumer has ended with an empty queue and an empty hand,
\* so all that was published was given to the storage, whose buffer is empty.
LEMMA DrainedAtStop == IInv => Drained
<1> SUFFICES ASSUME IInv PROVE Drained
  OBVIOUS
<1>1. BridgeIs /\ CollectorIs /\ StorageIs
  BY BridgeFacts, CollectorFacts, StorageFacts DEF IInv
<1>2. up /\ phase = "stopped" => pub["watcher"] = "idle"
  BY <1>1 DEF IInv, Orderly, Watched, CollectorIs, BridgeIs
<1>3. ASSUME stage = "stopped", ~timedOut, NEW n \in Lines
      PROVE  Place(n) \notin {"hand", "taken"}
  <2>1. /\ watch = "off" /\ phase = "stopped" /\ up /\ atStop = total
        /\ cons["store"] = "done" /\ buffer = <<>>
    BY <1>3 DEF IInv, Orderly, Watched, Settling
  <2>2. batch = {}
    BY <1>1, <2>1 DEF BridgeIs
  <2>3. \A e \in 1..total : fate[e] \in {"handled", "failed"}
    BY <1>3, <2>1 DEF IInv, Parts, CP!IInv, CP!Ending, CP!GracefulStop
  <2>4. Len(queue) = 0
    <3>1. total \in CP!Events \/ total = 0
      BY <1>1, PathAssumption
      DEF IInv, Parts, CP!IInv, CP!TypeOK, CP!Events, CollectorIs
    <3>2. total > total - Len(queue) => fate[total] = "none" \/ total = 0
      BY <3>1 DEF IInv, Parts, CP!IInv, CP!Ownership, CP!QueuedUnsettled, CP!Taken
    <3> QED
      BY <1>1, <2>3, <3>2 DEF CollectorIs
  <2>5. Kept = total /\ total \in Nat /\ Len(published) = before + total /\ before \in Nat
        /\ Older \in Nat /\ Older + total = offered
    <3>1. ~Holding
      BY <2>1 DEF Holding
    <3>2. Kept = total - 0 - 0
      BY <2>4, <3>1 DEF Kept
    <3> QED
      BY <1>1, <3>2 DEF CollectorIs, IInv, Counted, Older, StorageIs
  <2>6. ASSUME NEW i \in before + 1..Len(published)
        PROVE  published[i] \in {lineOf[w] : w \in S!Recorded}
    <3>1. PICK e \in 1..total : i = before + e
      <4>1. i - before \in 1..total /\ i = before + (i - before)
        BY <2>5
      <4> QED
        BY <4>1
    <3>2. lineOf[Older + e] = published[i]
      BY <2>5, <3>1 DEF IInv, Lined
    <3>3. /\ Older + e \in Older + 1..offered /\ Older + e \in 1..offered
          /\ Older + e \notin 1..Older
      BY <2>5
    <3>4. Older + e \notin gone
      BY <2>1, <3>3 DEF IInv, Stored
    <3>5. Range(buffer) = {}
      BY <2>1 DEF Range
    <3>6. Older + e \in SP!Recorded
      BY <1>1, <3>3, <3>4, <3>5 DEF StorageIs
    <3> QED
      BY <3>2, <3>6, SameRecorded
  <2> QED
    BY <2>2, <2>6 DEF Place
<1> QED
  BY <1>2, <1>3 DEF Drained

\* stop() of app.py leaves nothing behind: no watcher is blocked on the queue of a
\* collector that has stopped, and, unless join() timed out, every event that the
\* collector accepted is on the disk when stop() returns.
THEOREM DrainedHolds == Spec => []Drained
BY IInvHolds, DrainedAtStop, PTL

(***************************************************************************)
(* The components implement the pipeline                                   *)
(***************************************************************************)
\* The lines on the disk, and those that this process has published.
Disk == {lineOf[w] : w \in SP!Recorded}
Mine == {published[i] : i \in before + 1..Len(published)}

\* The place of a line now, and after a step.
LEMMA PlaceOf ==
    ASSUME NEW n
    PROVE  /\ Place(n) = IF n \in Disk THEN "disk"
                         ELSE IF up /\ n \in Mine THEN "taken"
                         ELSE IF n \in Range(published) \cup excused THEN "lost"
                         ELSE IF n \in batch THEN "hand" ELSE "log"
           /\ Place(n)' = IF n \in Disk' THEN "disk"
                          ELSE IF up' /\ n \in Mine' THEN "taken"
                          ELSE IF n \in Range(published') \cup excused' THEN "lost"
                          ELSE IF n \in batch' THEN "hand" ELSE "log"
<1>1. S!Recorded = SP!Recorded
  BY SameRecorded
<1>2. S!Recorded' = SP!Recorded'
  BY DEF S!Recorded, SP!Recorded, S!Readable, SP!Readable, S!Range, SP!Range,
         S!Events, SP!Events
<1> QED
  BY <1>1, <1>2 DEF Place, Disk, Mine

\* The lines on the disk or taken were published, the lines in hand are not, and a
\* line of this process is on the disk once the storage has recorded it.
Placed ==
    /\ Disk \cup Mine \subseteq Range(published)
    /\ batch \cap (Range(published) \cup excused) = {}
    /\ \A i \in 1..total : published[before + i] \in Disk <=> Older + i \in SP!Recorded
    /\ \A w \in Older + 1..offered : lineOf[w] \in Mine

\* It follows from the invariant.
LEMMA PlacedAlways == IInv => Placed
<1> SUFFICES ASSUME IInv PROVE Placed
  OBVIOUS
<1>1. BridgeIs /\ CollectorIs /\ StorageIs
  BY BridgeFacts, CollectorFacts, StorageFacts DEF IInv
<1>2. /\ before \in Nat /\ total \in Nat /\ Kept \in Nat /\ Older \in Nat
      /\ offered \in Nat
      /\ Kept <= total /\ offered = Older + Kept /\ Len(published) = before + total
  BY <1>1 DEF IInv, Counted, StorageIs, CollectorIs, Older, Kept
<1>3. Range(published) = {published[i] : i \in 1..Len(published)}
  <2>1. DOMAIN published = 1..Len(published)
    BY <1>1 DEF BridgeIs
  <2> QED
    BY <2>1, Zenon DEF Range
<1>4. \A w \in Older + 1..offered :
         \E e \in 1..Kept : w = Older + e /\ lineOf[w] = published[before + e]
  <2> SUFFICES ASSUME NEW w \in Older + 1..offered
               PROVE  \E e \in 1..Kept : w = Older + e /\ lineOf[w] = published[before + e]
    OBVIOUS
  <2>1. w - Older \in 1..Kept /\ w = Older + (w - Older)
    BY <1>2
  <2> QED
    BY <2>1 DEF IInv, Lined
<1>5. \A w \in 1..Older : \E i \in 1..before : lineOf[w] = published[i]
  BY DEF IInv, Lined
<1>6. SP!Recorded \subseteq 1..offered
  BY <1>1 DEF StorageIs
<1>7. \A w \in Older + 1..offered : lineOf[w] \in Mine
  BY <1>2, <1>4 DEF Mine
<1>8. Mine \subseteq Range(published)
  BY <1>2, <1>3 DEF Mine
<1>9. Disk \subseteq Range(published)
  <2> SUFFICES ASSUME NEW w \in SP!Recorded PROVE lineOf[w] \in Range(published)
    BY DEF Disk
  <2>1. w \in 1..Older \/ w \in Older + 1..offered
    BY <1>2, <1>6
  <2> QED
    BY <1>2, <1>3, <1>5, <1>7, <1>8, <2>1
<1>10. batch \cap (Range(published) \cup excused) = {}
  <2>1. \A n \in batch : n \in Int /\ ~(n < n)
    BY <1>1, PathAssumption DEF BridgeIs, Lines
  <2> QED
    BY <1>1, <2>1 DEF BridgeIs, IInv, Passed
<1>11. ASSUME NEW i \in 1..total
       PROVE  published[before + i] \in Disk <=> Older + i \in SP!Recorded
  <2>1. before + i \in 1..Len(published)
    BY <1>2
  <2>2. ASSUME Older + i \in SP!Recorded
        PROVE  published[before + i] \in Disk
    <3>1. Older + i \in 1..offered
      BY <1>6, <2>2
    <3>2. i \in 1..Kept
      BY <1>2, <3>1
    <3>3. lineOf[Older + i] = published[before + i]
      BY <3>2 DEF IInv, Lined
    <3> QED
      BY <2>2, <3>3 DEF Disk
  <2>3. ASSUME published[before + i] \in Disk
        PROVE  Older + i \in SP!Recorded
    <3>1. PICK w \in SP!Recorded : published[before + i] = lineOf[w]
      BY <2>3 DEF Disk
    <3>2. \A j \in 1..Len(published) :
             published[j] = published[before + i] => j = before + i
      BY <1>1, <2>1, PathAssumption DEF BridgeIs, Lines
    <3>3. CASE w \in 1..Older
      <4>1. PICK j \in 1..before : lineOf[w] = published[j]
        BY <1>5, <3>3
      <4>2. j \in 1..Len(published) /\ j # before + i
        BY <1>2
      <4> QED
        BY <3>1, <3>2, <4>1, <4>2
    <3>4. CASE w \in Older + 1..offered
      <4>1. PICK e \in 1..Kept : w = Older + e /\ lineOf[w] = published[before + e]
        BY <1>4, <3>4
      <4>2. before + e \in 1..Len(published)
        BY <1>2
      <4>3. before + e = before + i
        BY <3>1, <3>2, <4>1, <4>2
      <4>4. e = i
        BY <1>2, <4>3
      <4> QED
        BY <4>1, <4>4
    <3> QED
      BY <1>2, <1>6, <3>3, <3>4
  <2> QED
    BY <2>2, <2>3
<1> QED
  BY <1>7, <1>8, <1>9, <1>10, <1>11 DEF Placed

\* The lines in each place.
LEMMA LinesIn ==
    ASSUME IInv
    PROVE  /\ Path!Lines = Lines
           /\ Range(published) \cup Disk \cup Mine \cup batch \cup excused \subseteq Lines
           /\ Path!At("disk") = Disk
           /\ Path!At("taken") = IF up THEN Mine \ Disk ELSE {}
           /\ Path!At("hand") = batch
           /\ Path!At("log") = Lines \ (Range(published) \cup excused \cup batch)
<1>1. Path!Lines = Lines
  BY DEF Path!Lines, Lines
<1>2. Range(published) \subseteq Lines /\ batch \subseteq Lines /\ excused \subseteq Lines
  <2>1. published \in Seq(Lines) /\ batch \subseteq Lines /\ excused \subseteq Lines
    BY BridgeFacts DEF IInv, BridgeIs
  <2>2. /\ DOMAIN published = 1..Len(published)
        /\ \A i \in 1..Len(published) : published[i] \in Lines
    BY <2>1
  <2> QED
    BY <2>1, <2>2 DEF Range
<1>3. Placed
  BY PlacedAlways
<1>4. ASSUME NEW p
      PROVE  Path!At(p) = {n \in Lines : Place(n) = p}
  BY <1>1 DEF Path!At
<1> QED
  BY <1>1, <1>2, <1>3, <1>4, PlaceOf DEF Placed

\* A step that gives the lines of a set another place moves them in the pipeline.
LEMMA Moves ==
    ASSUME NEW onward, NEW p,
           \A n \in Lines : Place(n)' = IF n \in onward THEN p ELSE Place(n)
    PROVE  Path!Move(onward, p)
<1>1. Path!Lines = Lines
  BY DEF Path!Lines, Lines
<1> QED
  BY <1>1 DEF Path!Move

\* The pipeline starts with every line in the log.
LEMMA StartsPipeline == Init => Path!Init
<1> SUFFICES ASSUME Init PROVE Path!Init
  OBVIOUS
<1>1. IInv
  BY InitIInv
<1>2. /\ offered = 0 /\ published = <<>> /\ excused = {} /\ batch = {}
      /\ before = 0 /\ up = TRUE
  BY DEF Init, B!Init, S!Init
<1>3. SP!Recorded = {} /\ Range(published) = {}
  BY <1>1, <1>2, StorageFacts DEF IInv, StorageIs, Range
<1>4. Disk = {} /\ Mine = {}
  BY <1>1, <1>3, PlacedAlways DEF Placed
<1>5. \A n \in Lines : Place(n) = "log"
  BY <1>2, <1>3, <1>4, PlaceOf
<1>6. Path!Lines = Lines
  BY DEF Path!Lines, Lines
<1> QED
  BY <1>2, <1>5, <1>6 DEF Path!Init

\* A step that moves no line.
LEMMA NothingMoves ==
    ASSUME UNCHANGED <<up, published, excused, batch>>, Disk' = Disk, Mine' = Mine
    PROVE  UNCHANGED Path!vars
<1>1. \A n \in Lines : Place(n)' = Place(n)
  BY PlaceOf
<1>2. [n \in Lines |-> Place(n)]' = [n \in Lines |-> Place(n)]
  BY <1>1
<1> QED
  BY <1>2 DEF Path!vars

\* What is on the disk changes with the files only.
LEMMA SameDisk ==
    ASSUME UNCHANGED <<lineOf, files>>
    PROVE  Disk' = Disk
BY DEF Disk, SP!Recorded, SP!Readable

\* The watcher passes over lines, or forgets what it has in hand.
LEMMA LosesLines ==
    ASSUME IInv, UNCHANGED <<up, published>>, Disk' = Disk, Mine' = Mine,
           excused \subseteq excused', batch' \subseteq batch,
           batch \ batch' \subseteq excused',
           batch' \cap excused' = {}, excused' \subseteq Lines
    PROVE  Path!Lose
<1> DEFINE lost == excused' \ (Range(published) \cup excused)
<1>1. Placed
  BY PlacedAlways
<1>2. \A n \in Lines : Place(n)' = IF n \in lost THEN "lost" ELSE Place(n)
  BY <1>1, PlaceOf DEF Placed
<1>3. lost \in SUBSET (Path!At("log") \cup Path!At("hand"))
  BY LinesIn
<1>4. Path!Move(lost, "lost")
  BY <1>2, Moves
<1> QED
  BY <1>3, <1>4 DEF Path!Lose

\* _read_new_lines() takes lines from the log into its hands.
LEMMA ReadImplements ==
    ASSUME IInv, B!Read, UNCHANGED <<up, lineOf, files, before>>, up
    PROVE  Path!Read
<1>1. /\ batch = {} /\ excused' = excused /\ published' = published
      /\ batch' = {n \in Lines : 2 * n - 1 > pos /\ 2 * n <= stat}
  BY ReadMoves DEF IInv
<1>2. Disk' = Disk /\ Mine' = Mine
  BY <1>1, SameDisk DEF Mine
<1>3. batch' \cap (Range(published) \cup excused) = {}
  <2>1. \A n \in Range(published) \cup excused : ~(2 * n - 1 > pos)
    <3>1. /\ \A n \in Range(published) \cup excused : 2 * n <= pos
          /\ pos \in Nat /\ Range(published) \cup excused \subseteq Lines
      BY BridgeFacts, LinesIn, PlacedAlways DEF IInv, BridgeIs, Passed, Placed
    <3> QED
      BY <3>1, PathAssumption DEF Lines
  <2> QED
    BY <1>1, <2>1
<1>4. Placed
  BY PlacedAlways
<1>5. \A n \in Lines : Place(n)' = IF n \in batch' THEN "hand" ELSE Place(n)
  BY <1>1, <1>2, <1>3, <1>4, PlaceOf DEF Placed
<1>6. batch' \in SUBSET Path!At("log")
  BY <1>1, <1>3, LinesIn
<1>7. Path!Move(batch', "hand")
  BY <1>5, Moves
<1> QED
  BY <1>6, <1>7 DEF Path!Read

\* publish() takes the oldest line in hand, which is younger than all taken before.
LEMMA AcceptImplements ==
    ASSUME IInv, B!Publish, UNCHANGED <<up, lineOf, files, before>>, up
    PROVE  Path!Accept
<1>1. PICK n \in batch : /\ \A m \in batch : n <= m
                         /\ published' = Append(published, n) /\ batch' = batch \ {n}
                         /\ excused' = excused
  BY PublishMoves DEF IInv
<1>2. BridgeIs /\ Placed /\ Counted
  BY BridgeFacts, PlacedAlways DEF IInv
<1>3. n \in Lines /\ published \in Seq(Lines) /\ Len(published) \in Nat
  BY <1>1, <1>2 DEF BridgeIs
<1>4. /\ Len(published') = Len(published) + 1 /\ published'[Len(published) + 1] = n
      /\ \A i \in 1..Len(published) : published'[i] = published[i]
  BY <1>1, <1>3
<1>5. Range(published') = Range(published) \cup {n}
  <2>1. DOMAIN published = 1..Len(published) /\ DOMAIN published' = 1..Len(published) + 1
    BY <1>1, <1>3
  <2>2. /\ Range(published) = {published[i] : i \in 1..Len(published)}
        /\ Range(published') = {published'[i] : i \in 1..Len(published) + 1}
    BY <2>1 DEF Range
  <2> QED
    BY <1>3, <1>4, <2>2
<1>6. before \in Nat /\ before <= Len(published)
  BY <1>2, CollectorFacts DEF Counted, CollectorIs, IInv
<1>7. Mine' = Mine \cup {n}
  BY <1>3, <1>4, <1>6 DEF Mine
<1>8. Disk' = Disk
  BY SameDisk
<1>9. \A l \in Lines : Place(l)' = IF l \in {n} THEN "taken" ELSE Place(l)
  BY <1>1, <1>2, <1>5, <1>7, <1>8, PlaceOf DEF Placed
<1>10. Path!Move({n}, "taken")
  BY <1>9, Moves
<1>11. \A m \in Path!At("taken") \cup Path!At("disk") : m < n
  BY <1>1, <1>2, LinesIn DEF Placed, BridgeIs
<1>12. n \in Path!At("hand") /\ \A m \in Path!At("hand") : n <= m
  BY <1>1, LinesIn
<1> QED
  BY <1>10, <1>11, <1>12 DEF Path!Accept

\* What the storage records are the oldest of the taken lines.
LEMMA PersistImplements ==
    ASSUME IInv, IInv', up, up' = up,
           UNCHANGED <<published, before, total, batch, excused>>,
           Older' = Older,
           offered <= offered', \A w \in 1..offered : lineOf'[w] = lineOf[w],
           NEW x \in Older..offered', RecordsTo(x)
    PROVE  Path!Persist \/ UNCHANGED Path!vars
<1>1. BridgeIs /\ CollectorIs /\ StorageIs /\ Placed
  BY BridgeFacts, CollectorFacts, StorageFacts, PlacedAlways DEF IInv
<1>2. Placed' /\ StorageIs'
  <2>1. IInv' => Placed'
    BY PlacedAlways, PTL
  <2>2. Parts' => StorageIs'
    BY StorageFacts, PTL
  <2> QED
    BY <2>1, <2>2 DEF IInv
<1>3. /\ before \in Nat /\ total \in Nat /\ Older \in Nat
      /\ offered \in Nat /\ offered' \in Nat
      /\ Older <= offered /\ Len(published) = before + total
  BY <1>1, <1>2 DEF IInv, Counted, StorageIs, CollectorIs, Older
<1>4. Mine' = Mine
  BY DEF Mine
<1>5. SP!Recorded \subseteq 1..offered /\ SP!Recorded' = SP!Recorded \cup (Older + 1..x)
  BY <1>1 DEF StorageIs, RecordsTo
<1>6. Disk \subseteq Disk'
  BY <1>5 DEF Disk
<1>7. Disk' \subseteq Disk \cup Mine
  <2> SUFFICES ASSUME NEW w \in SP!Recorded' PROVE lineOf'[w] \in Disk \cup Mine
    BY DEF Disk
  <2>1. CASE w \in SP!Recorded
    BY <1>5, <2>1 DEF Disk
  <2>2. CASE w \in Older + 1..x
    <3>1. w \in Older + 1..offered'
      BY <1>3, <2>2
    <3> QED
      BY <1>2, <1>4, <3>1 DEF Placed
  <2> QED
    BY <1>5, <2>1, <2>2
<1>8. Mine = {published[before + i] : i \in 1..total}
  <2>1. ASSUME NEW j \in before + 1..Len(published)
        PROVE  \E i \in 1..total : published[j] = published[before + i]
    <3>1. j - before \in 1..total /\ before + (j - before) = j
      BY <1>3
    <3> QED
      BY <3>1
  <2>2. \A i \in 1..total : before + i \in before + 1..Len(published)
    BY <1>3
  <2> QED
    BY <2>1, <2>2 DEF Mine
<1>9. \A i \in 1..total : published[before + i] \in Disk'
                           <=> published[before + i] \in Disk \/ Older + i \in Older + 1..x
  BY <1>1, <1>2, <1>5 DEF Placed
<1>10. CASE x = Older
  <2>1. Older + 1..x = {}
    BY <1>3, <1>10
  <2>2. Disk' = Disk
    BY <1>6, <1>7, <1>8, <1>9, <2>1
  <2> QED
    BY <1>4, <2>2, NothingMoves
<1>11. CASE x # Older /\ x \notin SP!Recorded
  <2>1. PICK e \in 1..total : x = Older + e
    <3>1. x - Older \in Nat \ {0} /\ x = Older + (x - Older)
      BY <1>3, <1>11
    <3>2. Older + Kept' = offered' /\ Kept' <= total /\ Kept' \in Nat
      <4>1. CollectorIs'
        <5>1. Parts' => CollectorIs'
          BY CollectorFacts, PTL
        <5> QED
          BY <5>1 DEF IInv
      <4>2. Kept' <= total'
        BY <4>1 DEF CollectorIs, Kept
      <4>3. Kept' \in Nat
        BY DEF IInv, Counted
      <4>4. PICK o \in Nat, k \in Nat : o = offered' /\ k = Kept'
        BY <1>3, <4>3
      <4>5. Older = o - k
        BY <4>4 DEF Older
      <4>6. Older + k = o
        BY <1>3, <4>5
      <4> QED
        BY <4>2, <4>3, <4>4, <4>6
    <3>3. Older \in Nat /\ total \in Nat /\ x \in Older..offered'
      BY <1>3
    <3>4. x - Older \in 1..total
      BY ONLY <3>1, <3>2, <3>3
    <3> QED
      BY <3>1, <3>4
  <2> DEFINE n == published[before + e]
             stored == {m \in Path!At("taken") : m <= n}
  <2>2. n \in Mine /\ n \notin Disk
    BY <1>1, <1>8, <1>11, <2>1 DEF Placed
  <2>3. ASSUME NEW i \in 1..total
        PROVE  published[before + i] <= n <=> Older + i \in Older + 1..x
    <3>1. /\ before + i \in 1..Len(published) /\ before + e \in 1..Len(published)
          /\ i < e => before + i < before + e
          /\ e < i => before + e < before + i
      BY <1>3
    <3>2. published[before + i] \in Int /\ n \in Int
      BY <1>1, <3>1, PathAssumption DEF BridgeIs, Lines
    <3>3. /\ i < e => published[before + i] < n
          /\ e < i => n < published[before + i]
      BY <1>1, <3>1 DEF BridgeIs
    <3>4. published[before + i] <= n <=> i <= e
      BY <3>2, <3>3
    <3> QED
      BY <1>3, <2>1, <3>4
  <2>4. Path!At("taken") = Mine \ Disk
    BY LinesIn
  <2>5. Disk' = Disk \cup stored
    <3> HIDE DEF n
    <3> QED
      BY <1>6, <1>7, <1>8, <1>9, <2>3, <2>4
  <2>6. n \in Path!At("taken")
    BY <2>2, <2>4
  <2>7. \A l \in Lines : Place(l)' = IF l \in stored THEN "disk" ELSE Place(l)
    <3> HIDE DEF n
    <3>1. stored \subseteq Mine \ Disk
      BY <2>4
    <3> HIDE DEF stored
    <3> QED
      BY <1>4, <2>5, <3>1, PlaceOf
  <2>8. Path!Move(stored, "disk")
    BY <2>7, Moves
  <2> QED
    BY <2>6, <2>8 DEF Path!Persist
<1> QED
  BY <1>10, <1>11 DEF RecordsTo

\* The process ends: what is in hand, in the queue or in the buffer only is lost.
LEMMA EndImplements ==
    ASSUME IInv, End
    PROVE  Path!End
<1>1. Placed
  BY PlacedAlways
<1>2. /\ up /\ up' = FALSE /\ UNCHANGED <<published, lineOf, files, before>>
      /\ batch' = {} /\ excused' = excused \cup batch
  BY BridgeFacts DEF End, S!End, S!diskVars, B!Stop, bridge, IInv, BridgeIs
<1>3. Disk' = Disk /\ Mine' = Mine
  BY <1>2, SameDisk DEF Mine
<1>4. \A n \in Lines :
         Place(n)' = IF n \in batch \cup (Mine \ Disk) THEN "lost" ELSE Place(n)
  BY <1>1, <1>2, <1>3, PlaceOf DEF Placed
<1>5. Path!Move(batch \cup (Mine \ Disk), "lost")
  BY <1>4, Moves
<1>6. Path!At("hand") \cup Path!At("taken") = batch \cup (Mine \ Disk)
  BY <1>2, LinesIn
<1> QED
  BY <1>2, <1>5, <1>6 DEF Path!End

\* A restart moves no line.
LEMMA RestartImplements ==
    ASSUME IInv, Restart
    PROVE  Path!Restart
<1>1. Placed
  BY PlacedAlways
<1>2. /\ ~up /\ up' = TRUE /\ UNCHANGED <<published, lineOf, files, batch, excused>>
      /\ before' = Len(published)
  BY DEF Restart, S!Restart, S!diskVars, bridge
<1>3. Disk' = Disk
  BY <1>2, SameDisk
<1>4. Mine' = {}
  BY <1>2, BridgeFacts DEF Mine, IInv, BridgeIs
<1>5. \A n \in Lines : Place(n)' = Place(n)
  BY <1>2, <1>3, <1>4, PlaceOf
<1>6. [n \in Lines |-> Place(n)]' = [n \in Lines |-> Place(n)]
  BY <1>5
<1> QED
  BY <1>2, <1>6 DEF Path!Restart

\* Each step of the components is a step of the pipeline, or moves no line.
LEMMA StepImplements == IInv /\ IInv' /\ [Next]_vars => [Path!Next]_Path!vars
<1> SUFFICES ASSUME IInv, IInv', [Next]_vars PROVE [Path!Next]_Path!vars
  OBVIOUS
<1> USE DEF Path!Next
<1>1. BridgeIs /\ CollectorIs /\ StorageIs /\ Placed
  BY BridgeFacts, CollectorFacts, StorageFacts, PlacedAlways DEF IInv
<1>2. excused' \subseteq Lines /\ batch' \cap excused' = {}
  <2>1. IInv' => Placed'
    BY PlacedAlways, PTL
  <2>2. Parts' /\ Whole' => BridgeIs'
    BY BridgeFacts, PTL
  <2> QED
    BY <2>1, <2>2 DEF IInv, Placed, BridgeIs
<1>3. CASE \/ Log \/ Clock \/ Consume \/ StopCollector \/ CollectorStops \/ UNCHANGED vars
  <2>1. UNCHANGED <<up, published, excused, batch, lineOf, files, before>>
    BY <1>3
    DEF Log, Clock, Consume, StopCollector, CollectorStops, B!AppendUnits, S!Tick,
        S!diskVars, bridge, storage, appVars, vars
  <2>2. Disk' = Disk /\ Mine' = Mine
    BY <2>1, SameDisk DEF Mine
  <2> QED
    BY <2>1, <2>2, NothingMoves
<1>4. CASE Watch
  <2>1. UNCHANGED <<up, lineOf, files, before>> /\ Disk' = Disk
    BY <1>4, SameDisk DEF Watch, storage, appVars
  <2>2. CASE B!Read
    <3>1. up
      BY <2>2 DEF IInv, Orderly, Watched, B!Read
    <3> QED
      BY <2>1, <2>2, <3>1, ReadImplements
  <2>3. CASE B!ReadNothing \/ B!Stat \/ B!OpenFails \/ B!Wake
    <3>1. UNCHANGED <<published, excused, batch>>
      BY <2>3, ReadsNothing DEF IInv, B!Stat, B!OpenFails, B!Wake
    <3>2. Mine' = Mine
      BY <2>1, <3>1 DEF Mine
    <3> QED
      BY <2>1, <3>1, <3>2, NothingMoves
  <2>4. CASE B!Drop \/ B!Raise
    <3>1. /\ published' = published /\ excused \subseteq excused'
          /\ batch' \subseteq batch
          /\ batch \ batch' \subseteq excused'
      BY <2>4 DEF B!Drop, B!Raise, B!Continue
    <3>2. Mine' = Mine
      BY <2>1, <3>1 DEF Mine
    <3> QED
      BY <1>2, <2>1, <3>1, <3>2, LosesLines
  <2> QED
    BY <1>4, <2>2, <2>3, <2>4 DEF Watch
<1>5. CASE Publish \/ PublishLater
  <2>1. UNCHANGED <<up, lineOf, files, before>>
    BY <1>5 DEF Publish, PublishLater, storage, appVars
  <2>2. CASE UNCHANGED bridge
    <3>1. UNCHANGED <<published, excused, batch>> /\ Mine' = Mine
      BY <2>1, <2>2 DEF bridge, Mine
    <3> QED
      BY <2>1, <3>1, SameDisk, NothingMoves
  <2>3. CASE B!Publish
    <3>1. up
      BY <2>3 DEF IInv, Orderly, Watched, B!Publish
    <3> QED
      BY <2>1, <2>3, <3>1, AcceptImplements
  <2> QED
    BY <1>5, <2>2, <2>3 DEF Publish, PublishLater
<1>6. CASE Store \/ FlushStorage
  <2>1. UNCHANGED <<published, before, batch, excused, total>> /\ up' = up /\ up
    BY <1>6
    DEF Store, FlushStorage, bridge, collector, C!Finish, C!TaskDone, S!Write, S!Flush
  <2>2. offered <= offered' /\ \A w \in 1..offered : lineOf'[w] = lineOf[w]
    <3>1. CASE FlushStorage
      BY <1>1, <3>1 DEF FlushStorage, S!Flush, StorageIs
    <3>2. CASE Store
      <4>1. /\ lineOf' = Append(lineOf, published[before + Kept'])
            /\ offered' = offered + 1
        BY <3>2, StoreCounts DEF IInv
      <4>2. offered \in Nat /\ lineOf \in Seq(Lines) /\ Len(lineOf) = offered
        BY <1>1 DEF StorageIs, IInv, Counted
      <4> QED
        BY <4>1, <4>2
    <3> QED
      BY <1>6, <3>1, <3>2
  <2>3. Older' = Older
    <3>1. ~Restart
      BY <2>1 DEF Restart, S!Restart
    <3> QED
      BY <1>6, <3>1, CountsKept DEF IInv, Next
  <2>4. PICK x \in Older..offered' : RecordsTo(x)
    BY <1>6, StoreStores, FlushStorageStores DEF IInv
  <2> QED
    BY <2>1, <2>2, <2>3, <2>4, PersistImplements
<1>7. CASE Start \/ StopBridge
  <2>1. UNCHANGED <<up, published, lineOf, files, before>>
    BY <1>7 DEF Start, StopBridge, B!Start, B!Stop, storage
  <2>2. Disk' = Disk /\ Mine' = Mine
    BY <2>1, SameDisk DEF Mine
  <2>3. CASE Start
    <3>1. batch = {} /\ batch' = batch /\ excused \subseteq excused'
      BY <2>3, StartMoves DEF Start, IInv
    <3> QED
      BY <1>2, <2>1, <2>2, <3>1, LosesLines
  <2>4. CASE StopBridge
    <3>1. batch' = {} /\ excused' = excused \cup batch
      BY <2>4 DEF StopBridge, B!Stop
    <3> QED
      BY <1>2, <2>1, <2>2, <3>1, LosesLines
  <2> QED
    BY <1>7, <2>3, <2>4
<1>8. CASE End
  BY <1>8, EndImplements
<1>9. CASE Restart
  BY <1>9, RestartImplements
<1> QED
  BY <1>3, <1>4, <1>5, <1>6, <1>7, <1>8, <1>9 DEF Next

\* The application keeps the promise of the pipeline: an event that publish() has
\* accepted reaches the disk, in the order of the log, unless the process ends
\* before; whatever flush fails, and however the stages of stop() are interleaved
\* with the watcher and the consumer.
THEOREM ImplementsPipeline == Spec => PathSpec
BY StartsPipeline, StepImplements, IInvHolds, PTL DEF Spec, PathSpec, Path!Spec
================================================================================
