--------------------------- MODULE ProxyRelayProofs ---------------------------
(***************************************************************************)
(* Theorems about ProxyRelay, for every number of chunks and every pair of *)
(* water marks: what is kept in memory for a side is bounded, and a relay  *)
(* outlives its session only behind one that has raised.                   *)
(*                                                                         *)
(* Back pressure is not inductive.  A relay that goes on after drain() must*)
(* find its destination's buffer low, also when drain() returned because   *)
(* the connection was gone: a transport that is lost without an error has  *)
(* sent all it had.                                                        *)
(***************************************************************************)
EXTENDS ProxyRelay, TLAPS

Counts == /\ sent \in [Sides -> Nat] /\ arrived \in [Sides -> Nat]
          /\ read \in [Sides -> Nat] /\ delivered \in [Sides -> Nat]

\* The session is in the table until the handler is left.
RegisteredUntilLeft == registered <=> stage \notin {"leaving", "left"}

\* Before the relays start nothing has been passed on, and the client's first
\* bytes are there unless it had none.
Unstarted ==
    /\ stage = "connecting" => conn["honeypot"] = "none"
    /\ stage \in {"connecting", "connected"} =>
          /\ \A s \in Sides : relay[s] = "off" /\ read[s] = 0
          /\ arrived["client"] > 0 \/ (eof["client"] /\ sent["client"] = 0)

FaultLoses == \A s \in Sides : fault[s] # "none" => conn[s] = "lost"

\* A relay that may write finds room, if only for one chunk.
Room == \A s \in Sides :
            /\ relay[s] \in {"off", "reading"} => read[s] - delivered[s] <= HighWater
            /\ read[s] - delivered[s] <= HighWater + 1

\* A side that is gone without an error has taken all there was for it.
GoneEmpty == \A s \in Sides :
                /\ conn[Other(s)] = "lost" /\ fault[Other(s)] = "none"
                /\ relay[s] \in {"off", "reading", "draining"}
                => read[s] = delivered[s]

IInv == /\ TypeOK /\ Counts /\ RegisteredUntilLeft /\ Unstarted
        /\ FaultLoses /\ Room /\ GoneEmpty /\ NoneOutlives

(***************************************************************************)
(* The invariant is inductive                                              *)
(***************************************************************************)
LEMMA Opposite ==
    /\ Sides = {"client", "honeypot"}
    /\ Other("client") = "honeypot" /\ Other("honeypot") = "client"
BY DEF Sides, Other

LEMMA InitIInv == Init => IInv
<1> SUFFICES ASSUME Init PROVE IInv
  OBVIOUS
<1> USE Opposite, RelayAssumption DEF Init, Zero, No
<1>1. PICK data \in BOOLEAN :
         /\ eof = [No EXCEPT !["client"] = ~data]
         /\ sent = [Zero EXCEPT !["client"] = IF data THEN 1 ELSE 0]
  OBVIOUS
<1>2. /\ eof = [s \in Sides |-> IF s = "client" THEN ~data ELSE FALSE]
      /\ sent = [s \in Sides |-> IF s = "client" /\ data THEN 1 ELSE 0]
  BY <1>1
<1>3. Counts
  BY <1>2 DEF Counts
<1>4. TypeOK
  <2>1. eof \in [Sides -> BOOLEAN]
    BY <1>2, Zenon
  <2>2. \A s \in Sides : /\ sent[s] \in 0..MaxChunks
                         /\ arrived[s] \in 0..sent[s]
                         /\ read[s] \in 0..arrived[s]
                         /\ delivered[s] \in 0..read[s]
    BY <1>2
  <2> QED BY <2>1, <2>2 DEF TypeOK, Stages, RelayStates
<1>5. Unstarted
  <2>1. CASE data
    BY <1>2, <2>1 DEF Unstarted
  <2>2. CASE ~data
    BY <1>2, <2>2 DEF Unstarted
  <2> QED
    BY <2>1, <2>2
<1>6. RegisteredUntilLeft /\ FaultLoses /\ Room /\ GoneEmpty /\ NoneOutlives
  BY DEF RegisteredUntilLeft, FaultLoses, Room, GoneEmpty, NoneOutlives, Running
<1> QED
  BY <1>3, <1>4, <1>5, <1>6 DEF IInv

\* What the sides and their transports do keeps the invariant.
LEMMA SidesKeepIInv ==
    ASSUME IInv, NEW s \in Sides,
           Send(s) \/ Shut(s) \/ Fault(s) \/ Take(s) \/ Freeze(s) \/ Gone(s)
    PROVE  IInv'
<1> USE Opposite, RelayAssumption
    DEF IInv, TypeOK, Counts, RegisteredUntilLeft, Unstarted, FaultLoses,
        Room, GoneEmpty, NoneOutlives, Running, RelayStates, Stages, peerVars, dataVars
<1>1. CASE Send(s)
  BY <1>1 DEF Send, Connected
<1>2. CASE Shut(s)
  BY <1>2 DEF Shut
<1>3. CASE Fault(s)
  <2>1. PICK f \in {"reset", "other"} : fault' = [fault EXCEPT ![s] = f]
    BY <1>3 DEF Fault
  <2>2. TypeOK' /\ Counts'
    BY <1>3, <2>1 DEF Fault
  <2>3. RegisteredUntilLeft' /\ Unstarted' /\ NoneOutlives'
    BY <1>3 DEF Fault, Connected
  <2>4. FaultLoses' /\ Room' /\ GoneEmpty'
    BY <1>3, <2>1 DEF Fault
  <2> QED
    BY <2>2, <2>3, <2>4
<1>4. CASE Take(s)
  BY <1>4 DEF Take, Connected, Buffered
<1>5. CASE Freeze(s)
  BY <1>5 DEF Freeze, Connected
<1>6. CASE Gone(s)
  BY <1>6 DEF Gone, Buffered
<1> QED
  BY <1>1, <1>2, <1>3, <1>4, <1>5, <1>6

\* A relay keeps the invariant: it reads on only if its destination has room.
LEMMA RelaysKeepIInv ==
    ASSUME IInv, NEW s \in Sides, RelayStep(s)
    PROVE  IInv'
<1> USE Opposite, RelayAssumption
    DEF IInv, TypeOK, Counts, RegisteredUntilLeft, Unstarted, FaultLoses,
        Room, GoneEmpty, NoneOutlives, Running, RelayStates, Stages, peerVars, dataVars
<1>1. CASE ReadRaises(s)
  BY <1>1 DEF ReadRaises, Finally, Closed
<1>2. CASE ReadEnd(s)
  BY <1>2 DEF ReadEnd, Finally, Closed
<1>3. CASE ReadData(s)
  BY <1>3 DEF ReadData, Finally, Closed, Written, Buffered
<1>4. CASE Drained(s)
  BY <1>4 DEF Drained, Finally, Closed, Buffered
<1>5. CASE EndRelay(s)
  BY <1>5 DEF EndRelay
<1> QED
  BY <1>1, <1>2, <1>3, <1>4, <1>5 DEF RelayStep

\* Leaving the handler keeps the invariant if no relay is left running but
\* behind one that has raised.
LEMMA LeaveKeepsIInv ==
    ASSUME IInv, Leave, UNCHANGED <<relay, fault, eof, frozen, dataVars>>,
           \A s \in Sides : Running(s) => relay[Other(s)] = "raised"
    PROVE  IInv'
<1> USE Opposite DEF IInv, Leave, Closed, dataVars
<1>1. TypeOK' /\ Counts'
  BY DEF TypeOK, Counts, Stages
<1>2. RegisteredUntilLeft' /\ Unstarted' /\ NoneOutlives'
  BY DEF RegisteredUntilLeft, Unstarted, NoneOutlives, Running
<1>3. FaultLoses' /\ Room' /\ GoneEmpty'
  BY DEF TypeOK, FaultLoses, Room, GoneEmpty
<1> QED
  BY <1>1, <1>2, <1>3

\* proxy_to() and its caller keep the invariant.
LEMMA ProxyKeepsIInv ==
    ASSUME IInv, ProxyStep
    PROVE  IInv'
<1> USE Opposite DEF IInv
<1>1. CASE Connect
  <2> USE <1>1 DEF Connect, dataVars
  <2>1. TypeOK' /\ Counts'
    BY DEF TypeOK, Counts, Stages
  <2>2. RegisteredUntilLeft' /\ Unstarted' /\ NoneOutlives'
    BY DEF RegisteredUntilLeft, Unstarted, NoneOutlives, Running
  <2>3. FaultLoses' /\ Room' /\ GoneEmpty'
    BY DEF TypeOK, Counts, Unstarted, FaultLoses, Room, GoneEmpty
  <2> QED
    BY <2>1, <2>2, <2>3
<1>2. CASE Start
  BY <1>2, RelayAssumption
  DEF Start, TypeOK, Counts, RegisteredUntilLeft, Unstarted, FaultLoses, Room,
      GoneEmpty, NoneOutlives, Running, RelayStates, Stages, peerVars
<1>3. CASE ConnectFails
  BY <1>3, LeaveKeepsIInv DEF ConnectFails, Unstarted, Running
<1>4. CASE StartFails
  BY <1>4, LeaveKeepsIInv DEF StartFails, Unstarted, Running
<1>5. CASE GatherReturns
  BY <1>5, LeaveKeepsIInv DEF GatherReturns, Running
<1>6. CASE GatherRaises
  <2>1. \A s \in Sides : Running(s) => relay[Other(s)] = "raised"
    BY <1>6 DEF GatherRaises, Running
  <2> QED
    BY <1>6, <2>1, LeaveKeepsIInv DEF GatherRaises
<1>7. CASE Left
  BY <1>7 DEF Left, TypeOK, Counts, RegisteredUntilLeft, Unstarted, FaultLoses, Room,
      GoneEmpty, NoneOutlives, Running, RelayStates, Stages, peerVars, dataVars
<1> QED
  BY <1>1, <1>2, <1>3, <1>4, <1>5, <1>6, <1>7 DEF ProxyStep

LEMMA NextIInv == IInv /\ [Next]_vars => IInv'
<1> SUFFICES ASSUME IInv, [Next]_vars PROVE IInv'
  OBVIOUS
<1>1. CASE Next
  BY <1>1, SidesKeepIInv, RelaysKeepIInv, ProxyKeepsIInv DEF Next
<1>2. CASE UNCHANGED vars
  BY <1>2 DEF vars, peerVars, dataVars, IInv, TypeOK, Counts, RegisteredUntilLeft,
      Unstarted, FaultLoses, Room, GoneEmpty, NoneOutlives, Running
<1> QED
  BY <1>1, <1>2

(***************************************************************************)
(* The theorems                                                            *)
(***************************************************************************)
\* The invariant holds of proxy_to() and its relays in every state.
THEOREM IInvHolds == Spec => []IInv
BY InitIInv, NextIInv, PTL DEF Spec

\* Every variable of the session keeps its type: no chunk is read that has not
\* arrived, none delivered that was not read.
THEOREM TypeCorrect == Spec => []TypeOK
<1>1. IInv => TypeOK
  BY DEF IInv
<1> QED
  BY <1>1, IInvHolds, PTL

\* drain() bounds what is kept in memory for a side by one chunk beyond the high
\* water mark, however fast the other side sends.
THEOREM BackpressureHolds == Spec => []Backpressure
<1>1. IInv => Backpressure
  BY Opposite DEF IInv, Room, Backpressure, Buffered
<1> QED
  BY <1>1, IInvHolds, PTL

\* gather() leaves a relay running for a session that is no longer registered
\* only when the other relay has raised.
THEOREM NoneOutlivesHolds == Spec => []NoneOutlives
<1>1. IInv => NoneOutlives
  BY DEF IInv
<1> QED
  BY <1>1, IInvHolds, PTL

(***************************************************************************)
(* The stream that ends first is passed on whole                           *)
(***************************************************************************)
FaultFree == \A s \in Sides : fault[s] = "none"

\* The stream of s has ended, and its relay has passed all of it on before it
\* closed the other side, which is not gone before it has taken it.
Whole(s) == /\ eof[s] /\ read[s] = sent[s]
            /\ conn[Other(s)] \in {"closing", "lost"}
            /\ conn[Other(s)] = "lost" => delivered[s] = read[s]

\* Chunks are lost on the way in only when their transport is closing.
ArrivesWhileOpen == \A s \in Sides : conn[s] \in {"none", "open"} => arrived[s] = sent[s]

\* Without a fault no transport closes before the relays run; the client's is there
\* from the beginning.
OpenUntilRelayed ==
    /\ conn["client"] # "none"
    /\ FaultFree /\ stage \in {"connecting", "connected"} =>
          \A s \in Sides : conn[s] \in {"none", "open"}
    /\ stage = "connected" => conn["honeypot"] # "none"

\* A relay that has ended has closed its destination.
EndsClosed ==
    \A s \in Sides :
        /\ relay[s] # "off" => conn["honeypot"] # "none"
        /\ relay[s] \in {"closing", "failing", "ended", "raised"} =>
              conn[Other(s)] \in {"closing", "lost"}

\* Without a fault the first transport that closes is closed behind a whole stream.
FirstIsWhole ==
    /\ FaultFree /\ conn["honeypot"] # "none"
    /\ \E s \in Sides : conn[s] \in {"closing", "lost"}
    => \E s \in Sides : Whole(s)

WInv == ArrivesWhileOpen /\ OpenUntilRelayed /\ EndsClosed /\ FirstIsWhole

\* Nothing takes away from a stream that is whole.
LEMMA WholeStays ==
    ASSUME IInv, [Next]_vars, FaultFree', NEW u \in Sides, Whole(u)
    PROVE  Whole(u)'
<1> USE Opposite DEF IInv, TypeOK, Whole
<1>1. /\ eof[u] /\ read[u] = sent[u] /\ arrived[u] = sent[u]
      /\ read \in [Sides -> Nat] /\ delivered[u] \in Nat
  BY DEF Counts
<1>2. CASE \E s \in Sides : Send(s)
  BY <1>1, <1>2 DEF Send, peerVars
<1>3. CASE \E s \in Sides : Shut(s)
  BY <1>1, <1>3 DEF Shut, dataVars
<1>4. CASE \E s \in Sides : Fault(s)
  BY <1>4 DEF Fault, FaultFree
<1>5. CASE \E s \in Sides : Take(s)
  BY <1>1, <1>5 DEF Take, Connected, peerVars, Buffered, Counts
<1>6. CASE \E s \in Sides : Freeze(s)
  BY <1>1, <1>6 DEF Freeze, dataVars
<1>7. CASE \E s \in Sides : Gone(s)
  BY <1>1, <1>7 DEF Gone, Buffered, dataVars, Counts
<1>8. CASE \E s \in Sides : RelayStep(s)
  BY <1>1, <1>8 DEF RelayStep, ReadRaises, ReadEnd, ReadData, Drained, EndRelay, Finally,
                    Closed, peerVars, dataVars
<1>9. CASE ProxyStep
  <2>1. CASE Start
    BY <1>1, <2>1 DEF Start, peerVars, dataVars, Unstarted
  <2>2. CASE Connect \/ Left
    BY <1>1, <2>2 DEF Connect, Left, Unstarted, peerVars, dataVars
  <2>3. CASE ConnectFails \/ StartFails \/ GatherReturns \/ GatherRaises
    BY <1>1, <2>3 DEF ConnectFails, StartFails, GatherReturns, GatherRaises, Leave, Closed,
                      dataVars
  <2> QED
    BY <1>9, <2>1, <2>2, <2>3 DEF ProxyStep
<1>10. CASE UNCHANGED vars
  BY <1>1, <1>10 DEF vars, peerVars, dataVars
<1> QED
  BY <1>2, <1>3, <1>4, <1>5, <1>6, <1>7, <1>8, <1>9, <1>10, Zenon DEF Next

LEMMA InitWInv == Init => WInv
<1> SUFFICES ASSUME Init PROVE WInv
  OBVIOUS
<1> USE Opposite DEF Init
<1>1. ArrivesWhileOpen /\ OpenUntilRelayed /\ EndsClosed
  BY DEF ArrivesWhileOpen, OpenUntilRelayed, EndsClosed
<1>2. FirstIsWhole
  BY DEF FirstIsWhole
<1> QED
  BY <1>1, <1>2 DEF WInv

\* If a transport was closed before, the stream behind it is still whole.
LEMMA FirstStaysWhole ==
    ASSUME IInv, FirstIsWhole, [Next]_vars, FaultFree, FaultFree',
           conn["honeypot"] # "none", \E s \in Sides : conn[s] \in {"closing", "lost"}
    PROVE  FirstIsWhole'
BY WholeStays DEF FirstIsWhole

\* Faults are never taken back.
LEMMA FaultsStay == IInv /\ [Next]_vars /\ FaultFree' => FaultFree
<1> SUFFICES ASSUME IInv, [Next]_vars, FaultFree' PROVE FaultFree
  OBVIOUS
<1>1. CASE \E s \in Sides : Fault(s)
  BY <1>1, Opposite DEF Fault, FaultFree, IInv, TypeOK
<1>2. CASE ~ \E s \in Sides : Fault(s)
  <2>1. fault' = fault
    BY <1>2 DEF Next, ProxyStep, RelayStep, Connect, ConnectFails, Start, StartFails,
        GatherReturns, GatherRaises, Left, Send, Shut, Take, Freeze, Gone, ReadRaises, ReadEnd,
        ReadData, Drained, EndRelay, vars, peerVars
  <2> QED
    BY <2>1 DEF FaultFree
<1> QED
  BY <1>1, <1>2

\* A transport that closes is the first only at the end of the stream behind it.
LEMMA RelaysKeepWInv ==
    ASSUME IInv, WInv, NEW s \in Sides, RelayStep(s)
    PROVE  WInv'
<1> USE Opposite DEF IInv, TypeOK, Counts
<1>1. ASSUME NEW error, Finally(s, error), UNCHANGED <<stage, registered, fault, eof, frozen,
                                                      sent, arrived, delivered>>,
             relay[s] # "off"
      PROVE  ArrivesWhileOpen' /\ OpenUntilRelayed' /\ EndsClosed'
  <2> USE <1>1 DEF Finally, Closed, WInv
  <2>1. ArrivesWhileOpen'
    BY DEF ArrivesWhileOpen
  <2>2. OpenUntilRelayed'
    BY DEF OpenUntilRelayed, Unstarted, FaultFree
  <2>3. EndsClosed'
    BY DEF EndsClosed, OpenUntilRelayed
  <2> QED
    BY <2>1, <2>2, <2>3
<1>2. CASE ReadRaises(s)
  <2>1. ArrivesWhileOpen' /\ OpenUntilRelayed' /\ EndsClosed'
    BY <1>1, <1>2 DEF ReadRaises, dataVars
  <2>2. FirstIsWhole'
    BY <1>2 DEF ReadRaises, FirstIsWhole, FaultFree
  <2> QED
    BY <2>1, <2>2 DEF WInv
<1>3. CASE ReadEnd(s)
  <2>1. ArrivesWhileOpen' /\ OpenUntilRelayed' /\ EndsClosed'
    BY <1>1, <1>3 DEF ReadEnd, dataVars
  <2>2. FirstIsWhole'
    <3> SUFFICES ASSUME FaultFree' PROVE FirstIsWhole'
      BY DEF FirstIsWhole
    <3>1. FaultFree /\ [Next]_vars /\ conn["honeypot"] # "none"
      BY <1>3 DEF ReadEnd, FaultFree, RelayStep, Next, WInv, EndsClosed
    <3>2. CASE \E t \in Sides : conn[t] \in {"closing", "lost"}
      BY <3>1, <3>2, FirstStaysWhole DEF WInv
    <3>3. CASE ~ \E t \in Sides : conn[t] \in {"closing", "lost"}
      <4>1. conn[s] = "open" /\ conn[Other(s)] = "open"
        BY <3>1, <3>3 DEF WInv, OpenUntilRelayed
      <4>2. Whole(s)'
        BY <1>3, <4>1 DEF ReadEnd, Finally, Closed, Whole, WInv, ArrivesWhileOpen, dataVars
      <4> QED
        BY <4>2 DEF FirstIsWhole
    <3> QED
      BY <3>2, <3>3
  <2> QED
    BY <2>1, <2>2 DEF WInv
<1>4. CASE ReadData(s)
  <2>1. CASE conn[Other(s)] = "lost"
    <3>1. ArrivesWhileOpen' /\ OpenUntilRelayed' /\ EndsClosed'
      BY <1>1, <1>4, <2>1 DEF ReadData
    <3>2. FirstIsWhole'
      <4> SUFFICES ASSUME FaultFree' PROVE FirstIsWhole'
        BY DEF FirstIsWhole
      <4>1. FaultFree /\ [Next]_vars /\ conn["honeypot"] # "none"
        BY <1>4 DEF ReadData, FaultFree, RelayStep, Next, WInv, EndsClosed
      <4> QED
        BY <2>1, <4>1, FirstStaysWhole DEF WInv
    <3> QED
      BY <3>1, <3>2 DEF WInv
  <2>2. CASE conn[Other(s)] # "lost"
    <3>1. /\ relay' = [relay EXCEPT ![s] = Written(s)] /\ Written(s) \in {"reading", "draining"}
          /\ UNCHANGED <<stage, conn, fault, eof, sent, arrived>>
          /\ relay[s] = "reading"
      BY <1>4, <2>2 DEF ReadData, Written
    <3>2. ArrivesWhileOpen' /\ OpenUntilRelayed' /\ EndsClosed'
      BY <3>1 DEF WInv, ArrivesWhileOpen, OpenUntilRelayed, EndsClosed, FaultFree
    <3>3. FirstIsWhole'
      <4>1. [Next]_vars
        BY DEF Next
      <4> QED
        BY <3>1, <4>1, WholeStays DEF WInv, FirstIsWhole, FaultFree
    <3> QED
      BY <3>2, <3>3 DEF WInv
  <2> QED
    BY <2>1, <2>2
<1>5. CASE Drained(s)
  <2>1. CASE fault[Other(s)] # "none"
    <3>1. ArrivesWhileOpen' /\ OpenUntilRelayed' /\ EndsClosed'
      BY <1>1, <1>5, <2>1 DEF Drained, dataVars
    <3>2. FirstIsWhole'
      BY <1>5, <2>1 DEF Drained, FirstIsWhole, FaultFree
    <3> QED
      BY <3>1, <3>2 DEF WInv
  <2>2. CASE fault[Other(s)] = "none"
    BY <1>5, <2>2 DEF Drained, dataVars, WInv, ArrivesWhileOpen, OpenUntilRelayed, EndsClosed,
                      FirstIsWhole, FaultFree, Whole
  <2> QED
    BY <2>1, <2>2
<1>6. CASE EndRelay(s)
  BY <1>6 DEF EndRelay, peerVars, dataVars, WInv, ArrivesWhileOpen, OpenUntilRelayed,
              EndsClosed, FirstIsWhole, FaultFree, Whole
<1> QED
  BY <1>2, <1>3, <1>4, <1>5, <1>6 DEF RelayStep

LEMMA SidesKeepWInv ==
    ASSUME IInv, WInv, NEW s \in Sides,
           Send(s) \/ Shut(s) \/ Fault(s) \/ Take(s) \/ Freeze(s) \/ Gone(s)
    PROVE  WInv'
<1> USE Opposite DEF IInv, TypeOK, Counts
<1>1. [Next]_vars
  BY DEF Next
<1>2. ArrivesWhileOpen'
  BY DEF WInv, ArrivesWhileOpen, Send, Shut, Fault, Take, Freeze, Gone, Connected, dataVars,
         peerVars
<1>3. OpenUntilRelayed'
  <2>1. CASE Fault(s)
    <3>1. ~FaultFree'
      BY <2>1 DEF Fault, FaultFree
    <3> QED
      BY <2>1, <3>1 DEF Fault, WInv, OpenUntilRelayed
  <2>2. CASE ~Fault(s)
    BY <2>2 DEF WInv, OpenUntilRelayed, FaultFree, Send, Shut, Take, Freeze, Gone, Connected,
                peerVars
  <2> QED
    BY <2>1, <2>2
<1>4. EndsClosed'
  BY DEF WInv, EndsClosed, Send, Shut, Fault, Take, Freeze, Gone, peerVars, Connected
<1>5. FirstIsWhole'
  <2> SUFFICES ASSUME FaultFree' PROVE FirstIsWhole'
    BY DEF FirstIsWhole
  <2>1. FaultFree
    BY <1>1, FaultsStay
  <2>2. /\ conn'["honeypot"] # "none" => conn["honeypot"] # "none"
        /\ (\E t \in Sides : conn'[t] \in {"closing", "lost"}) =>
              \E t \in Sides : conn[t] \in {"closing", "lost"}
    <3>1. ~Fault(s)
      BY DEF Fault, FaultFree
    <3> QED
      BY <3>1 DEF Send, Shut, Take, Freeze, Gone, peerVars
  <2> QED
    BY <1>1, <2>1, <2>2, FirstStaysWhole DEF WInv, FirstIsWhole
<1> QED
  BY <1>2, <1>3, <1>4, <1>5 DEF WInv

LEMMA ProxyKeepsWInv ==
    ASSUME IInv, WInv, ProxyStep
    PROVE  WInv'
<1> USE Opposite DEF IInv, TypeOK, Counts
<1>1. [Next]_vars
  BY DEF Next
<1>2. CASE Connect
  BY <1>2 DEF Connect, dataVars, WInv, ArrivesWhileOpen, OpenUntilRelayed, EndsClosed,
              FirstIsWhole, FaultFree, Unstarted
<1>3. CASE Start
  BY <1>3 DEF Start, peerVars, WInv, ArrivesWhileOpen, OpenUntilRelayed, EndsClosed,
              FirstIsWhole, FaultFree
<1>4. CASE Left
  BY <1>4 DEF Left, peerVars, dataVars, WInv, ArrivesWhileOpen, OpenUntilRelayed, EndsClosed,
              FirstIsWhole, FaultFree, Whole
<1>5. CASE ConnectFails \/ StartFails \/ GatherReturns \/ GatherRaises
  <2>1. Leave /\ UNCHANGED <<relay, fault, eof, frozen, dataVars>>
    BY <1>5 DEF ConnectFails, StartFails, GatherReturns, GatherRaises
  <2>2. ArrivesWhileOpen' /\ OpenUntilRelayed' /\ EndsClosed'
    BY <2>1 DEF Leave, Closed, dataVars, WInv, ArrivesWhileOpen, OpenUntilRelayed, EndsClosed
  <2>3. FirstIsWhole'
    <3> SUFFICES ASSUME FaultFree', conn'["honeypot"] # "none" PROVE FirstIsWhole'
      BY DEF FirstIsWhole
    <3>1. FaultFree /\ conn["honeypot"] # "none"
      BY <2>1 DEF Leave, Closed, FaultFree
    <3>2. \E t \in Sides : conn[t] \in {"closing", "lost"}
      <4>1. CASE ConnectFails
        BY <3>1, <4>1 DEF ConnectFails, Unstarted
      <4>2. CASE StartFails
        BY <4>2 DEF StartFails
      <4>3. CASE GatherReturns \/ GatherRaises
        BY <4>3 DEF GatherReturns, GatherRaises, WInv, EndsClosed
      <4> QED
        BY <1>5, <4>1, <4>2, <4>3
    <3> QED
      BY <1>1, <3>1, <3>2, FirstStaysWhole DEF WInv
  <2> QED
    BY <2>2, <2>3 DEF WInv
<1> QED
  BY <1>2, <1>3, <1>4, <1>5 DEF ProxyStep

LEMMA NextWInv == IInv /\ WInv /\ [Next]_vars => WInv'
<1>1. ASSUME WInv, UNCHANGED vars PROVE WInv'
  BY <1>1 DEF vars, peerVars, dataVars, WInv, ArrivesWhileOpen, OpenUntilRelayed, EndsClosed,
              FirstIsWhole, FaultFree, Whole
<1> QED
  BY <1>1, RelaysKeepWInv, SidesKeepWInv, ProxyKeepsWInv DEF Next

\* When both connections are over without a fault, the stream that ended first has
\* been delivered whole, and it is the only one of which relay() promises that.
THEOREM WholeStreamHolds == Spec => []WholeStream
<1>1. Spec => []WInv
  BY InitWInv, NextWInv, IInvHolds, PTL DEF Spec
<1>2. IInv /\ WInv => WholeStream
  <2> SUFFICES ASSUME IInv, WInv, \A s \in Sides : conn[s] = "lost" /\ fault[s] = "none"
               PROVE  /\ \E s \in Sides : eof[s] /\ delivered[s] = sent[s]
                      /\ \A s \in Sides : eof[s] /\ ~eof[Other(s)] => delivered[s] = sent[s]
    BY DEF WholeStream
  <2>1. PICK u \in Sides : Whole(u)
    BY Opposite DEF WInv, FirstIsWhole, FaultFree
  <2>2. eof[u] /\ delivered[u] = sent[u]
    BY <2>1, Opposite DEF Whole
  <2> QED
    BY <2>2, Opposite
<1> QED
  BY <1>1, <1>2, IInvHolds, PTL
=============================================================================
