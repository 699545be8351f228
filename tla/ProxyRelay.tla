----------------------------- MODULE ProxyRelay -----------------------------
(***************************************************************************)
(* proxy_to() of gateway/server.py: one client's connection is relayed to  *)
(* an external honeypot.  A relay for each direction reads from one side   *)
(* and writes to the other; whichever way it ends, it closes the side that *)
(* it wrote to.  gather() waits for both, or for the first that raises.    *)
(*                                                                         *)
(* A relay bears the name of the side it reads from.  Data is counted in   *)
(* chunks, in the order they were sent: sent[s] by side s, arrived[s] in   *)
(* its StreamReader, read[s] by the relay and written to the other side's  *)
(* transport, delivered[s] at the other side.  Streams and transports are  *)
(* external, as in Python 3.11.  The end of the process, which takes all   *)
(* sockets with it, is left to Gateway.                                    *)
(***************************************************************************)
EXTENDS Integers

CONSTANTS MaxChunks,  \* bound on the chunks a side sends
          HighWater,  \* a transport with more than this buffered pauses drain()
          LowWater    \* drain() goes on at this

ASSUME RelayAssumption ==
    /\ MaxChunks \in Nat \ {0}
    /\ HighWater \in Nat \ {0}  \* the first read, of 4096 bytes, is not above it
    /\ LowWater \in 0..HighWater

VARIABLES stage,      \* how far proxy_to() and its caller have come
          registered, \* is the session in _active_sessions
          relay,      \* what each relay is doing
          conn,       \* state of each side's transport
          fault,      \* the error with which a connection was lost
          eof,        \* has a side ended its stream
          frozen,     \* has a side stopped to take data for good
          sent, arrived, read, delivered

peerVars == <<conn, fault, eof, frozen>>
dataVars == <<sent, arrived, read, delivered>>
vars == <<stage, registered, relay, peerVars, dataVars>>

Sides == {"client", "honeypot"}
Other(s) == IF s = "client" THEN "honeypot" ELSE "client"

\* closing: waiting for its destination to close, failing: the same, with an
\* exception to be raised afterwards.
RelayStates == {"off", "reading", "draining", "closing", "failing", "ended", "raised"}
Stages == {"connecting", "connected", "relaying", "leaving", "left"}

TypeOK == /\ stage \in Stages
          /\ registered \in BOOLEAN
          /\ relay \in [Sides -> RelayStates]
          /\ conn \in [Sides -> {"none", "open", "closing", "lost"}]
          /\ fault \in [Sides -> {"none", "reset", "other"}]
          /\ eof \in [Sides -> BOOLEAN]
          /\ frozen \in [Sides -> BOOLEAN]
          /\ \A s \in Sides : /\ sent[s] \in 0..MaxChunks
                              /\ arrived[s] \in 0..sent[s]
                              /\ read[s] \in 0..arrived[s]
                              /\ delivered[s] \in 0..read[s]

Zero == [s \in Sides |-> 0]
No == [s \in Sides |-> FALSE]

\* The first read of the gateway has returned some data or the client's end.
Init == /\ stage = "connecting"
        /\ registered = TRUE
        /\ relay = [s \in Sides |-> "off"]
        /\ conn = [client |-> "open", honeypot |-> "none"]
        /\ fault = [s \in Sides |-> "none"]
        /\ \E data \in BOOLEAN :
              /\ eof = [No EXCEPT !["client"] = ~data]
              /\ sent = [Zero EXCEPT !["client"] = IF data THEN 1 ELSE 0]
        /\ frozen = No
        /\ arrived = sent
        /\ read = Zero
        /\ delivered = Zero

\* Written to the transport of side t and not yet taken.
Buffered(t) == read[Other(t)] - delivered[Other(t)]

Connected(s) == conn[s] \in {"open", "closing"}

(***************************************************************************)
(* The two sides and their transports                                      *)
(***************************************************************************)
\* What is sent to a transport that is closing is lost.
Send(s) == /\ Connected(s) /\ ~eof[s]
           /\ sent[s] < MaxChunks
           /\ sent' = [sent EXCEPT ![s] = @ + 1]
           /\ arrived' = IF conn[s] = "open" THEN [arrived EXCEPT ![s] = @ + 1] ELSE arrived
           /\ UNCHANGED <<stage, registered, relay, peerVars, read, delivered>>

\* The side shuts its sending half down, or closes: the transport stays open.
Shut(s) == /\ conn[s] = "open" /\ ~eof[s]
           /\ eof' = [eof EXCEPT ![s] = TRUE]
           /\ UNCHANGED <<stage, registered, relay, conn, fault, frozen, dataVars>>

\* The connection is reset, or lost with an error that relay() does not catch,
\* a timeout of TCP or a host that has become unreachable.
Fault(s) == /\ Connected(s)
            /\ conn' = [conn EXCEPT ![s] = "lost"]
            /\ \E f \in {"reset", "other"} : fault' = [fault EXCEPT ![s] = f]
            /\ UNCHANGED <<stage, registered, relay, eof, frozen, dataVars>>

Take(s) == /\ Connected(s) /\ ~frozen[s]
           /\ Buffered(s) > 0
           /\ delivered' = [delivered EXCEPT ![Other(s)] = @ + 1]
           /\ UNCHANGED <<stage, registered, relay, peerVars, sent, arrived, read>>

Freeze(s) == /\ Connected(s) /\ ~frozen[s]
             /\ frozen' = [frozen EXCEPT ![s] = TRUE]
             /\ UNCHANGED <<stage, registered, relay, conn, fault, eof, dataVars>>

\* A closed transport goes when its buffer is empty; its reader is at the end.
Gone(s) == /\ conn[s] = "closing"
           /\ Buffered(s) = 0
           /\ conn' = [conn EXCEPT ![s] = "lost"]
           /\ UNCHANGED <<stage, registered, relay, fault, eof, frozen, dataVars>>

(***************************************************************************)
(* relay()                                                                 *)
(***************************************************************************)
\* Mutant: the transport is aborted.
Aborted(t) == [conn EXCEPT ![t] = "lost"]

\* writer.close(): no more is read, what is buffered will be sent.
Closed(t) == [conn EXCEPT ![t] = IF @ = "open" THEN "closing" ELSE @]

\* The finally clause of relay(s), up to the wait for its destination.
Finally(s, error) ==
    /\ relay' = [relay EXCEPT ![s] = IF error = "other" THEN "failing" ELSE "closing"]
    /\ conn' = Closed(Other(s))

ReadRaises(s) == /\ relay[s] = "reading"
                 /\ fault[s] # "none"
                 /\ Finally(s, fault[s])
                 /\ UNCHANGED <<stage, registered, fault, eof, frozen, dataVars>>

\* Mutant: the end of the stream leaves the destination open.
ReadEndKeepsOpen(s) == /\ relay[s] = "reading"
                       /\ fault[s] = "none" /\ arrived[s] = read[s]
                       /\ eof[s] \/ conn[s] = "lost"
                       /\ relay' = [relay EXCEPT ![s] = "closing"]
                       /\ UNCHANGED <<stage, registered, peerVars, dataVars>>

ReadEnd(s) == /\ relay[s] = "reading"
              /\ fault[s] = "none" /\ arrived[s] = read[s]
              /\ eof[s] \/ conn[s] = "lost"
              /\ Finally(s, "none")
              /\ UNCHANGED <<stage, registered, fault, eof, frozen, dataVars>>

\* Mutant: the relay does not wait for its destination.
WrittenUndrained(s) == "reading"

\* After a write the relay goes on, or drain() suspends it.
Written(s) == IF Buffered(Other(s)) + 1 > HighWater THEN "draining" ELSE "reading"

ReadData(s) ==
    /\ relay[s] = "reading"
    /\ fault[s] = "none" /\ arrived[s] > read[s]
    /\ read' = [read EXCEPT ![s] = @ + 1]
    /\ IF conn[Other(s)] = "lost"
       THEN Finally(s, fault[Other(s)])
       ELSE relay' = [relay EXCEPT ![s] = Written(s)] /\ UNCHANGED conn
    /\ UNCHANGED <<stage, registered, fault, eof, frozen, sent, arrived, delivered>>

\* drain() returns; it raises only if the connection was lost with an error.
Drained(s) == /\ relay[s] = "draining"
              /\ LET t == Other(s)
                 IN  \/ /\ fault[t] = "none"
                        /\ conn[t] = "lost" \/ Buffered(t) <= LowWater
                        /\ relay' = [relay EXCEPT ![s] = "reading"]
                        /\ UNCHANGED conn
                     \/ fault[t] # "none" /\ Finally(s, fault[t])
              /\ UNCHANGED <<stage, registered, fault, eof, frozen, dataVars>>

EndRelay(s) == /\ relay[s] \in {"closing", "failing"}
               /\ conn[Other(s)] = "lost"
               /\ relay' = [relay EXCEPT ![s] = IF @ = "closing" THEN "ended" ELSE "raised"]
               /\ UNCHANGED <<stage, registered, peerVars, dataVars>>

RelayStep(s) == ReadRaises(s) \/ ReadEnd(s) \/ ReadData(s) \/ Drained(s) \/ EndRelay(s)

(***************************************************************************)
(* proxy_to() and its caller                                               *)
(***************************************************************************)
Connect == /\ stage = "connecting"
           /\ stage' = "connected"
           /\ conn' = [conn EXCEPT !["honeypot"] = "open"]
           /\ UNCHANGED <<registered, relay, fault, eof, frozen, dataVars>>

\* The handler is left: the gateway takes the session out of its table and
\* closes the client's writer.
Leave == /\ stage' = "leaving"
         /\ registered' = FALSE
         /\ conn' = Closed("client")

ConnectFails == /\ stage = "connecting"
                /\ Leave
                /\ UNCHANGED <<relay, fault, eof, frozen, dataVars>>

\* Mutant: the first bytes are written a second time.
StartTwice == /\ stage = "connected"
              /\ conn["honeypot"] # "lost"
              /\ read' = [read EXCEPT !["client"] = 2]
              /\ relay' = [s \in Sides |-> "reading"]
              /\ stage' = "relaying"
              /\ UNCHANGED <<registered, peerVars, sent, arrived, delivered>>

\* The client's first bytes are sent, if it had any, and the relays start.
Start == /\ stage = "connected"
         /\ LET first == IF eof["client"] /\ sent["client"] = 0 THEN 0 ELSE 1
            IN  /\ conn["honeypot"] # "lost" \/ first = 0
                /\ read' = [read EXCEPT !["client"] = first]
         /\ relay' = [s \in Sides |-> "reading"]
         /\ stage' = "relaying"
         /\ UNCHANGED <<registered, peerVars, sent, arrived, delivered>>

\* The honeypot's connection is lost before that: drain() raises.
StartFails == /\ stage = "connected"
              /\ conn["honeypot"] = "lost" /\ sent["client"] > 0
              /\ Leave
              /\ UNCHANGED <<relay, fault, eof, frozen, dataVars>>

\* Mutant: gather() gives way to a wait for the first relay that ends.
GatherFirst == /\ stage = "relaying"
               /\ \E s \in Sides : relay[s] = "ended"
               /\ Leave
               /\ UNCHANGED <<relay, fault, eof, frozen, dataVars>>

\* Both relays have ended; the honeypot's transport is closed by then.
GatherReturns == /\ stage = "relaying"
                 /\ \A s \in Sides : relay[s] = "ended"
                 /\ Leave
                 /\ UNCHANGED <<relay, fault, eof, frozen, dataVars>>

\* A relay has raised; the other one is not waited for.
GatherRaises == /\ stage = "relaying"
                /\ \E s \in Sides : relay[s] = "raised"
                /\ Leave
                /\ UNCHANGED <<relay, fault, eof, frozen, dataVars>>

Left == /\ stage = "leaving"
        /\ conn["client"] = "lost"
        /\ stage' = "left"
        /\ UNCHANGED <<registered, relay, peerVars, dataVars>>

ProxyStep == \/ Connect \/ ConnectFails \/ Start \/ StartFails
             \/ GatherReturns \/ GatherRaises \/ Left

Next == \/ ProxyStep
        \/ \E s \in Sides : \/ Send(s) \/ Shut(s) \/ Fault(s) \/ Take(s)
                            \/ Freeze(s) \/ Gone(s) \/ RelayStep(s)

Spec == Init /\ [][Next]_vars

\* The event loop runs the tasks that can go on, a connection attempt ends, and
\* a side that is not frozen takes what is sent to it.
FairSpec == /\ Spec
            /\ WF_vars(ProxyStep)
            /\ \A s \in Sides : WF_vars(Take(s)) /\ WF_vars(Gone(s)) /\ WF_vars(RelayStep(s))

(***************************************************************************)
(* Properties                                                              *)
(***************************************************************************)
Running(s) == relay[s] \in {"reading", "draining", "closing", "failing"}

\* A relay runs for a session that is no longer registered only if the other
\* relay has raised: gather() then leaves it behind.
NoneOutlives == ~registered => \A s \in Sides : Running(s) => relay[Other(s)] = "raised"

\* When both connections are over without an error, the stream that ended first
\* has been passed on whole: the relay flushes before it closes.  Nothing more
\* is promised: a client that shuts its sending half down ends the honeypot's
\* stream, too, and loses the rest of the answer.
WholeStream ==
    (\A s \in Sides : conn[s] = "lost" /\ fault[s] = "none") =>
        /\ \E s \in Sides : eof[s] /\ delivered[s] = sent[s]
        /\ \A s \in Sides : eof[s] /\ ~eof[Other(s)] => delivered[s] = sent[s]

\* drain() holds a fast sender back: never more than one chunk beyond the high
\* water mark is kept for a side.
Backpressure == \A s \in Sides : Buffered(s) <= HighWater + 1

\* When one side is done, by the end of its stream or by an error, both
\* connections, both relays and the session end, also the relay that gather()
\* left behind, unless a side no longer takes what is sent to it: no timeout
\* ends that wait.
BothEnd ==
    stage = "relaying" /\ (\E s \in Sides : eof[s] \/ fault[s] # "none") ~>
        \/ \E s \in Sides : frozen[s]
        \/ stage = "left" /\ \A s \in Sides : conn[s] = "lost" /\ ~Running(s)
=============================================================================
