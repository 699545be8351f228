------------------------------- MODULE Gateway -------------------------------
(***************************************************************************)
(* The life of a connection: gateway/server.py accepts it, reads its first *)
(* bytes and hands it to SisyphusGate._handle_connection of app.py, which  *)
(* drops it, relays it to an external honeypot or gives it to the tarpit   *)
(* of honeypots/tarpit/server.py.                                          *)
(*                                                                         *)
(* A step is what a connection's task does between two suspension points.  *)
(* Neither lock is ever contended, because no holder suspends.  The        *)
(* analysis and the routing do not suspend either: they are one choice of  *)
(* a destination.  The relaying itself is one state here.                  *)
(*                                                                         *)
(* asyncio.run() cancels once every task that is left when its main task   *)
(* has ended, and waits for them.                                          *)
(***************************************************************************)
EXTENDS Integers, FiniteSets

CONSTANTS Conns,          \* connections that clients may open
          MaxClients,     \* tarpit max_clients
          AsyncCallback   \* is the honeypots' event callback a coroutine function

ASSUME GatewayAssumption ==
    /\ IsFiniteSet(Conns)
    /\ MaxClients \in Nat
    /\ AsyncCallback \in BOOLEAN

VARIABLES phase,         \* of the gateway: the listeners, then the event loop
          conn,          \* what the task of each connection is doing
          cancelled,     \* tasks with a CancelledError still to be thrown
          atEnd,         \* history: conn when the tasks were cancelled
          active,        \* keys of _active_sessions
          sessionCount,  \* _session_count
          activeClients, \* _active_clients of the tarpit
          totalTrapped,  \* _total_trapped of the tarpit
          emitted,       \* history: events the tarpit emitted
          published      \* events that reached the collector

endVars == <<phase, atEnd>>
gateVars == <<active, sessionCount>>
tarpitVars == <<activeClients, totalTrapped>>
eventVars == <<emitted, published>>
vars == <<phase, conn, cancelled, atEnd, active, sessionCount, activeClients, totalTrapped,
          emitted, published>>

\* none: not connected; accepted: its task has not run; reading: in the timed
\* read of the first bytes; received: the read is done, its task has not gone
\* on; proxying: connecting to a honeypot or relaying; trapped: in
\* _slow_response(); releasing: the tarpit waits for its writer to close;
\* closing: the gateway does.
States == {"none", "accepted", "reading", "received", "proxying", "trapped",
           "releasing", "closing", "closed"}

EventsOf(c) == {<<"tarpit_enter", c>>, <<"tarpit_exit", c>>}
AllEvents == UNION {EventsOf(c) : c \in Conns}

TypeOK == /\ phase \in {"new", "listening", "shut", "ending"}
          /\ conn \in [Conns -> States]
          /\ cancelled \subseteq Conns
          /\ atEnd \in [Conns -> States]
          /\ active \subseteq Conns
          /\ sessionCount \in 0..Cardinality(Conns)
          /\ activeClients \in 0..MaxClients
          /\ totalTrapped \in 0..sessionCount
          /\ emitted \subseteq AllEvents
          /\ published \subseteq AllEvents

Init == /\ phase = "new"
        /\ conn = [c \in Conns |-> "none"]
        /\ cancelled = {}
        /\ atEnd = [c \in Conns |-> "none"]
        /\ active = {}
        /\ sessionCount = 0
        /\ activeClients = 0
        /\ totalTrapped = 0
        /\ emitted = {}
        /\ published = {}

Become(c, s) == conn' = [conn EXCEPT ![c] = s]

\* A task goes on; an exception that was to be thrown into it has been.
Resume(c, s) == Become(c, s) /\ cancelled' = cancelled \ {c} /\ UNCHANGED endVars

\* emit_event() calls the callback and drops what it returns: a function has
\* published the event by then, a coroutine that nobody awaits never runs.
Emit(event) ==
    /\ emitted' = emitted \cup {event}
    /\ published' = IF AsyncCallback THEN published ELSE published \cup {event}

(***************************************************************************)
(* gateway/server.py                                                       *)
(***************************************************************************)
Start == /\ phase = "new"
         /\ phase' = "listening"
         /\ UNCHANGED <<conn, cancelled, atEnd, gateVars, tarpitVars, eventVars>>

\* stop() and the signal handler close the listeners and nothing else.
Stop == /\ phase = "listening"
        /\ phase' = "shut"
        /\ UNCHANGED <<conn, cancelled, atEnd, gateVars, tarpitVars, eventVars>>

\* The main task has ended: asyncio.run() cancels the others.
LoopEnds == /\ phase = "shut"
            /\ phase' = "ending"
            /\ cancelled' = {c \in Conns : conn[c] \notin {"none", "closed"}}
            /\ atEnd' = conn
            /\ UNCHANGED <<conn, gateVars, tarpitVars, eventVars>>

Accept(c) == /\ phase = "listening"
             /\ conn[c] = "none"
             /\ Become(c, "accepted")
             /\ UNCHANGED <<cancelled, endVars, gateVars, tarpitVars, eventVars>>

\* _handle_connection() up to the read.
Open(c) == /\ conn[c] = "accepted"
           /\ c \notin cancelled
           /\ sessionCount' = sessionCount + 1
           /\ active' = active \cup {c}
           /\ Resume(c, "reading")
           /\ UNCHANGED <<tarpitVars, eventVars>>

\* The peer is already gone, or the task is cancelled before it has run.
NeverOpened(c) == /\ conn[c] = "accepted"
                  /\ Resume(c, "closed")
                  /\ UNCHANGED <<gateVars, tarpitVars, eventVars>>

\* read() returns the first bytes or the end of the stream.  From here on
\* wait_for() hands them over even if the time is up or the task is cancelled.
Arrive(c) == /\ conn[c] = "reading"
             /\ Become(c, "received")
             /\ UNCHANGED <<cancelled, endVars, gateVars, tarpitVars, eventVars>>

\* The finally clause up to the wait for the writer to close.
Leave(c) == /\ active' = active \ {c}
            /\ Resume(c, "closing")
            /\ UNCHANGED sessionCount

\* The read times out, the client resets the connection or the task is
\* cancelled.
GiveUp(c) == /\ conn[c] = "reading"
             /\ Leave(c)
             /\ UNCHANGED <<tarpitVars, eventVars>>

\* No honeypot gets the connection: it is blocked, only logged, without a
\* target, or the handler raises.
Dismiss(c) == /\ conn[c] = "received"
              /\ Leave(c)
              /\ UNCHANGED <<tarpitVars, eventVars>>

RouteToExternal(c) == /\ conn[c] = "received"
                      /\ Resume(c, "proxying")
                      /\ UNCHANGED <<gateVars, tarpitVars, eventVars>>

ProxyEnds(c) == /\ conn[c] = "proxying"
                /\ Leave(c)
                /\ UNCHANGED <<tarpitVars, eventVars>>

Closed(c) == /\ conn[c] = "closing"
             /\ Resume(c, "closed")
             /\ UNCHANGED <<gateVars, tarpitVars, eventVars>>

(***************************************************************************)
(* honeypots/tarpit/server.py                                              *)
(***************************************************************************)
\* Mutant: the last slot is given away twice.
TrapOneMore(c) == /\ conn[c] = "received"
                  /\ activeClients <= MaxClients
                  /\ activeClients' = activeClients + 1
                  /\ totalTrapped' = totalTrapped + 1
                  /\ Emit(<<"tarpit_enter", c>>)
                  /\ Resume(c, "trapped")
                  /\ UNCHANGED gateVars

Trap(c) == /\ conn[c] = "received"
           /\ activeClients < MaxClients
           /\ activeClients' = activeClients + 1
           /\ totalTrapped' = totalTrapped + 1
           /\ Emit(<<"tarpit_enter", c>>)
           /\ Resume(c, "trapped")
           /\ UNCHANGED gateVars

TurnAway(c) == /\ conn[c] = "received"
               /\ activeClients >= MaxClients
               /\ Leave(c)
               /\ UNCHANGED <<tarpitVars, eventVars>>

\* Mutant: the slot is not given back before the writer is waited for.
ReleaseLate(c) == /\ conn[c] = "trapped"
                  /\ Resume(c, "releasing")
                  /\ UNCHANGED <<gateVars, tarpitVars, eventVars>>

\* Mutant: an except clause frees the slot, and a cancellation passes it by.
ReleaseExcept(c) == /\ conn[c] = "trapped"
                    /\ IF c \in cancelled
                       THEN Leave(c) /\ UNCHANGED activeClients
                       ELSE /\ activeClients' = activeClients - 1
                            /\ Resume(c, "releasing")
                            /\ UNCHANGED gateVars
                    /\ UNCHANGED <<totalTrapped, eventVars>>

\* Mutant: the loop that feeds the client catches the cancellation and goes on.
ReleaseStubborn(c) == /\ conn[c] = "trapped"
                      /\ IF c \in cancelled
                         THEN Resume(c, "trapped") /\ UNCHANGED activeClients
                         ELSE /\ activeClients' = activeClients - 1
                              /\ Resume(c, "releasing")
                      /\ UNCHANGED <<gateVars, totalTrapped, eventVars>>

\* _slow_response() ends when the client is gone, or is cancelled: the slot is
\* free before the writer is waited for.
Release(c) == /\ conn[c] = "trapped"
              /\ activeClients' = activeClients - 1
              /\ Resume(c, "releasing")
              /\ UNCHANGED <<gateVars, totalTrapped, eventVars>>

Exit(c) == /\ conn[c] = "releasing"
           /\ c \notin cancelled
           /\ Emit(<<"tarpit_exit", c>>)
           /\ Leave(c)
           /\ UNCHANGED tarpitVars

\* Cancelled in that wait, the tarpit emits no exit event.
ExitCancelled(c) == /\ conn[c] = "releasing"
                    /\ c \in cancelled
                    /\ Leave(c)
                    /\ UNCHANGED <<tarpitVars, eventVars>>

ConnStep(c) == \/ Accept(c) \/ Open(c) \/ NeverOpened(c) \/ Arrive(c)
               \/ GiveUp(c) \/ Dismiss(c) \/ RouteToExternal(c) \/ ProxyEnds(c)
               \/ Closed(c) \/ Trap(c) \/ TurnAway(c) \/ Release(c) \/ Exit(c)
               \/ ExitCancelled(c)

Next == Start \/ Stop \/ LoopEnds \/ \E c \in Conns : ConnStep(c)

\* A task that can go on does, the connection timeout fires and a cancelled
\* task is thrown its exception.  A client need never close, read or reset its
\* connection.
Fairness == \A c \in Conns :
    /\ WF_vars(Open(c) \/ NeverOpened(c))
    /\ WF_vars(Arrive(c) \/ GiveUp(c))
    /\ WF_vars(Dismiss(c) \/ RouteToExternal(c) \/ Trap(c) \/ TurnAway(c))
    /\ WF_vars(c \in cancelled /\ (Release(c) \/ ExitCancelled(c)))

Spec == Init /\ [][Next]_vars

FairSpec == Spec /\ Fairness

(***************************************************************************)
(* Properties                                                              *)
(***************************************************************************)
Holding == {c \in Conns : conn[c] = "trapped"}

\* The two tables that count connections are exact.  The tarpit's slots are the
\* connections it is feeding, never more than max_clients: every way out of it
\* gives the slot back once.  get_status() reports the sessions being served:
\* one is registered from before the read until after its honeypot is done with
\* it, so whoever holds a slot is registered.
CountsExact ==
    /\ activeClients = Cardinality(Holding) /\ activeClients <= MaxClients
    /\ active = {c \in Conns : conn[c] \in {"reading", "received", "proxying",
                                            "trapped", "releasing"}}

\* A session has its exit event after its enter event and when it is over, and
\* only a session whose client had not let go of its socket when the process
\* began to end is over without one.
EventsPaired ==
    \A c \in Conns :
        /\ <<"tarpit_exit", c>> \in emitted
              => <<"tarpit_enter", c>> \in emitted /\ conn[c] \in {"closing", "closed"}
        /\ <<"tarpit_enter", c>> \in emitted /\ conn[c] \in {"closing", "closed"}
              => <<"tarpit_exit", c>> \in emitted \/ atEnd[c] = "releasing"

\* When the process ends the tarpit lets go of every client it is feeding,
\* except one whose first bytes came as its task was cancelled: wait_for()
\* swallowed the cancellation.
SlotsReleased ==
    \A c \in Conns :
        phase = "ending" /\ atEnd[c] \notin {"reading", "received"}
            ~> conn[c] # "trapped"

\* README.md: the events a reader finds include tarpit_enter and tarpit_exit.
TarpitEventsPublished == emitted \subseteq published
=============================================================================
