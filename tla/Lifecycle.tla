------------------------------ MODULE Lifecycle ------------------------------
(***************************************************************************)
(* How the process starts and ends: run_command() of __main__.py, start()  *)
(* and stop() of app.py, the signal handling of gateway/server.py and the  *)
(* child processes of honeypots/external/manager.py.  What becomes of the  *)
(* events meanwhile is the subject of EventPath.                           *)
(*                                                                         *)
(* A step is what one task does between two suspension points.  Nothing in *)
(* app.start() suspends before a port is bound, and nothing in app.stop()  *)
(* but the two gathers and the join.  The event loop looks up the handler  *)
(* of a signal when it polls, not when the signal arrives.                 *)
(***************************************************************************)
EXTENDS Integers

CONSTANTS Callers,     \* who may run the application: "cli" is run_command(),
                       \* "embedded" a program that calls start() and stop()
          Children,    \* how many honeypots run as child processes
          PortCount,   \* how many ports the gateway binds
          MaxSignals   \* bound on the SIGINTs and SIGTERMs received

ASSUME LifecycleAssumption ==
    /\ Callers \subseteq {"cli", "embedded"}
    /\ Children \in Nat
    /\ PortCount \in Nat \ {0}
    /\ MaxSignals \in Nat

VARIABLES caller,      \* who runs the application
          main,        \* how far its task has come
          handler,     \* what the event loop calls on a signal
          shutdownSet, \* shutdown_event of run_command()
          signals,     \* signals received
          shuts,       \* tasks of _shutdown() that have not run
          gwRunning,   \* _running of the gateway
          bound,       \* len(_servers): ports that start_server() returned
          open,        \* ports with an open listener
          early,       \* history: has _shutdown() run while ports were bound
          children     \* child processes that run

procVars == <<caller, main>>
sigVars == <<handler, shutdownSet, signals, shuts>>
gwVars == <<gwRunning, bound, open, early>>
lifeVars == <<procVars, sigVars, gwVars, children>>

Stages == {"new", "binding", "serving", "unbridging", "joining", "gathering",
           "done", "failed", "exited"}

LifeTypeOK == /\ caller \in Callers
              /\ main \in Stages
              /\ handler \in {"default", "event", "shutdown"}
              /\ shutdownSet \in BOOLEAN
              /\ signals \in 0..MaxSignals
              /\ shuts \in 0..signals
              /\ gwRunning \in BOOLEAN
              /\ bound \in 0..PortCount
              /\ open \subseteq 1..PortCount
              /\ early \in BOOLEAN
              /\ children \in 0..Children

LifeInit == /\ caller \in Callers
            /\ main = "new"
            /\ handler = "default" /\ shutdownSet = FALSE /\ signals = 0 /\ shuts = 0
            /\ gwRunning = FALSE /\ bound = 0 /\ open = {} /\ early = FALSE
            /\ children = 0

Goto(stage) == main' = stage /\ UNCHANGED caller

Alive == main \notin {"new", "exited"}

(***************************************************************************)
(* start()                                                                 *)
(***************************************************************************)
\* start_server() opens the listener of a port and suspends; or it raises,
\* and so does start(), outside the try of run_command().
BindPort(port) == \/ open' = open \cup {port} /\ Goto("binding")
                  \/ Goto("failed") /\ UNCHANGED open

\* Mutant: the gateway leaves the handlers of run_command() in place.
BeginKeepsHandlers ==
    /\ main = "new"
    /\ handler' = IF caller = "cli" THEN "event" ELSE "shutdown"
    /\ children' = Children
    /\ gwRunning' = TRUE
    /\ BindPort(1)
    /\ UNCHANGED <<shutdownSet, signals, shuts, bound, early>>

\* run_command() sets handlers that will end it.  app.start() starts the child
\* processes, the collector and the bridge.  The gateway replaces the handlers
\* and binds its first port.
Begin == /\ main = "new"
         /\ handler' = "shutdown"
         /\ children' = Children
         /\ gwRunning' = TRUE
         /\ BindPort(1)
         /\ UNCHANGED <<shutdownSet, signals, shuts, bound, early>>

\* A child process cannot be started: the ones before it run.
BeginFails == /\ main = "new"
              /\ handler' = IF caller = "cli" THEN "event" ELSE handler
              /\ Children > 0 /\ children' \in 0..(Children - 1)
              /\ Goto("failed")
              /\ UNCHANGED <<shutdownSet, signals, shuts, gwVars>>

\* start_server() returns: its port joins _servers, and the next is bound.
Bound == /\ main = "binding"
         /\ bound' = bound + 1
         /\ IF bound' < PortCount THEN BindPort(bound' + 1)
                                  ELSE Goto("serving") /\ UNCHANGED open
         /\ UNCHANGED <<sigVars, gwRunning, early, children>>

(***************************************************************************)
(* Signals                                                                 *)
(***************************************************************************)
\* Mutant: a signal calls the handlers of both signals.
SignalBoth == /\ Alive
              /\ signals < MaxSignals
              /\ signals' = signals + 1
              /\ shutdownSet' = (shutdownSet \/ handler = "event")
              /\ shuts' = IF handler = "shutdown" THEN shuts + 2 ELSE shuts
              /\ UNCHANGED <<procVars, handler, gwVars, children>>

Signal == /\ Alive
          /\ signals < MaxSignals
          /\ signals' = signals + 1
          /\ shutdownSet' = (shutdownSet \/ handler = "event")
          /\ shuts' = IF handler = "shutdown" THEN shuts + 1 ELSE shuts
          /\ UNCHANGED <<procVars, handler, gwVars, children>>

\* Mutant: the last listener is forgotten.
CloseAllButLast == gwRunning' = FALSE /\ open' = open \ (1..(bound - 1))

\* _shutdown() closes the listeners that are in _servers.
CloseServers == gwRunning' = FALSE /\ open' = open \ (1..bound)

\* Mutant: _shutdown() does nothing when it has run before.
ShutdownOnce == /\ Alive
                /\ shuts > 0
                /\ shuts' = shuts - 1
                /\ IF gwRunning THEN CloseServers ELSE UNCHANGED <<gwRunning, open>>
                /\ early' = (early \/ main = "binding")
                /\ UNCHANGED <<procVars, handler, shutdownSet, signals, bound, children>>

Shutdown == /\ Alive
            /\ shuts > 0
            /\ shuts' = shuts - 1
            /\ CloseServers
            /\ early' = (early \/ main = "binding")
            /\ UNCHANGED <<procVars, handler, shutdownSet, signals, bound, children>>

(***************************************************************************)
(* stop()                                                                  *)
(***************************************************************************)
\* run_command() wakes from its event, or an embedding program calls stop().
\* The gateway is stopped if it runs, and the bridge's watchers are cancelled.
Stop == /\ main = "serving"
        /\ caller = "embedded" \/ shutdownSet
        /\ IF gwRunning THEN CloseServers ELSE UNCHANGED <<gwRunning, open>>
        /\ Goto("unbridging")
        /\ UNCHANGED <<sigVars, bound, early, children>>

\* The bridge's watchers have ended: the collector is stopped.
Unbridged == /\ main = "unbridging"
             /\ Goto("joining")
             /\ UNCHANGED <<sigVars, gwVars, children>>

\* Flush and close the storage, then end the child processes.
Finish == \/ /\ children' = 0
             /\ Goto("done")
          \/ \* The flush raises, and the rest of stop() is skipped.
             /\ Goto("failed")
             /\ UNCHANGED children

\* The collector's join() returns: with an empty queue its task just ends.
Joined == /\ main = "joining"
          /\ Finish
          /\ UNCHANGED <<sigVars, gwVars>>

\* join() takes more than five seconds: the consumer's task is cancelled.
JoinTimeout == /\ main = "joining"
               /\ Goto("gathering")
               /\ UNCHANGED <<sigVars, gwVars, children>>

Gathered == /\ main = "gathering"
            /\ Finish
            /\ UNCHANGED <<sigVars, gwVars>>

\* The process exits after its main task, or is killed: nothing else ends it.
Exit(stages) == /\ main \in stages
                /\ open' = {}
                /\ shuts' = 0
                /\ Goto("exited")
                /\ UNCHANGED <<handler, shutdownSet, signals, gwRunning, bound, early,
                               children>>

\* asyncio.run() cancels what is left when the main task ends and waits for it: for
\* a tarpit session whose client never reads, or that swallowed the cancellation,
\* without bound, so that this step need not come.
MainEnds == Exit({"done", "failed"})
Kill == Alive /\ Exit(Stages)

LifeNext == \/ Begin \/ BeginFails \/ Bound
            \/ Signal \/ Shutdown
            \/ Stop \/ Unbridged \/ Joined \/ JoinTimeout \/ Gathered
            \/ MainEnds \/ Kill

LifeSpec == LifeInit /\ [][LifeNext]_lifeVars

\* The event loop runs the tasks that can go on, the cancelled watchers and
\* consumers end, and the join returns or times out.
FairSpec ==
    /\ LifeSpec
    /\ WF_lifeVars(Bound)
    /\ WF_lifeVars(Shutdown)
    /\ WF_lifeVars(Unbridged \/ Joined \/ JoinTimeout \/ Gathered)

(***************************************************************************)
(* Properties                                                              *)
(***************************************************************************)
\* stop() leaves no listener open, unless a signal came while the ports were
\* being bound: then _running is already false and stop() closes none of the
\* ports bound since.
StopCloses == main = "done" => open = {} \/ early

\* A signal never ends the command line program: the gateway's handlers have
\* replaced those of run_command() before any signal can be handled, and no
\* stage of stop() is ever reached.
SignalsNeverStop ==
    caller = "cli" => main \in {"new", "binding", "serving", "failed", "exited"}

\* What is set off takes its course.  A signal closes the ports once they are
\* bound, those that an earlier signal missed included; and a stop() that has
\* begun comes to its end, by returning or by raising, whatever signals come.
TakesItsCourse ==
    /\ main = "serving" /\ shuts > 0 ~> open = {}
    /\ main = "unbridging" ~> main \in {"done", "failed", "exited"}
=============================================================================
