---------------------------- MODULE GatewayProofs ----------------------------
(***************************************************************************)
(* Theorems about Gateway, for every finite set of connections and every   *)
(* number of tarpit slots: the counts are exact, and enter and exit events *)
(* pair up.                                                                *)
(***************************************************************************)
EXTENDS Gateway, FiniteSetTheorems, TLAPS

In(f, S) == {c \in Conns : f[c] \in S}
Opened == States \ {"none", "accepted"}
Awaiting == {"reading", "received"}

\* A session is counted when it is opened, and once more when it is trapped; one
\* that is still read from may be trapped later.
Counted ==
    /\ sessionCount <= Cardinality(In(conn, Opened))
    /\ totalTrapped + Cardinality(In(conn, Awaiting)) <= sessionCount

\* What the tarpit has emitted tells where the connection is.
Entered ==
    \A c \in Conns :
        /\ <<"tarpit_enter", c>> \in emitted
              => conn[c] \in {"trapped", "releasing", "closing", "closed"}
        /\ conn[c] \in {"trapped", "releasing"} => <<"tarpit_enter", c>> \in emitted

\* Tasks are cancelled at the end only, and one that is cancelled while it waits
\* for its writer was in that wait by then: on its way there it would have been
\* thrown its exception.
CancelledAtEnd ==
    /\ phase # "ending" => cancelled = {} /\ atEnd = [c \in Conns |-> "none"]
    /\ \A c \in cancelled : conn[c] = "releasing" => atEnd[c] = "releasing"

IInv == TypeOK /\ Counted /\ CountsExact /\ Entered /\ CancelledAtEnd /\ EventsPaired

(***************************************************************************)
(* Counting connections                                                    *)
(***************************************************************************)
LEMMA InFinite == ASSUME NEW f, NEW S
                  PROVE  IsFiniteSet(In(f, S)) /\ Cardinality(In(f, S)) \in Nat
BY GatewayAssumption, FS_Subset, FS_CardinalityType DEF In

\* A connection that changes its state leaves one count and joins another.
LEMMA BecomeCounts ==
    ASSUME TypeOK, NEW c \in Conns, NEW s, Become(c, s), NEW S
    PROVE  Cardinality(In(conn', S)) = Cardinality(In(conn, S))
               + (IF s \in S THEN 1 ELSE 0) - (IF conn[c] \in S THEN 1 ELSE 0)
<1> DEFINE rest == In(conn, S) \ {c}
<1>1. IsFiniteSet(In(conn, S)) /\ IsFiniteSet(rest)
  BY InFinite, FS_Subset
<1>2. /\ In(conn, S) = IF conn[c] \in S THEN rest \cup {c} ELSE rest
      /\ In(conn', S) = IF s \in S THEN rest \cup {c} ELSE rest
  BY DEF Become, In, TypeOK
<1>3. Cardinality(rest \cup {c}) = Cardinality(rest) + 1 /\ Cardinality(rest) \in Nat
  BY <1>1, FS_AddElement, FS_CardinalityType
<1>4. Cardinality(In(conn, S)) = Cardinality(rest) + (IF conn[c] \in S THEN 1 ELSE 0)
  <2>1. CASE conn[c] \in S
    <3>1. In(conn, S) = rest \cup {c}
      BY <1>2, <2>1
    <3> QED
      BY <1>3, <2>1, <3>1
  <2>2. CASE conn[c] \notin S
    <3>1. In(conn, S) = rest
      BY <1>2, <2>2
    <3>2. Cardinality(rest) = Cardinality(In(conn, S))
      BY <3>1, Zenon
    <3> QED
      BY <1>3, <2>2, <3>2
  <2> QED
    BY <2>1, <2>2
<1>5. Cardinality(In(conn', S)) = Cardinality(rest) + (IF s \in S THEN 1 ELSE 0)
  <2>1. CASE s \in S
    <3>1. In(conn', S) = rest \cup {c}
      BY <1>2, <2>1
    <3> QED
      BY <1>3, <2>1, <3>1
  <2>2. CASE s \notin S
    <3>1. In(conn', S) = rest
      BY <1>2, <2>2
    <3> QED
      BY <1>3, <2>2, <3>1
  <2> QED
    BY <2>1, <2>2
<1> HIDE DEF rest
<1> QED
  BY <1>3, <1>4, <1>5

LEMMA CountsAreBounded ==
    /\ Cardinality(Conns) \in Nat
    /\ \A S : Cardinality(In(conn, S)) <= Cardinality(Conns)
BY GatewayAssumption, FS_Subset, FS_CardinalityType DEF In

LEMMA HoldingIsTrapped == Holding = In(conn, {"trapped"})
BY DEF Holding, In

\* The counts after a step in which connection c becomes s.
LEMMA StepCounts ==
    ASSUME TypeOK, NEW c \in Conns, NEW s \in States, Become(c, s)
    PROVE  /\ Cardinality(Holding') = Cardinality(Holding)
                + (IF s = "trapped" THEN 1 ELSE 0)
                - (IF conn[c] = "trapped" THEN 1 ELSE 0)
           /\ Cardinality(In(conn', Opened)) =
                Cardinality(In(conn, Opened))
                + (IF s \in Opened THEN 1 ELSE 0)
                - (IF conn[c] \in Opened THEN 1 ELSE 0)
           /\ Cardinality(In(conn', Awaiting)) =
                Cardinality(In(conn, Awaiting))
                + (IF s \in Awaiting THEN 1 ELSE 0)
                - (IF conn[c] \in Awaiting THEN 1 ELSE 0)
           /\ Cardinality(Holding) \in Nat
           /\ Cardinality(Holding') \in Nat
           /\ Cardinality(In(conn, Awaiting)) \in Nat
           /\ Cardinality(In(conn, Opened)) \in Nat
           /\ Cardinality(In(conn', Opened)) \in 0..Cardinality(Conns)
           /\ Cardinality(In(conn', Awaiting)) \in Nat
<1>1. conn[c] \in States
  BY DEF TypeOK
<1>2. Holding' = In(conn', {"trapped"})
  BY DEF Holding, In
<1>3. Cardinality(Holding') = Cardinality(Holding)
                + (IF s = "trapped" THEN 1 ELSE 0)
                - (IF conn[c] = "trapped" THEN 1 ELSE 0)
  BY <1>2, BecomeCounts, HoldingIsTrapped
<1>4. Cardinality(In(conn', Opened)) =
                Cardinality(In(conn, Opened))
                + (IF s \in Opened THEN 1 ELSE 0)
                - (IF conn[c] \in Opened THEN 1 ELSE 0)
  BY <1>1, BecomeCounts
<1>5. Cardinality(In(conn', Awaiting)) =
                Cardinality(In(conn, Awaiting))
                + (IF s \in Awaiting THEN 1 ELSE 0)
                - (IF conn[c] \in Awaiting THEN 1 ELSE 0)
  BY BecomeCounts
<1>6. Cardinality(In(conn', Opened)) <= Cardinality(Conns)
  BY GatewayAssumption, FS_Subset DEF In
<1> QED
  BY <1>2, <1>3, <1>4, <1>5, <1>6, InFinite, HoldingIsTrapped, CountsAreBounded

(***************************************************************************)
(* The invariant is inductive                                              *)
(***************************************************************************)
LEMMA InitIInv == Init => IInv
<1> SUFFICES ASSUME Init PROVE IInv
  OBVIOUS
<1>1. Cardinality({}) = 0 /\ Cardinality(Conns) \in Nat
  BY FS_EmptySet, CountsAreBounded
<1>2. /\ Holding = {}
      /\ In(conn, Opened) = {}
      /\ In(conn, Awaiting) = {}
  BY DEF Init, Holding, In, Opened, Awaiting
<1>3. TypeOK
  BY <1>1, GatewayAssumption DEF Init, TypeOK, States
<1>4. Counted /\ CountsExact
  <2>1. Counted
    BY <1>1, <1>2 DEF Init, Counted
  <2>2. CountsExact
    BY <1>1, <1>2, GatewayAssumption DEF Init, CountsExact
  <2> QED
    BY <2>1, <2>2
<1>5. Entered /\ CancelledAtEnd /\ EventsPaired
  BY DEF Init, Entered, CancelledAtEnd, EventsPaired
<1> QED
  BY <1>3, <1>4, <1>5 DEF IInv

LEMMA EventsAreEvents ==
    \A c \in Conns : <<"tarpit_enter", c>> \in AllEvents /\ <<"tarpit_exit", c>> \in AllEvents
BY DEF AllEvents, EventsOf

\* What every step of a connection leaves well typed, and the numbers it counts
\* with.  A task that is thrown its exception is no longer to be cancelled, and
\* one that is not thrown it does not start to wait for its writer.
StepFacts ==
    /\ CancelledAtEnd'
    /\ conn' \in [Conns -> States]
    /\ (phase \in {"new", "listening", "shut", "ending"})'
    /\ (cancelled \subseteq Conns)'
    /\ (atEnd \in [Conns -> States])'
    /\ Cardinality(Holding) \in Nat /\ Cardinality(Holding') \in Nat
    /\ Cardinality(In(conn, Opened)) \in Nat
    /\ Cardinality(In(conn', Opened)) \in 0..Cardinality(Conns)
    /\ Cardinality(In(conn, Awaiting)) \in Nat
    /\ Cardinality(In(conn', Awaiting)) \in Nat

LEMMA StepHasFacts ==
    ASSUME IInv, NEW c \in Conns, NEW s \in States, Become(c, s), UNCHANGED endVars,
           \/ cancelled' = cancelled \ {c}
           \/ cancelled' = cancelled /\ s # "releasing"
    PROVE  StepFacts
<1>1. /\ CancelledAtEnd' /\ conn' \in [Conns -> States]
      /\ (phase \in {"new", "listening", "shut", "ending"})'
      /\ (cancelled \subseteq Conns)' /\ (atEnd \in [Conns -> States])'
  BY DEF IInv, TypeOK, CancelledAtEnd, Become, endVars
<1> QED
  BY <1>1, StepCounts DEF IInv, StepFacts

\* A connection up to its first bytes.
LEMMA ArrivalKeepsIInv ==
    ASSUME IInv, NEW c \in Conns,
           Accept(c) \/ Open(c) \/ NeverOpened(c) \/ Arrive(c)
    PROVE  IInv'
<1>1. CASE Accept(c)
  <2> USE <1>1 DEF Accept, gateVars, tarpitVars, eventVars
  <2>1. "accepted" \in States /\ Become(c, "accepted") /\ UNCHANGED endVars /\ conn[c] = "none"
    BY DEF States
  <2>2. StepFacts
    BY <2>1, StepHasFacts
  <2>3. /\ Cardinality(Holding') = Cardinality(Holding)
        /\ Cardinality(In(conn', Opened)) = Cardinality(In(conn, Opened))
        /\ Cardinality(In(conn', Awaiting)) = Cardinality(In(conn, Awaiting))
    BY <2>1, StepCounts DEF IInv, Opened, Awaiting, States
  <2>4. Counted'
    BY <2>2, <2>3 DEF StepFacts, IInv, TypeOK, Counted
  <2>5. (activeClients = Cardinality(Holding) /\ activeClients <= MaxClients)'
    BY <2>2, <2>3, GatewayAssumption DEF StepFacts, IInv, TypeOK, CountsExact
  <2>6. CountsExact'
    BY <2>1, <2>5 DEF IInv, TypeOK, CountsExact, Become
  <2>7. (emitted \subseteq AllEvents /\ published \subseteq AllEvents)'
    BY EventsAreEvents DEF IInv, TypeOK
  <2>8. TypeOK'
    BY <2>2, <2>4, <2>5, <2>6, <2>7, CountsAreBounded, GatewayAssumption
      DEF StepFacts, IInv, TypeOK, Counted, CountsExact
  <2>9. Entered' /\ EventsPaired'
    BY <2>1 DEF IInv, TypeOK, Entered, EventsPaired, CancelledAtEnd, Become, endVars
  <2> QED
    BY <2>2, <2>4, <2>6, <2>8, <2>9 DEF StepFacts, IInv
<1>2. CASE Open(c)
  <2> USE <1>2 DEF Open, Resume, gateVars, tarpitVars, eventVars
  <2>1. "reading" \in States /\ Become(c, "reading") /\ UNCHANGED endVars /\ conn[c] = "accepted"
    BY DEF States
  <2>2. StepFacts
    BY <2>1, StepHasFacts
  <2>3. /\ Cardinality(Holding') = Cardinality(Holding)
        /\ Cardinality(In(conn', Opened)) = Cardinality(In(conn, Opened)) + 1
        /\ Cardinality(In(conn', Awaiting)) = Cardinality(In(conn, Awaiting)) + 1
    BY <2>1, StepCounts DEF IInv, Opened, Awaiting, States
  <2>4. Counted'
    BY <2>2, <2>3 DEF StepFacts, IInv, TypeOK, Counted
  <2>5. (activeClients = Cardinality(Holding) /\ activeClients <= MaxClients)'
    BY <2>2, <2>3, GatewayAssumption DEF StepFacts, IInv, TypeOK, CountsExact
  <2>6. CountsExact'
    BY <2>1, <2>5 DEF IInv, TypeOK, CountsExact, Become
  <2>7. (emitted \subseteq AllEvents /\ published \subseteq AllEvents)'
    BY EventsAreEvents DEF IInv, TypeOK
  <2>8. TypeOK'
    BY <2>2, <2>4, <2>5, <2>6, <2>7, CountsAreBounded, GatewayAssumption
      DEF StepFacts, IInv, TypeOK, Counted, CountsExact
  <2>9. Entered' /\ EventsPaired'
    BY <2>1 DEF IInv, TypeOK, Entered, EventsPaired, CancelledAtEnd, Become, endVars
  <2> QED
    BY <2>2, <2>4, <2>6, <2>8, <2>9 DEF StepFacts, IInv
<1>3. CASE NeverOpened(c)
  <2> USE <1>3 DEF NeverOpened, Resume, gateVars, tarpitVars, eventVars
  <2>1. "closed" \in States /\ Become(c, "closed") /\ UNCHANGED endVars /\ conn[c] = "accepted"
    BY DEF States
  <2>2. StepFacts
    BY <2>1, StepHasFacts
  <2>3. /\ Cardinality(Holding') = Cardinality(Holding)
        /\ Cardinality(In(conn', Opened)) = Cardinality(In(conn, Opened)) + 1
        /\ Cardinality(In(conn', Awaiting)) = Cardinality(In(conn, Awaiting))
    BY <2>1, StepCounts DEF IInv, Opened, Awaiting, States
  <2>4. Counted'
    BY <2>2, <2>3 DEF StepFacts, IInv, TypeOK, Counted
  <2>5. (activeClients = Cardinality(Holding) /\ activeClients <= MaxClients)'
    BY <2>2, <2>3, GatewayAssumption DEF StepFacts, IInv, TypeOK, CountsExact
  <2>6. CountsExact'
    BY <2>1, <2>5 DEF IInv, TypeOK, CountsExact, Become
  <2>7. (emitted \subseteq AllEvents /\ published \subseteq AllEvents)'
    BY EventsAreEvents DEF IInv, TypeOK
  <2>8. TypeOK'
    BY <2>2, <2>4, <2>5, <2>6, <2>7, CountsAreBounded, GatewayAssumption
      DEF StepFacts, IInv, TypeOK, Counted, CountsExact
  <2>9. Entered' /\ EventsPaired'
    BY <2>1 DEF IInv, TypeOK, Entered, EventsPaired, CancelledAtEnd, Become, endVars
  <2> QED
    BY <2>2, <2>4, <2>6, <2>8, <2>9 DEF StepFacts, IInv
<1>4. CASE Arrive(c)
  <2> USE <1>4 DEF Arrive, gateVars, tarpitVars, eventVars
  <2>1. "received" \in States /\ Become(c, "received") /\ UNCHANGED endVars /\ conn[c] = "reading"
    BY DEF States
  <2>2. StepFacts
    BY <2>1, StepHasFacts
  <2>3. /\ Cardinality(Holding') = Cardinality(Holding)
        /\ Cardinality(In(conn', Opened)) = Cardinality(In(conn, Opened))
        /\ Cardinality(In(conn', Awaiting)) = Cardinality(In(conn, Awaiting))
    BY <2>1, StepCounts DEF IInv, Opened, Awaiting, States
  <2>4. Counted'
    BY <2>2, <2>3 DEF StepFacts, IInv, TypeOK, Counted
  <2>5. (activeClients = Cardinality(Holding) /\ activeClients <= MaxClients)'
    BY <2>2, <2>3, GatewayAssumption DEF StepFacts, IInv, TypeOK, CountsExact
  <2>6. CountsExact'
    BY <2>1, <2>5 DEF IInv, TypeOK, CountsExact, Become
  <2>7. (emitted \subseteq AllEvents /\ published \subseteq AllEvents)'
    BY EventsAreEvents DEF IInv, TypeOK
  <2>8. TypeOK'
    BY <2>2, <2>4, <2>5, <2>6, <2>7, CountsAreBounded, GatewayAssumption
      DEF StepFacts, IInv, TypeOK, Counted, CountsExact
  <2>9. Entered' /\ EventsPaired'
    BY <2>1 DEF IInv, TypeOK, Entered, EventsPaired, CancelledAtEnd, Become, endVars
  <2> QED
    BY <2>2, <2>4, <2>6, <2>8, <2>9 DEF StepFacts, IInv
<1> QED
  BY <1>1, <1>2, <1>3, <1>4

\* What the gateway does with a connection itself.
LEMMA GatewayKeepsIInv ==
    ASSUME IInv, NEW c \in Conns,
           GiveUp(c) \/ Dismiss(c) \/ RouteToExternal(c) \/ ProxyEnds(c) \/ Closed(c)
    PROVE  IInv'
<1>1. CASE GiveUp(c)
  <2> USE <1>1 DEF GiveUp, Resume, Leave, gateVars, tarpitVars, eventVars
  <2>1. "closing" \in States /\ Become(c, "closing") /\ UNCHANGED endVars /\ conn[c] = "reading"
    BY DEF States
  <2>2. StepFacts
    BY <2>1, StepHasFacts
  <2>3. /\ Cardinality(Holding') = Cardinality(Holding)
        /\ Cardinality(In(conn', Opened)) = Cardinality(In(conn, Opened))
        /\ Cardinality(In(conn', Awaiting)) = Cardinality(In(conn, Awaiting)) - 1
    BY <2>1, StepCounts DEF IInv, Opened, Awaiting, States
  <2>4. Counted'
    BY <2>2, <2>3 DEF StepFacts, IInv, TypeOK, Counted
  <2>5. (activeClients = Cardinality(Holding) /\ activeClients <= MaxClients)'
    BY <2>2, <2>3, GatewayAssumption DEF StepFacts, IInv, TypeOK, CountsExact
  <2>6. CountsExact'
    BY <2>1, <2>5 DEF IInv, TypeOK, CountsExact, Become
  <2>7. (emitted \subseteq AllEvents /\ published \subseteq AllEvents)'
    BY EventsAreEvents DEF IInv, TypeOK
  <2>8. TypeOK'
    BY <2>2, <2>4, <2>5, <2>6, <2>7, CountsAreBounded, GatewayAssumption
      DEF StepFacts, IInv, TypeOK, Counted, CountsExact
  <2>9. Entered' /\ EventsPaired'
    BY <2>1 DEF IInv, TypeOK, Entered, EventsPaired, CancelledAtEnd, Become, endVars
  <2> QED
    BY <2>2, <2>4, <2>6, <2>8, <2>9 DEF StepFacts, IInv
<1>2. CASE Dismiss(c)
  <2> USE <1>2 DEF Dismiss, Resume, Leave, gateVars, tarpitVars, eventVars
  <2>1. "closing" \in States /\ Become(c, "closing") /\ UNCHANGED endVars /\ conn[c] = "received"
    BY DEF States
  <2>2. StepFacts
    BY <2>1, StepHasFacts
  <2>3. /\ Cardinality(Holding') = Cardinality(Holding)
        /\ Cardinality(In(conn', Opened)) = Cardinality(In(conn, Opened))
        /\ Cardinality(In(conn', Awaiting)) = Cardinality(In(conn, Awaiting)) - 1
    BY <2>1, StepCounts DEF IInv, Opened, Awaiting, States
  <2>4. Counted'
    BY <2>2, <2>3 DEF StepFacts, IInv, TypeOK, Counted
  <2>5. (activeClients = Cardinality(Holding) /\ activeClients <= MaxClients)'
    BY <2>2, <2>3, GatewayAssumption DEF StepFacts, IInv, TypeOK, CountsExact
  <2>6. CountsExact'
    BY <2>1, <2>5 DEF IInv, TypeOK, CountsExact, Become
  <2>7. (emitted \subseteq AllEvents /\ published \subseteq AllEvents)'
    BY EventsAreEvents DEF IInv, TypeOK
  <2>8. TypeOK'
    BY <2>2, <2>4, <2>5, <2>6, <2>7, CountsAreBounded, GatewayAssumption
      DEF StepFacts, IInv, TypeOK, Counted, CountsExact
  <2>9. Entered' /\ EventsPaired'
    BY <2>1 DEF IInv, TypeOK, Entered, EventsPaired, CancelledAtEnd, Become, endVars
  <2> QED
    BY <2>2, <2>4, <2>6, <2>8, <2>9 DEF StepFacts, IInv
<1>3. CASE RouteToExternal(c)
  <2> USE <1>3 DEF RouteToExternal, Resume, gateVars, tarpitVars, eventVars
  <2>1. "proxying" \in States /\ Become(c, "proxying") /\ UNCHANGED endVars /\ conn[c] = "received"
    BY DEF States
  <2>2. StepFacts
    BY <2>1, StepHasFacts
  <2>3. /\ Cardinality(Holding') = Cardinality(Holding)
        /\ Cardinality(In(conn', Opened)) = Cardinality(In(conn, Opened))
        /\ Cardinality(In(conn', Awaiting)) = Cardinality(In(conn, Awaiting)) - 1
    BY <2>1, StepCounts DEF IInv, Opened, Awaiting, States
  <2>4. Counted'
    BY <2>2, <2>3 DEF StepFacts, IInv, TypeOK, Counted
  <2>5. (activeClients = Cardinality(Holding) /\ activeClients <= MaxClients)'
    BY <2>2, <2>3, GatewayAssumption DEF StepFacts, IInv, TypeOK, CountsExact
  <2>6. CountsExact'
    BY <2>1, <2>5 DEF IInv, TypeOK, CountsExact, Become
  <2>7. (emitted \subseteq AllEvents /\ published \subseteq AllEvents)'
    BY EventsAreEvents DEF IInv, TypeOK
  <2>8. TypeOK'
    BY <2>2, <2>4, <2>5, <2>6, <2>7, CountsAreBounded, GatewayAssumption
      DEF StepFacts, IInv, TypeOK, Counted, CountsExact
  <2>9. Entered' /\ EventsPaired'
    BY <2>1 DEF IInv, TypeOK, Entered, EventsPaired, CancelledAtEnd, Become, endVars
  <2> QED
    BY <2>2, <2>4, <2>6, <2>8, <2>9 DEF StepFacts, IInv
<1>4. CASE ProxyEnds(c)
  <2> USE <1>4 DEF ProxyEnds, Resume, Leave, gateVars, tarpitVars, eventVars
  <2>1. "closing" \in States /\ Become(c, "closing") /\ UNCHANGED endVars /\ conn[c] = "proxying"
    BY DEF States
  <2>2. StepFacts
    BY <2>1, StepHasFacts
  <2>3. /\ Cardinality(Holding') = Cardinality(Holding)
        /\ Cardinality(In(conn', Opened)) = Cardinality(In(conn, Opened))
        /\ Cardinality(In(conn', Awaiting)) = Cardinality(In(conn, Awaiting))
    BY <2>1, StepCounts DEF IInv, Opened, Awaiting, States
  <2>4. Counted'
    BY <2>2, <2>3 DEF StepFacts, IInv, TypeOK, Counted
  <2>5. (activeClients = Cardinality(Holding) /\ activeClients <= MaxClients)'
    BY <2>2, <2>3, GatewayAssumption DEF StepFacts, IInv, TypeOK, CountsExact
  <2>6. CountsExact'
    BY <2>1, <2>5 DEF IInv, TypeOK, CountsExact, Become
  <2>7. (emitted \subseteq AllEvents /\ published \subseteq AllEvents)'
    BY EventsAreEvents DEF IInv, TypeOK
  <2>8. TypeOK'
    BY <2>2, <2>4, <2>5, <2>6, <2>7, CountsAreBounded, GatewayAssumption
      DEF StepFacts, IInv, TypeOK, Counted, CountsExact
  <2>9. Entered' /\ EventsPaired'
    BY <2>1 DEF IInv, TypeOK, Entered, EventsPaired, CancelledAtEnd, Become, endVars
  <2> QED
    BY <2>2, <2>4, <2>6, <2>8, <2>9 DEF StepFacts, IInv
<1>5. CASE Closed(c)
  <2> USE <1>5 DEF Closed, Resume, gateVars, tarpitVars, eventVars
  <2>1. "closed" \in States /\ Become(c, "closed") /\ UNCHANGED endVars /\ conn[c] = "closing"
    BY DEF States
  <2>2. StepFacts
    BY <2>1, StepHasFacts
  <2>3. /\ Cardinality(Holding') = Cardinality(Holding)
        /\ Cardinality(In(conn', Opened)) = Cardinality(In(conn, Opened))
        /\ Cardinality(In(conn', Awaiting)) = Cardinality(In(conn, Awaiting))
    BY <2>1, StepCounts DEF IInv, Opened, Awaiting, States
  <2>4. Counted'
    BY <2>2, <2>3 DEF StepFacts, IInv, TypeOK, Counted
  <2>5. (activeClients = Cardinality(Holding) /\ activeClients <= MaxClients)'
    BY <2>2, <2>3, GatewayAssumption DEF StepFacts, IInv, TypeOK, CountsExact
  <2>6. CountsExact'
    BY <2>1, <2>5 DEF IInv, TypeOK, CountsExact, Become
  <2>7. (emitted \subseteq AllEvents /\ published \subseteq AllEvents)'
    BY EventsAreEvents DEF IInv, TypeOK
  <2>8. TypeOK'
    BY <2>2, <2>4, <2>5, <2>6, <2>7, CountsAreBounded, GatewayAssumption
      DEF StepFacts, IInv, TypeOK, Counted, CountsExact
  <2>9. Entered' /\ EventsPaired'
    BY <2>1 DEF IInv, TypeOK, Entered, EventsPaired, CancelledAtEnd, Become, endVars
  <2> QED
    BY <2>2, <2>4, <2>6, <2>8, <2>9 DEF StepFacts, IInv
<1> QED
  BY <1>1, <1>2, <1>3, <1>4, <1>5

\* What the tarpit does with it.
LEMMA TarpitKeepsIInv ==
    ASSUME IInv, NEW c \in Conns,
           Trap(c) \/ TurnAway(c) \/ Release(c) \/ Exit(c) \/ ExitCancelled(c)
    PROVE  IInv'
<1>1. CASE Trap(c)
  <2> USE <1>1 DEF Trap, Resume, gateVars, tarpitVars, eventVars
  <2>1. "trapped" \in States /\ Become(c, "trapped") /\ UNCHANGED endVars /\ conn[c] = "received"
    BY DEF States
  <2>2. StepFacts
    BY <2>1, StepHasFacts
  <2>3. /\ Cardinality(Holding') = Cardinality(Holding) + 1
        /\ Cardinality(In(conn', Opened)) = Cardinality(In(conn, Opened))
        /\ Cardinality(In(conn', Awaiting)) = Cardinality(In(conn, Awaiting)) - 1
    BY <2>1, StepCounts DEF IInv, Opened, Awaiting, States
  <2>4. Counted'
    BY <2>2, <2>3 DEF StepFacts, IInv, TypeOK, Counted
  <2>5. (activeClients = Cardinality(Holding) /\ activeClients <= MaxClients)'
    BY <2>2, <2>3, GatewayAssumption DEF StepFacts, IInv, TypeOK, CountsExact
  <2>6. CountsExact'
    BY <2>1, <2>5 DEF IInv, TypeOK, CountsExact, Become
  <2>7. (emitted \subseteq AllEvents /\ published \subseteq AllEvents)'
    BY EventsAreEvents DEF IInv, TypeOK, Emit
  <2>8. TypeOK'
    BY <2>2, <2>4, <2>5, <2>6, <2>7, CountsAreBounded, GatewayAssumption
      DEF StepFacts, IInv, TypeOK, Counted, CountsExact
  <2>9. Entered' /\ EventsPaired'
    BY <2>1 DEF IInv, TypeOK, Entered, EventsPaired, CancelledAtEnd, Become, endVars, Emit
  <2> QED
    BY <2>2, <2>4, <2>6, <2>8, <2>9 DEF StepFacts, IInv
<1>2. CASE TurnAway(c)
  <2> USE <1>2 DEF TurnAway, Resume, Leave, gateVars, tarpitVars, eventVars
  <2>1. "closing" \in States /\ Become(c, "closing") /\ UNCHANGED endVars /\ conn[c] = "received"
    BY DEF States
  <2>2. StepFacts
    BY <2>1, StepHasFacts
  <2>3. /\ Cardinality(Holding') = Cardinality(Holding)
        /\ Cardinality(In(conn', Opened)) = Cardinality(In(conn, Opened))
        /\ Cardinality(In(conn', Awaiting)) = Cardinality(In(conn, Awaiting)) - 1
    BY <2>1, StepCounts DEF IInv, Opened, Awaiting, States
  <2>4. Counted'
    BY <2>2, <2>3 DEF StepFacts, IInv, TypeOK, Counted
  <2>5. (activeClients = Cardinality(Holding) /\ activeClients <= MaxClients)'
    BY <2>2, <2>3, GatewayAssumption DEF StepFacts, IInv, TypeOK, CountsExact
  <2>6. CountsExact'
    BY <2>1, <2>5 DEF IInv, TypeOK, CountsExact, Become
  <2>7. (emitted \subseteq AllEvents /\ published \subseteq AllEvents)'
    BY EventsAreEvents DEF IInv, TypeOK
  <2>8. TypeOK'
    BY <2>2, <2>4, <2>5, <2>6, <2>7, CountsAreBounded, GatewayAssumption
      DEF StepFacts, IInv, TypeOK, Counted, CountsExact
  <2>9. Entered' /\ EventsPaired'
    BY <2>1 DEF IInv, TypeOK, Entered, EventsPaired, CancelledAtEnd, Become, endVars
  <2> QED
    BY <2>2, <2>4, <2>6, <2>8, <2>9 DEF StepFacts, IInv
<1>3. CASE Release(c)
  <2> USE <1>3 DEF Release, Resume, gateVars, tarpitVars, eventVars
  <2>1. "releasing" \in States /\ Become(c, "releasing") /\ UNCHANGED endVars /\ conn[c] = "trapped"
    BY DEF States
  <2>2. StepFacts
    BY <2>1, StepHasFacts
  <2>3. /\ Cardinality(Holding') = Cardinality(Holding) - 1
        /\ Cardinality(In(conn', Opened)) = Cardinality(In(conn, Opened))
        /\ Cardinality(In(conn', Awaiting)) = Cardinality(In(conn, Awaiting))
    BY <2>1, StepCounts DEF IInv, Opened, Awaiting, States
  <2>4. Counted'
    BY <2>2, <2>3 DEF StepFacts, IInv, TypeOK, Counted
  <2>5. (activeClients = Cardinality(Holding) /\ activeClients <= MaxClients)'
    BY <2>2, <2>3, GatewayAssumption DEF StepFacts, IInv, TypeOK, CountsExact
  <2>6. CountsExact'
    BY <2>1, <2>5 DEF IInv, TypeOK, CountsExact, Become
  <2>7. (emitted \subseteq AllEvents /\ published \subseteq AllEvents)'
    BY EventsAreEvents DEF IInv, TypeOK
  <2>8. TypeOK'
    BY <2>2, <2>4, <2>5, <2>6, <2>7, CountsAreBounded, GatewayAssumption
      DEF StepFacts, IInv, TypeOK, Counted, CountsExact
  <2>9. Entered' /\ EventsPaired'
    BY <2>1 DEF IInv, TypeOK, Entered, EventsPaired, CancelledAtEnd, Become, endVars
  <2> QED
    BY <2>2, <2>4, <2>6, <2>8, <2>9 DEF StepFacts, IInv
<1>4. CASE Exit(c)
  <2> USE <1>4 DEF Exit, Resume, Leave, gateVars, tarpitVars, eventVars
  <2>1. "closing" \in States /\ Become(c, "closing") /\ UNCHANGED endVars /\ conn[c] = "releasing"
    BY DEF States
  <2>2. StepFacts
    BY <2>1, StepHasFacts
  <2>3. /\ Cardinality(Holding') = Cardinality(Holding)
        /\ Cardinality(In(conn', Opened)) = Cardinality(In(conn, Opened))
        /\ Cardinality(In(conn', Awaiting)) = Cardinality(In(conn, Awaiting))
    BY <2>1, StepCounts DEF IInv, Opened, Awaiting, States
  <2>4. Counted'
    BY <2>2, <2>3 DEF StepFacts, IInv, TypeOK, Counted
  <2>5. (activeClients = Cardinality(Holding) /\ activeClients <= MaxClients)'
    BY <2>2, <2>3, GatewayAssumption DEF StepFacts, IInv, TypeOK, CountsExact
  <2>6. CountsExact'
    BY <2>1, <2>5 DEF IInv, TypeOK, CountsExact, Become
  <2>7. (emitted \subseteq AllEvents /\ published \subseteq AllEvents)'
    BY EventsAreEvents DEF IInv, TypeOK, Emit
  <2>8. TypeOK'
    BY <2>2, <2>4, <2>5, <2>6, <2>7, CountsAreBounded, GatewayAssumption
      DEF StepFacts, IInv, TypeOK, Counted, CountsExact
  <2>9. Entered' /\ EventsPaired'
    BY <2>1 DEF IInv, TypeOK, Entered, EventsPaired, CancelledAtEnd, Become, endVars, Emit
  <2> QED
    BY <2>2, <2>4, <2>6, <2>8, <2>9 DEF StepFacts, IInv
<1>5. CASE ExitCancelled(c)
  <2> USE <1>5 DEF ExitCancelled, Resume, Leave, gateVars, tarpitVars, eventVars
  <2>1. "closing" \in States /\ Become(c, "closing") /\ UNCHANGED endVars /\ conn[c] = "releasing"
    BY DEF States
  <2>2. StepFacts
    BY <2>1, StepHasFacts
  <2>3. /\ Cardinality(Holding') = Cardinality(Holding)
        /\ Cardinality(In(conn', Opened)) = Cardinality(In(conn, Opened))
        /\ Cardinality(In(conn', Awaiting)) = Cardinality(In(conn, Awaiting))
    BY <2>1, StepCounts DEF IInv, Opened, Awaiting, States
  <2>4. Counted'
    BY <2>2, <2>3 DEF StepFacts, IInv, TypeOK, Counted
  <2>5. (activeClients = Cardinality(Holding) /\ activeClients <= MaxClients)'
    BY <2>2, <2>3, GatewayAssumption DEF StepFacts, IInv, TypeOK, CountsExact
  <2>6. CountsExact'
    BY <2>1, <2>5 DEF IInv, TypeOK, CountsExact, Become
  <2>7. (emitted \subseteq AllEvents /\ published \subseteq AllEvents)'
    BY EventsAreEvents DEF IInv, TypeOK
  <2>8. TypeOK'
    BY <2>2, <2>4, <2>5, <2>6, <2>7, CountsAreBounded, GatewayAssumption
      DEF StepFacts, IInv, TypeOK, Counted, CountsExact
  <2>9. Entered' /\ EventsPaired'
    BY <2>1 DEF IInv, TypeOK, Entered, EventsPaired, CancelledAtEnd, Become, endVars
  <2> QED
    BY <2>2, <2>4, <2>6, <2>8, <2>9 DEF StepFacts, IInv
<1> QED
  BY <1>1, <1>2, <1>3, <1>4, <1>5

LEMMA PhaseKeepsIInv ==
    ASSUME IInv, Start \/ Stop \/ LoopEnds \/ UNCHANGED vars
    PROVE  IInv'
<1>1. UNCHANGED <<conn, gateVars, tarpitVars, eventVars>>
  BY DEF Start, Stop, LoopEnds, vars, gateVars, tarpitVars, eventVars
<1>2. Holding' = Holding /\ UNCHANGED Counted
  BY <1>1 DEF Holding, Counted, In, gateVars, tarpitVars
<1>3. Counted' /\ CountsExact' /\ Entered'
  <2>1. Counted'
    BY <1>2 DEF IInv
  <2>2. CountsExact'
    BY <1>1, <1>2 DEF IInv, CountsExact, gateVars, tarpitVars
  <2>3. Entered'
    BY <1>1 DEF IInv, Entered, eventVars
  <2> QED
    BY <2>1, <2>2, <2>3
<1>4. TypeOK'
  BY <1>1 DEF IInv, TypeOK, Start, Stop, LoopEnds, vars, gateVars, tarpitVars, eventVars
<1>5. CancelledAtEnd' /\ EventsPaired'
  BY <1>1 DEF IInv, TypeOK, CancelledAtEnd, EventsPaired, Start, Stop, LoopEnds, vars, eventVars
<1> QED
  BY <1>3, <1>4, <1>5 DEF IInv

LEMMA NextIInv == IInv /\ [Next]_vars => IInv'
<1> SUFFICES ASSUME IInv, [Next]_vars PROVE IInv'
  OBVIOUS
<1>1. CASE \E c \in Conns : ConnStep(c)
  <2> PICK c \in Conns : ConnStep(c)
    BY <1>1
  <2> QED
    BY ArrivalKeepsIInv, GatewayKeepsIInv, TarpitKeepsIInv DEF ConnStep
<1>2. CASE Start \/ Stop \/ LoopEnds \/ UNCHANGED vars
  BY <1>2, PhaseKeepsIInv
<1> QED
  BY <1>1, <1>2 DEF Next

(***************************************************************************)
(* Theorems                                                                *)
(***************************************************************************)
\* The inductive invariant holds in every reachable state.
THEOREM IInvHolds == Spec => []IInv
BY InitIInv, NextIInv, PTL DEF Spec

\* No more connections are counted than were made, and no more sessions trapped
\* than were opened.
THEOREM TypeCorrect == Spec => []TypeOK
<1>1. IInv => TypeOK
  BY DEF IInv
<1> QED
  BY <1>1, IInvHolds, PTL

\* The tarpit holds exactly the slots of the connections it is feeding, at most
\* max_clients, and the gateway's table is exact, for any number of connections.
THEOREM CountsExactHolds == Spec => []CountsExact
<1>1. IInv => CountsExact
  BY DEF IInv
<1> QED
  BY <1>1, IInvHolds, PTL

\* Every session that is over has its exit event, unless the end of the process
\* cancelled the wait that comes before it.
THEOREM EventsPairedHolds == Spec => []EventsPaired
<1>1. IInv => EventsPaired
  BY DEF IInv
<1> QED
  BY <1>1, IInvHolds, PTL
===============================================================================
