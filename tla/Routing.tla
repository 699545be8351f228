------------------------------- MODULE Routing -------------------------------
(***************************************************************************)
(* Where a connection goes: the sliding window of analyzer/frequency.py,   *)
(* the score of analyzer/engine.py, the rule chain of router/dispatcher.py *)
(* and router/rules.py, and the destinations of app.py.  Analysing and     *)
(* routing a connection do not suspend and are one step.                   *)
(*                                                                         *)
(* What is read from the first bytes is in ContentAnalysis.  The clock may *)
(* advance between the two times that analyze() looks at it.               *)
(***************************************************************************)
EXTENDS ContentAnalysis, SequencesExt

CONSTANTS IPs,        \* remote hosts
          Payloads,   \* first bytes, as in ContentAnalysis
          Ports,      \* local ports
          Window,     \* analyzer.frequency.window_seconds
          Threshold,  \* analyzer.frequency.threshold
          Rules,      \* router.rules, in the order of the configuration
          Blacklist,  \* addresses in router.ip_blacklist or a network of it
          Whitelist,  \* addresses in router.ip_whitelist
          MaxConns,   \* bound on the connections
          MaxTime     \* bound on the clock

ASSUME RoutingAssumption ==
    /\ Window \in Nat
    /\ Threshold \in Nat \ {0}
    /\ MaxConns \in Nat
    /\ MaxTime \in Nat
    /\ Rules \in Seq(Range(Rules))
    /\ \A rule \in Range(Rules) :
          /\ rule.priority \in Int
          /\ \A cond \in rule.conditions :
                cond.type \in {"score_threshold", "frequency_threshold"} => cond.value \in Int

VARIABLES now,      \* the clock
          records,  \* _records: times of the connections of each address
          made,     \* history: all connections, [ip, at]
          last      \* the connection routed last, and how

vars == <<now, records, made, last>>

Destinations == {"none", "tarpit", "cowrie ssh", "cowrie telnet", "endlessh"}

TypeOK == /\ now \in 0..MaxTime
          /\ records \in [IPs -> Seq(0..MaxTime)]
          /\ made \in Seq([ip : IPs, at : 0..MaxTime])
          /\ made # <<>> =>
                /\ last.analysis.count \in 0..MaxConns
                /\ last.scored \in 0..last.analysis.count
                /\ last.analysis.score \in 0..100
                /\ last.goes \in Destinations

Init == /\ now = 0
        /\ records = [ip \in IPs |-> <<>>]
        /\ made = <<>>
        /\ last = <<>>

(***************************************************************************)
(* analyzer/                                                               *)
(***************************************************************************)
\* Mutant: at most one old record is popped.
CleanedOnce(times, at) ==
    IF times # <<>> /\ Head(times) < at - Window THEN Tail(times) ELSE times

\* _cleanup() pops the oldest record as long as it lies before the window; an
\* address without records is taken out of the dictionary.
Cleaned(times, at) ==
    LET fresh == SelectInSeq(times, LAMBDA t : t >= at - Window)
    IN  IF fresh = 0 THEN <<>> ELSE SubSeq(times, fresh, Len(times))

\* record()
Recorded(ip) == Cleaned(Append(records[ip], now), now)

\* Mutant: the ratio is the wrong way round.
FrequencyScoreInverted(count) ==
    IF count >= Threshold THEN 50 + (30 * Threshold) \div count
                          ELSE (40 * count) \div Threshold

\* get_frequency_score(); truncating the product is dividing integers.
FrequencyScore(count) ==
    IF count >= Threshold THEN 50 + (IF count >= 3 * Threshold THEN 90
                                     ELSE (30 * count) \div Threshold)
                          ELSE (40 * count) \div Threshold

Content == [payload \in Payloads |-> [protocol |-> DetectProtocol(payload),
                                      score |-> ContentScore(payload),
                                      tags |-> ContentTags(payload)]]

\* Mutant: the sum of the scores is not limited.
AnalysisUnlimited(ip, payload, port, count, scored) ==
    LET sum == Content[payload].score + FrequencyScore(scored)
    IN  [ip |-> ip, protocol |-> Content[payload].protocol, local_port |-> port,
         count |-> count, high |-> count >= Threshold, score |-> sum,
         level |-> ThreatLevel(sum), tags |-> Content[payload].tags]

\* The result of analyze() when the address has count records as the connection
\* is recorded, and scored when its frequency is scored.
Analysis(ip, payload, port, count, scored) ==
    LET frequency == IF "frequency" \in Enabled THEN FrequencyScore(scored) ELSE 0
        score == AtMost100(Content[payload].score + frequency)
    IN  [ip |-> ip, protocol |-> Content[payload].protocol, local_port |-> port,
         count |-> count, high |-> "frequency" \in Enabled /\ count >= Threshold,
         score |-> score, level |-> ThreatLevel(score), tags |-> Content[payload].tags]

(***************************************************************************)
(* router/ and the destinations of app.py                                  *)
(***************************************************************************)
\* evaluate_condition(); a frequency that the analyzer calls high satisfies a
\* threshold whatever its value.
Holds(cond, a) ==
    CASE cond.type = "protocol_match"      -> a.protocol = cond.value
      [] cond.type = "score_threshold"     -> a.score >= cond.value
      [] cond.type = "frequency_threshold" -> a.high \/ a.count >= cond.value
      [] cond.type = "tag_match"           -> a.tags \cap cond.value # {}
      [] cond.type = "ip_match"            -> a.ip \in cond.value
      [] cond.type = "port_match"          -> a.local_port = cond.value
      [] OTHER                             -> FALSE

Matches(rule, a) == \A cond \in rule.conditions : Holds(cond, a)

\* Mutant: the rules keep the order of the configuration.
BeforeUnsorted(i, j) == i < j

\* The rules are sorted by falling priority; equal ones keep their order.
Before(i, j) == \/ Rules[i].priority > Rules[j].priority
                \/ Rules[i].priority = Rules[j].priority /\ i < j

LogOnly == [action |-> "log_only", target |-> ""]

\* route(): whitelisted addresses are only logged, others take the first rule
\* all of whose conditions hold.
Route(a) ==
    LET matching == {i \in DOMAIN Rules : Matches(Rules[i], a)}
    IN  IF a.ip \in Whitelist \/ matching = {}
        THEN LogOnly
        ELSE Rules[CHOOSE i \in matching : \A j \in matching \ {i} : Before(i, j)]

\* EXTERNAL_HONEYPOT_PORT_MAP as _setup_external_port_map() fills it with Cowrie
\* and Endlessh enabled and SNARE not.
PortMap(target) == CASE target \in {"cowrie", "cowrie_ssh"} -> "cowrie ssh"
                     [] target = "cowrie_telnet" -> "cowrie telnet"
                     [] target = "endlessh" -> "endlessh"
                     [] OTHER -> "none"

\* Where _handle_connection() of app.py sends a connection on a decision of the
\* router, with the tarpit in the registry and no other honeypot.
Reached(d) == CASE d.action = "route_to_external" -> PortMap(d.target)
                [] d.action = "route_to_tarpit" -> "tarpit"
                [] d.action = "route_to_honeypot" ->
                      IF d.target = "tarpit" THEN "tarpit" ELSE "none"
                [] OTHER -> "none"

Destination(a) == Reached(Route(a))

Connect(ip, payload, port) ==
    /\ Len(made) < MaxConns
    /\ \E later \in {t \in {now, now + 1} : t <= MaxTime} :
          LET kept == Cleaned(Recorded(ip), later)
              tracked == "frequency" \in Enabled
              count == IF tracked THEN Len(Recorded(ip)) ELSE 0
              scored == IF tracked THEN Len(kept) ELSE 0
              a == Analysis(ip, payload, port, count, scored)
          IN  /\ now' = later
              /\ records' = IF tracked THEN [records EXCEPT ![ip] = kept] ELSE records
              /\ last' = [payload |-> payload, analysis |-> a, scored |-> scored,
                          goes |-> Destination(a)]
    /\ made' = Append(made, [ip |-> ip, at |-> now])

\* cleanup_all() and get_top_ips(), which app.py does not call.  Taking an address
\* out of the dictionary ends the iteration over it with a RuntimeError, before
\* the addresses that come later have been cleaned.
Sweep ==
    LET empties == {ip \in IPs : records[ip] # <<>> /\ Cleaned(records[ip], now) = <<>>}
    IN  /\ \E done \in SUBSET IPs :
              /\ IF empties = {} THEN done = IPs ELSE Cardinality(done \cap empties) = 1
              /\ records' = [ip \in IPs |-> IF ip \in done THEN Cleaned(records[ip], now)
                                                           ELSE records[ip]]
        /\ UNCHANGED <<now, made, last>>

Tick == /\ now < MaxTime
        /\ now' = now + 1
        /\ UNCHANGED <<records, made, last>>

Next == \/ Tick
        \/ Sweep
        \/ \E ip \in IPs, payload \in Payloads, port \in Ports :
              Connect(ip, payload, port)

Spec == Init /\ [][Next]_vars

(***************************************************************************)
(* Properties                                                              *)
(***************************************************************************)
Routed == made # <<>>

\* The count a connection is judged by is the number of connections that its
\* address made within the window, itself included: popping old records from
\* the front only is enough, and neither another address nor a sweep that ends
\* halfway disturbs it.
WindowExact ==
    Routed /\ "frequency" \in Enabled =>
        LET this == made[Len(made)]
        IN  last.analysis.count = Cardinality({i \in DOMAIN made :
                /\ made[i].ip = this.ip
                /\ made[i].at >= this.at - Window})

\* How firmly a destination holds a connection.
Grip(goes) == CASE goes = "none" -> 0
                [] goes \in {"cowrie ssh", "cowrie telnet"} -> 1
                [] OTHER -> 2

\* A condition that more connections, or a higher score, can only fulfil.
Rising(cond) == cond.type \in {"score_threshold", "frequency_threshold"}

\* Rules that escalate: one that more connections bring into effect holds no less
\* firmly than those that come after it.
EscalatingRules ==
    \A i, j \in DOMAIN Rules :
        /\ i # j /\ Rules[i].priority >= Rules[j].priority
        /\ \E cond \in Rules[i].conditions : Rising(cond)
        => Grip(Reached(Rules[i])) >= Grip(Reached(Rules[j]))

\* Scores add up to numbers: those of the signature file are.
IntegerScores == \A payload \in Payloads : Content[payload].score \in Int
NaturalScores == \A payload \in Payloads : Content[payload].score \in Nat

\* With the rules of config/default.yaml the response escalates: with fewer
\* connections of its address in the window, the same first bytes would not
\* have been judged more dangerous, nor been held more firmly.
Escalation ==
    Routed => \A n \in 1..last.scored :
        LET b == Analysis(last.analysis.ip, last.payload, last.analysis.local_port, n, n)
        IN  /\ b.level <= last.analysis.level
            /\ Grip(Destination(b)) <= Grip(last.goes)

\* README.md lists Telnet traffic as routed to Cowrie, and the configuration
\* gives Cowrie a telnet_port: a Telnet connection that goes to Cowrie goes to
\* the port where Cowrie speaks Telnet.
TelnetFits ==
    Routed /\ last.analysis.protocol = "telnet" => last.goes # "cowrie ssh"
=============================================================================
