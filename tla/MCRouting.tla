------------------------------ MODULE MCRouting ------------------------------
(***************************************************************************)
(* The rules of config/default.yaml over small frequencies: its thresholds *)
(* of 10 and 15 connections are 2 and 3 here.  A rule and a signature of   *)
(* the operator's own are added: SOAP requests to port 8080 are blocked.   *)
(***************************************************************************)
EXTENDS Routing

CONSTANTS alice, bob, walt  \* hosts; bob and walt are blacklisted, walt whitelisted too

Protocol(p) == [type |-> "protocol_match", value |-> p]
Score(n) == [type |-> "score_threshold", value |-> n]
Frequency(n) == [type |-> "frequency_threshold", value |-> n]
Tag(t) == [type |-> "tag_match", value |-> {t}]
Port(n) == [type |-> "port_match", value |-> n]
Listed == [type |-> "ip_match", value |-> Blacklist]

Rule(priority, conditions, action, target) ==
    [priority |-> priority, conditions |-> conditions, action |-> action,
     target |-> target]

DefaultRules ==
    << Rule(100, {Protocol("ssh"), Frequency(2)}, "route_to_external", "endlessh"),
       Rule(85, {Protocol("ssh"), Score(30)}, "route_to_external", "cowrie"),
       Rule(84, {Protocol("telnet"), Score(30)}, "route_to_external", "cowrie"),
       Rule(80, {Protocol("http"), Score(30)}, "route_to_external", "snare"),
       Rule(95, {Frequency(3)}, "route_to_tarpit", "tarpit"),
       Rule(90, {Listed}, "route_to_external", "endlessh"),
       Rule(0, {}, "log_only", "") >>

ConfiguredRules == Append(DefaultRules, Rule(86, {Tag("soap"), Port(8080)}, "block", ""))

OwnSignatures == << Signature("own_soap", "*", 30, {"soap"}) >>

Payload(start, finds, long, binary) ==
    [start |-> start, finds |-> finds, long |-> long, binary |-> binary]

\* What the tests and the shipped signatures tell apart: a banner, a Telnet
\* negotiation, an attack whose signatures add up to more than 100, a long SOAP
\* request, a harmless one, a client hello and nothing at all.
FirstBytes ==
    { Payload("SSH-", {"ssh_brute_force"}, FALSE, FALSE),
      Payload("IAC", {"telnet_connection"}, FALSE, TRUE),
      Payload("method", {"http_path_scan_env", "http_sql_injection"}, FALSE, FALSE),
      Payload("method", {"own_soap"}, TRUE, FALSE),
      Payload("method", {}, FALSE, FALSE),
      Payload("client hello", {"telnet_connection"}, FALSE, TRUE),
      Payload("empty", {}, FALSE, FALSE) }

\* As tests/test_analyzer.py has it, an empty connection is a probe and a long
\* payload is marked; the scores follow from the table, with a signature
\* counting for its own protocol only.
ASSUME KnownScores ==
    \A payload \in FirstBytes :
        LET protocol == DetectProtocol(payload)
            found == RunSignatures(payload, protocol)
        IN  /\ protocol = "ssh" => found.score = 20 /\ "scan" \in found.tags
            /\ "http_sql_injection" \in payload.finds => found.score = 100
            /\ protocol = "tls" => found.score = 0 /\ ContentScore(payload) = 15
            /\ payload.long <=> "large_payload" \in ContentTags(payload)
            /\ payload.start = "empty" => ContentTags(payload) = {"port_scan_probe"}

\* The theorems about Routing that ask something of the configuration speak of
\* this one.
ASSUME Configuration == EscalatingRules /\ NaturalScores

\* With the shipped rules Cowrie is shown exactly the SSH and Telnet traffic that
\* scores 30 or more, of addresses that are neither listed nor flooding.  The rules
\* for blacklisted and flooding addresses come first, though README.md lists them
\* behind; and flooding begins where the analyzer says so, also for the rule whose
\* own threshold is higher.
CowrieReached ==
    Routed => LET a == last.analysis
              IN  last.goes \in {"cowrie ssh", "cowrie telnet"} <=>
                      /\ a.protocol \in {"ssh", "telnet"}
                      /\ a.score >= 30
                      /\ a.ip \notin Whitelist \cup Blacklist
                      /\ ~a.high
=============================================================================
