--------------------------- MODULE ContentAnalysis ---------------------------
(***************************************************************************)
(* What gateway/protocol.py, analyzer/signatures.py, heuristics.py and     *)
(* engine.py make of the first bytes of a connection, apart from the       *)
(* frequency of its address.  No state: the operators are functions.       *)
(*                                                                         *)
(* Bytes are abstracted to what these functions tell apart.  A payload is  *)
(* a record of how it starts, the names of the signatures whose pattern    *)
(* occurs in it, whether it is longer than 2048 bytes and whether less     *)
(* than half of it is printable.                                           *)
(***************************************************************************)
EXTENDS Integers, Sequences, FiniteSets, FiniteSetsExt

CONSTANTS ExtraSignatures,        \* of the signature file and add_signature()
          Enabled,                \* which of the analyzer's enable_ options are set
          Medium, High, Critical  \* analyzer.threat_thresholds

ASSUME ContentAssumption ==
    /\ Enabled \subseteq {"signatures", "frequency", "heuristics"}
    /\ Medium \in Int /\ High \in Int /\ Critical \in Int

Signature(name, protocol, score, tags) ==
    [name |-> name, protocol |-> protocol, score |-> score, tags |-> tags]

DefaultSignatures ==
    << Signature("ssh_brute_force", "ssh", 20, {"ssh", "scan"}),
       Signature("http_path_scan_admin", "http", 40, {"http", "scan", "admin_access"}),
       Signature("http_path_scan_env", "http", 50, {"http", "scan", "sensitive_file"}),
       Signature("http_path_scan_config", "http", 45, {"http", "scan", "sensitive_file"}),
       Signature("http_sql_injection", "http", 70, {"http", "injection", "sql"}),
       Signature("http_xss_attempt", "http", 60, {"http", "injection", "xss"}),
       Signature("http_scanner_ua", "http", 55, {"http", "scanner", "known_tool"}),
       Signature("http_path_traversal", "http", 65, {"http", "traversal"}),
       Signature("telnet_connection", "telnet", 15, {"telnet", "scan"}),
       Signature("http_webshell_scan", "http", 60, {"http", "scan", "webshell"}),
       Signature("http_wordpress_scan", "http", 35, {"http", "scan", "wordpress"}),
       Signature("http_phpmyadmin_scan", "http", 40, {"http", "scan", "phpmyadmin"}) >>

Signatures == DefaultSignatures \o ExtraSignatures

\* detect_protocol(), which knows a protocol by how its first message starts.
DetectProtocol(payload) == CASE payload.start = "SSH-"         -> "ssh"
                             [] payload.start = "client hello" -> "tls"
                             [] payload.start = "IAC"          -> "telnet"
                             [] payload.start = "method"       -> "http"
                             [] OTHER                          -> "raw"

AtMost100(score) == IF score < 100 THEN score ELSE 100

\* _run_signatures(): those of the protocol, and those of every protocol.
RunSignatures(payload, protocol) ==
    LET hit == {i \in DOMAIN Signatures :
                   /\ Signatures[i].protocol \in {protocol, "*"}
                   /\ Signatures[i].name \in payload.finds}
    IN  [score |-> AtMost100(MapThenSumSet(LAMBDA i : Signatures[i].score, hit)),
         tags  |-> UNION {Signatures[i].tags : i \in hit}]

Finding(holds, score, tag) ==
    IF holds THEN [score |-> score, tags |-> {tag}] ELSE [score |-> 0, tags |-> {}]

\* analyze_heuristics()
AnalyzeHeuristics(payload) ==
    LET found == << Finding(payload.long, 20, "large_payload"),
                    Finding(payload.start = "empty", 25, "port_scan_probe"),
                    Finding(payload.binary, 15, "binary_payload") >>
    IN  [score |-> MapThenSumSet(LAMBDA i : found[i].score, DOMAIN found),
         tags  |-> UNION {found[i].tags : i \in DOMAIN found}]

\* The parts of analyze() that look at the payload.
ContentScore(payload) ==
      (IF "signatures" \in Enabled
       THEN RunSignatures(payload, DetectProtocol(payload)).score ELSE 0)
    + (IF "heuristics" \in Enabled THEN AnalyzeHeuristics(payload).score ELSE 0)

ContentTags(payload) ==
         (IF "signatures" \in Enabled
          THEN RunSignatures(payload, DetectProtocol(payload)).tags ELSE {})
    \cup (IF "heuristics" \in Enabled THEN AnalyzeHeuristics(payload).tags ELSE {})

\* _calculate_level(): low is 0, medium 1, high 2, critical 3.
ThreatLevel(score) == IF score >= Critical THEN 3
                      ELSE IF score >= High THEN 2
                      ELSE IF score >= Medium THEN 1 ELSE 0
=============================================================================
