SPECIFICATION Spec
CONSTANTS
    alice = alice
    bob = bob
    walt = walt
    IPs = {alice, bob, walt}
    Payloads <- FirstBytes
    Ports = {2222, 8080}
    ExtraSignatures <- OwnSignatures
    Enabled = {"signatures", "frequency", "heuristics"}
    Medium = 30
    High = 60
    Critical = 85
    Window = 2
    Threshold = 2
    Rules <- ConfiguredRules
    Blacklist = {bob, walt}
    Whitelist = {walt}
    MaxConns = 4
    MaxTime = 3
INVARIANTS TypeOK WindowExact Escalation CowrieReached
CHECK_DEADLOCK FALSE
