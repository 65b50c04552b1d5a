SPECIFICATION FairSpec
CONSTANTS
    Docs = {d}
    Msgs = {m1, m2}
    Producers = {p1}
    Workers = {w1, w2}
    MaxReceive = 2
    Kinds = {"ok", "unsupported", "malformed"}
    Faults = {"crash", "heartbeat", "delete", "send", "api", "commit"}
    None = None
CHECK_DEADLOCK FALSE
INVARIANTS
    TypeOK
    ClaimHasBearer
    IndInv
PROPERTIES
    ClaimSettles
