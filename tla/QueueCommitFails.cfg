SPECIFICATION Spec
CONSTANTS
    Docs = {d}
    Msgs = {m1, m2}
    Producers = {p1}
    Workers = {w1, w2}
    MaxReceive = 2
    Kinds = {"ok"}
    Faults = {"commit"}
    None = None
CHECK_DEADLOCK FALSE
INVARIANTS
    OnlyTheApiLosesClaims
