SPECIFICATION Spec
CONSTANTS
    inv = inv
    inv2 = inv2
    pack = pack
    x = x
    y = y
    Docs = {inv, pack}
    Role <- RoleInvoicePacking
    File <- FileInvoicePacking
    Clients = {c1, c2}
    Contents = {x}
    Shown <- ShownOne
    Ops = {"upload", "extract", "decide", "remove", "finalize", "mutate", "bms"}
    Answers = {"ready", "hard"}
    Strict = FALSE
    MaxRev = 1
    None = None
SYMMETRY Symmetric
CHECK_DEADLOCK FALSE
INVARIANTS
    TypeOK
    DerivedIsCurrent
    EntriesFitEvidence
