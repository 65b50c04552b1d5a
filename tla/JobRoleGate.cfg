SPECIFICATION Spec
CONSTANTS
    inv = inv
    inv2 = inv2
    pack = pack
    x = x
    y = y
    Docs = {inv, pack}
    Role <- RoleInvoicePacking
    File <- FileInvoicePacking
    Clients = {c1, c2}
    Contents = {x}
    Shown <- ShownOne
    Ops = {"upload", "extract", "decide", "review"}
    Answers = {"ready"}
    Strict = FALSE
    MaxRev = 0
    None = None
CHECK_DEADLOCK FALSE
INVARIANTS
    NoUnconfirmedDocument
