SPECIFICATION Spec
CONSTANTS
    inv = inv
    inv2 = inv2
    pack = pack
    x = x
    y = y
    Docs = {inv, inv2}
    Role <- RoleTwins
    File <- FileInvoices
    Clients = {c1, c2}
    Contents = {x, y}
    Shown <- ShownSame
    Ops = {"upload", "extract", "remove", "review", "confirm"}
    Answers = {"ready"}
    Strict = FALSE
    MaxRev = 0
    None = None
CHECK_DEADLOCK FALSE
INVARIANTS
    ConfirmedEvidenceWasShown
