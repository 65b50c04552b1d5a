SPECIFICATION Spec
CONSTANTS
    inv = inv
    inv2 = inv2
    pack = pack
    x = x
    y = y
    Docs = {inv}
    Role <- RoleInvoice
    File <- FileInvoice
    Clients = {c1, c2}
    Contents = {x}
    Shown <- ShownOne
    Ops = {"upload", "extract", "review", "confirm", "mutate", "regime"}
    Answers = {"blockers", "miscount"}
    Strict = FALSE
    MaxRev = 1
    None = None
SYMMETRY Symmetric
CHECK_DEADLOCK FALSE
INVARIANTS
    ConfirmedEntriesWereShown
