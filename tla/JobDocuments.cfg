SPECIFICATION FairSpec
CONSTANTS
    inv = inv
    inv2 = inv2
    pack = pack
    x = x
    y = y
    Docs = {inv, inv2}
    Role <- RoleTwins
    File <- FileTwins
    Clients = {c1, c2}
    Contents = {x}
    Shown <- ShownOne
    Ops = {"upload", "reupload", "extract", "decide", "remove", "restart"}
    Answers = {"ready"}
    Strict = FALSE
    MaxRev = 0
    None = None
CHECK_DEADLOCK FALSE
INVARIANTS
    ClaimHasRun
PROPERTIES
    ClaimReleased
