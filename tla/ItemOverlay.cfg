SPECIFICATION Spec
CONSTANTS
    MaxItems = 2
    Lineages = {l1}
    ManualIds = {m1}
    Countries = {"CN"}
    Codes = {h1}
    Requests <- MCRequests
    Totals = {t1}
    MaxVersion = 2
    MaxRevision = 3
    None = None
INVARIANTS
    TypeOK
    MutationsAccepted
    EntriesOfActiveRows
    NetBelowGross
    IndInv
PROPERTIES
    RevisionTellsChange
    LossIsAnnounced
    ImplementsItemTable
