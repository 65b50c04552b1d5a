SPECIFICATION FairSpec
CONSTANTS
    Threads = {t1, t2, t3}
    Jobs = {j1, j2}
    LockObjs = {l1, l2, l3}
    NoThread = NoThread
    NoLock = NoLock
    NoJob = NoJob
INVARIANTS
    TypeOK
    MutualExclusion
    EntryMatchesUse
    IndInv
PROPERTIES
    JobNotWedged
    ImplementsJobMutex
