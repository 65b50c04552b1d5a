------------------------------ MODULE JobLock -------------------------------
(***************************************************************************)
(* The in-process job lock of services.py (_in_process_job_lock): a        *)
(* dictionary job id -> threading.Lock whose entries are dropped again     *)
(* when a reference count says that nobody holds or awaits them.           *)
(*                                                                         *)
(* The hazard is the dropping.  A thread keeps its lock OBJECT in a local  *)
(* variable while the dictionary may forget that object; if the entry went *)
(* one moment too early, the next thread would be handed a fresh object    *)
(* for the same job and both would be "inside".  So lock objects are       *)
(* modelled as identities taken from LockObjs, not as a flag per job.      *)
(*                                                                         *)
(* Each statement between two acquisitions of the guard is a step of its   *)
(* own, so that the guard, and not the grain of the model, is what makes   *)
(* the two dictionaries agree.                                             *)
(***************************************************************************)
EXTENDS Naturals, FiniteSets

CONSTANTS Threads,   \* request threads of one process
          Jobs,      \* job ids
          LockObjs,  \* identities of threading.Lock objects; a garbage
                     \* object's identity may be used again
          NoThread,  \* "held by nobody"
          NoLock,    \* "no entry in _JOB_LOCKS"
          NoJob      \* a thread outside job_lock

ASSUME ThreadsFinite == IsFiniteSet(Threads)
ASSUME NoThreadFresh == NoThread \notin Threads
ASSUME NoLockFresh == NoLock \notin LockObjs
ASSUME NoJobFresh == NoJob \notin Jobs

VARIABLES jobLocks,   \* _JOB_LOCKS: job -> lock object, NoLock when absent
          waiters,    \* _JOB_LOCK_WAITERS: job -> count, 0 when absent
          guard,      \* holder of _JOB_LOCKS_GUARD
          owner,      \* lock object -> the thread that has acquired it
          pc,         \* where each thread is in the context manager
          job,        \* job_id of the running call
          lock,       \* the local variable `lock`
          remaining   \* the local variable `remaining`

vars == <<jobLocks, waiters, guard, owner, pc, job, lock, remaining>>

\* "idle"   outside            "lookup" has the guard, before setdefault
\* "count"  before waiters + 1 "wait"   at `with lock:`
\* "cs"     in the body        "leave"  lock released, before the guard
\* "reckon" has the guard, before computing `remaining`
\* "drop"   before storing the count or popping the entries
PCs == {"idle", "lookup", "count", "wait", "cs", "leave", "reckon", "drop"}

TypeOK ==
    /\ jobLocks \in [Jobs -> LockObjs \cup {NoLock}]
    /\ waiters \in [Jobs -> Nat]
    /\ guard \in Threads \cup {NoThread}
    /\ owner \in [LockObjs -> Threads \cup {NoThread}]
    /\ pc \in [Threads -> PCs]
    /\ job \in [Threads -> Jobs \cup {NoJob}]
    /\ lock \in [Threads -> LockObjs \cup {NoLock}]
    /\ remaining \in [Threads -> Nat]

Init ==
    /\ jobLocks = [j \in Jobs |-> NoLock]
    /\ waiters = [j \in Jobs |-> 0]
    /\ guard = NoThread
    /\ owner = [l \in LockObjs |-> NoThread]
    /\ pc = [t \in Threads |-> "idle"]
    /\ job = [t \in Threads |-> NoJob]
    /\ lock = [t \in Threads |-> NoLock]
    /\ remaining = [t \in Threads |-> 0]

-----------------------------------------------------------------------------
\* A newly constructed threading.Lock(): no dictionary entry and no local
\* variable refers to this identity, and nobody has acquired it.
FreshLock(l) ==
    /\ \A j \in Jobs : jobLocks[j] # l
    /\ \A t \in Threads : lock[t] # l
    /\ owner[l] = NoThread

GoTo(t, from, to) ==
    /\ pc[t] = from
    /\ pc' = [pc EXCEPT ![t] = to]

\* Mutation: the section that registers a caller runs without the guard.
EnterNoGuard(t, j) ==
    /\ GoTo(t, "idle", "lookup")
    /\ job' = [job EXCEPT ![t] = j]
    /\ UNCHANGED <<jobLocks, waiters, guard, owner, lock, remaining>>

\* with _JOB_LOCKS_GUARD: (the first one)
Enter(t, j) ==
    /\ GoTo(t, "idle", "lookup")
    /\ guard = NoThread
    /\ guard' = t
    /\ job' = [job EXCEPT ![t] = j]
    /\ UNCHANGED <<jobLocks, waiters, owner, lock, remaining>>

\* lock = _JOB_LOCKS.setdefault(job_id, threading.Lock())
SetDefault(t) ==
    /\ GoTo(t, "lookup", "count")
    /\ \/ /\ jobLocks[job[t]] # NoLock
          /\ lock' = [lock EXCEPT ![t] = jobLocks[job[t]]]
          /\ UNCHANGED jobLocks
       \/ /\ jobLocks[job[t]] = NoLock
          /\ \E l \in LockObjs :
                /\ FreshLock(l)
                /\ lock' = [lock EXCEPT ![t] = l]
                /\ jobLocks' = [jobLocks EXCEPT ![job[t]] = l]
    /\ UNCHANGED <<waiters, guard, owner, job, remaining>>

\* _JOB_LOCK_WAITERS[job_id] = ....get(job_id, 0) + 1, and the guard goes
CountIn(t) ==
    /\ GoTo(t, "count", "wait")
    /\ waiters' = [waiters EXCEPT ![job[t]] = @ + 1]
    /\ guard' = NoThread
    /\ UNCHANGED <<jobLocks, owner, job, lock, remaining>>

\* with lock: the thread blocks until the object it was handed is free
Acquire(t) ==
    /\ GoTo(t, "wait", "cs")
    /\ owner[lock[t]] = NoThread
    /\ owner' = [owner EXCEPT ![lock[t]] = t]
    /\ UNCHANGED <<jobLocks, waiters, guard, job, lock, remaining>>

\* Mutation: a body that raises leaves the lock taken.
ReleaseOnlyOnReturn(t) ==
    /\ GoTo(t, "cs", "leave")
    /\ \/ owner' = [owner EXCEPT ![lock[t]] = NoThread]
       \/ UNCHANGED owner
    /\ UNCHANGED <<jobLocks, waiters, guard, job, lock, remaining>>

\* the body ends, by returning or by raising
Release(t) ==
    /\ GoTo(t, "cs", "leave")
    /\ owner' = [owner EXCEPT ![lock[t]] = NoThread]
    /\ UNCHANGED <<jobLocks, waiters, guard, job, lock, remaining>>

\* with _JOB_LOCKS_GUARD: (the one in the finally block)
Leave(t) ==
    /\ GoTo(t, "leave", "reckon")
    /\ guard = NoThread
    /\ guard' = t
    /\ UNCHANGED <<jobLocks, waiters, owner, job, lock, remaining>>

\* remaining = _JOB_LOCK_WAITERS.get(job_id, 1) - 1
Reckon(t) ==
    /\ GoTo(t, "reckon", "drop")
    /\ LET count == IF waiters[job[t]] = 0 THEN 1 ELSE waiters[job[t]]
       IN  remaining' = [remaining EXCEPT ![t] = count - 1]
    /\ UNCHANGED <<jobLocks, waiters, guard, owner, job, lock>>

\* Mutation: the entry goes with whoever leaves first.
CountOutDropsAlways(t) ==
    /\ GoTo(t, "drop", "idle")
    /\ waiters' = [waiters EXCEPT ![job[t]] = remaining[t]]
    /\ jobLocks' = [jobLocks EXCEPT ![job[t]] = NoLock]
    /\ guard' = NoThread
    /\ job' = [job EXCEPT ![t] = NoJob]
    /\ lock' = [lock EXCEPT ![t] = NoLock]
    /\ remaining' = [remaining EXCEPT ![t] = 0]
    /\ UNCHANGED owner

\* Mutation: the caller is counted out twice.
CountOutTwice(t) ==
    /\ GoTo(t, "drop", "idle")
    /\ waiters' = [waiters EXCEPT ![job[t]] = remaining[t] - 1]
    /\ jobLocks' = [jobLocks EXCEPT ![job[t]] = NoLock]
    /\ guard' = NoThread
    /\ job' = [job EXCEPT ![t] = NoJob]
    /\ lock' = [lock EXCEPT ![t] = NoLock]
    /\ remaining' = [remaining EXCEPT ![t] = 0]
    /\ UNCHANGED owner

\* Store the count, or pop both entries when nobody is left.
CountOut(t) ==
    /\ GoTo(t, "drop", "idle")
    /\ waiters' = [waiters EXCEPT ![job[t]] = remaining[t]]
    /\ jobLocks' = IF remaining[t] > 0
                   THEN jobLocks
                   ELSE [jobLocks EXCEPT ![job[t]] = NoLock]
    /\ guard' = NoThread
    /\ job' = [job EXCEPT ![t] = NoJob]
    /\ lock' = [lock EXCEPT ![t] = NoLock]
    /\ remaining' = [remaining EXCEPT ![t] = 0]
    /\ UNCHANGED owner

Step(t) ==
    \/ SetDefault(t)
    \/ CountIn(t)
    \/ Acquire(t)
    \/ Release(t)
    \/ Leave(t)
    \/ Reckon(t)
    \/ CountOut(t)

Next ==
    \E t \in Threads :
        \/ \E j \in Jobs : Enter(t, j)
        \/ Step(t)

Spec == Init /\ [][Next]_vars

(***************************************************************************)
(* A locked body ends, and a free lock does not stay free while threads    *)
(* wait for it.  Nothing makes a thread start a call, and threading.Lock   *)
(* does not promise itself to the thread that has waited longest: the lock *)
(* is not assumed to be fair to any ONE thread.                            *)
(***************************************************************************)
Fairness ==
    /\ \A t \in Threads : WF_vars(Release(t))
    /\ \A j \in Jobs : WF_vars(\E t \in Threads : job[t] = j /\ Acquire(t))

FairSpec == Spec /\ Fairness

-----------------------------------------------------------------------------
\* Threads whose call on job j has been counted in and not yet out.
Counted(j) ==
    {t \in Threads : job[t] = j /\ pc[t] \in {"wait", "cs", "leave", "reckon", "drop"}}

\* Threads that hold a reference to the lock object of job j.
Referring(j) ==
    {t \in Threads : job[t] = j /\ pc[t] \notin {"idle", "lookup"}}

\* Two threads are never both inside the body for the same job, although
\* each tests only the lock object it was handed.
MutualExclusion ==
    \A t, u \in Threads :
        (pc[t] = "cs" /\ pc[u] = "cs" /\ job[t] = job[u]) => t = u

\* The reference count is exact, the entries of the two dictionaries exist
\* for exactly the jobs somebody refers to, and every thread still refers
\* to the object the dictionary would hand to the next caller: "an entry
\* may only go when nobody holds the lock and nobody is queued for it".
EntryMatchesUse ==
    \A j \in Jobs :
        /\ waiters[j] = Cardinality(Counted(j))
        /\ (jobLocks[j] # NoLock) <=> (Referring(j) # {})
        /\ \A t \in Referring(j) : lock[t] = jobLocks[j]

\* The guard is held exactly by the thread inside a guarded section.
GuardHeld ==
    \A t \in Threads :
        (guard = t) <=> (pc[t] \in {"lookup", "count", "reckon", "drop"})

\* A call has a job id exactly while it runs.
CallHasJob ==
    \A t \in Threads : (pc[t] = "idle") <=> (job[t] = NoJob)

\* `remaining` is still right when it is used: the count has not moved
\* since it was read, and it was not 0.
RemainingCurrent ==
    \A t \in Threads : pc[t] = "drop" => waiters[job[t]] = remaining[t] + 1

\* Whoever is in the body has acquired the object it was handed.
HolderOwns ==
    \A t \in Threads : pc[t] = "cs" => owner[lock[t]] = t

\* The inductive invariant: EntryMatchesUse does not survive a step unless
\* the guard excludes a second reader of the counts, and mutual exclusion
\* needs the ownership of lock objects.
IndInv ==
    /\ TypeOK
    /\ GuardHeld
    /\ CallHasJob
    /\ RemainingCurrent
    /\ HolderOwns
    /\ EntryMatchesUse

\* A thread that waits for a job's lock is not forgotten: some thread gets
\* the job (not necessarily that one).
JobNotWedged ==
    \A j \in Jobs :
        (\E t \in Threads : job[t] = j /\ pc[t] = "wait")
            ~> (\E t \in Threads : job[t] = j /\ pc[t] = "cs")

(***************************************************************************)
(* The dictionary of locks implements the abstract per-job mutex.          *)
(***************************************************************************)
Holder(j) ==
    IF \E t \in Threads : pc[t] = "cs" /\ job[t] = j
    THEN CHOOSE t \in Threads : pc[t] = "cs" /\ job[t] = j
    ELSE NoThread

Mutex == INSTANCE JobMutex WITH holder <- [j \in Jobs |-> Holder(j)]

\* Every step of the reference-counted lock is a step, or no step, of the
\* mutex that the call sites of job_lock rely on.
ImplementsJobMutex == Mutex!Spec
=============================================================================
