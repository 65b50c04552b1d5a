------------------------------ MODULE JobMutex ------------------------------
(***************************************************************************)
(* What services.job_lock promises its callers, whichever database is      *)
(* underneath: at most one thread is inside a job's read-modify-write, and *)
(* different jobs do not exclude each other.  How the promise is kept (a   *)
(* reference-counted dictionary of locks) is the business of JobLock,      *)
(* which is shown to implement this module.                                *)
(***************************************************************************)
CONSTANTS Threads,   \* request threads of one process
          Jobs,      \* job ids
          NoThread   \* "held by nobody"

VARIABLE holder      \* holder[j]: the thread inside job j's locked section

TypeOK == holder \in [Jobs -> Threads \cup {NoThread}]

Init == holder = [j \in Jobs |-> NoThread]

\* A thread holds at most one job: no caller nests job_lock.
Acquire(t, j) ==
    /\ holder[j] = NoThread
    /\ \A k \in Jobs : holder[k] # t
    /\ holder' = [holder EXCEPT ![j] = t]

Release(t, j) ==
    /\ holder[j] = t
    /\ holder' = [holder EXCEPT ![j] = NoThread]

Next == \E t \in Threads, j \in Jobs : Acquire(t, j) \/ Release(t, j)

Spec == Init /\ [][Next]_holder
=============================================================================
