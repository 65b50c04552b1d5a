---------------------------- MODULE ServiceProofs ----------------------------
(***************************************************************************)
(* Proofs about Access, FieldProfiles and JobLock, which share no state.    *)
(*                                                                          *)
(* Access: the limiters, the monthly cap and the answers of the identity    *)
(* provider, for any number of requests, clients, accounts and rules.  What *)
(* the limiter counts is a pruned table, what LimitsHold speaks about is    *)
(* every attempt ever recorded: FreshRowsKept ties the two together because *)
(* no rule looks further back than the pruning (RulesAssumption).  A        *)
(* request is let through when a rule has at most max - 1 recent rows, and  *)
(* from then on each request only trades its place among those asking for   *)
(* at most one row.                                                         *)
(*                                                                          *)
(* FieldProfiles: the vendor's remembered origin, for any number of         *)
(* concurrent finalizes, any jobs, and both kinds of database.              *)
(* ProfileIsItsEvidence is not inductive: a commit computes the new row from *)
(* the row it read.  RowUnderLock says that whoever may overwrite the row   *)
(* has read the row that is there, and is alone; a commit that read no row  *)
(* either inserts the first one or fails.                                   *)
(*                                                                          *)
(* JobLock: the in-process job lock excludes for every number of threads,   *)
(* jobs and lock objects, and implements the abstract mutex JobMutex.  The  *)
(* step that needs care is CountOut: the entry of a job is popped when      *)
(* `remaining` is 0, and because the reference count is exact that means    *)
(* the leaving thread is the only one counted; a thread that has looked the *)
(* entry up and is not yet counted would hold the guard, which the leaving  *)
(* thread holds.                                                            *)
(***************************************************************************)
EXTENDS Access, FieldProfiles, JobLock, TLAPS, FiniteSetTheorems

-----------------------------------------------------------------------------
(* The inductive invariant.                                                *)

\* What a request in progress is about.
Underway ==
    \A r \in Requests :
        /\ doing[r].kind \in Limiters => doing[r].client \in Clients
        /\ doing[r].step \in {"asked", "record", "right", "welcome"} => doing[r].kind \in Limiters
        /\ doing[r].step \in {"right", "welcome"} => doing[r].who \in Accounts
        /\ doing[r].kind = "extract" => doing[r].who \in Accounts

TablesFinite == \A k \in Limiters : IsFiniteSet(rows[k]) /\ IsFiniteSet(counted[k])

\* Pruning keeps every recorded attempt that a rule may still look at.
FreshRowsKept ==
    \A k \in Limiters : \A e \in counted[k] : now - e.at < Retention[k] => e \in rows[k]

TypesAndPhases == AccessTypeOK /\ Underway
LimiterInv == TypesAndPhases /\ TablesFinite /\ FreshRowsKept /\ LimitsHold

-----------------------------------------------------------------------------
(* Counting.                                                               *)

LEMMA PartOfFinite ==
    ASSUME NEW T, IsFiniteSet(T), NEW S, S \subseteq T
    PROVE  IsFiniteSet(S) /\ Cardinality(S) \in Nat /\ Cardinality(S) <= Cardinality(T)
BY FS_Subset, FS_CardinalityType

LEMMA OneMore ==
    ASSUME NEW T, IsFiniteSet(T), NEW x, NEW S, S \subseteq T \cup {x}
    PROVE  IsFiniteSet(S) /\ Cardinality(S) \in Nat /\ Cardinality(S) <= Cardinality(T) + 1
<1>1. Cardinality(T) \in Nat
  BY FS_CardinalityType
<1>2. IsFiniteSet(T \cup {x})
      /\ Cardinality(T \cup {x}) = IF x \in T THEN Cardinality(T) ELSE Cardinality(T) + 1
  BY FS_AddElement
<1>3. IsFiniteSet(S) /\ Cardinality(S) \in Nat /\ Cardinality(S) <= Cardinality(T \cup {x})
  BY <1>2, PartOfFinite
<1> QED
  BY <1>1, <1>2, <1>3

LEMMA OneLess ==
    ASSUME NEW T, IsFiniteSet(T), NEW x \in T
    PROVE  Cardinality(T \ {x}) = Cardinality(T) - 1 /\ Cardinality(T) \in Nat
BY FS_RemoveElement, FS_CardinalityType

\* A sum of two cardinalities stays below its bound when both sets shrink.
LEMMA BothShrink ==
    ASSUME NEW R, NEW R2, NEW A, NEW A2, NEW n \in Int,
           IsFiniteSet(R), IsFiniteSet(A), R2 \subseteq R, A2 \subseteq A,
           Cardinality(R) + Cardinality(A) <= n
    PROVE  Cardinality(R2) + Cardinality(A2) <= n
<1>1. Cardinality(R2) \in Nat /\ Cardinality(R2) <= Cardinality(R) /\ Cardinality(R) \in Nat
  BY PartOfFinite, FS_CardinalityType
<1>2. Cardinality(A2) \in Nat /\ Cardinality(A2) <= Cardinality(A) /\ Cardinality(A) \in Nat
  BY PartOfFinite, FS_CardinalityType
<1> QED
  BY <1>1, <1>2

LEMMA RequestsCounted ==
    Cardinality(Requests) \in Nat /\ IsFiniteSet(Requests)
BY RequestsAssumption, FS_CardinalityType

LEMMA AskingFinite ==
    ASSUME NEW k, NEW c
    PROVE  /\ IsFiniteSet(Asking(k, c)) /\ Cardinality(Asking(k, c)) \in Nat
           /\ Cardinality(Asking(k, c)) <= Cardinality(Requests)
<1>1. Asking(k, c) \subseteq Requests
  BY DEF Asking
<1> QED
  BY <1>1, PartOfFinite, RequestsAssumption

LEMMA LimiterRule ==
    ASSUME NEW k \in Limiters, NEW rule \in Rules[k]
    PROVE  rule.max \in Nat \ {0} /\ rule.within \in Nat /\ rule.within <= Retention[k]
           /\ Retention[k] \in Nat
BY RulesAssumption

-----------------------------------------------------------------------------
(* Types.                                                                  *)

DoingOK == doing \in [Requests -> Request] /\ Underway
RestOK ==
    /\ now \in Nat /\ events \in Nat
    /\ rows \in [Limiters -> SUBSET AttemptRow] /\ counted \in [Limiters -> SUBSET AttemptRow]
    /\ session \in [Accounts -> Nat]
    /\ barred \subseteq Accounts /\ admins \subseteq Accounts
    /\ cap \in [Accounts -> Nat \cup {Unset}]
    /\ spent \in [Accounts -> Nat] /\ allowance \in [Accounts -> Nat]

LEMMA TypeParts ==
    (TypesAndPhases <=> DoingOK /\ RestOK) /\ (TypesAndPhases' <=> DoingOK' /\ RestOK')
BY DEF TypesAndPhases, AccessTypeOK, DoingOK, RestOK

\* What one request may be doing, taken by itself.
Sound(request) ==
    /\ request.kind \in Limiters => request.client \in Clients
    /\ request.step \in {"asked", "record", "right", "welcome"} => request.kind \in Limiters
    /\ request.step \in {"right", "welcome"} => request.who \in Accounts
    /\ request.kind = "extract" => request.who \in Accounts

LEMMA DoingIsSound ==
    /\ DoingOK <=> doing \in [Requests -> Request] /\ \A r \in Requests : Sound(doing[r])
    /\ DoingOK' <=> doing' \in [Requests -> Request] /\ \A r \in Requests : Sound(doing'[r])
BY DEF DoingOK, Underway, Sound, Request, Address, Limiters

\* One request that takes a sound value leaves all of them sound.
LEMMA OneChanges ==
    ASSUME DoingOK, NEW r \in Requests, NEW task \in Request, Sound(task),
           doing' = [doing EXCEPT ![r] = task]
    PROVE  DoingOK'
<1>1. doing' \in [Requests -> Request]
  BY DEF DoingOK
<1>2. \A q \in Requests : doing'[q] = IF q = r THEN task ELSE doing[q]
  BY DEF DoingOK
<1> QED
  BY <1>1, <1>2, DoingIsSound

LEMMA IdleIsSound == Idle \in Request /\ Sound(Idle)
BY DEF Idle, Request, Sound, Limiters

LEMMA EndsKeepsTypes == ASSUME DoingOK, NEW r \in Requests, Ends(r) PROVE DoingOK'
BY IdleIsSound, OneChanges DEF Ends

\* A request that moves on within what it is about.
LEMMA GoesKeepsTypes ==
    ASSUME DoingOK, NEW r \in Requests, NEW step \in {"record", "right", "welcome"},
           Goes(r, step), doing[r].kind \in Limiters,
           step \in {"right", "welcome"} => doing[r].who \in Accounts
    PROVE  DoingOK'
<1> DEFINE task == [doing[r] EXCEPT !.step = step]
<1>1. doing[r] \in Request /\ Sound(doing[r])
  BY DoingIsSound
<1>2. task \in Request
  BY <1>1 DEF Request
<1>3. task.step = step /\ task.kind = doing[r].kind /\ task.client = doing[r].client
      /\ task.who = doing[r].who
  BY <1>1 DEF Request
<1>4. Sound(task)
  BY <1>1, <1>3 DEF Sound, Limiters
<1>5. doing' = [doing EXCEPT ![r] = task]
  BY DEF Goes
<1> QED
  BY <1>2, <1>4, <1>5, OneChanges

LEMMA SameDoing == ASSUME DoingOK, UNCHANGED doing PROVE DoingOK'
BY DoingIsSound

LEMMA InitTypes == AccessInit => TypesAndPhases
<1> SUFFICES ASSUME AccessInit PROVE TypesAndPhases
  OBVIOUS
<1>1. PICK sessions \in [Accounts -> {0, SessionTicks}], bars, roles \in SUBSET Accounts :
        AccessAtRest(sessions, bars, roles)
  BY DEF AccessInit
<1>2. session \in [Accounts -> Nat]
  BY <1>1, SessionAssumption DEF AccessAtRest
<1>3. RestOK
  BY <1>1, <1>2 DEF AccessAtRest, RestOK, AttemptRow, Unset
<1>4. DoingOK
  BY <1>1, IdleIsSound, DoingIsSound DEF AccessAtRest
<1> QED
  BY <1>3, <1>4, TypeParts

\* No step takes a variable out of its type or a request out of its phases.
LEMMA TypesStep == TypesAndPhases /\ [AccessNext]_accessVars => TypesAndPhases'
<1> SUFFICES ASSUME DoingOK, RestOK, [AccessNext]_accessVars PROVE DoingOK' /\ RestOK'
  BY TypeParts
<1>1. ASSUME NEW r \in Requests, NEW k \in Limiters, NEW c \in Clients, NEW who \in Address,
             Ask(r, k, c, who)
      PROVE  DoingOK' /\ RestOK'
  <2> DEFINE task == [step |-> "asked", kind |-> k, client |-> c, who |-> who]
  <2>0. task \in Request /\ Sound(task)
    BY DEF Request, Sound, Limiters
  <2>1. DoingOK'
    BY <1>1, <2>0, OneChanges DEF Ask
  <2> QED
    BY <1>1, <2>1 DEF Ask, RestOK, AttemptRow, Unset, accountTables, ledger
<1>2. ASSUME NEW r \in Requests, PasswordChecked(r) PROVE DoingOK' /\ RestOK'
  <2>1. doing[r].kind \in Limiters
    BY <1>2 DEF PasswordChecked, Limiters
  <2>2. DoingOK'
    BY <1>2, <2>1, EndsKeepsTypes, GoesKeepsTypes DEF PasswordChecked
  <2> QED
    BY <1>2, <2>2 DEF PasswordChecked, RestOK, AttemptRow, Unset, accountTables, ledger
<1>3. ASSUME NEW r \in Requests, Registered(r) PROVE DoingOK' /\ RestOK'
  <2>1. Goes(r, "record") \/ Ends(r)
    BY <1>3 DEF Registered
  <2>2. doing[r].kind \in Limiters
    BY <1>3 DEF Registered, Limiters
  <2>3. DoingOK'
    BY <2>1, <2>2, EndsKeepsTypes, GoesKeepsTypes
  <2> QED
    BY <1>3, <2>3 DEF Registered, RestOK, AttemptRow, Unset, accountTables, ledger
<1>4. ASSUME NEW r \in Requests, Record(r) PROVE DoingOK' /\ RestOK'
  <2> DEFINE k == doing[r].kind
             row == [id |-> events, client |-> doing[r].client, at |-> now]
  <2>1. k \in Limiters /\ doing[r].client \in Clients
    BY <1>4 DEF Record, DoingOK, Address, Underway
  <2>2. row \in AttemptRow
    BY <2>1 DEF AttemptRow, RestOK, Unset
  <2> HIDE DEF row
  <2>3. /\ Kept(k, rows[k] \cup {row}) \in SUBSET AttemptRow
        /\ counted[k] \cup {row} \in SUBSET AttemptRow
    BY <2>1, <2>2 DEF Kept, RestOK
  <2>4. rows' \in [Limiters -> SUBSET AttemptRow] /\ counted' \in [Limiters -> SUBSET AttemptRow]
    <3>1. CASE rows' = [rows EXCEPT ![k] = Kept(k, rows[k] \cup {row})]
               /\ counted' = [counted EXCEPT ![k] = counted[k] \cup {row}]
      BY <3>1, <2>3 DEF RestOK
    <3>2. CASE UNCHANGED <<rows, counted>>
      BY <3>2 DEF RestOK
    <3> QED
      BY <1>4, <3>1, <3>2 DEF Record, row
  <2>5. DoingOK'
    BY <1>4, EndsKeepsTypes DEF Record
  <2> QED
    BY <1>4, <2>4, <2>5 DEF Record, RestOK, AttemptRow, Unset, accountTables, ledger
<1>5. ASSUME NEW r \in Requests, Vet(r) PROVE DoingOK' /\ RestOK'
  <2>1. doing[r].kind \in Limiters /\ doing[r].who \in Accounts
    BY <1>5 DEF Vet, DoingOK, Address, Underway
  <2>2. DoingOK'
    BY <1>5, <2>1, EndsKeepsTypes, GoesKeepsTypes DEF Vet
  <2> QED
    BY <1>5, <2>2 DEF Vet, RestOK, AttemptRow, Unset, accountTables, ledger
<1>6. ASSUME NEW r \in Requests, Welcome(r) PROVE DoingOK' /\ RestOK'
  <2>1. rows' \in [Limiters -> SUBSET AttemptRow] /\ counted' \in [Limiters -> SUBSET AttemptRow]
    BY <1>6 DEF Welcome, RestOK
  <2> DEFINE expiry == now + SessionTicks
  <2>0. expiry \in Nat
    BY SessionAssumption DEF RestOK
  <2> HIDE DEF expiry
  <2>2. session' \in [Accounts -> Nat]
    BY <1>6, <2>0 DEF Welcome, RestOK, expiry
  <2>3. DoingOK'
    BY <1>6, EndsKeepsTypes DEF Welcome
  <2> QED
    BY <1>6, <2>1, <2>2, <2>3 DEF Welcome, RestOK, AttemptRow, Unset, ledger
<1>7. ASSUME NEW r \in Requests, NEW a \in Accounts, Extract(r, a) PROVE DoingOK' /\ RestOK'
  <2>1. ResolvedCap(a) \in Nat
    BY CapAssumption DEF ResolvedCap, RestOK, AttemptRow, Unset
  <2> DEFINE task == [step |-> "running", kind |-> "extract", client |-> "none", who |-> a]
  <2>0. task \in Request /\ Sound(task)
    BY DEF Request, Sound, Limiters, Address
  <2>2. DoingOK'
    BY <1>7, <2>0, OneChanges DEF Extract
  <2> QED
    BY <1>7, <2>1, <2>2 DEF Extract, RestOK, AttemptRow, Unset, accountTables
<1>8. ASSUME NEW r \in Requests, NEW a \in Accounts, AdminAsks(r, a) PROVE DoingOK' /\ RestOK'
  <2> DEFINE task == [step |-> "admin", kind |-> "admin", client |-> "none", who |-> a]
  <2>0. task \in Request /\ Sound(task)
    BY DEF Request, Sound, Limiters, Address
  <2>1. DoingOK'
    BY <1>8, <2>0, OneChanges DEF AdminAsks
  <2> QED
    BY <1>8, <2>1 DEF AdminAsks, RestOK, AttemptRow, Unset, accountTables, ledger
<1>9. ASSUME NEW r \in Requests, OcrPaid(r) PROVE DoingOK' /\ RestOK'
  <2>1. DoingOK'
    BY <1>9, EndsKeepsTypes DEF OcrPaid
  <2> QED
    BY <1>9, <2>1 DEF OcrPaid, RestOK, AttemptRow, Unset, accountTables
<1>10. ASSUME NEW r \in Requests, AdminActs(r) PROVE DoingOK' /\ RestOK'
  <2>1. barred' \subseteq Accounts /\ cap' \in [Accounts -> Nat \cup {Unset}]
    BY <1>10, CapAssumption DEF AdminActs, RestOK, AttemptRow, Unset
  <2>2. DoingOK'
    BY <1>10, EndsKeepsTypes DEF AdminActs
  <2> QED
    BY <1>10, <2>1, <2>2 DEF AdminActs, RestOK, AttemptRow, Unset, ledger
<1>11. ASSUME NEW a \in Accounts, OperatorSetsRole(a) PROVE DoingOK' /\ RestOK'
  BY <1>11, SameDoing DEF OperatorSetsRole, RestOK, AttemptRow, Unset, ledger
<1>12. CASE ConfirmReset
  BY <1>12, SameDoing DEF ConfirmReset, RestOK, AttemptRow, Unset, accountTables, ledger
<1>13. CASE Tick
  BY <1>13, SameDoing DEF Tick, RestOK, AttemptRow, Unset, accountTables, ledger
<1>14. CASE NewMonth
  BY <1>14, SameDoing DEF NewMonth, RestOK, AttemptRow, Unset, accountTables
<1>15. CASE Restart
  <2>1. DoingOK'
    BY <1>15, IdleIsSound, DoingIsSound DEF Restart
  <2> QED
    BY <1>15, <2>1 DEF Restart, RestOK, AttemptRow, Unset, ledger
<1>16. CASE UNCHANGED accessVars
  BY <1>16, SameDoing DEF accessVars, RestOK, AttemptRow, Unset
<1> QED
  BY <1>1, <1>2, <1>3, <1>4, <1>5, <1>6, <1>7, <1>8, <1>9, <1>10, <1>11, <1>12, <1>13, <1>14,
     <1>15, <1>16 DEF AccessNext

\* Type correctness of the limiters, the account tables and the ledger.
THEOREM AccessTypes == AccessSpec => []AccessTypeOK
<1>1. AccessInit => TypesAndPhases
  BY InitTypes
<1>2. TypesAndPhases /\ [AccessNext]_accessVars => TypesAndPhases'
  BY TypesStep
<1>3. TypesAndPhases => AccessTypeOK
  BY DEF TypesAndPhases
<1> QED
  BY <1>1, <1>2, <1>3, PTL DEF AccessSpec

-----------------------------------------------------------------------------
(* The limiters.                                                           *)

\* What a limiter compares with its bound, and the bound.
Pending(k, c, rule) ==
    Cardinality(Recent(counted[k], c, rule.within)) + Cardinality(Asking(k, c))
Bound(rule) == rule.max - 1 + Cardinality(Requests)

LEMMA LimitsSpelled ==
    /\ LimitsHold <=> \A k \in Limiters, c \in Clients : \A rule \in Rules[k] :
                         Pending(k, c, rule) <= Bound(rule)
    /\ LimitsHold' <=> \A k \in Limiters, c \in Clients : \A rule \in Rules[k] :
                         Pending(k, c, rule)' <= Bound(rule)
BY DEF LimitsHold, Pending, Bound

LEMMA BoundIsInt ==
    ASSUME NEW k \in Limiters, NEW rule \in Rules[k]
    PROVE  Bound(rule) \in Int
BY LimiterRule, RequestsCounted DEF Bound

LEMMA RecentFinite ==
    ASSUME NEW T, IsFiniteSet(T), NEW c, NEW w
    PROVE  IsFiniteSet(Recent(T, c, w)) /\ Cardinality(Recent(T, c, w)) \in Nat
<1>1. Recent(T, c, w) \subseteq T
  BY DEF Recent
<1> QED
  BY <1>1, PartOfFinite

\* One request that changes joins those asking only when it was among them.
LEMMA AskingShrinks ==
    ASSUME DoingOK, NEW r \in Requests, NEW task, doing' = [doing EXCEPT ![r] = task],
           NEW k, NEW c,
           task.kind = k /\ task.client = c /\ task.step \in {"asked", "record"}
             => r \in Asking(k, c)
    PROVE  Asking(k, c)' \subseteq Asking(k, c)
<1>1. \A q \in Requests : doing'[q] = IF q = r THEN task ELSE doing[q]
  BY DEF DoingOK
<1> QED
  BY <1>1 DEF Asking

\* A step during which no attempt is added and no request starts to ask keeps
\* both the tables and the limits.
Calm ==
    /\ now' \in Nat /\ now <= now'
    /\ \A k \in Limiters : /\ rows'[k] \subseteq rows[k] /\ counted'[k] \subseteq counted[k]
                           /\ \A e \in counted'[k] : e \in rows[k] => e \in rows'[k]
    /\ \A k \in Limiters, c \in Clients : Asking(k, c)' \subseteq Asking(k, c)

LEMMA RowTypes ==
    ASSUME RestOK, NEW k \in Limiters, NEW e \in counted[k]
    PROVE  e.at \in Nat /\ now \in Nat
BY DEF RestOK, AttemptRow

LEMMA CalmKeepsTables ==
    ASSUME RestOK, TablesFinite, FreshRowsKept, Calm
    PROVE  TablesFinite' /\ FreshRowsKept'
<1>1. TablesFinite'
  BY FS_Subset DEF TablesFinite, Calm
<1>2. ASSUME NEW k \in Limiters, NEW e \in counted'[k], now' - e.at < Retention[k]
      PROVE  e \in rows'[k]
  <2>1. e \in counted[k]
    BY DEF Calm
  <2>2. e.at \in Nat /\ now \in Nat /\ now' \in Nat /\ now <= now' /\ Retention[k] \in Nat
    BY <2>1, RowTypes, RulesAssumption DEF Calm
  <2>3. now - e.at < Retention[k]
    BY <1>2, <2>2
  <2> QED
    BY <2>1, <2>3 DEF FreshRowsKept, Calm
<1> QED
  BY <1>1, <1>2 DEF FreshRowsKept

LEMMA CalmKeepsLimits ==
    ASSUME RestOK, TablesFinite, LimitsHold, Calm
    PROVE  LimitsHold'
<1> SUFFICES ASSUME NEW k \in Limiters, NEW c \in Clients, NEW rule \in Rules[k]
             PROVE  Pending(k, c, rule)' <= Bound(rule)
  BY LimitsSpelled
<1>1. Recent(counted[k], c, rule.within)' \subseteq Recent(counted[k], c, rule.within)
  <2> SUFFICES ASSUME NEW e \in Recent(counted[k], c, rule.within)'
               PROVE  e \in Recent(counted[k], c, rule.within)
    OBVIOUS
  <2>1. e \in counted'[k] /\ e.client = c /\ now' - e.at < rule.within
    BY DEF Recent
  <2>2. e \in counted[k] /\ e.at \in Nat /\ now \in Nat /\ now' \in Nat /\ now <= now'
        /\ rule.within \in Nat
    BY <2>1, RowTypes, LimiterRule DEF Calm
  <2>3. now - e.at < rule.within
    BY <2>1, <2>2
  <2> QED
    BY <2>1, <2>2, <2>3 DEF Recent
<1>2. Asking(k, c)' \subseteq Asking(k, c)
  BY DEF Calm
<1>3. IsFiniteSet(Recent(counted[k], c, rule.within)) /\ IsFiniteSet(Asking(k, c))
  BY RecentFinite, AskingFinite DEF TablesFinite
<1>4. Cardinality(Recent(counted[k], c, rule.within)) + Cardinality(Asking(k, c)) <= Bound(rule)
  BY LimitsSpelled DEF Pending
<1>5. Bound(rule) \in Int
  BY BoundIsInt
<1>6. Cardinality(Recent(counted[k], c, rule.within)') + Cardinality(Asking(k, c)') <= Bound(rule)
  BY <1>1, <1>2, <1>3, <1>4, <1>5, BothShrink
<1> QED
  BY <1>6 DEF Pending

\* A request passes a limiter only while every rule has room, and then the
\* worst case is that every request is asking.
LEMMA AskKeepsLimits ==
    ASSUME DoingOK, RestOK, TablesFinite, FreshRowsKept, LimitsHold,
           NEW r \in Requests, NEW k0 \in Limiters, NEW c0 \in Clients, NEW who \in Address,
           Ask(r, k0, c0, who)
    PROVE  LimitsHold'
<1> SUFFICES ASSUME NEW k \in Limiters, NEW c \in Clients, NEW rule \in Rules[k]
             PROVE  Pending(k, c, rule)' <= Bound(rule)
  BY LimitsSpelled
<1> DEFINE seen == Recent(counted[k], c, rule.within)
           looked == Recent(rows[k], c, rule.within)
<1>1. Recent(counted[k], c, rule.within)' = seen
  BY DEF Ask, Recent
<1>2. Pending(k, c, rule)' = Cardinality(seen) + Cardinality(Asking(k, c)')
  BY <1>1 DEF Pending
<1>3. IsFiniteSet(seen) /\ Cardinality(seen) \in Nat
      /\ IsFiniteSet(looked) /\ Cardinality(looked) \in Nat
  BY RecentFinite DEF TablesFinite
<1>4. CASE k = k0 /\ c = c0
  <2>1. Cardinality(looked) < rule.max
    BY <1>3, <1>4, LimiterRule DEF Ask, Throttled
  <2>2. seen \subseteq looked
    <3> SUFFICES ASSUME NEW e \in seen PROVE e \in looked
      OBVIOUS
    <3>1. e \in counted[k] /\ e.client = c /\ now - e.at < rule.within
      BY DEF Recent
    <3>2. e.at \in Nat /\ now \in Nat /\ rule.within \in Nat /\ Retention[k] \in Nat
          /\ rule.within <= Retention[k]
      BY <3>1, RowTypes, LimiterRule
    <3>3. e \in rows[k]
      BY <3>1, <3>2 DEF FreshRowsKept
    <3> QED
      BY <3>1, <3>3 DEF Recent
  <2>3. Cardinality(seen) <= Cardinality(looked)
    BY <1>3, <2>2, PartOfFinite
  <2>4. Asking(k, c)' \subseteq Requests
    BY DEF Asking
  <2>5. Cardinality(Asking(k, c)') \in Nat /\ Cardinality(Asking(k, c)') <= Cardinality(Requests)
    BY <2>4, PartOfFinite, RequestsAssumption
  <2> QED
    BY <1>2, <1>3, <2>1, <2>3, <2>5, LimiterRule, RequestsCounted DEF Bound
<1>5. CASE ~(k = k0 /\ c = c0)
  <2> DEFINE task == [step |-> "asked", kind |-> k0, client |-> c0, who |-> who]
  <2>1. doing' = [doing EXCEPT ![r] = task]
    BY DEF Ask
  <2>5. ~(task.kind = k /\ task.client = c)
    BY <1>5
  <2> HIDE DEF task
  <2>2. Asking(k, c)' \subseteq Asking(k, c)
    BY <2>1, <2>5, AskingShrinks
  <2>3. Cardinality(seen) + Cardinality(Asking(k, c)) <= Bound(rule)
    BY LimitsSpelled DEF Pending
  <2> QED
    BY <1>2, <1>3, <2>2, <2>3, AskingFinite, BoundIsInt, BothShrink
<1> QED
  BY <1>4, <1>5

\* A request that records trades its place among those asking for one row.
LEMMA RecordKeepsLimits ==
    ASSUME DoingOK, RestOK, TablesFinite, LimitsHold, NEW r \in Requests, Record(r)
    PROVE  LimitsHold'
<1> SUFFICES ASSUME NEW k \in Limiters, NEW c \in Clients, NEW rule \in Rules[k]
             PROVE  Pending(k, c, rule)' <= Bound(rule)
  BY LimitsSpelled
<1> DEFINE seen == Recent(counted[k], c, rule.within)
           later == Recent(counted'[k], c, rule.within)
           row == [id |-> events, client |-> doing[r].client, at |-> now]
<1>1. Pending(k, c, rule)' = Cardinality(later) + Cardinality(Asking(k, c)')
  <2>1. Recent(counted[k], c, rule.within)' = later
    BY DEF Record, Recent
  <2> QED
    BY <2>1 DEF Pending
<1>2. doing' = [doing EXCEPT ![r] = Idle]
  BY DEF Record, Ends
<1>3. Asking(k, c)' \subseteq Asking(k, c) \ {r}
  BY <1>2, IdleIsSound DEF Asking, DoingOK, Idle
<1>4. counted'[k] \subseteq counted[k] \cup {row}
      /\ (k # doing[r].kind => counted'[k] = counted[k])
  <2> HIDE DEF row
  <2>1. doing[r].kind \in Limiters
    BY DEF DoingOK, Underway, Record
  <2>2. CASE counted' = [counted EXCEPT ![doing[r].kind] = counted[doing[r].kind] \cup {row}]
    BY <2>1, <2>2 DEF RestOK
  <2>3. CASE UNCHANGED counted
    BY <2>3
  <2> QED
    BY <2>2, <2>3 DEF Record, row
<1>5. IsFiniteSet(seen) /\ Cardinality(seen) \in Nat
  BY RecentFinite DEF TablesFinite
<1>6. IsFiniteSet(Asking(k, c)) /\ Cardinality(Asking(k, c)) \in Nat
  BY AskingFinite
<1>7. Cardinality(seen) + Cardinality(Asking(k, c)) <= Bound(rule) /\ Bound(rule) \in Int
  BY LimitsSpelled, BoundIsInt DEF Pending
<1>8. CASE r \in Asking(k, c)
  <2>1. later \subseteq seen \cup {row}
    BY <1>4 DEF Recent
  <2>2. Cardinality(later) \in Nat /\ Cardinality(later) <= Cardinality(seen) + 1
    BY <1>5, <2>1, OneMore
  <2>3. Cardinality(Asking(k, c) \ {r}) = Cardinality(Asking(k, c)) - 1
    BY <1>6, <1>8, OneLess
  <2>4. IsFiniteSet(Asking(k, c) \ {r})
    BY <1>6, FS_Subset
  <2>5. Cardinality(Asking(k, c)') \in Nat
        /\ Cardinality(Asking(k, c)') <= Cardinality(Asking(k, c)) - 1
    BY <1>3, <2>3, <2>4, PartOfFinite
  <2> QED
    BY <1>1, <1>5, <1>6, <1>7, <2>2, <2>5
<1>9. CASE r \notin Asking(k, c)
  <2>1. k # doing[r].kind \/ c # doing[r].client
    BY <1>9 DEF Asking, Record
  <2>2. later \subseteq seen
    BY <1>4, <2>1 DEF Recent
  <2>3. Asking(k, c)' \subseteq Asking(k, c)
    BY <1>3
  <2> QED
    BY <1>1, <1>5, <1>6, <1>7, <2>2, <2>3, BothShrink
<1> QED
  BY <1>8, <1>9

\* Pruning drops only what is older than any rule looks back.
LEMMA RecordKeepsTables ==
    ASSUME DoingOK, RestOK, TablesFinite, FreshRowsKept, NEW r \in Requests, Record(r)
    PROVE  TablesFinite' /\ FreshRowsKept'
<1> DEFINE k0 == doing[r].kind
           row == [id |-> events, client |-> doing[r].client, at |-> now]
<1>1. k0 \in Limiters
  BY DEF DoingOK, Underway, Record
<1>2. CASE UNCHANGED <<rows, counted>>
  BY <1>2 DEF TablesFinite, FreshRowsKept, Record
<1> HIDE DEF row
<1>3. CASE /\ rows' = [rows EXCEPT ![k0] = Kept(k0, rows[k0] \cup {row})]
           /\ counted' = [counted EXCEPT ![k0] = counted[k0] \cup {row}]
  <2>1. /\ \A k \in Limiters \ {k0} : rows'[k] = rows[k] /\ counted'[k] = counted[k]
        /\ rows'[k0] = Kept(k0, rows[k0] \cup {row}) /\ counted'[k0] = counted[k0] \cup {row}
    BY <1>1, <1>3 DEF RestOK
  <2>2. IsFiniteSet(rows[k0] \cup {row}) /\ IsFiniteSet(counted[k0] \cup {row})
    BY <1>1, FS_AddElement DEF TablesFinite
  <2>3. IsFiniteSet(rows'[k0]) /\ IsFiniteSet(counted'[k0])
    BY <2>1, <2>2, FS_Subset DEF Kept
  <2>4. TablesFinite'
    BY <2>1, <2>3 DEF TablesFinite
  <2>5. ASSUME NEW k \in Limiters, NEW e \in counted'[k], now - e.at < Retention[k]
        PROVE  e \in rows'[k]
    BY <2>1, <2>5 DEF FreshRowsKept, Kept
  <2>6. now' = now
    BY DEF Record
  <2> QED
    BY <2>4, <2>5, <2>6 DEF FreshRowsKept
<1> QED
  BY <1>2, <1>3 DEF Record, row

\* Who is asking, after a step of one request or of none.
NobodyNewAsks == \A k \in Limiters, c \in Clients : Asking(k, c)' \subseteq Asking(k, c)

LEMMA EndsAsksNothing == ASSUME DoingOK, NEW r \in Requests, Ends(r) PROVE NobodyNewAsks
<1>1. \A k \in Limiters : Idle.kind # k
  BY DEF Idle, Limiters
<1> QED
  BY <1>1, AskingShrinks DEF Ends, NobodyNewAsks

LEMMA GoesAsksNothing ==
    ASSUME DoingOK, NEW r \in Requests, NEW step, Goes(r, step),
           step \in {"asked", "record"} => doing[r].step = "asked"
    PROVE  NobodyNewAsks
<1> DEFINE task == [doing[r] EXCEPT !.step = step]
<1>1. doing' = [doing EXCEPT ![r] = task]
  BY DEF Goes
<1>2. task.step = step /\ task.kind = doing[r].kind /\ task.client = doing[r].client
  BY DEF DoingOK, Request
<1> HIDE DEF task
<1> SUFFICES ASSUME NEW k \in Limiters, NEW c \in Clients
             PROVE  Asking(k, c)' \subseteq Asking(k, c)
  BY DEF NobodyNewAsks
<1>3. task.kind = k /\ task.client = c /\ task.step \in {"asked", "record"} => r \in Asking(k, c)
  BY <1>2 DEF Asking
<1> QED
  BY <1>1, <1>3, AskingShrinks

LEMMA OtherAsksNothing ==
    ASSUME DoingOK, NEW r \in Requests, NEW task, doing' = [doing EXCEPT ![r] = task],
           task.kind \notin Limiters
    PROVE  NobodyNewAsks
<1>1. \A k \in Limiters : task.kind # k
  OBVIOUS
<1> QED
  BY <1>1, AskingShrinks DEF NobodyNewAsks

LEMMA SameAsksNothing == ASSUME UNCHANGED doing PROVE NobodyNewAsks
BY DEF NobodyNewAsks, Asking

\* Neither the tables nor the clock change.
LEMMA SameTablesAreCalm ==
    ASSUME RestOK, UNCHANGED <<now, rows, counted>>, NobodyNewAsks
    PROVE  Calm
BY DEF Calm, RestOK, NobodyNewAsks

\* Every step but asking and recording is calm.
LEMMA OthersAreCalm ==
    ASSUME DoingOK, RestOK, [AccessNext]_accessVars,
           ~\E r \in Requests, k \in Limiters, c \in Clients, who \in Address : Ask(r, k, c, who),
           ~\E r \in Requests : Record(r)
    PROVE  Calm
<1>1. ASSUME NEW r \in Requests, PasswordChecked(r) PROVE Calm
  <2>1. Ends(r) \/ Goes(r, "record") \/ Goes(r, "right")
    BY <1>1 DEF PasswordChecked
  <2>2. NobodyNewAsks
    BY <1>1, <2>1, EndsAsksNothing, GoesAsksNothing DEF PasswordChecked
  <2> QED
    BY <1>1, <2>2, SameTablesAreCalm DEF PasswordChecked
<1>2. ASSUME NEW r \in Requests, Registered(r) PROVE Calm
  <2>1. Goes(r, "record") \/ Ends(r)
    BY <1>2 DEF Registered
  <2>2. NobodyNewAsks
    BY <1>2, <2>1, EndsAsksNothing, GoesAsksNothing DEF Registered
  <2> QED
    BY <1>2, <2>2, SameTablesAreCalm DEF Registered
<1>3. ASSUME NEW r \in Requests, Vet(r) PROVE Calm
  <2>1. Ends(r) \/ Goes(r, "welcome")
    BY <1>3 DEF Vet
  <2>2. NobodyNewAsks
    BY <2>1, EndsAsksNothing, GoesAsksNothing
  <2> QED
    BY <1>3, <2>2, SameTablesAreCalm DEF Vet
<1>4. ASSUME NEW r \in Requests, Welcome(r) PROVE Calm
  <2>1. NobodyNewAsks
    BY <1>4, EndsAsksNothing DEF Welcome
  <2>2. CASE UNCHANGED <<rows, counted>>
    BY <1>4, <2>1, <2>2, SameTablesAreCalm DEF Welcome
  <2>3. CASE ~UNCHANGED <<rows, counted>>
    <3> DEFINE others(table) == {e \in table : e.client # doing[r].client}
    <3>1. /\ rows' = [rows EXCEPT !["login"] = others(rows["login"])]
          /\ counted' = [counted EXCEPT !["login"] = others(counted["login"])]
      BY <1>4, <2>3 DEF Welcome
    <3>2. \A k \in Limiters :
            /\ rows'[k] = IF k = "login" THEN others(rows[k]) ELSE rows[k]
            /\ counted'[k] = IF k = "login" THEN others(counted[k]) ELSE counted[k]
      BY <3>1 DEF RestOK
    <3>3. now' = now /\ now \in Nat
      BY <1>4 DEF Welcome, RestOK
    <3>4. ASSUME NEW k \in Limiters
          PROVE  /\ rows'[k] \subseteq rows[k] /\ counted'[k] \subseteq counted[k]
                 /\ \A e \in counted'[k] : e \in rows[k] => e \in rows'[k]
      <4>1. CASE k = "login"
        BY <3>2, <4>1
      <4>2. CASE k # "login"
        BY <3>2, <4>2
      <4> QED
        BY <4>1, <4>2
    <3> QED
      BY <2>1, <3>3, <3>4 DEF Calm, NobodyNewAsks
  <2> QED
    BY <2>2, <2>3
<1>5. ASSUME NEW r \in Requests, NEW a \in Accounts, Extract(r, a) PROVE Calm
  <2> DEFINE task == [step |-> "running", kind |-> "extract", client |-> "none", who |-> a]
  <2>1. doing' = [doing EXCEPT ![r] = task] /\ task.kind \notin Limiters
    BY <1>5 DEF Extract, Limiters
  <2>2. NobodyNewAsks
    BY <2>1, OtherAsksNothing
  <2> QED
    BY <1>5, <2>2, SameTablesAreCalm DEF Extract
<1>6. ASSUME NEW r \in Requests, NEW a \in Accounts, AdminAsks(r, a) PROVE Calm
  <2> DEFINE task == [step |-> "admin", kind |-> "admin", client |-> "none", who |-> a]
  <2>1. doing' = [doing EXCEPT ![r] = task] /\ task.kind \notin Limiters
    BY <1>6 DEF AdminAsks, Limiters
  <2>2. NobodyNewAsks
    BY <2>1, OtherAsksNothing
  <2> QED
    BY <1>6, <2>2, SameTablesAreCalm DEF AdminAsks
<1>7. ASSUME NEW r \in Requests, OcrPaid(r) PROVE Calm
  BY <1>7, EndsAsksNothing, SameTablesAreCalm DEF OcrPaid
<1>8. ASSUME NEW r \in Requests, AdminActs(r) PROVE Calm
  BY <1>8, EndsAsksNothing, SameTablesAreCalm DEF AdminActs
<1>9. ASSUME NEW a \in Accounts, OperatorSetsRole(a) PROVE Calm
  BY <1>9, SameAsksNothing, SameTablesAreCalm DEF OperatorSetsRole
<1>10. CASE ConfirmReset
  BY <1>10, SameAsksNothing, SameTablesAreCalm DEF ConfirmReset
<1>11. CASE Tick
  BY <1>11, SameAsksNothing DEF Tick, Calm, RestOK, NobodyNewAsks
<1>12. CASE NewMonth
  BY <1>12, SameAsksNothing, SameTablesAreCalm DEF NewMonth
<1>13. CASE Restart
  <2>1. \A k \in Limiters : Idle.kind # k
    BY DEF Idle, Limiters
  <2>2. NobodyNewAsks
    BY <1>13, <2>1 DEF Restart, NobodyNewAsks, Asking
  <2> QED
    BY <1>13, <2>2, SameTablesAreCalm DEF Restart
<1>14. CASE UNCHANGED accessVars
  BY <1>14, SameAsksNothing, SameTablesAreCalm DEF accessVars
<1> QED
  BY <1>1, <1>2, <1>3, <1>4, <1>5, <1>6, <1>7, <1>8, <1>9, <1>10, <1>11, <1>12, <1>13, <1>14
     DEF AccessNext

LEMMA LimiterInit == AccessInit => LimiterInv
<1> SUFFICES ASSUME AccessInit PROVE LimiterInv
  OBVIOUS
<1>1. TypesAndPhases
  BY InitTypes
<1>2. /\ rows = [k \in Limiters |-> {}] /\ counted = [k \in Limiters |-> {}]
      /\ doing = [r \in Requests |-> Idle]
  BY DEF AccessInit, AccessAtRest
<1>3. TablesFinite /\ FreshRowsKept
  BY <1>2, FS_EmptySet DEF TablesFinite, FreshRowsKept
<1>4. ASSUME NEW k \in Limiters, NEW c \in Clients, NEW rule \in Rules[k]
      PROVE  Pending(k, c, rule) <= Bound(rule)
  <2>1. Recent(counted[k], c, rule.within) = {}
    BY <1>2 DEF Recent
  <2>2. Asking(k, c) = {}
    BY <1>2 DEF Asking, Idle
  <2> QED
    BY <2>1, <2>2, FS_EmptySet, LimiterRule, RequestsCounted DEF Pending, Bound
<1> QED
  BY <1>1, <1>3, <1>4, LimitsSpelled DEF LimiterInv

LEMMA LimiterStep == LimiterInv /\ [AccessNext]_accessVars => LimiterInv'
<1> SUFFICES ASSUME LimiterInv, [AccessNext]_accessVars PROVE LimiterInv'
  OBVIOUS
<1>1. DoingOK /\ RestOK /\ TablesFinite /\ FreshRowsKept /\ LimitsHold
  BY TypeParts DEF LimiterInv
<1>2. TypesAndPhases'
  BY TypesStep DEF LimiterInv
<1>3. ASSUME NEW r \in Requests, NEW k \in Limiters, NEW c \in Clients, NEW who \in Address,
             Ask(r, k, c, who)
      PROVE  TablesFinite' /\ FreshRowsKept' /\ LimitsHold'
  <2>1. UNCHANGED <<now, rows, counted>>
    BY <1>3 DEF Ask
  <2> QED
    BY <1>1, <1>3, <2>1, AskKeepsLimits DEF TablesFinite, FreshRowsKept
<1>4. ASSUME NEW r \in Requests, Record(r)
      PROVE  TablesFinite' /\ FreshRowsKept' /\ LimitsHold'
  BY <1>1, <1>4, RecordKeepsLimits, RecordKeepsTables
<1>5. ASSUME Calm PROVE TablesFinite' /\ FreshRowsKept' /\ LimitsHold'
  BY <1>1, <1>5, CalmKeepsTables, CalmKeepsLimits
<1>6. TablesFinite' /\ FreshRowsKept' /\ LimitsHold'
  BY <1>1, <1>3, <1>4, <1>5, OthersAreCalm
<1> QED
  BY <1>2, <1>6 DEF LimiterInv

\* No pruning, sign-in or restart makes a limiter forget: at most its maximum
\* of attempts, and the requests already past its count, fit in any window.
THEOREM LimitersHold == AccessSpec => []LimitsHold
<1>1. LimiterInv => LimitsHold
  BY DEF LimiterInv
<1> QED
  BY <1>1, LimiterInit, LimiterStep, PTL DEF AccessSpec

-----------------------------------------------------------------------------
(* The monthly cap.                                                        *)

QuotaInv == TypesAndPhases /\ QuotaOvershootBounded

LEMMA QuotaSpelled ==
    /\ QuotaOvershootBounded <=> \A a \in Accounts : allowance[a] > 0 =>
         spent[a] + Cardinality(Extracting(a)) <= allowance[a] - 1 + Cardinality(Requests)
    /\ QuotaOvershootBounded' <=> \A a \in Accounts : allowance'[a] > 0 =>
         spent'[a] + Cardinality(Extracting(a)') <= allowance'[a] - 1 + Cardinality(Requests)
BY DEF QuotaOvershootBounded

LEMMA ExtractingFinite ==
    ASSUME NEW a
    PROVE  /\ IsFiniteSet(Extracting(a)) /\ Cardinality(Extracting(a)) \in Nat
           /\ Cardinality(Extracting(a)') \in Nat
           /\ Cardinality(Extracting(a)') <= Cardinality(Requests)
<1>1. Extracting(a) \subseteq Requests /\ Extracting(a)' \subseteq Requests
  BY DEF Extracting
<1> QED
  BY <1>1, PartOfFinite, RequestsAssumption

\* One request that changes joins those extracting only when it was among them.
LEMMA ExtractingShrinks ==
    ASSUME DoingOK, NEW r \in Requests, NEW task, doing' = [doing EXCEPT ![r] = task], NEW a,
           task.kind = "extract" /\ task.who = a => r \in Extracting(a)
    PROVE  Extracting(a)' \subseteq Extracting(a)
<1>1. \A q \in Requests : doing'[q] = IF q = r THEN task ELSE doing[q]
  BY DEF DoingOK
<1> QED
  BY <1>1 DEF Extracting

NobodyNewExtracts == \A a \in Accounts : Extracting(a)' \subseteq Extracting(a)

LEMMA EndsExtractsNothing == ASSUME DoingOK, NEW r \in Requests, Ends(r) PROVE NobodyNewExtracts
<1>1. Idle.kind # "extract"
  BY DEF Idle
<1> QED
  BY <1>1, ExtractingShrinks DEF Ends, NobodyNewExtracts

LEMMA GoesExtractsNothing ==
    ASSUME DoingOK, NEW r \in Requests, NEW step, Goes(r, step)
    PROVE  NobodyNewExtracts
<1> DEFINE task == [doing[r] EXCEPT !.step = step]
<1>1. doing' = [doing EXCEPT ![r] = task]
  BY DEF Goes
<1>2. task.kind = doing[r].kind /\ task.who = doing[r].who
  BY DEF DoingOK, Request
<1> HIDE DEF task
<1> SUFFICES ASSUME NEW a \in Accounts PROVE Extracting(a)' \subseteq Extracting(a)
  BY DEF NobodyNewExtracts
<1>3. task.kind = "extract" /\ task.who = a => r \in Extracting(a)
  BY <1>2 DEF Extracting
<1> QED
  BY <1>1, <1>3, ExtractingShrinks

LEMMA OtherExtractsNothing ==
    ASSUME DoingOK, NEW r \in Requests, NEW task, doing' = [doing EXCEPT ![r] = task],
           task.kind # "extract"
    PROVE  NobodyNewExtracts
BY ExtractingShrinks DEF NobodyNewExtracts

LEMMA SameExtractsNothing == ASSUME UNCHANGED doing PROVE NobodyNewExtracts
BY DEF NobodyNewExtracts, Extracting

\* Nobody starts, and nothing is spent but at the start of a month.
LEMMA FewerKeepQuota ==
    ASSUME RestOK, QuotaOvershootBounded, NobodyNewExtracts, UNCHANGED allowance,
           \A a \in Accounts : spent'[a] \in Nat /\ spent'[a] <= spent[a]
    PROVE  QuotaOvershootBounded'
<1> SUFFICES ASSUME NEW a \in Accounts, allowance'[a] > 0
             PROVE  spent'[a] + Cardinality(Extracting(a)')
                      <= allowance'[a] - 1 + Cardinality(Requests)
  BY QuotaSpelled
<1>1. spent[a] + Cardinality(Extracting(a)) <= allowance[a] - 1 + Cardinality(Requests)
  BY QuotaSpelled
<1>2. Cardinality(Extracting(a)') <= Cardinality(Extracting(a))
  BY ExtractingFinite, PartOfFinite DEF NobodyNewExtracts
<1>3. allowance'[a] = allowance[a] /\ allowance[a] \in Nat /\ spent[a] \in Nat
      /\ spent'[a] \in Nat /\ spent'[a] <= spent[a]
  BY DEF RestOK
<1> QED
  BY <1>1, <1>2, <1>3, ExtractingFinite, RequestsCounted

LEMMA IdleKeepsQuota ==
    ASSUME RestOK, QuotaOvershootBounded, NobodyNewExtracts, UNCHANGED <<spent, allowance>>
    PROVE  QuotaOvershootBounded'
<1>1. \A a \in Accounts : spent'[a] \in Nat /\ spent'[a] <= spent[a]
  BY DEF RestOK
<1> QED
  BY <1>1, FewerKeepQuota

\* Letting an extraction start: the month's count was below the cap.
LEMMA ExtractKeepsQuota ==
    ASSUME DoingOK, RestOK, QuotaOvershootBounded, NEW r \in Requests, NEW b \in Accounts,
           Extract(r, b)
    PROVE  QuotaOvershootBounded'
<1> SUFFICES ASSUME NEW a \in Accounts, allowance'[a] > 0
             PROVE  spent'[a] + Cardinality(Extracting(a)')
                      <= allowance'[a] - 1 + Cardinality(Requests)
  BY QuotaSpelled
<1>1. /\ spent' = spent /\ spent[a] \in Nat /\ allowance[a] \in Nat
      /\ allowance' = [allowance EXCEPT ![b] = ResolvedCap(b)]
  BY DEF Extract, RestOK
<1>2. CASE a = b
  <2>1. allowance'[a] = ResolvedCap(a)
    BY <1>1, <1>2 DEF RestOK
  <2>2. ResolvedCap(a) \in Nat
    BY CapAssumption DEF ResolvedCap, RestOK, Unset
  <2>3. spent[a] < ResolvedCap(a)
    BY <1>1, <1>2, <2>1, <2>2 DEF Extract, QuotaExceeded
  <2> QED
    BY <1>1, <2>1, <2>2, <2>3, ExtractingFinite, RequestsCounted
<1>3. CASE a # b
  <2> DEFINE task == [step |-> "running", kind |-> "extract", client |-> "none", who |-> b]
  <2>1. doing' = [doing EXCEPT ![r] = task] /\ task.who # a
    BY <1>3 DEF Extract
  <2> HIDE DEF task
  <2>2. Extracting(a)' \subseteq Extracting(a)
    BY <2>1, ExtractingShrinks
  <2>3. Cardinality(Extracting(a)') <= Cardinality(Extracting(a))
    BY <2>2, ExtractingFinite, PartOfFinite
  <2>4. allowance'[a] = allowance[a]
    BY <1>1, <1>3 DEF RestOK
  <2>5. spent[a] + Cardinality(Extracting(a)) <= allowance[a] - 1 + Cardinality(Requests)
    BY <2>4, QuotaSpelled
  <2> QED
    BY <1>1, <2>3, <2>4, <2>5, ExtractingFinite, RequestsCounted
<1> QED
  BY <1>2, <1>3

\* A finished extraction trades its place for one usage row.
LEMMA PaidKeepsQuota ==
    ASSUME DoingOK, RestOK, QuotaOvershootBounded, NEW r \in Requests, OcrPaid(r)
    PROVE  QuotaOvershootBounded'
<1> DEFINE b == doing[r].who
<1>1. NobodyNewExtracts /\ UNCHANGED allowance
  BY EndsExtractsNothing DEF OcrPaid
<1>2. CASE UNCHANGED spent
  BY <1>1, <1>2, IdleKeepsQuota
<1>3. CASE spent' = [spent EXCEPT ![b] = @ + 1]
  <2> SUFFICES ASSUME NEW a \in Accounts, allowance'[a] > 0
               PROVE  spent'[a] + Cardinality(Extracting(a)')
                        <= allowance'[a] - 1 + Cardinality(Requests)
    BY QuotaSpelled
  <2>1. spent[a] + Cardinality(Extracting(a)) <= allowance[a] - 1 + Cardinality(Requests)
    BY <1>1, QuotaSpelled
  <2>2. allowance'[a] = allowance[a] /\ allowance[a] \in Nat /\ spent[a] \in Nat
    BY <1>1 DEF RestOK
  <2>3. CASE a = b
    <3>1. r \in Extracting(a)
      BY <2>3 DEF Extracting, OcrPaid
    <3>2. Extracting(a)' \subseteq Extracting(a) \ {r}
      BY IdleIsSound DEF OcrPaid, Ends, Extracting, DoingOK, Idle
    <3>3. Cardinality(Extracting(a) \ {r}) = Cardinality(Extracting(a)) - 1
      BY <3>1, ExtractingFinite, OneLess
    <3>4. IsFiniteSet(Extracting(a) \ {r})
      BY ExtractingFinite, FS_Subset
    <3>5. Cardinality(Extracting(a)') <= Cardinality(Extracting(a)) - 1
      BY <3>2, <3>3, <3>4, PartOfFinite
    <3>6. spent'[a] = spent[a] + 1
      BY <1>3, <2>3 DEF RestOK
    <3> QED
      BY <2>1, <2>2, <3>5, <3>6, ExtractingFinite, RequestsCounted
  <2>4. CASE a # b
    <3>1. Cardinality(Extracting(a)') <= Cardinality(Extracting(a))
      BY <1>1, ExtractingFinite, PartOfFinite DEF NobodyNewExtracts
    <3>2. spent'[a] = spent[a]
      BY <1>3, <2>4 DEF RestOK
    <3> QED
      BY <2>1, <2>2, <3>1, <3>2, ExtractingFinite, RequestsCounted
  <2> QED
    BY <2>3, <2>4
<1> QED
  BY <1>2, <1>3 DEF OcrPaid

LEMMA QuotaStep == QuotaInv /\ [AccessNext]_accessVars => QuotaInv'
<1> SUFFICES ASSUME QuotaInv, [AccessNext]_accessVars PROVE QuotaInv'
  OBVIOUS
<1> USE DEF ledger, accountTables
<1>1. DoingOK /\ RestOK /\ QuotaOvershootBounded
  BY TypeParts DEF QuotaInv
<1>2. TypesAndPhases'
  BY TypesStep DEF QuotaInv
<1> SUFFICES QuotaOvershootBounded'
  BY <1>2 DEF QuotaInv
<1>3. ASSUME NEW r \in Requests, NEW k \in Limiters, NEW c \in Clients, NEW who \in Address,
             Ask(r, k, c, who)
      PROVE  QuotaOvershootBounded'
  <2> DEFINE task == [step |-> "asked", kind |-> k, client |-> c, who |-> who]
  <2>1. doing' = [doing EXCEPT ![r] = task] /\ task.kind # "extract"
    BY <1>3 DEF Ask, Limiters
  <2>2. NobodyNewExtracts
    BY <1>1, <2>1, OtherExtractsNothing
  <2> QED
    BY <1>1, <1>3, <2>2, IdleKeepsQuota DEF Ask
<1>4. ASSUME NEW r \in Requests, PasswordChecked(r) \/ Registered(r) \/ Vet(r)
      PROVE  QuotaOvershootBounded'
  <2>1. Ends(r) \/ \E step \in {"record", "right", "welcome"} : Goes(r, step)
    BY <1>4 DEF PasswordChecked, Registered, Vet
  <2>2. NobodyNewExtracts
    BY <1>1, <2>1, EndsExtractsNothing, GoesExtractsNothing
  <2>3. UNCHANGED <<spent, allowance>>
    BY <1>4 DEF PasswordChecked, Registered, Vet
  <2> QED
    BY <1>1, <2>2, <2>3, IdleKeepsQuota
<1>5. ASSUME NEW r \in Requests, Record(r) \/ Welcome(r) \/ AdminActs(r)
      PROVE  QuotaOvershootBounded'
  <2>1. Ends(r) /\ UNCHANGED <<spent, allowance>>
    BY <1>5 DEF Record, Welcome, AdminActs
  <2> QED
    BY <1>1, <2>1, EndsExtractsNothing, IdleKeepsQuota
<1>6. ASSUME NEW r \in Requests, NEW a \in Accounts, Extract(r, a) PROVE QuotaOvershootBounded'
  BY <1>1, <1>6, ExtractKeepsQuota
<1>7. ASSUME NEW r \in Requests, NEW a \in Accounts, AdminAsks(r, a)
      PROVE  QuotaOvershootBounded'
  <2> DEFINE task == [step |-> "admin", kind |-> "admin", client |-> "none", who |-> a]
  <2>1. doing' = [doing EXCEPT ![r] = task] /\ task.kind # "extract"
    BY <1>7 DEF AdminAsks
  <2>2. NobodyNewExtracts
    BY <1>1, <2>1, OtherExtractsNothing
  <2> QED
    BY <1>1, <1>7, <2>2, IdleKeepsQuota DEF AdminAsks
<1>8. ASSUME NEW r \in Requests, OcrPaid(r) PROVE QuotaOvershootBounded'
  BY <1>1, <1>8, PaidKeepsQuota
<1>9. ASSUME UNCHANGED <<doing, spent, allowance>> PROVE QuotaOvershootBounded'
  BY <1>1, <1>9, SameExtractsNothing, IdleKeepsQuota
<1>10. ASSUME NEW a \in Accounts, OperatorSetsRole(a) PROVE QuotaOvershootBounded'
  BY <1>9, <1>10 DEF OperatorSetsRole
<1>11. CASE ConfirmReset
  BY <1>9, <1>11 DEF ConfirmReset
<1>12. CASE Tick
  BY <1>9, <1>12 DEF Tick
<1>13. CASE NewMonth
  <2>1. NobodyNewExtracts /\ UNCHANGED allowance
    BY <1>13, SameExtractsNothing DEF NewMonth
  <2>2. \A a \in Accounts : spent'[a] \in Nat /\ spent'[a] <= spent[a]
    BY <1>1, <1>13 DEF NewMonth, RestOK
  <2> QED
    BY <1>1, <2>1, <2>2, FewerKeepQuota
<1>14. CASE Restart
  <2>1. Idle.kind # "extract"
    BY DEF Idle
  <2>2. NobodyNewExtracts
    BY <1>14, <2>1 DEF Restart, NobodyNewExtracts, Extracting
  <2>3. UNCHANGED <<spent, allowance>>
    BY <1>14 DEF Restart
  <2> QED
    BY <1>1, <2>2, <2>3, IdleKeepsQuota
<1>15. CASE UNCHANGED accessVars
  BY <1>9, <1>15 DEF accessVars
<1> QED
  BY <1>3, <1>4, <1>5, <1>6, <1>7, <1>8, <1>10, <1>11, <1>12, <1>13, <1>14, <1>15 DEF AccessNext

\* Parallel extractions pass the monthly cap together, by less than there are
\* requests at one moment, whatever happens to the cap meanwhile.
THEOREM QuotaHolds == AccessSpec => []QuotaOvershootBounded
<1>1. AccessInit => QuotaInv
  <2> SUFFICES ASSUME AccessInit PROVE QuotaInv
    OBVIOUS
  <2>1. \A a \in Accounts : allowance[a] = 0
    BY DEF AccessInit, AccessAtRest
  <2> QED
    BY <2>1, InitTypes DEF QuotaInv, QuotaOvershootBounded
<1>2. QuotaInv => QuotaOvershootBounded
  BY DEF QuotaInv
<1> QED
  BY <1>1, <1>2, QuotaStep, PTL DEF AccessSpec

-----------------------------------------------------------------------------
(* What the provider's answers give away.                                  *)

\* Every answer so far is the code's reading of what the provider sent.
Whose(t) == t.kind = "confirm" => t.whose = "member"
ToldOK ==
    \A t \in told :
        /\ t.kind \in {"signup", "reset", "confirm"} /\ t.condition \in Condition
        /\ t.whose \in {"member", "stranger"} /\ Whose(t)
        /\ t.answer = Answer(t.kind, Wire(t.kind, t.condition, t.whose))

\* The conditions in which the provider does not look at the address.
LEMMA WireBlind ==
    ASSUME NEW kind, NEW whose,
           NEW condition \in {"weak", "closed", "refuses", "down"}
    PROVE  Wire(kind, condition, whose) = Wire(kind, condition, "member")
<1>1. CASE condition = "weak"
  BY <1>1 DEF Wire
<1>2. CASE condition = "closed"
  BY <1>2 DEF Wire
<1>3. CASE condition = "refuses"
  BY <1>3 DEF Wire
<1>4. CASE condition = "down"
  BY <1>4 DEF Wire
<1> QED
  BY <1>1, <1>2, <1>3, <1>4

\* Those in which it does: what it sends is one of these.
LEMMA WireTells ==
    ASSUME NEW kind, NEW whose, NEW condition \in {"ok", "busy", "broken"}
    PROVE  LET wire == Wire(kind, condition, whose)
           IN  \/ wire.status \in {200, 429, 500}
               \/ kind = "signup" /\ wire.status = 422 /\ wire.says = "already"
<1>1. CASE condition = "ok"
  <2>1. CASE kind = "signup" /\ whose = "member"
    <3>1. Wire(kind, condition, whose).status = 422
      BY <1>1, <2>1 DEF Wire
    <3>2. Wire(kind, condition, whose).says = "already"
      BY <1>1, <2>1 DEF Wire
    <3> QED
      BY <2>1, <3>1, <3>2
  <2>2. CASE ~(kind = "signup" /\ whose = "member")
    <3>1. Wire(kind, condition, whose).status = 200
      BY <1>1, <2>2 DEF Wire
    <3> QED
      BY <3>1
  <2> QED
    BY <2>1, <2>2
<1>2. CASE condition = "busy"
  <2>1. Wire(kind, condition, whose).status = IF Mailed(kind, whose) THEN 429 ELSE 200
    BY <1>2 DEF Wire
  <2> QED
    BY <2>1
<1>3. CASE condition = "broken"
  <2>1. Wire(kind, condition, whose).status = IF Mailed(kind, whose) THEN 500 ELSE 200
    BY <1>3 DEF Wire
  <2> QED
    BY <2>1
<1> QED
  BY <1>1, <1>2, <1>3

\* And all of those are answered as an accepted request.
LEMMA AcceptedAlike ==
    ASSUME NEW kind \in {"signup", "reset"}, NEW wire,
           \/ wire.status \in {200, 429, 500}
           \/ kind = "signup" /\ wire.status = 422 /\ wire.says = "already"
    PROVE  Answer(kind, wire) = "accepted"
<1>1. CASE kind = "signup"
  <2>1. SignUp(wire) = "accepted"
    BY DEF SignUp
  <2> QED
    BY <1>1, <2>1 DEF Answer
<1>2. CASE kind = "reset"
  <2>1. RequestReset(wire) = "accepted"
    BY <1>2 DEF RequestReset
  <2> QED
    BY <1>2, <2>1 DEF Answer
<1> QED
  BY <1>1, <1>2

LEMMA SameForBoth ==
    ASSUME NEW kind \in {"signup", "reset"}, NEW condition \in Condition, NEW whose
    PROVE  Answer(kind, Wire(kind, condition, whose))
             = Answer(kind, Wire(kind, condition, "member"))
<1>1. CASE condition \in {"weak", "closed", "refuses", "down"}
  BY <1>1, WireBlind
<1>2. CASE condition \in {"ok", "busy", "broken"}
  <2>1. ASSUME NEW w PROVE Answer(kind, Wire(kind, condition, w)) = "accepted"
    BY <1>2, WireTells, AcceptedAlike
  <2> QED
    BY <2>1
<1> QED
  BY <1>1, <1>2 DEF Condition

LEMMA NewlyTold ==
    ASSUME ToldOK, NEW kind \in {"signup", "reset", "confirm"}, NEW condition \in Condition,
           NEW whose \in {"member", "stranger"}, kind = "confirm" => whose = "member",
           told' = told \cup {[kind |-> kind, condition |-> condition, whose |-> whose,
                              answer |-> Answer(kind, Wire(kind, condition, whose))]}
    PROVE  ToldOK'
BY DEF ToldOK, Whose

LEMMA ToldStep == ToldOK /\ [AccessNext]_accessVars => ToldOK'
<1> SUFFICES ASSUME ToldOK, [AccessNext]_accessVars PROVE ToldOK'
  OBVIOUS
<1>1. ASSUME NEW r \in Requests, Registered(r) PROVE ToldOK'
  <2> DEFINE whose == IF doing[r].who \in Accounts THEN "member" ELSE "stranger"
  <2>1. PICK condition \in Condition :
          told' = told \cup {[kind |-> doing[r].kind, condition |-> condition, whose |-> whose,
                              answer |-> Answer(doing[r].kind,
                                                Wire(doing[r].kind, condition, whose))]}
    BY <1>1 DEF Registered
  <2>2. doing[r].kind \in {"signup", "reset"} /\ whose \in {"member", "stranger"}
    BY <1>1 DEF Registered
  <2> HIDE DEF whose
  <2> QED
    BY <2>1, <2>2, NewlyTold
<1>2. CASE ConfirmReset
  <2>1. PICK condition \in Condition :
          told' = told \cup {[kind |-> "confirm", condition |-> condition, whose |-> "member",
                              answer |-> Answer("confirm", Wire("confirm", condition, "member"))]}
    BY <1>2 DEF ConfirmReset
  <2> QED
    BY <2>1, NewlyTold
<1>3. CASE ~ConfirmReset /\ ~\E r \in Requests : Registered(r)
  <2>1. UNCHANGED told
    BY <1>3 DEF AccessNext, accessVars, Ask, PasswordChecked, Record, Vet, Welcome, Extract,
                OcrPaid, AdminAsks, AdminActs, OperatorSetsRole, Tick, NewMonth, Restart
  <2> QED
    BY <2>1 DEF ToldOK, Whose
<1> QED
  BY <1>1, <1>2, <1>3

\* Whatever the provider's condition, a known and an unknown address are told
\* the same.
THEOREM NothingToldApart == AccessSpec => []AnswersAlike
<1>1. AccessInit => ToldOK
  BY DEF AccessInit, AccessAtRest, ToldOK
<1>2. ToldOK => AnswersAlike
  <2> SUFFICES ASSUME ToldOK, NEW x \in told, NEW y \in told,
                      x.kind = y.kind, x.condition = y.condition
               PROVE  x.answer = y.answer
    BY DEF AnswersAlike
  <2>1. /\ x.answer = Answer(x.kind, Wire(x.kind, x.condition, x.whose))
        /\ y.answer = Answer(x.kind, Wire(x.kind, x.condition, y.whose))
        /\ x.condition \in Condition
    BY DEF ToldOK
  <2>2. CASE x.kind = "confirm"
    <3>1. x.whose = "member" /\ y.whose = "member"
      BY <2>2 DEF ToldOK, Whose
    <3> QED
      BY <2>1, <3>1
  <2>3. CASE x.kind \in {"signup", "reset"}
    BY <2>1, <2>3, SameForBoth
  <2> QED
    BY <2>2, <2>3 DEF ToldOK
<1> QED
  BY <1>1, <1>2, ToldStep, PTL DEF AccessSpec

-----------------------------------------------------------------------------
(* The remembered origin.                                                  *)

\* What a finalize is about to record is what its job says.
SavesUnderway ==
    \A f \in Finalizers : fin[f].pc # "idle" =>
        /\ fin[f].ship \in Vendored /\ fin[f].top \in Codes
        /\ Shows(fin[f].ship, fin[f].top)
        /\ fin[f].confirmed = ReviewerConfirmed(fin[f].ship)

RowUnderLock ==
    /\ \A f \in Finalizers : HoldsWrite(f) => fin[f].saw = profile
    /\ \A f, g \in Finalizers : HoldsWrite(f) /\ HoldsWrite(g) => f = g

AbsentIsNoRow == profile.source = "absent" => profile = NoRow

ProfilesInv ==
    ProfilesTypeOK /\ SavesUnderway /\ RowUnderLock /\ AbsentIsNoRow /\ ProfileIsItsEvidence

\* A row of the table.
RowType == [coo : Codes \cup {NoCode}, docs : Nat,
            source : {"absent", "cleared", "OBSERVED", "REVIEWER"}]
\* What a commit leaves in the history.
RecordedType == [ship : Vendored, left : RowType]
\* A finalize.
FinType == [pc : {"idle", "select", "write"}, ship : Vendored \cup {<< >>},
            top : Codes \cup {NoCode}, confirmed : BOOLEAN, saw : RowType, attempt : {1, 2}]

-----------------------------------------------------------------------------
(* The code that tops what a job has of its own, proposals left aside, is    *)
(* one that the job shows (record_coo_observation).                          *)
LEMMA TopsShow ==
    ASSUME NEW ship, NEW proposed, NEW top \in Tops(ship, proposed)
    PROVE  top \in Codes /\ Shows(ship, top)
<1> DEFINE own == {k \in DOMAIN ship : Said(ship[k]) # NoCode}
<1>1. Evidenced(ship, proposed) = own
  BY DEF Evidenced, SourceOf, Said
<1>2. {k \in Evidenced(ship, proposed) : CodeOf(ship[k], proposed) = top}
      = {k \in own : Said(ship[k]) = top}
  BY <1>1 DEF CodeOf, Said
<1> QED
  BY <1>1, <1>2 DEF Tops, Shows

(* A commit leaves a row, and keeps the type (_apply_coo_observation).       *)
LEMMA AppliedIsRow ==
    ASSUME NEW row \in RowType, NEW top \in Codes, NEW confirmed \in BOOLEAN,
           row.source = "absent" => row = NoRow
    PROVE  /\ Applied(row, top, confirmed) \in RowType
           /\ Applied(row, top, confirmed).source # "absent"
BY NoCodeAssumption DEF Applied, RowType, NewRow, NoRow

(* Most of the evidence cannot agree on two codes (_MIN_SHARE is over half). *)
LEMMA OneOrigin ==
    ASSUME NEW ship \in Vendored, NEW c, NEW d, Shows(ship, c), Shows(ship, d)
    PROVE  c = d
<1> DEFINE own == {k \in DOMAIN ship : Said(ship[k]) # NoCode}
           for(e) == {k \in own : Said(ship[k]) = e}
<1> SUFFICES ASSUME c # d PROVE FALSE
  OBVIOUS
<1>1. Len(ship) \in Nat /\ DOMAIN ship = 1..Len(ship)
  BY VendoredAssumption
<1>2. IsFiniteSet(own) /\ Cardinality(own) \in Nat
  <2>1. 1 \in Int /\ Len(ship) \in Int
    BY <1>1
  <2>2. IsFiniteSet(1..Len(ship))
    BY <2>1, FS_Interval
  <2>3. own \subseteq 1..Len(ship)
    BY <1>1
  <2>4. IsFiniteSet(own)
    BY <2>2, <2>3, FS_Subset
  <2> QED
    BY <2>4, FS_CardinalityType
<1>3. /\ MostOf(Cardinality(own), Len(ship))
      /\ MostOf(Cardinality(for(c)), Cardinality(own))
      /\ MostOf(Cardinality(for(d)), Cardinality(own))
  BY DEF Shows
<1>4. for(c) \subseteq own /\ for(d) \subseteq own /\ for(c) \cap for(d) = {}
  OBVIOUS
<1> HIDE DEF own, for
<1>5. IsFiniteSet(for(c)) /\ IsFiniteSet(for(d))
  BY <1>2, <1>4, FS_Subset
<1>6. /\ Cardinality(for(c)) \in Nat /\ Cardinality(for(d)) \in Nat
      /\ Cardinality(for(c) \cup for(d)) = Cardinality(for(c)) + Cardinality(for(d))
  <2>1. Cardinality(for(c)) \in Nat /\ Cardinality(for(d)) \in Nat
    BY <1>5, FS_CardinalityType
  <2>2. Cardinality(for(c) \cap for(d)) = 0
    BY <1>4, FS_EmptySet
  <2>3. Cardinality(for(c) \cup for(d))
          = Cardinality(for(c)) + Cardinality(for(d)) - Cardinality(for(c) \cap for(d))
    BY <1>5, FS_Union
  <2> QED
    BY <2>1, <2>2, <2>3
<1>7. Cardinality(for(c) \cup for(d)) <= Cardinality(own)
  <2>1. for(c) \cup for(d) \subseteq own
    BY <1>4
  <2> QED
    BY <1>2, <2>1, FS_Subset
<1> QED
  BY <1>2, <1>3, <1>6, <1>7 DEF MostOf

(* A commit counts its job once (_apply_coo_observation).                    *)
LEMMA AppliedCounts ==
    ASSUME NEW row \in RowType, NEW top \in Codes, NEW confirmed \in BOOLEAN, row.coo = top
    PROVE  CountsOne(row, Applied(row, top, confirmed))
BY DEF Applied, CountsOne, RowType

-----------------------------------------------------------------------------
LEMMA ProfilesStart == ASSUME ProfilesAtRest PROVE ProfilesInv
<1>1. ProfilesTypeOK
  BY DEF ProfilesAtRest, ProfilesTypeOK, NoRow, FinIdle
<1>2. SavesUnderway /\ RowUnderLock /\ AbsentIsNoRow
  BY DEF ProfilesAtRest, SavesUnderway, RowUnderLock, HoldsWrite, AbsentIsNoRow, NoRow, FinIdle
<1>3. ProfileIsItsEvidence
  BY DEF ProfilesAtRest, ProfileIsItsEvidence, NoRow, FinIdle
<1> QED
  BY <1>1, <1>2, <1>3 DEF ProfilesInv

\* A step that leaves the row alone need not look at the evidence again.
LEMMA EvidenceStays ==
    ASSUME ProfileIsItsEvidence, UNCHANGED <<profile, recorded>>,
           \A f \in Finalizers : fin'[f].attempt = 2 => profile # NoRow
    PROVE  ProfileIsItsEvidence'
BY DEF ProfileIsItsEvidence

LEMMA ObserveKeeps ==
    ASSUME ProfilesInv, NEW f \in Finalizers, NEW ship \in Vendored, Observe(f, ship)
    PROVE  ProfilesInv'
<1> USE DEF ProfilesInv
<1>1. PICK top \in Tops(ship, Proposed) :
          fin' = [fin EXCEPT ![f] = [FinIdle EXCEPT !.pc = "select", !.ship = ship, !.top = top,
                                         !.confirmed = ReviewerConfirmed(ship)]]
  BY DEF Observe
<1>2. top \in Codes /\ Shows(ship, top)
  BY TopsShow
<1>3. UNCHANGED <<profile, recorded>>
  BY DEF Observe
<1>4. ReviewerConfirmed(ship) \in BOOLEAN
  BY DEF ReviewerConfirmed
<1>5. fin'[f] = [pc |-> "select", ship |-> ship, top |-> top, saw |-> NoRow, attempt |-> 1,
                 confirmed |-> ReviewerConfirmed(ship)]
      /\ \A g \in Finalizers \ {f} : fin'[g] = fin[g]
  BY <1>1 DEF ProfilesTypeOK, FinIdle
<1>6. ProfilesTypeOK'
  BY <1>1, <1>2, <1>3, <1>4 DEF ProfilesTypeOK, FinIdle, NoRow
<1>7. SavesUnderway'
  BY <1>2, <1>5 DEF SavesUnderway
<1>8. RowUnderLock' /\ AbsentIsNoRow'
  BY <1>3, <1>5 DEF RowUnderLock, HoldsWrite, AbsentIsNoRow
<1>9. ProfileIsItsEvidence'
  <2>1. \A g \in Finalizers : fin'[g].attempt = 2 => profile # NoRow
    BY <1>5 DEF ProfileIsItsEvidence
  <2> QED
    BY <1>3, <2>1, EvidenceStays
<1> QED
  BY <1>6, <1>7, <1>8, <1>9

LEMMA SelectKeeps ==
    ASSUME ProfilesInv, NEW f \in Finalizers, SelectRow(f)
    PROVE  ProfilesInv'
<1> USE DEF ProfilesInv
<1>1. /\ fin[f].pc = "select" /\ \A g \in Finalizers : ~HoldsWrite(g)
      /\ UNCHANGED <<profile, recorded>>
      /\ fin' = [fin EXCEPT ![f] = [fin[f] EXCEPT !.pc = "write", !.saw = profile]]
  BY DEF SelectRow, ProfilesTypeOK
<1>2. /\ fin'[f] = [fin[f] EXCEPT !.pc = "write", !.saw = profile]
      /\ \A g \in Finalizers \ {f} : fin'[g] = fin[g]
  BY <1>1 DEF ProfilesTypeOK
<1>3. ProfilesTypeOK'
  <2>1. fin[f] \in FinType /\ profile \in RowType
    BY DEF ProfilesTypeOK, FinType, RowType
  <2>2. [fin[f] EXCEPT !.pc = "write", !.saw = profile] \in FinType
    BY <2>1 DEF FinType
  <2> QED
    BY <1>1, <2>2 DEF ProfilesTypeOK, FinType, RowType
<1>4. /\ fin'[f].pc = "write" /\ fin'[f].saw = profile
      /\ fin'[f].ship = fin[f].ship /\ fin'[f].top = fin[f].top
      /\ fin'[f].confirmed = fin[f].confirmed /\ fin'[f].attempt = fin[f].attempt
  BY <1>2 DEF ProfilesTypeOK
<1>5. SavesUnderway'
  BY <1>1, <1>2, <1>4 DEF SavesUnderway
<1>6. RowUnderLock' /\ AbsentIsNoRow'
  BY <1>1, <1>2, <1>4 DEF RowUnderLock, HoldsWrite, AbsentIsNoRow
<1>7. ProfileIsItsEvidence'
  <2>1. \A g \in Finalizers : fin'[g].attempt = 2 => profile # NoRow
    <3>1. \A g \in Finalizers \ {f} : fin'[g] = fin[g]
      BY <1>2
    <3> QED
      BY <1>4, <3>1 DEF ProfileIsItsEvidence
  <2> QED
    BY <1>1, <2>1, EvidenceStays
<1> QED
  BY <1>3, <1>5, <1>6, <1>7

\* A finalize that is over, or begins again to look for the row.
LEMMA LeavingKeeps ==
    ASSUME ProfilesInv, NEW f \in Finalizers, UNCHANGED <<profile, recorded>>,
           \/ fin' = [fin EXCEPT ![f] = FinIdle]
           \/ /\ fin[f].pc = "write" /\ profile # NoRow
              /\ fin' = [fin EXCEPT ![f] = [fin[f] EXCEPT !.pc = "select", !.attempt = 2]]
    PROVE  ProfilesInv'
<1> USE DEF ProfilesInv
<1>1. \A g \in Finalizers \ {f} : fin'[g] = fin[g]
  BY DEF ProfilesTypeOK
<1>2. \/ fin'[f] = FinIdle
      \/ /\ fin[f].pc = "write" /\ profile # NoRow
         /\ fin'[f].pc = "select" /\ fin'[f].ship = fin[f].ship /\ fin'[f].top = fin[f].top
         /\ fin'[f].confirmed = fin[f].confirmed
  <2>1. fin[f] \in FinType
    BY DEF ProfilesTypeOK, FinType, RowType
  <2>2. CASE fin' = [fin EXCEPT ![f] = FinIdle]
    BY <2>2 DEF ProfilesTypeOK
  <2>3. CASE /\ fin[f].pc = "write" /\ profile # NoRow
             /\ fin' = [fin EXCEPT ![f] = [fin[f] EXCEPT !.pc = "select", !.attempt = 2]]
    BY <2>1, <2>3 DEF ProfilesTypeOK, FinType
  <2> QED
    BY <2>2, <2>3
<1>3. ProfilesTypeOK'
  <2>1. fin[f] \in FinType
    BY DEF ProfilesTypeOK, FinType, RowType
  <2>2. FinIdle \in FinType
    BY DEF FinType, RowType, FinIdle, NoRow
  <2>3. [fin[f] EXCEPT !.pc = "select", !.attempt = 2] \in FinType
    BY <2>1 DEF FinType
  <2>4. PICK x \in FinType : fin' = [fin EXCEPT ![f] = x]
    BY <2>2, <2>3
  <2>5. fin \in [Finalizers -> FinType]
    BY DEF ProfilesTypeOK, FinType, RowType
  <2>6. fin' \in [Finalizers -> FinType]
    BY <2>4, <2>5
  <2> QED
    BY <2>6 DEF ProfilesTypeOK, FinType, RowType
<1>4. SavesUnderway'
  BY <1>1, <1>2 DEF SavesUnderway, FinIdle
<1>5. RowUnderLock' /\ AbsentIsNoRow'
  BY <1>1, <1>2 DEF RowUnderLock, HoldsWrite, AbsentIsNoRow, FinIdle
<1>6. ProfileIsItsEvidence'
  <2>1. \A g \in Finalizers : fin'[g].attempt = 2 => profile # NoRow
    BY <1>1, <1>2 DEF ProfileIsItsEvidence, FinIdle
  <2> QED
    BY <2>1, EvidenceStays
<1> QED
  BY <1>3, <1>4, <1>5, <1>6

-----------------------------------------------------------------------------
(* A commit appends a job, and the row tells what it says.                   *)
LEMMA CommitTells ==
    ASSUME ProfilesInv, NEW ship \in Vendored, NEW top \in Codes, NEW confirmed \in BOOLEAN,
           Shows(ship, top), confirmed = ReviewerConfirmed(ship),
           profile' = Applied(profile, top, confirmed),
           recorded' = Append(recorded, [ship |-> ship, left |-> profile']),
           \A f \in Finalizers : fin'[f].attempt = 2 => profile' # NoRow
    PROVE  ProfileIsItsEvidence'
<1> DEFINE n == Len(recorded)
<1> USE DEF ProfilesInv
<1>1. /\ n \in Nat /\ Len(recorded') = n + 1 /\ recorded'[n + 1] = [ship |-> ship, left |-> profile']
      /\ \A k \in 1..n : recorded'[k] = recorded[k]
      /\ n = Len(recorded)
  BY DEF ProfilesTypeOK
<1> HIDE DEF n
<1>2. profile \in RowType /\ profile' \in RowType /\ profile'.source # "absent"
  <2>1. profile \in RowType
    BY DEF ProfilesTypeOK, RowType
  <2> QED
    BY <2>1, AppliedIsRow DEF AbsentIsNoRow
<1>3. profile'.source = "REVIEWER" =>
         \E k \in 1..n + 1 :
            /\ ReviewerConfirmed(recorded'[k].ship) /\ Shows(recorded'[k].ship, profile'.coo)
            /\ \A j \in k + 1..n + 1 : ~ReviewerConfirmed(recorded'[j].ship)
  <2> SUFFICES ASSUME profile'.source = "REVIEWER"
               PROVE  \E k \in 1..n + 1 :
                         /\ ReviewerConfirmed(recorded'[k].ship) /\ Shows(recorded'[k].ship, profile'.coo)
                         /\ \A j \in k + 1..n + 1 : ~ReviewerConfirmed(recorded'[j].ship)
    OBVIOUS
  <2>1. CASE confirmed
    <3>1. Applied(profile, top, confirmed).coo = top
      BY <2>1 DEF Applied
    <3>2. profile'.coo = top /\ recorded'[n + 1].ship = ship
      BY <1>1, <3>1
    <3>3. ReviewerConfirmed(ship) /\ Shows(ship, top)
      BY <2>1
    <3>4. ReviewerConfirmed(recorded'[n + 1].ship) /\ Shows(recorded'[n + 1].ship, profile'.coo)
      BY <3>2, <3>3
    <3>5. n + 1 \in 1..n + 1 /\ \A j \in n + 1 + 1..n + 1 : ~ReviewerConfirmed(recorded'[j].ship)
      BY <1>1
    <3> QED
      BY <3>4, <3>5
  <2>2. CASE ~confirmed
    <3>1. profile.source = "REVIEWER" /\ profile'.coo = profile.coo
      BY <1>2, <2>2, NoCodeAssumption DEF Applied, RowType, NewRow, NoRow
    <3>2. PICK k \in 1..n : /\ ReviewerConfirmed(recorded[k].ship) /\ Shows(recorded[k].ship, profile.coo)
                            /\ \A j \in k + 1..n : ~ReviewerConfirmed(recorded[j].ship)
      BY <1>1, <3>1 DEF ProfileIsItsEvidence
    <3>3. k \in 1..n + 1 /\ recorded'[k] = recorded[k]
      BY <1>1
    <3>4. \A j \in k + 1..n + 1 : ~ReviewerConfirmed(recorded'[j].ship)
      <4> SUFFICES ASSUME NEW j \in k + 1..n + 1 PROVE ~ReviewerConfirmed(recorded'[j].ship)
        OBVIOUS
      <4>1. n \in Nat /\ k \in 1..n
        BY <1>1, <3>2
      <4>2. j = n + 1 \/ (j \in k + 1..n /\ j \in 1..n)
        BY <4>1
      <4> QED
        BY <1>1, <2>2, <3>2, <4>2
    <3> QED
      BY <3>1, <3>2, <3>3, <3>4
  <2> QED
    BY <2>1, <2>2
<1>4. ASSUME profile'.source # "REVIEWER"
      PROVE  /\ profile'.docs <= n + 1 /\ (profile'.coo # NoCode => profile'.docs > 0)
             /\ \A k \in 1..n + 1 : ~ReviewerConfirmed(recorded'[k].ship)
             /\ \A k \in n + 1 - profile'.docs + 1..n + 1 : Shows(recorded'[k].ship, profile'.coo)
  <2>1. ~confirmed /\ profile.source # "REVIEWER"
    BY <1>2, <1>4, NoCodeAssumption DEF Applied, RowType, NewRow, NoRow
  <2>2. /\ profile.docs <= n /\ (profile.coo # NoCode => profile.docs > 0)
        /\ \A k \in 1..n : ~ReviewerConfirmed(recorded[k].ship)
        /\ \A k \in n - profile.docs + 1..n : Shows(recorded[k].ship, profile.coo)
    BY <1>1, <2>1 DEF ProfileIsItsEvidence
  <2>3. \A k \in 1..n + 1 : ~ReviewerConfirmed(recorded'[k].ship)
    <3> SUFFICES ASSUME NEW k \in 1..n + 1 PROVE ~ReviewerConfirmed(recorded'[k].ship)
      OBVIOUS
    <3>1. k = n + 1 \/ k \in 1..n
      BY <1>1
    <3> QED
      BY <1>1, <2>1, <2>2, <3>1
  <2>4. CASE profile.coo = top
    <3>1. profile'.docs = profile.docs + 1 /\ profile'.coo = top
      BY <1>2, <2>1, <2>4 DEF Applied, RowType
    <3>2. \A k \in n - profile.docs + 1..n + 1 : Shows(recorded'[k].ship, top)
      <4> SUFFICES ASSUME NEW k \in n - profile.docs + 1..n + 1 PROVE Shows(recorded'[k].ship, top)
        OBVIOUS
      <4>1. profile.docs \in Nat /\ n \in Nat /\ profile.docs <= n
        BY <1>1, <1>2, <2>2 DEF RowType
      <4>2. k = n + 1 \/ (k \in n - profile.docs + 1..n /\ k \in 1..n)
        BY <4>1
      <4> QED
        BY <1>1, <2>2, <2>4, <4>2
    <3>3. profile.docs \in Nat
      BY <1>2 DEF RowType
    <3>4. n + 1 - profile'.docs + 1 = n - profile.docs + 1
      BY <1>1, <3>1, <3>3
    <3>5. profile'.docs <= n + 1 /\ profile'.docs > 0
      BY <1>1, <2>2, <3>1, <3>3
    <3>6. \A k \in n + 1 - profile'.docs + 1..n + 1 : Shows(recorded'[k].ship, profile'.coo)
      BY <3>1, <3>2, <3>4
    <3> QED
      BY <2>3, <3>5, <3>6
  <2>5. CASE profile.coo # top /\ profile.coo # NoCode
    <3>1. profile'.docs = 0 /\ profile'.coo = NoCode
      BY <2>1, <2>5 DEF Applied, NewRow, NoRow
    <3> QED
      BY <1>1, <2>3, <3>1
  <2>6. CASE profile.coo # top /\ profile.coo = NoCode
    <3>1. profile'.docs = 1 /\ profile'.coo = top
      BY <2>1, <2>6 DEF Applied
    <3>2. \A k \in n + 1 - profile'.docs + 1..n + 1 : k = n + 1
      BY <1>1, <3>1
    <3> QED
      BY <1>1, <2>3, <3>1, <3>2
  <2> QED
    BY <2>4, <2>5, <2>6
<1>5. /\ profile' # NoRow
      /\ Len(recorded') # 0 /\ profile' = recorded'[Len(recorded')].left
  BY <1>1, <1>2 DEF NoRow
<1>9. ASSUME NEW k \in 2..n + 1, Shows(recorded'[k].ship, recorded'[k - 1].left.coo)
      PROVE  CountsOne(recorded'[k - 1].left, recorded'[k].left)
  <2>1. k \in 2..n \/ (k = n + 1 /\ n > 0)
    BY <1>1
  <2>2. k - 1 \in 1..n
    BY <1>1
  <2>3. CASE k \in 2..n
    <3>1. k \in 1..n
      BY <1>1, <2>3
    <3> QED
      BY <1>1, <1>9, <2>2, <2>3, <3>1 DEF ProfileIsItsEvidence
  <2>4. CASE k = n + 1 /\ n > 0
    <3>1. k - 1 = n /\ n # 0
      BY <1>1, <2>4
    <3>2. recorded'[k - 1].left = profile
      BY <1>1, <2>2, <3>1 DEF ProfileIsItsEvidence
    <3>3. recorded'[k].ship = ship /\ recorded'[k].left = profile'
      BY <1>1, <2>4
    <3>4. profile.coo = top
      BY <1>9, <3>2, <3>3, OneOrigin
    <3> QED
      BY <1>2, <3>2, <3>3, <3>4, AppliedCounts
  <2> QED
    BY <2>1, <2>3, <2>4
<1>6. profile'.source # "REVIEWER" =>
         /\ profile'.docs <= n + 1 /\ (profile'.coo # NoCode => profile'.docs > 0)
         /\ \A k \in 1..n + 1 : ~ReviewerConfirmed(recorded'[k].ship)
         /\ \A k \in n + 1 - profile'.docs + 1..n + 1 : Shows(recorded'[k].ship, profile'.coo)
  BY <1>4
<1>7. \A f \in Finalizers : fin'[f].attempt = 2 => profile' # NoRow
  OBVIOUS
<1> HIDE DEF ProfilesInv
<1>8. Len(recorded') = n + 1
  BY <1>1
<1>10. \A k \in 2..Len(recorded') :
           Shows(recorded'[k].ship, recorded'[k - 1].left.coo) =>
           CountsOne(recorded'[k - 1].left, recorded'[k].left)
  BY <1>8, <1>9
<1> QED
  <2>1. CASE profile'.source = "REVIEWER"
    BY <1>3, <1>5, <1>7, <1>8, <1>10, <2>1 DEF ProfileIsItsEvidence
  <2>2. CASE profile'.source # "REVIEWER"
    <3>1. /\ profile'.docs <= Len(recorded') /\ (profile'.coo # NoCode => profile'.docs > 0)
          /\ \A k \in 1..Len(recorded') : ~ReviewerConfirmed(recorded'[k].ship)
          /\ \A k \in Len(recorded') - profile'.docs + 1..Len(recorded') :
                Shows(recorded'[k].ship, profile'.coo)
      <4>1. /\ profile'.docs <= n + 1 /\ (profile'.coo # NoCode => profile'.docs > 0)
            /\ \A k \in 1..n + 1 : ~ReviewerConfirmed(recorded'[k].ship)
            /\ \A k \in n + 1 - profile'.docs + 1..n + 1 : Shows(recorded'[k].ship, profile'.coo)
        BY <1>6, <2>2
      <4>2. profile'.docs <= Len(recorded')
        BY <1>8, <4>1
      <4>3. ASSUME NEW k \in 1..Len(recorded') PROVE ~ReviewerConfirmed(recorded'[k].ship)
        <5>1. k \in 1..n + 1
          BY <1>8
        <5> QED
          BY <4>1, <5>1
      <4>4. ASSUME NEW k \in Len(recorded') - profile'.docs + 1..Len(recorded')
            PROVE  Shows(recorded'[k].ship, profile'.coo)
        <5>1. n \in Nat /\ profile'.docs \in Nat
          BY <1>1, <1>2 DEF RowType
        <5>2. k \in n + 1 - profile'.docs + 1..n + 1
          BY <1>8, <5>1
        <5> QED
          BY <4>1, <5>2
      <4> QED
        BY <4>1, <4>2, <4>3, <4>4
    <3> QED
      BY <1>5, <1>7, <1>10, <2>2, <3>1 DEF ProfileIsItsEvidence
  <2> QED
    BY <2>1, <2>2

LEMMA SaveKeeps ==
    ASSUME ProfilesInv, NEW f \in Finalizers, Save(f)
    PROVE  ProfilesInv'
<1> USE DEF ProfilesInv
<1>1. CASE fin[f].saw = NoRow /\ profile # NoRow
  <2>1. UNCHANGED <<profile, recorded>> /\ fin[f].pc = "write"
    BY <1>1 DEF Save
  <2>2. \/ fin' = [fin EXCEPT ![f] = FinIdle]
        \/ fin' = [fin EXCEPT ![f] = [fin[f] EXCEPT !.pc = "select", !.attempt = 2]]
    BY <1>1 DEF Save, ProfilesTypeOK
  <2> QED
    BY <1>1, <2>1, <2>2, LeavingKeeps
<1>2. CASE ~(fin[f].saw = NoRow /\ profile # NoRow)
  <2>1. /\ fin[f].pc = "write" /\ fin' = [fin EXCEPT ![f] = FinIdle]
        /\ profile' = Applied(fin[f].saw, fin[f].top, fin[f].confirmed)
        /\ recorded' = Append(recorded, [ship |-> fin[f].ship, left |-> profile'])
    BY <1>2 DEF Save
  <2>2. fin[f].saw = profile
    BY <1>2, <2>1 DEF RowUnderLock, HoldsWrite
  <2>3. /\ fin[f].ship \in Vendored /\ fin[f].top \in Codes /\ fin[f].confirmed \in BOOLEAN
        /\ Shows(fin[f].ship, fin[f].top)
        /\ fin[f].confirmed = ReviewerConfirmed(fin[f].ship)
    BY <2>1 DEF SavesUnderway, ProfilesTypeOK
  <2>4. fin'[f] = FinIdle /\ \A g \in Finalizers \ {f} : fin'[g] = fin[g]
    BY <2>1 DEF ProfilesTypeOK
  <2>5. profile' \in RowType /\ profile'.source # "absent"
    <3>1. profile \in RowType
      BY DEF ProfilesTypeOK, RowType
    <3> QED
      BY <2>1, <2>2, <2>3, <3>1, AppliedIsRow DEF AbsentIsNoRow
  <2>6. ProfilesTypeOK'
    <3>1. [ship |-> fin[f].ship, left |-> profile'] \in RecordedType
      BY <2>3, <2>5 DEF RecordedType
    <3>2. recorded \in Seq(RecordedType)
      BY DEF ProfilesTypeOK, RecordedType, RowType
    <3>3. recorded' \in Seq(RecordedType)
      BY <2>1, <3>1, <3>2
    <3> QED
      BY <2>1, <2>5, <3>3 DEF ProfilesTypeOK, RecordedType, RowType, FinIdle, NoRow
  <2>7. SavesUnderway'
    BY <2>4 DEF SavesUnderway, FinIdle
  <2>8. \A g \in Finalizers : ~HoldsWrite(g)'
    BY <1>2, <2>1, <2>2, <2>4 DEF RowUnderLock, HoldsWrite, FinIdle
  <2>9. RowUnderLock' /\ AbsentIsNoRow'
    BY <2>5, <2>8 DEF RowUnderLock, AbsentIsNoRow
  <2>10. profile' # NoRow
    BY <2>5 DEF NoRow
  <2>11. ProfileIsItsEvidence'
    BY <2>1, <2>2, <2>3, <2>10, CommitTells
  <2> QED
    BY <2>6, <2>7, <2>9, <2>11
<1> QED
  BY <1>1, <1>2

-----------------------------------------------------------------------------
(* The inductive invariant.                                                  *)
THEOREM ProfilesInvariant == ProfilesSpec => []ProfilesInv
<1>1. ProfilesAtRest => ProfilesInv
  BY ProfilesStart
<1>2. ProfilesInv /\ [ProfilesNext]_profileVars => ProfilesInv'
  <2> SUFFICES ASSUME ProfilesInv, [ProfilesNext]_profileVars PROVE ProfilesInv'
    OBVIOUS
  <2>1. ASSUME NEW f \in Finalizers, NEW ship \in Vendored, Observe(f, ship) PROVE ProfilesInv'
    BY <2>1, ObserveKeeps
  <2>2. ASSUME NEW f \in Finalizers, SelectRow(f) PROVE ProfilesInv'
    BY <2>2, SelectKeeps
  <2>3. ASSUME NEW f \in Finalizers, Save(f) PROVE ProfilesInv'
    BY <2>3, SaveKeeps
  <2>4. ASSUME NEW f \in Finalizers, StoreFails(f) PROVE ProfilesInv'
    BY <2>4, LeavingKeeps DEF StoreFails
  <2>5. CASE UNCHANGED profileVars
    BY <2>5 DEF profileVars, ProfilesInv, ProfilesTypeOK, SavesUnderway, RowUnderLock, HoldsWrite,
                AbsentIsNoRow, ProfileIsItsEvidence
  <2> QED
    BY <2>1, <2>2, <2>3, <2>4, <2>5 DEF ProfilesNext
<1> QED
  BY <1>1, <1>2, PTL DEF ProfilesSpec

(* The remembered origin is what the committed jobs themselves say, none of  *)
(* them lost (record_coo_observation).                                       *)
THEOREM ProfilesLearnFromJobs == ProfilesSpec => []ProfileIsItsEvidence
<1>1. ProfilesInv => ProfileIsItsEvidence
  BY DEF ProfilesInv
<1> QED
  BY <1>1, ProfilesInvariant, PTL

-----------------------------------------------------------------------------
(* The in-process job lock (JobLock).                                       *)

\* Counted is a finite set with a natural number as its cardinality, which
\* grows by one with a new member and shrinks by one without an old one:
\* what the += 1 and -= 1 of the reference count rely on.
LEMMA CountedFinite ==
    ASSUME NEW S, S \subseteq Threads
    PROVE  /\ IsFiniteSet(S)
           /\ Cardinality(S) \in Nat
           /\ \A t \in Threads \ S : Cardinality(S \cup {t}) = Cardinality(S) + 1
           /\ \A t \in S : Cardinality(S \ {t}) = Cardinality(S) - 1
           /\ Cardinality(S) = 0 <=> S = {}
<1>1. IsFiniteSet(S)
  BY ThreadsFinite, FS_Subset
<1>2. Cardinality(S) \in Nat
  BY <1>1, FS_CardinalityType
<1>3. \A t \in Threads \ S : Cardinality(S \cup {t}) = Cardinality(S) + 1
  BY <1>1, FS_AddElement
<1>4. \A t \in S : Cardinality(S \ {t}) = Cardinality(S) - 1
  BY <1>1, FS_RemoveElement
<1>5. Cardinality(S) = 0 <=> S = {}
  BY <1>1, FS_EmptySet
<1> QED
  BY <1>1, <1>2, <1>3, <1>4, <1>5

-----------------------------------------------------------------------------
\* The lock dictionaries start empty and consistent.
LEMMA InitInv == Init => IndInv
<1> SUFFICES ASSUME Init PROVE IndInv
  OBVIOUS
<1>1. TypeOK
  BY DEF Init, TypeOK, PCs
<1>2. GuardHeld /\ CallHasJob /\ RemainingCurrent /\ HolderOwns
  BY NoThreadFresh DEF Init, GuardHeld, CallHasJob, RemainingCurrent, HolderOwns
<1>3. \A j \in Jobs : Counted(j) = {} /\ Referring(j) = {}
  BY DEF Init, Counted, Referring
<1>4. EntryMatchesUse
  BY <1>3, CountedFinite DEF Init, EntryMatchesUse
<1> QED
  BY <1>1, <1>2, <1>4 DEF IndInv

\* No step of a thread takes a variable out of its type.
LEMMA TypeStep == IndInv /\ [Next]_vars => TypeOK'
<1> SUFFICES ASSUME IndInv, [Next]_vars PROVE TypeOK'
  OBVIOUS
<1> USE DEF IndInv, TypeOK, PCs, GoTo, CallHasJob
<1>1. ASSUME NEW t \in Threads, NEW j \in Jobs, Enter(t, j) PROVE TypeOK'
  BY <1>1 DEF Enter
<1>2. ASSUME NEW t \in Threads, SetDefault(t) PROVE TypeOK'
  BY <1>2 DEF SetDefault
<1>3. ASSUME NEW t \in Threads, CountIn(t) PROVE TypeOK'
  BY <1>3 DEF CountIn
<1>4. ASSUME NEW t \in Threads, Acquire(t) PROVE TypeOK'
  BY <1>4 DEF Acquire
<1>5. ASSUME NEW t \in Threads, Release(t) PROVE TypeOK'
  BY <1>5 DEF Release
<1>6. ASSUME NEW t \in Threads, Leave(t) PROVE TypeOK'
  BY <1>6 DEF Leave
<1>7. ASSUME NEW t \in Threads, Reckon(t) PROVE TypeOK'
  BY <1>7 DEF Reckon
<1>8. ASSUME NEW t \in Threads, CountOut(t) PROVE TypeOK'
  BY <1>8 DEF CountOut
<1>9. CASE UNCHANGED vars
  BY <1>9 DEF vars
<1> QED
  BY <1>1, <1>2, <1>3, <1>4, <1>5, <1>6, <1>7, <1>8, <1>9 DEF Next, Step

\* A thread past the lookup refers to the object in the dictionary.
LEMMA RefersToEntry ==
    ASSUME IndInv, NEW t \in Threads, pc[t] \notin {"idle", "lookup"}
    PROVE  /\ job[t] \in Jobs
           /\ lock[t] = jobLocks[job[t]]
           /\ lock[t] \in LockObjs
<1>1. job[t] \in Jobs
  BY DEF IndInv, TypeOK, CallHasJob
<1>2. t \in Referring(job[t])
  BY DEF Referring
<1>3. jobLocks[job[t]] # NoLock /\ lock[t] = jobLocks[job[t]]
  BY <1>1, <1>2 DEF IndInv, EntryMatchesUse
<1> QED
  BY <1>1, <1>3 DEF IndInv, TypeOK

\* The guard, the job ids and the ownership of lock objects stay in step
\* with the program counters.
LEMMA ControlStep ==
    IndInv /\ [Next]_vars => GuardHeld' /\ CallHasJob' /\ HolderOwns'
<1> SUFFICES ASSUME IndInv, [Next]_vars
             PROVE  GuardHeld' /\ CallHasJob' /\ HolderOwns'
  OBVIOUS
<1> USE NoThreadFresh, NoJobFresh
    DEF IndInv, TypeOK, PCs, GoTo, GuardHeld, CallHasJob, HolderOwns
<1>1. ASSUME NEW t \in Threads, NEW j \in Jobs, Enter(t, j) PROVE GuardHeld' /\ CallHasJob' /\ HolderOwns'
  BY <1>1 DEF Enter
<1>2. ASSUME NEW t \in Threads, SetDefault(t) PROVE GuardHeld' /\ CallHasJob' /\ HolderOwns'
  BY <1>2 DEF SetDefault
<1>3. ASSUME NEW t \in Threads, CountIn(t) PROVE GuardHeld' /\ CallHasJob' /\ HolderOwns'
  BY <1>3 DEF CountIn
<1>4. ASSUME NEW t \in Threads, Acquire(t) PROVE GuardHeld' /\ CallHasJob' /\ HolderOwns'
  BY <1>4, RefersToEntry DEF Acquire
<1>5. ASSUME NEW t \in Threads, Release(t) PROVE GuardHeld' /\ CallHasJob' /\ HolderOwns'
  BY <1>5, RefersToEntry DEF Release
<1>6. ASSUME NEW t \in Threads, Leave(t) PROVE GuardHeld' /\ CallHasJob' /\ HolderOwns'
  BY <1>6 DEF Leave
<1>7. ASSUME NEW t \in Threads, Reckon(t) PROVE GuardHeld' /\ CallHasJob' /\ HolderOwns'
  BY <1>7 DEF Reckon
<1>8. ASSUME NEW t \in Threads, CountOut(t) PROVE GuardHeld' /\ CallHasJob' /\ HolderOwns'
  BY <1>8 DEF CountOut
<1>9. CASE UNCHANGED vars
  BY <1>9 DEF vars
<1> QED
  BY <1>1, <1>2, <1>3, <1>4, <1>5, <1>6, <1>7, <1>8, <1>9 DEF Next, Step

\* The reference count and the dictionary entries stay exact.
LEMMA EntryStep == IndInv /\ [Next]_vars => EntryMatchesUse' /\ RemainingCurrent'
<1> SUFFICES ASSUME IndInv, [Next]_vars
             PROVE  EntryMatchesUse' /\ RemainingCurrent'
  OBVIOUS
<1> USE DEF GoTo
<1>a. TypeOK /\ GuardHeld /\ CallHasJob /\ RemainingCurrent /\ EntryMatchesUse
  BY DEF IndInv
<1>b. \A j \in Jobs : Counted(j) \subseteq Threads /\ Referring(j) \subseteq Threads
  BY DEF Counted, Referring
\* A step that moves nobody in or out of the two sets.
<1>c. ASSUME \A j \in Jobs : Counted(j)' = Counted(j) /\ Referring(j)' = Referring(j),
             UNCHANGED <<jobLocks, waiters, lock>>
      PROVE  EntryMatchesUse'
  BY <1>a, <1>c DEF EntryMatchesUse
<1>1. ASSUME NEW t \in Threads, NEW j \in Jobs, Enter(t, j)
      PROVE  EntryMatchesUse' /\ RemainingCurrent'
  <2>1. \A k \in Jobs : Counted(k)' = Counted(k) /\ Referring(k)' = Referring(k)
    BY <1>1, <1>a DEF Enter, Counted, Referring, TypeOK
  <2>2. RemainingCurrent'
    BY <1>1, <1>a DEF Enter, RemainingCurrent, TypeOK
  <2> QED
    BY <1>1, <1>c, <2>1, <2>2 DEF Enter
<1>2. ASSUME NEW t \in Threads, SetDefault(t)
      PROVE  EntryMatchesUse' /\ RemainingCurrent'
  <2>0. PICK jt \in Jobs : jt = job[t]
    BY <1>2, <1>a DEF SetDefault, TypeOK, CallHasJob
  <2>1. \A k \in Jobs : Counted(k)' = Counted(k)
    BY <1>2, <1>a DEF SetDefault, Counted, TypeOK
  <2>2. /\ \A k \in Jobs \ {jt} : Referring(k)' = Referring(k)
        /\ Referring(jt)' = Referring(jt) \cup {t}
    BY <1>2, <1>a, <2>0 DEF SetDefault, Referring, TypeOK
  <2>3. /\ jobLocks[jt]' \in LockObjs
        /\ lock[t]' = jobLocks[jt]'
        /\ \A u \in Threads \ {t} : lock[u]' = lock[u]
        /\ \A k \in Jobs \ {jt} : jobLocks[k]' = jobLocks[k]
        /\ jobLocks[jt] # NoLock => jobLocks' = jobLocks
    BY <1>2, <1>a, <2>0 DEF SetDefault, TypeOK
  <2>4. \A k \in Jobs : waiters[k]' = Cardinality(Counted(k))'
    BY <1>2, <1>a, <2>1 DEF SetDefault, EntryMatchesUse
  <2>5. t \notin Referring(jt)
    BY <1>2, <2>0 DEF SetDefault, Referring
  <2>6. \A k \in Jobs : /\ (jobLocks[k] # NoLock)' <=> (Referring(k) # {})'
                        /\ \A u \in Referring(k)' : lock[u]' = jobLocks[k]'
    <3> SUFFICES ASSUME NEW k \in Jobs
                 PROVE /\ (jobLocks[k] # NoLock)' <=> (Referring(k) # {})'
                       /\ \A u \in Referring(k)' : lock[u]' = jobLocks[k]'
      OBVIOUS
    <3>1. CASE k = jt
      BY <3>1, <1>a, <1>b, <2>0, <2>2, <2>3, <2>5, NoLockFresh DEF EntryMatchesUse
    <3>2. CASE k # jt
      <4>1. t \notin Referring(k)
        BY <3>2, <2>0 DEF Referring
      <4> QED
        BY <3>2, <4>1, <1>a, <1>b, <2>2, <2>3 DEF EntryMatchesUse
    <3> QED
      BY <3>1, <3>2
  <2>7. RemainingCurrent'
    BY <1>2, <1>a DEF SetDefault, RemainingCurrent, TypeOK
  <2> QED
    BY <2>4, <2>6, <2>7 DEF EntryMatchesUse
<1>3. ASSUME NEW t \in Threads, CountIn(t)
      PROVE  EntryMatchesUse' /\ RemainingCurrent'
  <2>0. PICK jt \in Jobs : jt = job[t]
    BY <1>3, <1>a DEF CountIn, TypeOK, CallHasJob
  <2>1. /\ \A k \in Jobs \ {jt} : Counted(k)' = Counted(k)
        /\ Counted(jt)' = Counted(jt) \cup {t}
        /\ t \notin Counted(jt)
    BY <1>3, <1>a, <2>0 DEF CountIn, Counted, TypeOK
  <2>2. \A k \in Jobs : Referring(k)' = Referring(k)
    BY <1>3, <1>a DEF CountIn, Referring, TypeOK
  <2>3. Cardinality(Counted(jt)') = Cardinality(Counted(jt)) + 1
    BY <2>0, <2>1, <1>b, CountedFinite
  <2>4. \A k \in Jobs : waiters[k]' = Cardinality(Counted(k)')
    <3>1. waiters' = [waiters EXCEPT ![jt] = @ + 1] /\ waiters \in [Jobs -> Nat]
      BY <1>3, <1>a, <2>0 DEF CountIn, TypeOK
    <3>2. \A k \in Jobs : waiters[k] = Cardinality(Counted(k))
      BY <1>a DEF EntryMatchesUse
    <3>3. waiters[jt]' = Cardinality(Counted(jt)')
      BY <2>0, <2>3, <3>1, <3>2
    <3>4. ASSUME NEW k \in Jobs, k # jt PROVE waiters[k]' = Cardinality(Counted(k)')
      <4>1. waiters'[k] = waiters[k]
        BY <3>1, <3>4
      <4>2. Counted(k)' = Counted(k)
        BY <2>1, <3>4
      <4> QED BY <3>2, <4>1, <4>2
    <3> QED BY <3>3, <3>4
  <2>5. RemainingCurrent'
    BY <1>3, <1>a DEF CountIn, RemainingCurrent, GuardHeld, TypeOK
  <2> QED
    BY <1>3, <1>a, <2>2, <2>4, <2>5 DEF CountIn, EntryMatchesUse
<1>4. ASSUME NEW t \in Threads, Acquire(t) \/ Release(t) \/ Leave(t)
      PROVE  EntryMatchesUse' /\ RemainingCurrent'
  <2>1. \A k \in Jobs : Counted(k)' = Counted(k) /\ Referring(k)' = Referring(k)
    BY <1>4, <1>a DEF Acquire, Release, Leave, Counted, Referring, TypeOK
  <2>2. RemainingCurrent'
    BY <1>4, <1>a DEF Acquire, Release, Leave, RemainingCurrent, TypeOK
  <2> QED
    BY <1>4, <1>c, <2>1, <2>2 DEF Acquire, Release, Leave
<1>5. ASSUME NEW t \in Threads, Reckon(t)
      PROVE  EntryMatchesUse' /\ RemainingCurrent'
  <2>0. job[t] \in Jobs
    BY <1>5, <1>a DEF Reckon, TypeOK, CallHasJob
  <2>1. \A k \in Jobs : Counted(k)' = Counted(k) /\ Referring(k)' = Referring(k)
    BY <1>5, <1>a DEF Reckon, Counted, Referring, TypeOK
  <2>2. t \in Counted(job[t])
    BY <1>5 DEF Reckon, Counted
  <2>3. waiters[job[t]] \in Nat \ {0}
    BY <2>0, <2>2, <1>a, <1>b, CountedFinite DEF EntryMatchesUse, TypeOK
  <2>4. RemainingCurrent'
    BY <1>5, <1>a, <2>0, <2>3 DEF Reckon, RemainingCurrent, TypeOK
  <2> QED
    BY <1>5, <1>c, <2>1, <2>4 DEF Reckon
<1>6. ASSUME NEW t \in Threads, CountOut(t)
      PROVE  EntryMatchesUse' /\ RemainingCurrent'
  <2>0. PICK jt \in Jobs : jt = job[t]
    BY <1>6, <1>a DEF CountOut, TypeOK, CallHasJob
  <2>1. /\ \A k \in Jobs \ {jt} : /\ Counted(k)' = Counted(k)
                                       /\ Referring(k)' = Referring(k)
        /\ Counted(jt)' = Counted(jt) \ {t}
        /\ Referring(jt)' = Referring(jt) \ {t}
        /\ t \in Counted(jt)
    BY <1>6, <1>a, <2>0, NoJobFresh DEF CountOut, Counted, Referring, TypeOK
  <2>2. Cardinality(Counted(jt)') = Cardinality(Counted(jt)) - 1
    BY <2>0, <2>1, <1>b, CountedFinite
  <2>3. waiters[jt] = remaining[t] + 1 /\ remaining[t] \in Nat
    BY <1>6, <1>a, <2>0 DEF CountOut, RemainingCurrent, TypeOK
  <2>4. \A k \in Jobs : waiters[k]' = Cardinality(Counted(k)')
    <3>1. waiters' = [waiters EXCEPT ![jt] = remaining[t]]
      BY <1>6, <2>0 DEF CountOut
    <3>2. waiters[jt]' = Cardinality(Counted(jt)')
      BY <3>1, <1>a, <2>2, <2>3 DEF EntryMatchesUse, TypeOK
    <3>3. \A k \in Jobs \ {jt} : waiters[k]' = Cardinality(Counted(k)')
      BY <3>1, <1>a, <2>1 DEF EntryMatchesUse, TypeOK
    <3> QED
      BY <3>2, <3>3
  \* Nobody is between the lookup and the count: t has the guard.
  <2>5. Referring(jt)' = Counted(jt)'
    BY <1>6, <1>a, <2>0 DEF CountOut, Counted, Referring, GuardHeld, TypeOK, PCs
  <2>6. remaining[t] = 0 <=> Referring(jt)' = {}
    <3>1. Counted(jt)' \subseteq Threads
      BY <2>0, <2>1, <1>b
    <3>2. Cardinality(Counted(jt)') = remaining[t]
      BY <2>0, <2>2, <2>3, <1>a DEF EntryMatchesUse
    <3> QED
      BY <2>5, <3>1, <3>2, CountedFinite
  <2>7. /\ \A k \in Jobs \ {jt} : jobLocks[k]' = jobLocks[k]
        /\ remaining[t] > 0 => jobLocks' = jobLocks
        /\ ~(remaining[t] > 0) => jobLocks[jt]' = NoLock
        /\ \A u \in Threads \ {t} : lock[u]' = lock[u]
    BY <1>6, <1>a, <2>0 DEF CountOut, TypeOK
  <2>8. \A k \in Jobs : /\ (jobLocks[k] # NoLock)' <=> (Referring(k) # {})'
                        /\ \A u \in Referring(k)' : lock[u]' = jobLocks[k]'
    <3> SUFFICES ASSUME NEW k \in Jobs
                 PROVE /\ (jobLocks[k] # NoLock)' <=> (Referring(k) # {})'
                       /\ \A u \in Referring(k)' : lock[u]' = jobLocks[k]'
      OBVIOUS
    <3>1. CASE k = jt
      <4>1. t \in Referring(jt)
        BY <1>6, <2>0 DEF CountOut, Referring
      <4> QED
        BY <3>1, <4>1, <1>a, <1>b, <2>0, <2>1, <2>3, <2>6, <2>7 DEF EntryMatchesUse
    <3>2. CASE k # jt
      <4>1. t \notin Referring(k)
        BY <3>2, <2>0 DEF Referring
      <4> QED
        BY <3>2, <4>1, <1>a, <1>b, <2>1, <2>7 DEF EntryMatchesUse
    <3> QED
      BY <3>1, <3>2
  <2>9. RemainingCurrent'
    BY <1>6, <1>a DEF CountOut, RemainingCurrent, GuardHeld, TypeOK
  <2> QED
    BY <2>4, <2>8, <2>9 DEF EntryMatchesUse
<1>7. CASE UNCHANGED vars
  BY <1>7, <1>a DEF vars, EntryMatchesUse, RemainingCurrent, Counted, Referring
<1> QED
  BY <1>1, <1>2, <1>3, <1>4, <1>5, <1>6, <1>7 DEF Next, Step

-----------------------------------------------------------------------------
\* The lock dictionaries are consistent in every state of every behaviour.
THEOREM LockInvariant == Spec => []IndInv
<1>1. IndInv /\ [Next]_vars => IndInv'
  BY TypeStep, ControlStep, EntryStep DEF IndInv
<1> QED
  BY <1>1, InitInv, PTL DEF Spec

\* Counts never go below zero, and every reference is to a lock or to none.
THEOREM LockTypes == Spec => []TypeOK
<1>1. IndInv => TypeOK
  BY DEF IndInv
<1> QED
  BY <1>1, LockInvariant, PTL

\* _JOB_LOCKS and _JOB_LOCK_WAITERS hold exactly the entries in use.
THEOREM EntriesMatchUse == Spec => []EntryMatchesUse
<1>1. IndInv => EntryMatchesUse
  BY DEF IndInv
<1> QED
  BY <1>1, LockInvariant, PTL

\* Two threads that are inside own the same object, hence are one thread.
LEMMA InsideOnce == IndInv => MutualExclusion
<1> SUFFICES ASSUME IndInv,
                    NEW t \in Threads, NEW u \in Threads,
                    pc[t] = "cs", pc[u] = "cs", job[t] = job[u]
             PROVE  t = u
  BY DEF MutualExclusion
<1>1. lock[t] = jobLocks[job[t]] /\ lock[u] = jobLocks[job[u]]
  BY RefersToEntry
<1>2. owner[lock[t]] = t /\ owner[lock[u]] = u
  BY DEF IndInv, HolderOwns
<1> QED
  BY <1>1, <1>2

\* At most one thread is inside the locked section of a job.
THEOREM JobsExclude == Spec => []MutualExclusion
  BY LockInvariant, InsideOnce, PTL

-----------------------------------------------------------------------------
\* The abstract holder of a job is the thread inside, if there is one.
HolderIsInside ==
    \A j \in Jobs :
        /\ \A t \in Threads : (pc[t] = "cs" /\ job[t] = j) => Holder(j) = t
        /\ (\A t \in Threads : ~(pc[t] = "cs" /\ job[t] = j)) => Holder(j) = NoThread

\* Under mutual exclusion the holder of a job is the thread in its body.
LEMMA HolderIs == MutualExclusion => HolderIsInside
<1> SUFFICES ASSUME MutualExclusion, NEW j \in Jobs
             PROVE  /\ \A t \in Threads : (pc[t] = "cs" /\ job[t] = j) => Holder(j) = t
                    /\ (\A t \in Threads : ~(pc[t] = "cs" /\ job[t] = j)) => Holder(j) = NoThread
  BY DEF HolderIsInside
<1>1. ASSUME NEW t \in Threads, pc[t] = "cs", job[t] = j
      PROVE  Holder(j) = t
  <2>1. Holder(j) = CHOOSE u \in Threads : pc[u] = "cs" /\ job[u] = j
    BY <1>1 DEF Holder
  <2>2. Holder(j) \in Threads /\ pc[Holder(j)] = "cs" /\ job[Holder(j)] = j
    BY <1>1, <2>1
  <2> QED
    BY <1>1, <2>2 DEF MutualExclusion
<1> QED
  BY <1>1 DEF Holder

\* A step that moves no thread into or out of the body of a job leaves the
\* abstract holders alone.
LEMMA HolderSame ==
    ASSUME \A t \in Threads : (pc[t] = "cs")' <=> (pc[t] = "cs"),
           \A t \in Threads : pc[t] = "cs" => job[t]' = job[t]
    PROVE  [j \in Jobs |-> Holder(j)]' = [j \in Jobs |-> Holder(j)]
<1>1. \A j \in Jobs : \A t \in Threads :
        (pc'[t] = "cs" /\ job'[t] = j) <=> (pc[t] = "cs" /\ job[t] = j)
  OBVIOUS
<1>2. \A j \in Jobs : (CHOOSE t \in Threads : pc'[t] = "cs" /\ job'[t] = j)
                      = (CHOOSE t \in Threads : pc[t] = "cs" /\ job[t] = j)
  BY <1>1
<1>3. \A j \in Jobs : Holder(j)' = Holder(j)
  BY <1>1, <1>2 DEF Holder
<1> QED
  BY <1>3

\* Acquiring and releasing the lock object are acquiring and releasing the
\* job; every other step of the context manager is invisible.
LEMMA MutexStep ==
    IndInv /\ IndInv' /\ [Next]_vars => [Mutex!Next]_([j \in Jobs |-> Holder(j)])
<1> SUFFICES ASSUME IndInv, IndInv', [Next]_vars
             PROVE  [Mutex!Next]_([j \in Jobs |-> Holder(j)])
  OBVIOUS
<1> DEFINE H == [j \in Jobs |-> Holder(j)]
<1>a. TypeOK /\ CallHasJob /\ HolderOwns
  BY DEF IndInv
<1>b. HolderIsInside /\ HolderIsInside'
  BY InsideOnce, HolderIs, PTL
<1>1. ASSUME NEW t \in Threads, Acquire(t)
      PROVE  \E j \in Jobs : Mutex!Acquire(t, j)
  <2>0. PICK j \in Jobs : j = job[t]
    BY <1>1, <1>a DEF Acquire, GoTo, TypeOK, CallHasJob
  <2>1. /\ pc[t] = "wait" /\ pc' = [pc EXCEPT ![t] = "cs"]
        /\ job' = job
        /\ owner[lock[t]] = NoThread
    BY <1>1 DEF Acquire, GoTo
  <2>2. \A u \in Threads : ~(pc[u] = "cs" /\ job[u] = j)
    BY <2>0, <2>1, <1>a, RefersToEntry, NoThreadFresh DEF HolderOwns
  <2>3. Holder(j) = NoThread
    BY <2>2, <1>b DEF HolderIsInside
  <2>4. \A k \in Jobs : Holder(k) # t
    BY <2>1, <1>b, NoThreadFresh DEF HolderIsInside
  <2>5. Holder(j)' = t
    BY <2>0, <2>1, <1>a, <1>b DEF TypeOK, HolderIsInside
  <2>6. \A k \in Jobs \ {j} : Holder(k)' = Holder(k)
    BY <2>0, <2>1, <1>a, <1>b DEF TypeOK, HolderIsInside
  <2>7. H' = [H EXCEPT ![j] = t]
    BY <2>5, <2>6
  <2> QED
    BY <2>3, <2>4, <2>7 DEF Mutex!Acquire
<1>2. ASSUME NEW t \in Threads, Release(t)
      PROVE  \E j \in Jobs : Mutex!Release(t, j)
  <2>0. PICK j \in Jobs : j = job[t]
    BY <1>2, <1>a DEF Release, GoTo, TypeOK, CallHasJob
  <2>1. /\ pc[t] = "cs" /\ pc' = [pc EXCEPT ![t] = "leave"]
        /\ job' = job
    BY <1>2 DEF Release, GoTo
  <2>2. Holder(j) = t
    BY <2>0, <2>1, <1>b DEF HolderIsInside
  <2>3. \A u \in Threads : ~(pc'[u] = "cs" /\ job'[u] = j)
    BY <2>0, <2>1, <1>a, InsideOnce DEF MutualExclusion, TypeOK
  <2>4. Holder(j)' = NoThread
    BY <2>3, <1>b DEF HolderIsInside
  <2>5. \A k \in Jobs \ {j} : Holder(k)' = Holder(k)
    BY <2>0, <2>1, <1>a, <1>b DEF TypeOK, HolderIsInside
  <2>6. H' = [H EXCEPT ![j] = NoThread]
    BY <2>4, <2>5
  <2> QED
    BY <2>2, <2>6 DEF Mutex!Release
<1>3. ASSUME NEW t \in Threads,
             \/ \E j \in Jobs : Enter(t, j)
             \/ SetDefault(t) \/ CountIn(t) \/ Leave(t) \/ Reckon(t) \/ CountOut(t)
      PROVE  H' = H
  BY <1>3, <1>a, HolderSame
     DEF TypeOK, GoTo, Enter, SetDefault, CountIn, Leave, Reckon, CountOut
<1>4. CASE UNCHANGED vars
  BY <1>4, HolderSame DEF vars
<1> QED
  BY <1>1, <1>2, <1>3, <1>4 DEF Next, Step, Mutex!Next

\* The reference-counted lock of services.py implements the per-job mutex
\* that job_lock promises to its callers.
THEOREM JobLockImplementsMutex == Spec => ImplementsJobMutex
<1>1. Init => Mutex!Init
  BY DEF Init, Mutex!Init, Holder
<1> QED
  BY <1>1, LockInvariant, MutexStep, PTL DEF Spec, ImplementsJobMutex, Mutex!Spec

=============================================================================
