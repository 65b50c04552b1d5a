------------------------------- MODULE Access -------------------------------
(***************************************************************************)
(* Who may come in and how much they may spend: the sign-in throttle, the   *)
(* sign-up and password-reset limiters (auth.py), the account tables        *)
(* (accounts.py), the monthly document cap (metering.py), the identity      *)
(* provider behind them (auth_supabase.py) and the routes that use them     *)
(* (main.py).                                                               *)
(*                                                                          *)
(* Every one of these routes reads a count, waits for somebody outside the  *)
(* process, and writes its own row afterwards, with nothing held between:   *)
(* Requests is the set of requests that can be between those two points at  *)
(* one moment.  Times are ticks; a row exactly as old as a window, to the   *)
(* microsecond, is taken as outside it.                                     *)
(*                                                                          *)
(* Signing out deletes the browser's cookie and nothing on the server, so   *)
(* it is no action here.                                                    *)
(***************************************************************************)
EXTENDS Integers, FiniteSets

CONSTANTS
    Requests,       \* the requests in progress at one moment
    Clients,        \* what client_key makes of an address: one limiter key each
    Accounts,       \* the registered addresses
    Strangers,      \* addresses the provider does not know
    Rules,          \* per limiter, its [max, within] rules
    Retention,      \* per limiter, the age at which a row is pruned
    SessionTicks,   \* token_ttl_seconds
    DefaultCap,     \* resolved_monthly_document_cap; 0 is unlimited
    EphemeralKey,   \* no auth_secret is configured: tokens die with the process
    Caps,           \* the caps an administrator sets
    MaxNow,         \* bound: the clock
    MaxEvents       \* bound: attempts ever recorded

Limiters == {"login", "signup", "reset"}

ASSUME RulesAssumption ==
    /\ Rules \in [Limiters -> SUBSET [max : Nat \ {0}, within : Nat \ {0}]]
    /\ Retention \in [Limiters -> Nat \ {0}]
    /\ \A k \in Limiters : \A rule \in Rules[k] : rule.within <= Retention[k]
ASSUME RequestsAssumption == IsFiniteSet(Requests)
ASSUME SessionAssumption == SessionTicks \in Nat
ASSUME CapAssumption == DefaultCap \in Nat /\ Caps \subseteq Nat

Unset == -1         \* no quota row, or a row whose cap is NULL

VARIABLES
    now,
    rows,           \* login_attempt, signup_attempt, password_reset_attempt
    counted,        \* history: the attempts whose row was committed, never pruned
    events,         \* attempts recorded so far: the ids of the rows
    doing,          \* what each request is in the middle of
    session,        \* per account, when its newest token expires
    barred,         \* account_disabled
    admins,         \* account_role rows that say admin
    cap,            \* account_quota.monthly_document_cap
    spent,          \* this month's "ocr" usage events
    allowance,      \* history: the cap the account's last extraction was let through under
    told            \* history: what registrations and resets were answered

accessVars == <<now, rows, counted, events, doing, session, barred, admins, cap, spent,
                allowance, told>>

Address == Accounts \cup Strangers
Idle == [step |-> "idle", kind |-> "none", client |-> "none", who |-> "none"]

\* The rows of a client that a rule still looks at.
Recent(table, client, within) ==
    {e \in table : e.client = client /\ now - e.at < within}

\* throttle_retry_after, signup_retry_after, password_reset_retry_after: a
\* positive wait when some rule is full.
Throttled(k, client) ==
    \E rule \in Rules[k] : Cardinality(Recent(rows[k], client, rule.within)) >= rule.max

\* Between the count that let a request through and the row it will write.
Asking(k, client) ==
    {r \in Requests : /\ doing[r].kind = k /\ doing[r].client = client
                      /\ doing[r].step \in {"asked", "record"}}

-----------------------------------------------------------------------------
(* The provider.  Condition is what it is like at the moment; Wire is what  *)
(* it sends for a known and an unknown address (not under src/).            *)

Condition == {"ok", "weak", "closed", "busy", "broken", "refuses", "down"}

\* Whether a request makes the provider mail: a sign-up mails a new address, a
\* reset one that has an account.  A confirmation, which is a member's, is
\* limited and fails as a reset does.
Mailed(kind, whose) == (kind = "signup") = (whose = "stranger")

Wire(kind, condition, whose) ==
    CASE condition = "weak"    -> [status |-> 422, says |-> "password"]
      [] condition = "closed"  -> [status |-> 422, says |-> "disabled"]
      [] condition = "busy"    -> [status |-> IF Mailed(kind, whose) THEN 429 ELSE 200, says |-> ""]
      [] condition = "broken"  -> [status |-> IF Mailed(kind, whose) THEN 500 ELSE 200, says |-> ""]
      [] condition = "refuses" -> [status |-> 401, says |-> ""]
      [] condition = "down"    -> [status |-> 0, says |-> ""]
      [] OTHER -> IF kind = "signup" /\ whose = "member"
                  THEN [status |-> 422, says |-> "already"] ELSE [status |-> 200, says |-> ""]

\* sign_up: already registered, rate limited and broken are answered as an
\* accepted registration is.
SignUp(wire) ==
    CASE wire.status = 0                                          -> "unavailable"
      [] wire.status \in {200, 201, 429} \/ wire.status >= 500    -> "accepted"
      [] wire.status \in {400, 422} /\ wire.says = "already"      -> "accepted"
      [] wire.status \in {400, 422} /\ wire.says = "password"     -> "WEAK_PASSWORD"
      [] wire.status \in {400, 422} /\ wire.says = "disabled"     -> "SIGNUP_UNAVAILABLE"
      [] wire.status \in {400, 422}
           /\ wire.says \notin {"already", "password", "disabled"}  -> "INVALID_EMAIL"
      [] OTHER                                                    -> "unavailable"

\* request_password_reset
RequestReset(wire) == IF wire.status \in {0, 401, 403} THEN "unavailable" ELSE "accepted"

\* set_password_with_recovery_token, and what the confirm route answers.  No
\* session is issued and no limiter consulted.
SetPassword(wire) ==
    CASE wire.status = 200                                        -> "PASSWORD_UPDATED"
      [] wire.status \in {401, 403}                               -> "INVALID_TOKEN"
      [] wire.status \in {400, 422} /\ wire.says = "password"     -> "WEAK_PASSWORD"
      [] wire.status \in {400, 422} /\ wire.says # "password"     -> "INVALID_TOKEN"
      [] wire.status = 429                                        -> "TOO_MANY_ATTEMPTS"
      [] OTHER                                                    -> "unavailable"

\* Mutant: a registration says that the address is taken.
AnswerTells(kind, wire) ==
    IF wire.says = "already" THEN "EMAIL_TAKEN"
    ELSE IF kind = "signup" THEN SignUp(wire) ELSE RequestReset(wire)

Answer(kind, wire) ==
    CASE kind = "signup" -> SignUp(wire)
      [] kind = "reset"   -> RequestReset(wire)
      [] OTHER            -> SetPassword(wire)

-----------------------------------------------------------------------------
\* Nothing under way, nothing recorded or spent.
AccessAtRest(sessions, bars, roles) ==
    /\ now = 0 /\ events = 0
    /\ rows = [k \in Limiters |-> {}] /\ counted = [k \in Limiters |-> {}]
    /\ doing = [r \in Requests |-> Idle]
    /\ session = sessions /\ barred = bars /\ admins = roles
    /\ cap = [a \in Accounts |-> Unset]
    /\ spent = [a \in Accounts |-> 0] /\ allowance = [a \in Accounts |-> 0]
    /\ told = {}

AccessInit ==
    \E sessions \in [Accounts -> {0, SessionTicks}], bars, roles \in SUBSET Accounts :
        AccessAtRest(sessions, bars, roles)

Goes(r, step) == doing' = [doing EXCEPT ![r].step = step]
Ends(r) == doing' = [doing EXCEPT ![r] = Idle]
accountTables == <<session, barred, admins, cap>>
ledger == <<spent, allowance>>

\* login, signup, password_reset: the limiter is read, then the provider is
\* asked.  A full limiter answers 429, an unreadable one 503; neither writes.
Ask(r, k, client, who) ==
    /\ doing[r] = Idle /\ events < MaxEvents
    /\ ~Throttled(k, client)
    /\ doing' = [doing EXCEPT ![r] = [step |-> "asked", kind |-> k, client |-> client, who |-> who]]
    /\ UNCHANGED <<now, rows, counted, events, accountTables, ledger, told>>

\* verify_login: a wrong password will be counted, an outage is not a wrong
\* password.
PasswordChecked(r) ==
    /\ doing[r].step = "asked" /\ doing[r].kind = "login"
    /\ \/ Goes(r, "record")
       \/ doing[r].who \in Accounts /\ Goes(r, "right")
       \/ Ends(r)
    /\ UNCHANGED <<now, rows, counted, events, accountTables, ledger, told>>

\* The sign-up and reset routes after the provider answered: only what was
\* accepted is recorded, an outage is answered 502 and costs the caller nothing.
Registered(r) ==
    /\ doing[r].step = "asked" /\ doing[r].kind \in {"signup", "reset"}
    /\ \E condition \in Condition :
         LET whose == IF doing[r].who \in Accounts THEN "member" ELSE "stranger"
             answer == Answer(doing[r].kind, Wire(doing[r].kind, condition, whose))
         IN  /\ told' = told \cup {[kind |-> doing[r].kind, condition |-> condition,
                                    whose |-> whose, answer |-> answer]}
             /\ IF answer = "accepted" THEN Goes(r, "record") ELSE Ends(r)
    /\ UNCHANGED <<now, rows, counted, events, accountTables, ledger>>

\* Mutant: rows are pruned as soon as they are not of this tick.
KeptBriefly(k, table) == {e \in table : now - e.at < 1}

\* The rows that the pruning which comes with every insertion leaves.
Kept(k, table) == {e \in table : now - e.at < Retention[k]}

\* record_failure, record_signup, record_password_reset: the row and the
\* pruning of every expired one commit together, or fail together in silence.
Record(r) ==
    /\ doing[r].step = "record"
    /\ LET k == doing[r].kind
           row == [id |-> events, client |-> doing[r].client, at |-> now]
       IN  \/ /\ rows' = [rows EXCEPT ![k] = Kept(k, rows[k] \cup {row})]
              /\ counted' = [counted EXCEPT ![k] = counted[k] \cup {row}]
           \/ UNCHANGED <<rows, counted>>
    /\ events' = events + 1
    /\ Ends(r)
    /\ UNCHANGED <<now, accountTables, ledger, told>>

\* The deny-list is read after the password was right.
Vet(r) ==
    /\ doing[r].step = "right"
    /\ IF doing[r].who \in barred THEN Ends(r) ELSE Goes(r, "welcome")
    /\ UNCHANGED <<now, rows, counted, events, accountTables, ledger, told>>

\* clear_failures (best effort), record_sign_in, issue_token.
Welcome(r) ==
    /\ doing[r].step = "welcome"
    /\ LET others(table) == {e \in table : e.client # doing[r].client}
       IN  \/ /\ rows' = [rows EXCEPT !["login"] = others(rows["login"])]
              /\ counted' = [counted EXCEPT !["login"] = others(counted["login"])]
           \/ UNCHANGED <<rows, counted>>
    /\ session' = [session EXCEPT ![doing[r].who] = now + SessionTicks]
    /\ Ends(r)
    /\ UNCHANGED <<now, events, barred, admins, cap, ledger, told>>

\* password_reset_confirm keeps nothing.
ConfirmReset ==
    /\ \E condition \in Condition \ {"closed"} :
         told' = told \cup {[kind |-> "confirm", condition |-> condition, whose |-> "member",
                             answer |-> Answer("confirm", Wire("confirm", condition, "member"))]}
    /\ UNCHANGED <<now, rows, counted, events, doing, accountTables, ledger>>

-----------------------------------------------------------------------------
(* Signed in.                                                              *)

\* verify_token: a signature of this process's key that has not expired.
SignedIn(a) == now < session[a]

\* resolved_cap and quota_exceeded
ResolvedCap(a) == IF cap[a] = Unset THEN DefaultCap ELSE cap[a]

\* Mutant: the cap itself still passes.
QuotaExceededLate(a) == ResolvedCap(a) > 0 /\ spent[a] > ResolvedCap(a)

QuotaExceeded(a) == ResolvedCap(a) > 0 /\ spent[a] >= ResolvedCap(a)

Extracting(a) == {r \in Requests : doing[r].kind = "extract" /\ doing[r].who = a}

\* extract_uploaded_document up to the call that runs the extraction: deny-list,
\* then the month's count against the cap.
Extract(r, a) ==
    /\ doing[r] = Idle
    /\ SignedIn(a) /\ a \notin barred /\ ~QuotaExceeded(a)
    /\ doing' = [doing EXCEPT ![r] = [step |-> "running", kind |-> "extract", client |-> "none",
                                      who |-> a]]
    /\ allowance' = [allowance EXCEPT ![a] = ResolvedCap(a)]
    /\ UNCHANGED <<now, rows, counted, events, accountTables, spent, told>>

\* run_extraction: the usage row of the OCR commits with the envelope.  A lost
\* claim, a stored envelope or a failure before it spends nothing.
OcrPaid(r) ==
    /\ doing[r].kind = "extract"
    /\ \/ spent' = [spent EXCEPT ![doing[r].who] = @ + 1]
       \/ UNCHANGED spent
    /\ Ends(r)
    /\ UNCHANGED <<now, rows, counted, events, accountTables, allowance, told>>

\* require_admin: the caller's own bar first, then the role; else 404.
AdminAsks(r, a) ==
    /\ doing[r] = Idle
    /\ SignedIn(a) /\ a \notin barred /\ a \in admins
    /\ doing' = [doing EXCEPT ![r] = [step |-> "admin", kind |-> "admin", client |-> "none",
                                      who |-> a]]
    /\ UNCHANGED <<now, rows, counted, events, accountTables, ledger, told>>

\* The handlers behind it: disable (never oneself), enable, quota.
AdminActs(r) ==
    /\ doing[r].kind = "admin"
    /\ \E target \in Accounts :
         \/ /\ target # doing[r].who
            /\ barred' = barred \cup {target}
            /\ UNCHANGED cap
         \/ /\ barred' = barred \ {target}
            /\ UNCHANGED cap
         \/ /\ \E c \in Caps \cup {Unset} : cap' = [cap EXCEPT ![target] = c]
            /\ UNCHANGED barred
    /\ Ends(r)
    /\ UNCHANGED <<now, rows, counted, events, session, admins, ledger, told>>

\* grant_admin and revoke_admin, which only the operator's script calls.
OperatorSetsRole(a) ==
    /\ admins' = (admins \ {a}) \cup ({a} \ admins)
    /\ UNCHANGED <<now, rows, counted, events, doing, session, barred, cap, ledger, told>>

-----------------------------------------------------------------------------
Tick ==
    /\ now < MaxNow
    /\ now' = now + 1
    /\ UNCHANGED <<rows, counted, events, doing, accountTables, ledger, told>>

\* documents_this_month counts from the first of the month.
NewMonth ==
    /\ spent' = [a \in Accounts |-> 0]
    /\ UNCHANGED <<now, rows, counted, events, doing, accountTables, allowance, told>>

\* The process dies: its requests with it, and every token when no secret is
\* configured.  The tables stay.
Restart ==
    /\ doing' = [r \in Requests |-> Idle]
    /\ session' = IF EphemeralKey THEN [a \in Accounts |-> 0] ELSE session
    /\ UNCHANGED <<now, rows, counted, events, barred, admins, cap, ledger, told>>

AccessNext ==
    \/ \E r \in Requests :
         \/ \E k \in Limiters, c \in Clients, who \in Address : Ask(r, k, c, who)
         \/ PasswordChecked(r) \/ Registered(r) \/ Record(r) \/ Vet(r) \/ Welcome(r)
         \/ \E a \in Accounts : Extract(r, a) \/ AdminAsks(r, a)
         \/ OcrPaid(r) \/ AdminActs(r)
    \/ \E a \in Accounts : OperatorSetsRole(a)
    \/ ConfirmReset \/ Tick \/ NewMonth \/ Restart

AccessSpec == AccessInit /\ [][AccessNext]_accessVars

-----------------------------------------------------------------------------
AttemptRow == [id : Nat, client : Clients, at : Nat]
Request == [step : {"idle", "asked", "record", "right", "welcome", "running", "admin"},
            kind : Limiters \cup {"none", "extract", "admin"},
            client : Clients \cup {"none"}, who : Address \cup {"none"}]
AccessTypeOK ==
    /\ now \in Nat /\ events \in Nat
    /\ rows \in [Limiters -> SUBSET AttemptRow] /\ counted \in [Limiters -> SUBSET AttemptRow]
    /\ doing \in [Requests -> Request]
    /\ session \in [Accounts -> Nat]
    /\ barred \subseteq Accounts /\ admins \subseteq Accounts
    /\ cap \in [Accounts -> Nat \cup {Unset}]
    /\ spent \in [Accounts -> Nat] /\ allowance \in [Accounts -> Nat]

(* A limiter lets its max through, and beyond that at most the requests      *)
(* that were already past its count: pruning, the sign-ins of others and     *)
(* restarts never make it forget a recorded attempt inside any of its        *)
(* windows (auth.py: check before the provider, record after).               *)
LimitsHold ==
    \A k \in Limiters, c \in Clients : \A rule \in Rules[k] :
        Cardinality(Recent(counted[k], c, rule.within)) + Cardinality(Asking(k, c))
            <= rule.max - 1 + Cardinality(Requests)

(* The month's documents and the extractions under way exceed the cap they   *)
(* were let through under by less than the number of requests at one moment, *)
(* whatever an administrator does to the cap meanwhile (main.py: the count   *)
(* is read before the claim, the row written after the OCR).                 *)
QuotaOvershootBounded ==
    \A a \in Accounts : allowance[a] > 0 =>
        spent[a] + Cardinality(Extracting(a)) <= allowance[a] - 1 + Cardinality(Requests)

(* Whatever state the provider is in, registering or resetting an address    *)
(* is answered the same whether or not it has an account (auth_supabase.py   *)
(* answers "already registered" as an accepted registration).                *)
AnswersAlike ==
    \A x, y \in told : (x.kind = y.kind /\ x.condition = y.condition) => x.answer = y.answer
=============================================================================
