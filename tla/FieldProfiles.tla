---------------------------- MODULE FieldProfiles ----------------------------
(***************************************************************************)
(* What the service remembers of a vendor: the default country of origin   *)
(* (extraction/field_profiles.py), learned from the jobs of that vendor     *)
(* that are finalized and proposed where a later job prints no origin.      *)
(*                                                                         *)
(* One vendor: rows of different vendors are independent.  A finalize       *)
(* resolves the origins of its items, proposal included, and records what   *)
(* it saw in a transaction of its own: a SELECT, and an UPDATE or INSERT at *)
(* its commit.  On Postgres the SELECT locks the row, if there is one; on   *)
(* SQLite a lock of the process is held from the SELECT to the commit.      *)
(* What is recorded stays even when the finalize itself is rolled back.     *)
(***************************************************************************)
EXTENDS Integers, Sequences, FiniteSets

CONSTANTS
    Finalizers,     \* the finalizes in progress at one moment
    Codes,          \* alpha-2 codes
    NoCode,
    Vendored,       \* the jobs of this vendor: sequences of [printed, entered]
    RowLocks,       \* the database locks rows (Postgres), or the process its writes (SQLite)
    MaxRecorded     \* bound: observations ever recorded

ASSUME NoCodeAssumption == NoCode \notin Codes
ASSUME VendoredAssumption ==
    Vendored \subseteq Seq([printed : Codes \cup {NoCode}, entered : Codes \cup {NoCode}])
ASSUME RowLocksAssumption == RowLocks \in BOOLEAN

VARIABLES
    profile,    \* the vendor's row of vendor_field_profile
    fin,        \* per finalize, how far its record_coo_observation has come
    recorded    \* history: the jobs whose observations were committed, and the row each left

profileVars == <<profile, fin, recorded>>

MinObservedDocs == 2
NoRow == [coo |-> NoCode, source |-> "absent", docs |-> 0]
NewRow == [NoRow EXCEPT !.source = "cleared"]
FinIdle == [pc |-> "idle", ship |-> << >>, top |-> NoCode, confirmed |-> FALSE, saw |-> NoRow,
         attempt |-> 1]

-----------------------------------------------------------------------------
(* One job.                                                                *)

\* coo_default_for
Proposed ==
    IF profile.source = "REVIEWER" \/ profile.docs >= MinObservedDocs THEN profile.coo ELSE NoCode

\* apply_item_mutations and resolve_coo_for_item: what a reviewer entered, what
\* the invoice prints, else the profile's proposal or the exporter's country.
SourceOf(row, proposed) ==
    IF row.entered # NoCode \/ row.printed # NoCode THEN "ITEM_LEVEL"
    ELSE IF proposed # NoCode THEN "VENDOR_PROFILE" ELSE "EXPORTER_FALLBACK"
CodeOf(row, proposed) ==
    IF row.entered # NoCode THEN row.entered
    ELSE IF row.printed # NoCode THEN row.printed ELSE proposed

MostOf(part, whole) == part > 0 /\ 5 * part >= 4 * whole        \* _MIN_SHARE

Evidenced(ship, proposed) == {k \in DOMAIN ship : SourceOf(ship[k], proposed) = "ITEM_LEVEL"}

\* record_coo_observation: enough items carry an origin of their own, and most
\* of those agree; at most one code can be the top.
Tops(ship, proposed) ==
    LET evidenced == Evidenced(ship, proposed)
        saying(c) == {k \in evidenced : CodeOf(ship[k], proposed) = c}
    IN  {c \in Codes : /\ MostOf(Cardinality(evidenced), Len(ship))
                       /\ MostOf(Cardinality(saying(c)), Cardinality(evidenced))}

\* finalize_job: coo_all or an edited origin.
ReviewerConfirmed(ship) == \E k \in DOMAIN ship : ship[k].entered # NoCode

\* _apply_coo_observation
Applied(row, top, confirmed) ==
    IF confirmed
    THEN [coo |-> top, source |-> "REVIEWER",
          docs |-> IF row.coo = top /\ row.source = "REVIEWER" THEN row.docs + 1 ELSE 1]
    ELSE IF row.coo = top THEN [row EXCEPT !.docs = @ + 1]
    ELSE IF row.source = "REVIEWER" THEN row
    ELSE IF row.coo # NoCode THEN NewRow
    ELSE [coo |-> top, source |-> "OBSERVED", docs |-> 1]

-----------------------------------------------------------------------------
ProfilesAtRest ==
    /\ profile = NoRow
    /\ fin = [f \in Finalizers |-> FinIdle]
    /\ recorded = << >>

Busy == {f \in Finalizers : fin[f].pc # "idle"}
HoldsWrite(f) == fin[f].pc = "write" /\ (fin[f].saw # NoRow \/ ~RowLocks)

\* A finalize whose job says something about the vendor.
Observe(f, ship) ==
    /\ fin[f].pc = "idle" /\ Len(recorded) + Cardinality(Busy) < MaxRecorded
    /\ \E top \in Tops(ship, Proposed) :
          fin' = [fin EXCEPT ![f] = [FinIdle EXCEPT !.pc = "select", !.ship = ship, !.top = top,
                                                 !.confirmed = ReviewerConfirmed(ship)]]
    /\ UNCHANGED <<profile, recorded>>

\* Mutant: the row is read without a lock.
SelectUnlocked(f) ==
    /\ fin[f].pc = "select"
    /\ fin' = [fin EXCEPT ![f].pc = "write", ![f].saw = profile]
    /\ UNCHANGED <<profile, recorded>>

\* _locked_profile
SelectRow(f) ==
    /\ fin[f].pc = "select"
    /\ \A g \in Finalizers : ~HoldsWrite(g)
    /\ fin' = [fin EXCEPT ![f].pc = "write", ![f].saw = profile]
    /\ UNCHANGED <<profile, recorded>>

\* The commit.  A row that was not there and now is: IntegrityError, and once
\* more with the row to lock.
Save(f) ==
    /\ fin[f].pc = "write"
    /\ IF fin[f].saw = NoRow /\ profile # NoRow
       THEN /\ fin' = [fin EXCEPT ![f] =
                  IF @.attempt = 1 THEN [@ EXCEPT !.pc = "select", !.attempt = 2] ELSE FinIdle]
            /\ UNCHANGED <<profile, recorded>>
       ELSE /\ profile' = Applied(fin[f].saw, fin[f].top, fin[f].confirmed)
            /\ recorded' = Append(recorded, [ship |-> fin[f].ship, left |-> profile'])
            /\ fin' = [fin EXCEPT ![f] = FinIdle]

\* Any other failure of the store is logged, and the finalize goes on.
StoreFails(f) ==
    /\ fin[f].pc \in {"select", "write"}
    /\ fin' = [fin EXCEPT ![f] = FinIdle]
    /\ UNCHANGED <<profile, recorded>>

ProfilesNext ==
    \E f \in Finalizers :
        \/ \E ship \in Vendored : Observe(f, ship)
        \/ SelectRow(f) \/ Save(f) \/ StoreFails(f)

ProfilesSpec == ProfilesAtRest /\ [][ProfilesNext]_profileVars

-----------------------------------------------------------------------------
\* What a job itself says: most of its rows print or were given an origin, and
\* most of those are this one.
Said(row) == IF row.entered # NoCode THEN row.entered ELSE row.printed
Shows(ship, c) ==
    LET own == {k \in DOMAIN ship : Said(ship[k]) # NoCode}
    IN  /\ MostOf(Cardinality(own), Len(ship))
        /\ MostOf(Cardinality({k \in own : Said(ship[k]) = c}), Cardinality(own))

(* The type invariant.                                                     *)
ProfilesTypeOK ==
    /\ profile \in [coo : Codes \cup {NoCode}, source : {"absent", "cleared", "OBSERVED", "REVIEWER"},
                    docs : Nat]
    /\ fin \in [Finalizers -> [pc : {"idle", "select", "write"}, ship : Vendored \cup {<< >>},
                               top : Codes \cup {NoCode}, confirmed : BOOLEAN,
                               saw : [coo : Codes \cup {NoCode}, docs : Nat,
                                      source : {"absent", "cleared", "OBSERVED", "REVIEWER"}],
                               attempt : {1, 2}]]
    /\ recorded \in Seq([ship : Vendored,
                          left : [coo : Codes \cup {NoCode}, docs : Nat,
                                  source : {"absent", "cleared", "OBSERVED", "REVIEWER"}]])

\* A job that agrees with the row before it counts for one more: the count goes
\* up, or starts afresh where a reviewer confirms what was only observed.
CountsOne(was, is) ==
    /\ is.coo = was.coo
    /\ is.docs = was.docs + 1 \/ (was.source # "REVIEWER" /\ is.source = "REVIEWER")

(* The store learns from every job whose observation was committed, from     *)
(* what the jobs themselves say, and never from its own proposals: a         *)
(* remembered origin is the one most rows of the last confirmed job state;   *)
(* without a confirmed job, the one that each of the last `docs` jobs states. *)
(* And each job that agrees with what was remembered when it committed is    *)
(* counted once.  So no finalize of the same vendor is lost to another that  *)
(* ran beside it, neither what it says nor its count, and none that lost the *)
(* race for the first row loses it again (record_coo_observation,            *)
(* _locked_profile, side_store_session).                                     *)
ProfileIsItsEvidence ==
    LET n == Len(recorded)
    IN  /\ profile.source = "REVIEWER" =>
             \E k \in 1..n :
                /\ ReviewerConfirmed(recorded[k].ship) /\ Shows(recorded[k].ship, profile.coo)
                /\ \A j \in k + 1..n : ~ReviewerConfirmed(recorded[j].ship)
        /\ profile.source # "REVIEWER" =>
             /\ profile.docs <= n /\ (profile.coo # NoCode => profile.docs > 0)
             /\ \A k \in 1..n : ~ReviewerConfirmed(recorded[k].ship)
             /\ \A k \in n - profile.docs + 1..n : Shows(recorded[k].ship, profile.coo)
        /\ \A k \in 2..n : Shows(recorded[k].ship, recorded[k - 1].left.coo) =>
                              CountsOne(recorded[k - 1].left, recorded[k].left)
        /\ IF n = 0 THEN profile = NoRow ELSE profile = recorded[n].left /\ profile # NoRow
        /\ \A f \in Finalizers : fin[f].attempt = 2 => profile # NoRow
===============================================================================
