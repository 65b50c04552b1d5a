---------------------------- MODULE ItemOverlay ----------------------------
(***************************************************************************)
(* The reviewer's overlay on the item list of one job                      *)
(* (review/item_mutations.py).  The extracted rows never change; what the  *)
(* reviewer adds, deletes, edits and selects is kept beside them, keyed by *)
(* item id, and applied again on every recompute.                          *)
(*                                                                         *)
(* Every operation here runs under the job lock in services.py: read the   *)
(* row, compute the current items, call the operation, commit.  JobLock    *)
(* and DeclarationJob are about that; here an operation is one step.  Its  *)
(* arguments are arbitrary, as they are when a browser tab is out of date. *)
(***************************************************************************)
EXTENDS Integers, Sequences, FiniteSets, Functions, SequencesExt

CONSTANTS
    MaxItems,      \* an extraction yields at most this many goods rows
    Lineages,      \* invoice number and date an extraction may print
    ManualIds,     \* the uuids that may be drawn for manual rows
    Countries,     \* country codes
    Codes,         \* HS codes
    Requests,      \* the edits of one row that are sent
    Totals,        \* shipment totals that are sent
    MaxVersion,    \* bound on the extractions of the invoices
    MaxRevision,   \* the revision after which the reviewer mutates no more
    None           \* null

\* An id is a lineage and a position in it, or a uuid: assign_source_item_ids
\* hashes number, date and index, so another extraction that prints the same
\* number and date yields the same ids.
SourceIds == Lineages \X (1..MaxItems)
ItemIds   == SourceIds \cup ManualIds

\* Numbers the reviewer may enter for a row: PIN_ITEM_FIELDS, and the
\* supplementary quantity that is clearable with them.
Pins    == {"gross_weight", "net_weight", "carton_count"}
Numbers == Pins \cup {"supplementary_quantity"}

\* Stored numbers are in units of the column's last decimal.  A request's are
\* in quarters of it, so that one may be too fine to be stored as it is.
NoNumber == -1
Absent   == -2      \* not in the request
Clear    == -1      \* sent empty

\* What a request may carry for one row, and the edits kept for one row.
Fields  == [description : {None, "edited"},
            coo         : {None, ""} \cup Countries,
            number      : [Numbers -> Int]]
Request == {r \in Fields : \A n \in Numbers : r.number[n] >= Absent}
Edits   == {e \in Fields : \A n \in Numbers : e.number[n] >= NoNumber}

\* What is kept of a manual row.
ManualRecord == [active : BOOLEAN, coo : {""} \cup Countries]

ASSUME MaxItemsType == MaxItems \in Nat \ {0}
ASSUME ManualIdsApart == ManualIds \cap SourceIds = {}
ASSUME ManualIdsFinite == IsFiniteSet(ManualIds)
ASSUME RequestsType == \A r \in Requests : r \in Request
ASSUME MaxVersionType == MaxVersion \in Nat
ASSUME MaxRevisionType == MaxRevision \in Nat
ASSUME LineagesType == Lineages # {}
ASSUME NoneFresh == None \notin Totals \cup Countries \cup Codes \cup Edits \cup ManualRecord

VARIABLES
    evidence,  \* the invoices' rows: how many, of which lineage and extraction
    overlay,   \* Job.item_mutations
    items      \* what is computed of the two: the rows on display

vars == <<evidence, overlay, items>>

EmptyOverlay ==
    [revision          |-> 0,
     ordered_item_ids  |-> <<>>,
     manual_items      |-> [id \in ManualIds |-> None],
     tombstones        |-> {},
     hs_selections     |-> [id \in ItemIds |-> None],
     field_edits       |-> [id \in ItemIds |-> None],
     bms_edits         |-> {},       \* ids with an override
     coo_all           |-> None,
     shipment_override |-> None,
     reset_notice      |-> 0]        \* the revision it was written at

(***************************************************************************)
(* apply_item_mutations                                                    *)
(***************************************************************************)
SourceRows(ev) == [i \in 1..ev.count |-> <<ev.lineage, i>>]

ActiveManual(ov) == {id \in ManualIds : ov.manual_items[id] # None /\ ov.manual_items[id].active}

ActiveIds(ev, ov) == (Range(SourceRows(ev)) \ ov.tombstones) \cup ActiveManual(ov)

HasMutations(ov) ==
    \/ \E id \in ManualIds : ov.manual_items[id] # None
    \/ ov.tombstones # {}
    \/ \E id \in ItemIds : ov.field_edits[id] # None
    \/ ov.coo_all # None

\* The sort key: the place in ordered_item_ids, the end for an id that has
\* none, and the sequence number there, which a manual row has as 0.
Place(ov, id) ==
    IF \E i \in DOMAIN ov.ordered_item_ids : ov.ordered_item_ids[i] = id
    THEN CHOOSE i \in DOMAIN ov.ordered_item_ids : ov.ordered_item_ids[i] = id
    ELSE Len(ov.ordered_item_ids) + 1
Sequence(id) == IF id \in ManualIds THEN 0 ELSE id[2]

Before(ov, a, b) ==
    \/ Place(ov, a) < Place(ov, b)
    \/ Place(ov, a) = Place(ov, b) /\ Sequence(a) < Sequence(b)

\* s lists the ids of S, each once.
Lists(s, S) == IsInjective(s) /\ Range(s) = S

Sorted(ov, S) ==
    CHOOSE s \in [1..Cardinality(S) -> S] :
        Lists(s, S) /\ \A i, j \in DOMAIN s : i < j => Before(ov, s[i], s[j])

\* The ids of the rows on display, in order.
CurrentIds(ev, ov) ==
    IF HasMutations(ov) THEN Sorted(ov, ActiveIds(ev, ov)) ELSE SourceRows(ev)

NoEdits == [description |-> None, coo |-> None, number |-> [n \in Numbers |-> NoNumber]]

EditsOf(ov, id) == IF ov.field_edits[id] # None THEN ov.field_edits[id] ELSE NoEdits

Coo(ov, id) ==
    IF EditsOf(ov, id).coo # None THEN EditsOf(ov, id).coo
    ELSE IF ov.coo_all # None THEN ov.coo_all
    ELSE IF id \in ManualIds THEN ov.manual_items[id].coo
    ELSE "printed"

\* A row on display.  HS codes and brand, model, size are applied after
\* apply_item_mutations, by id as well.
Row(ev, ov, id) ==
    [id          |-> id,
     of          |-> IF id \in ManualIds THEN 0 ELSE ev.version,
     description |-> EditsOf(ov, id).description,
     coo         |-> Coo(ov, id),
     number      |-> EditsOf(ov, id).number,
     hs          |-> ov.hs_selections[id],
     bms         |-> IF id \in ov.bms_edits THEN "edited" ELSE None]

CurrentRows(ev, ov) ==
    LET ids == CurrentIds(ev, ov)
    IN  [i \in 1..Len(ids) |-> Row(ev, ov, ids[i])]

Init ==
    /\ evidence = [count |-> 0, lineage |-> CHOOSE l \in Lineages : TRUE, version |-> 0]
    /\ overlay = EmptyOverlay
    /\ items = <<>>

(***************************************************************************)
(* The reviewer's mutations                                                *)
(***************************************************************************)
\* _require_item_mutable, and the bound: a review has been computed of
\* documents that are all extracted.
InReview == evidence.count > 0 /\ overlay.revision < MaxRevision

Current == [i \in DOMAIN items |-> items[i].id]

\* The authoritative order, or the displayed one before there is any.
Ordering == IF overlay.ordered_item_ids # <<>> THEN overlay.ordered_item_ids ELSE Current

\* validate_overlay_invariants: anything else is refused.
ValidOrder(ov, ids) == Lists(ov.ordered_item_ids, ids)

Bumped(ov) == [ov EXCEPT !.revision = @ + 1]

\* add_item: new_manual_item_id draws a uuid no row of the job ever had.
Added(sn, id, coo) ==
    Bumped([overlay EXCEPT
        !.manual_items[id] = [active |-> TRUE, coo |-> coo],
        !.ordered_item_ids = InsertAt(Ordering, sn, id)])

AddItem(sn, id, coo) ==
    /\ InReview
    /\ sn \in 1..(Len(Current) + 1)
    /\ overlay.manual_items[id] = None
    /\ overlay' = Added(sn, id, coo)
    /\ ValidOrder(overlay', Range(Current) \cup {id})
    /\ UNCHANGED evidence

\* The comprehension that drops an id from a list which names it once.
Without(s, id) ==
    IF \E i \in DOMAIN s : s[i] = id
    THEN RemoveAt(s, CHOOSE i \in DOMAIN s : s[i] = id) ELSE s

\* Mutant of Deleted: the HS selection of a deleted row is kept.
DeletedKeepsHs(id) ==
    Bumped([overlay EXCEPT
        !.manual_items     = IF id \in ManualIds THEN [@ EXCEPT ![id].active = FALSE] ELSE @,
        !.tombstones       = IF id \in ManualIds THEN @ ELSE @ \cup {id},
        !.ordered_item_ids = Without(Ordering, id),
        !.field_edits[id]  = None,
        !.bms_edits        = @ \ {id}])

\* delete_item: a manual row's record stays, inactive; a source row gets a
\* tombstone; the id leaves every map.
Deleted(id) ==
    Bumped([overlay EXCEPT
        !.manual_items     = IF id \in ManualIds THEN [@ EXCEPT ![id].active = FALSE] ELSE @,
        !.tombstones       = IF id \in ManualIds THEN @ ELSE @ \cup {id},
        !.ordered_item_ids = Without(Ordering, id),
        !.hs_selections[id] = None,
        !.field_edits[id]  = None,
        !.bms_edits        = @ \ {id}])

DeleteItem(id, confirmation_sn) ==
    /\ InReview
    /\ confirmation_sn \in DOMAIN Current
    /\ Current[confirmation_sn] = id
    /\ Len(Current) > 1
    /\ overlay' = Deleted(id)
    /\ ValidOrder(overlay', Range(Current) \ {id})
    /\ UNCHANGED evidence

\* edit_item_fields checks what is supplied: positive numbers, cartons in
\* whole hundredths ...
Sent(r, n) == r.number[n] \notin {Absent, Clear}

Acceptable(r) ==
    /\ r.description # None \/ r.coo # None \/ \E n \in Numbers : r.number[n] # Absent
    /\ \A n \in Numbers : Sent(r, n) => r.number[n] > 0
    /\ Sent(r, "carton_count") => r.number["carton_count"] % 4 = 0

\* ... and rounds half up to what is stored: q4, q2.
Stored(q) == IF q = Clear THEN NoNumber ELSE (q + 2) \div 4

Merged(old, r) ==
    [description |-> IF r.description # None THEN r.description ELSE old.description,
     coo         |-> IF r.coo # None THEN r.coo ELSE old.coo,
     number      |-> [n \in Numbers |-> IF r.number[n] # Absent THEN Stored(r.number[n])
                                        ELSE old.number[n]]]

PairSane(e) ==
    e.number["gross_weight"] # NoNumber /\ e.number["net_weight"] # NoNumber
        => e.number["net_weight"] < e.number["gross_weight"]

\* Mutant of EditItem: the two weights are compared within the request only.
EditItemAlone(id, r) ==
    /\ InReview
    /\ id \in Range(Current)
    /\ Acceptable(r)
    /\ PairSane(Merged(NoEdits, r))
    /\ overlay' = Bumped([overlay EXCEPT
                             !.field_edits[id] = Merged(EditsOf(overlay, id), r)])
    /\ UNCHANGED evidence

EditItem(id, r) ==
    /\ InReview
    /\ id \in Range(Current)
    /\ Acceptable(r)
    /\ PairSane(Merged(EditsOf(overlay, id), r))
    /\ overlay' = Bumped([overlay EXCEPT
                             !.field_edits[id] = Merged(EditsOf(overlay, id), r)])
    /\ UNCHANGED evidence

\* Entries in which nothing but edited_at is left are dropped.
Left(e) == IF e = NoEdits THEN None ELSE e

\* Mutant of StampedCoo: the rows' own COO edits stay.
StampedCooKeepsEdits(c) == Bumped([overlay EXCEPT !.coo_all = c])

\* set_all_coo: the rows' own COO edits go, so that the value shows on all.
StampedCoo(c) ==
    Bumped([overlay EXCEPT
        !.coo_all     = c,
        !.field_edits = [id \in ItemIds |->
                           IF @[id] = None THEN None ELSE Left([@[id] EXCEPT !.coo = None])]])

SetAllCoo(c) ==
    /\ InReview
    /\ overlay' = StampedCoo(c)
    /\ UNCHANGED evidence

SetShipmentTotals(t) ==
    /\ InReview
    /\ overlay' = Bumped([overlay EXCEPT !.shipment_override = t])
    /\ UNCHANGED evidence

\* Mutant of Selected: a selection leaves the revision alone, as a BMS edit does.
SelectedSilently(ids, code) ==
    [overlay EXCEPT
        !.hs_selections = [id \in ItemIds |-> IF id \in ids THEN code ELSE @[id]]]

Selected(ids, code) ==
    Bumped([overlay EXCEPT
        !.hs_selections = [id \in ItemIds |-> IF id \in ids THEN code ELSE @[id]]])

SelectHs(id, code) ==
    /\ InReview
    /\ id \in Range(Current)
    /\ overlay' = Selected({id}, code)
    /\ UNCHANGED evidence

\* parse_sn_ranges yields a set of serial numbers, none outside the list.
SelectHsRange(sns, code) ==
    /\ InReview
    /\ sns # {} /\ sns \subseteq DOMAIN Current
    /\ overlay' = Selected({Current[sn] : sn \in sns}, code)
    /\ UNCHANGED evidence

\* edit_bms_fields: some rows' overrides set, others' cleared; no revision.
EditBms(set, cleared) ==
    /\ evidence.count > 0
    /\ (set \cup cleared) # {} /\ (set \cup cleared) \subseteq Range(Current)
    /\ overlay' = [overlay EXCEPT !.bms_edits = (@ \ cleared) \cup set]
    /\ UNCHANGED evidence

(***************************************************************************)
(* reset_for_evidence_change                                               *)
(***************************************************************************)
\* Mutants of Announced: the notice names the revision before, and one too many.
AnnouncedBefore(ov) == [Bumped(ov) EXCEPT !.reset_notice = ov.revision]
AnnouncedTwice(ov) == [Bumped(ov) EXCEPT !.reset_notice = ov.revision + 2]

Announced(ov) == [Bumped(ov) EXCEPT !.reset_notice = ov.revision + 1]

\* Mutant of ItemsReset: the order of the old rows is kept.
ItemsResetKeepsOrder(ov) ==
    [ov EXCEPT
        !.coo_all          = None,
        !.field_edits      = EmptyOverlay.field_edits,
        !.tombstones       = {},
        !.bms_edits        = {},
        !.hs_selections    = EmptyOverlay.hs_selections,
        !.manual_items     = [id \in ManualIds |-> IF @[id] = None THEN None
                                                   ELSE [@[id] EXCEPT !.active = FALSE]]]

\* What an INVOICE leaves.
ItemsReset(ov) ==
    [ov EXCEPT
        !.coo_all          = None,
        !.field_edits      = EmptyOverlay.field_edits,
        !.tombstones       = {},
        !.bms_edits        = {},
        !.ordered_item_ids = <<>>,
        !.hs_selections    = EmptyOverlay.hs_selections,
        !.manual_items     = [id \in ManualIds |-> IF @[id] = None THEN None
                                                   ELSE [@[id] EXCEPT !.active = FALSE]]]

Unpinned(e) ==
    [e EXCEPT !.number = [n \in Numbers |-> IF n \in Pins THEN NoNumber ELSE @[n]]]

\* What an AIR_WAYBILL or a PACKING_LIST leaves.  Entries are dropped only
\* when a pin was stripped from one of them.
ShipmentReset(ov) ==
    [ov EXCEPT
        !.shipment_override = None,
        !.field_edits       = IF \E id \in ItemIds : @[id] # None /\ Unpinned(@[id]) # @[id]
                              THEN [id \in ItemIds |-> IF @[id] = None THEN None
                                                       ELSE Left(Unpinned(@[id]))]
                              ELSE @]

\* Nothing discarded, nothing written.
Reset(left) == overlay' = IF left # overlay THEN Announced(left) ELSE overlay

\* The invoices are extracted again, or gone: another list of rows, which may
\* carry the same ids.
InvoiceEvidence(count, lineage) ==
    /\ evidence.version < MaxVersion
    /\ evidence' = [count |-> count, lineage |-> lineage, version |-> evidence.version + 1]
    /\ Reset(ItemsReset(overlay))

ShipmentEvidence ==
    /\ UNCHANGED evidence
    /\ Reset(ShipmentReset(overlay))

ReviewerStep ==
    \/ \E id \in ManualIds, coo \in {""} \cup Countries :
          \E sn \in 1..(Len(Current) + 1) : AddItem(sn, id, coo)
    \/ \E sn \in DOMAIN Current : DeleteItem(Current[sn], sn)
    \/ \E id \in Range(Current), r \in Requests : EditItem(id, r)
    \/ \E c \in Countries : SetAllCoo(c)
    \/ \E t \in Totals : SetShipmentTotals(t)
    \/ \E id \in Range(Current), code \in Codes : SelectHs(id, code)
    \/ \E sns \in SUBSET DOMAIN Current, code \in Codes : SelectHsRange(sns, code)

BmsStep ==
    \E ids \in SUBSET Range(Current) : EditBms(ids, {}) \/ EditBms({}, ids)

EvidenceStep ==
    \/ \E count \in 0..MaxItems, lineage \in Lineages : InvoiceEvidence(count, lineage)
    \/ ShipmentEvidence

\* resolve_context computes the items again from what is now stored.
Next ==
    /\ ReviewerStep \/ BmsStep \/ EvidenceStep
    /\ items' = CurrentRows(evidence', overlay')

Spec == Init /\ [][Next]_vars

(***************************************************************************)
(* Properties                                                              *)
(***************************************************************************)
\* Types.  A reset notice never names a revision that has not been reached.
Overlay == [revision          : Nat,
            ordered_item_ids  : Seq(ItemIds),
            manual_items      : [ManualIds -> {None} \cup ManualRecord],
            tombstones        : SUBSET SourceIds,
            hs_selections     : [ItemIds -> {None} \cup Codes],
            field_edits       : [ItemIds -> {None} \cup Edits],
            bms_edits         : SUBSET ItemIds,
            coo_all           : {None} \cup Countries,
            shipment_override : {None} \cup Totals,
            reset_notice      : Nat]

TypeOK ==
    /\ evidence \in [count : 0..MaxItems, lineage : Lineages, version : 0..MaxVersion]
    /\ overlay \in Overlay
    /\ overlay.reset_notice <= overlay.revision

\* The stored order is a list of the active rows, each once.
OrderFitsRows ==
    overlay.ordered_item_ids # <<>> =>
        Lists(overlay.ordered_item_ids, ActiveIds(evidence, overlay))

\* validate_overlay_invariants is a net nobody falls into: whatever was added,
\* deleted and extracted again, no addition within the list and no deletion
\* from it is ever refused for its order.  Were the stored order to fall out
\* of step once, every later one would be.
MutationsAccepted ==
    /\ \A sn \in 1..(Len(Current) + 1), id \in ManualIds :
          overlay.manual_items[id] = None =>
             ValidOrder(Added(sn, id, ""), Range(Current) \cup {id})
    /\ \A id \in Range(Current) : ValidOrder(Deleted(id), Range(Current) \ {id})

\* No entry is kept for a row that is not there: an id that comes back with
\* the next extraction of the same invoice finds nothing waiting for it.
EntriesOfActiveRows ==
    /\ overlay.tombstones \subseteq Range(SourceRows(evidence))
    /\ \A id \in ItemIds \ ActiveIds(evidence, overlay) :
          /\ overlay.hs_selections[id] = None
          /\ overlay.field_edits[id] = None
          /\ id \notin overlay.bms_edits

\* A row whose two weights are both pinned has its net weight below its
\* gross, although the two may be entered, cleared and rounded apart.
NetBelowGross ==
    \A id \in ItemIds :
        overlay.field_edits[id] # None => PairSane(overlay.field_edits[id])

\* Without an order the rows are the extraction's.
OrderOrNothing ==
    overlay.ordered_item_ids = <<>> =>
        overlay.tombstones = {} /\ ActiveManual(overlay) = {}

OverlayInv ==
    /\ TypeOK
    /\ OrderFitsRows
    /\ OrderOrNothing
    /\ EntriesOfActiveRows
    /\ NetBelowGross

\* The inductive invariant: the parts above, and the rows on display are the
\* ones computed of what is stored.
IndInv == OverlayInv /\ items = CurrentRows(evidence, overlay)

\* What the declaration is made of: the rows without their export-only
\* columns, and the totals.
Declared ==
    [rows   |-> [i \in DOMAIN items |-> [items[i] EXCEPT !.bms = None]],
     totals |-> overlay.shipment_override]

\* Nothing the declaration is made of changes behind the fingerprint's back:
\* the evidence changes or the revision in the fingerprint rises.
RevisionTellsChange ==
    [][Declared' # Declared
         => evidence' # evidence \/ overlay'.revision > overlay.revision]_vars

NoticeShown == overlay.reset_notice > 0 /\ overlay.reset_notice = overlay.revision

\* What the evidence took away is announced, and the announcement stays until
\* the reviewer's next mutation and no longer ("the reviewer's next mutation
\* retires it without anyone having to clear it").
LossIsAnnounced ==
    [][IF overlay'.revision = overlay.revision THEN NoticeShown' = NoticeShown
       ELSE NoticeShown' <=> EvidenceStep]_vars

Table == INSTANCE ItemTable WITH
             rows    <- items,
             totals  <- overlay.shipment_override,
             version <- evidence.version

\* Every operation on the overlay changes exactly the rows and the columns it
\* is about in the table that is computed from it; rows keep their order
\* around an insertion or a deletion, and the reviewer's values do not outlive
\* the evidence they were entered against.
ImplementsItemTable == Table!Spec
============================================================================
