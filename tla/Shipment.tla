-------------------------------- MODULE Shipment --------------------------------
(***************************************************************************)
(* One job from its documents to its declaration: pipeline.resolve_context, *)
(* to_critical_review and finalize, over the rules of Allocation,          *)
(* TransportAuthority, PackingMatch, InvoiceAuthority, ItemRules and        *)
(* Declaration, with what the reviewer enters in between.                  *)
(*                                                                         *)
(* Document gives every file that may be uploaded its role and what was    *)
(* extracted of it.  Files arrive in any order; an upload discards the     *)
(* entries made against the evidence it changes and the review built on it. *)
(***************************************************************************)
EXTENDS Allocation, SequencesExt

CONSTANTS
    Document,           \* file -> [role, body]
    Families,           \* jobs: [files, kinds], kinds bounds what its reviewer enters
    GrossPins, NetPins, CtnPins, TotalsEntered,     \* what a reviewer enters
    HsEntered, Rates,
    MaxItems, MaxEntries,       \* bounds: rows with entries, entries of a job
    AirlineNumbers, ForwarderNumbers,               \* TransportAuthority
    Meaning, TextOrder, GroupRange, NoGroup, Tolerance,         \* PackingMatch
    HalfUnit,                                       \* InvoiceAuthority
    Official, Score, Guess, Country,                \* ItemRules
    Keep, Seeds, Reference, ValidExim, StrictBlocking, Confirmations, Overrides, \* Declaration
    ExporterCountry, ImporterExim, ProfileCoo,      \* of the invoices' header
    Banks, Terms,                                   \* as printed -> code
    None

(* A total or a cost that is confirmed is a number of steps; a rate is a     *)
(* fraction of positive numbers (_validated_rate_override refuses others).  *)
ASSUME ConfirmationsAssumption ==
    \A conf \in Confirmations, f \in {"gross", "packages", "freight", "insurance"} :
        conf[f] = Keep \/ conf[f] \in Int
ASSUME RatesAssumption == Rates \subseteq (Nat \ {0}) \X (Nat \ {0})

(* What a reviewer enters for a row is not negative, and neither are totals; *)
(* the tables that are looked up name official codes only.                  *)
ASSUME EntriesAssumption ==
    /\ GrossPins \subseteq Nat /\ NetPins \subseteq Nat /\ CtnPins \subseteq Nat
    /\ TotalsEntered \subseteq Nat \X Nat
    /\ MaxItems \in Nat /\ MaxEntries \in Nat

Texts == DOMAIN Meaning

ASSUME OfficialAssumption ==
    /\ IsFiniteSet(DOMAIN Official)
    /\ \A c \in DOMAIN Official : Official[c].rank \in Int
    /\ Score \in [Texts -> [DOMAIN Official -> Int]]
    /\ Guess \in [Texts -> DOMAIN Official \cup {<< >>}]

(* What the matcher reads in a text; the order of the keys has every text.   *)
ASSUME MeaningAssumption ==
    /\ \A t \in Texts : IsFiniteSet(Meaning[t].words)
    /\ TextOrder \in Seq(Texts) /\ Texts \subseteq Range(TextOrder)

Doc == INSTANCE Documents WITH Marks <- DOMAIN GroupRange \cup {NoGroup}

(* Document holds what the extraction of each file yields.                  *)
ASSUME DocumentsAssumption ==
    \A f \in DOMAIN Document :
        LET d == Document[f]
        IN  /\ d.role = "INVOICE" => d.body \in Doc!InvoiceChunk
            /\ d.role = "PACKING_LIST" => d.body \in Doc!PackingListChunk
            /\ d.role = "AIR_WAYBILL" => d.body \in Doc!AirWaybillForm
            /\ d.role = "BANKING" => d.body \in Doc!BankingExtraction
ASSUME GroupRangeAssumption == \A g \in DOMAIN GroupRange : GroupRange[g] \in Int

T == INSTANCE TransportAuthority WITH NoNumber <- ""
P == INSTANCE PackingMatch
I == INSTANCE InvoiceAuthority WITH NoInvoiceNumber <- ""
R == INSTANCE ItemRules WITH Steps <- One
D == INSTANCE Declaration

VARIABLES
    family,     \* the files of this job and the kinds of its entries, fixed at the start
    uploads,    \* the files uploaded so far, in their order
    overlay,    \* job.item_mutations: the reviewer's entries
    history,    \* job.hs_history: description -> code confirmed before
    review,     \* job.critical_review, or NoReview
    declared    \* job.declaration, or NoDeclaration

vars == <<family, uploads, overlay, history, review, declared>>

NoReview == None
NoDeclaration == None
Rows == 1..MaxItems

NoTotals == [gross |-> 0, ctn |-> 0]
NoPin == [gross |-> 0, net |-> 0, ctn |-> 0]
EmptyOverlay == [pins |-> [k \in Rows |-> NoPin], totals |-> NoTotals,
                 hs |-> << >>, entries |-> 0]

(* hs_selections: [row, code, key], in the order the rows were first chosen; *)
(* key is the description the code was chosen for.                          *)
CodeOf(ov, k) ==
    LET S == {n \in DOMAIN ov.hs : ov.hs[n].row = k}
    IN  IF S = {} THEN << >> ELSE ov.hs[Max(S)].code

-----------------------------------------------------------------------------
(* resolve_context.                                                        *)

(* _group_raw: the payloads of one role, in upload order.                   *)
Payloads(files, role) ==
    I!EntriesAt([k \in DOMAIN files |-> Document[files[k]].body],
                {k \in DOMAIN files : Document[files[k]].role = role})

(* The last packing list that prints a total is the one that counts.        *)
PackingTotals(lists) ==
    LET printing(fld) == {k \in DOMAIN lists : lists[k][fld] > 0}
        last(fld) == IF printing(fld) = {} THEN T!Unread ELSE lists[Max(printing(fld))][fld]
    IN  [gross |-> last("gross"), packages |-> last("packages"), net |-> last("net"),
         unit |-> IF printing("gross") = {} THEN T!NoUnit ELSE lists[Max(printing("gross"))].unit]

(* Rows of an overlay that the item list does not have are inert.           *)
ItemFrom(r, number, pin, hs, coo) ==
    [text |-> r.text, qty |-> I!Known(r.qty) * One, total |-> I!LineTotal(r),
     value |-> I!LineTotal(r) * One,    \* a cent weighs as much as a unit
     uom |-> r.uom, invWeight |-> r.weight, perUnit |-> r.perUnit, desc |-> r.described,
     pinGross |-> pin.gross, pinNet |-> pin.net, pinCtn |-> pin.ctn,
     number |-> number, hs |-> hs.code, hsSource |-> hs.source,
     hsExplicit |-> hs.explicit, coo |-> coo.code]

PinOf(ov, k) == IF k \in Rows THEN ov.pins[k] ELSE NoPin

ItemOf(entry, k, ov, hist) ==
    LET r == entry.row
    IN  ItemFrom(r, entry.number, PinOf(ov, k),
                 R!Reviewed(R!ResolveHs(r.hs, r.text, hist), CodeOf(ov, k), "DETAILED_REVIEW"),
                 R!ResolveCoo(r.coo, ProfileCoo, ExporterCountry))

(* A reviewer's totals, in kilograms, are the final shipment authority.     *)
Overridden(ship, totals) ==
    IF totals = NoTotals THEN ship
    ELSE [ship EXCEPT !.gross = totals.gross, !.printed = totals.gross, !.unit = "KGM",
                      !.packages = totals.ctn, !.type = "REVIEWER_OVERRIDE"]

(* The first banking document, and the rows of the packing lists: those of  *)
(* a list that was over budget are not trusted, nor are the others then.    *)
PrintedBanking(docs) ==
    IF docs = << >> THEN [bank |-> "", terms |-> "", mentions |-> << >>] ELSE docs[1]

OverBudget(lists) == \E k \in DOMAIN lists : lists[k].extraction = "over budget"

Trusted(lists) == IF OverBudget(lists) THEN << >> ELSE lists
TrustedRows(lists) == P!RowsRead(Trusted(lists))

PackingState(lists) ==
    IF lists = << >> \/ OverBudget(lists) THEN "none"
    ELSE IF \E k \in DOMAIN lists : lists[k].extraction = "partial" THEN "partial" ELSE "full"

(* What the documents state: printed is the gross in its unit, gross the    *)
(* kilograms the items are allocated.                                       *)
Stated(ship) ==
    [type |-> ship.type, gross |-> D!Kilograms(Max({0, ship.gross}), ship.unit),
     printed |-> Max({0, ship.gross}), unit |-> ship.unit,
     packages |-> Max({0, ship.packages}) * CtnOne,
     hawb |-> ship.hawb, mawb |-> ship.mawb, bl |-> ship.bl,
     field40 |-> T!DeriveField40(ship)]

(* What the review and finalize both start from: inv are the invoices, ship *)
(* is the transport authority the documents state.                          *)
ContextOf(inv, lists, forms, ship, authority, items, rows, freights, printed) ==
    [inv |-> inv, forms |-> forms, ship |-> authority, field40 |-> T!DeriveField40(ship),
     classes |-> ship.classes, form |-> ship.form,
     items |-> items, rows |-> rows, packing |-> PackingState(lists),
     evidence |-> P!MatchPacking(items, rows),
     banking |-> R!ResolveBanking(printed, Banks, Terms),
     candidates |-> freights,
     freight |-> R!FreightDefault(freights, inv.currency)]

FreightCandidates(invoices, forms, gross, printed) ==
    << R!InvoiceFreight(invoices), R!AwbFreightCandidate(forms, gross),
       R!BankFreight(printed.mentions) >>

OfTransport(files, inv, lists, forms, ship, authority, items) ==
    LET printed == PrintedBanking(Payloads(files, "BANKING"))
    IN  ContextOf(inv, lists, forms, ship, authority, items, TrustedRows(lists),
                  FreightCandidates(Payloads(files, "INVOICE"), forms, authority.printed, printed),
                  printed)

OfInvoices(files, ov, hist, inv, lists, forms, ship) ==
    OfTransport(files, inv, lists, forms, ship, Overridden(Stated(ship), ov.totals),
                [k \in DOMAIN inv.items |-> ItemOf(inv.items[k], k, ov, hist)])

OfDocuments(files, ov, hist, inv, lists, forms) ==
    OfInvoices(files, ov, hist, inv, lists, forms,
               T!ResolveShipmentAuthority(forms, PackingTotals(lists), inv.refs))

Context(files, ov, hist) ==
    OfDocuments(files, ov, hist, I!FinalizeInvoices(Payloads(files, "INVOICE")),
                Payloads(files, "PACKING_LIST"), Payloads(files, "AIR_WAYBILL"))

(* item_details_preview: without a gross authority nothing is allocated.    *)
Preview(c) ==
    IF c.ship.gross > 0 /\ c.items # << >>
    THEN Allocate(c.items, c.evidence, c.packing, c.ship.gross, c.ship.packages)
    ELSE None

ReviewOf(c) ==
    [context |-> c, table |-> Preview(c),
     values |-> D!BuildReview([bl |-> "", exporterCountry |-> ExporterCountry,
                               importerCountry |-> "NP", exim |-> ImporterExim],
                              c.ship, c.banking, << >>, c.freight)]

BuiltReview(files, ov, hist) == ReviewOf(Context(files, ov, hist))

-----------------------------------------------------------------------------
(* pipeline.finalize: override is the sequence-keyed HS entry posted with   *)
(* it, << >> or <<row, code>>; the allocation runs again on what is confirmed. *)

FinalItems(c, override) ==
    [k \in DOMAIN c.items |->
        LET it == c.items[k]
            now == R!Resolution(it.hs, it.hsSource, it.hsExplicit)
            hs == IF override = << >> \/ override[1] # k THEN now
                  ELSE R!Reviewed(now, override[2], "MANUAL_OVERRIDE")
        IN  [it EXCEPT !.hs = hs.code, !.hsSource = hs.source, !.hsExplicit = hs.explicit]]

(* The lines of the items: t is their table, freights and insurances their  *)
(* shares of the costs.                                                     *)
Lines(items, t, freights, insurances) ==
    LET unit(it) == IF it.hs = << >> THEN "" ELSE Official[it.hs].unit
        line(it, k) ==
            [hs |-> it.hs, hsSource |-> it.hsSource, hsExplicit |-> it.hsExplicit,
             coo |-> it.coo,
             supQty |-> R!Supplementary(unit(it), it.uom, it.qty, t.net[k], 0).qty,
             gross |-> t.gross[k], net |-> t.net[k], ctn |-> t.ctn[k], value |-> it.total,
             freight |-> freights[k], insurance |-> insurances[k]]
    IN  [k \in DOMAIN items |-> line(items[k], k)]

CtnTolerance == CtnOne \div 20      \* _TOL

(* Everything that keeps the declaration from being ready.                  *)
Blocking(c, reviewed, lines, t, override) ==
    D!HeaderGates(reviewed, D!ExportCountry(reviewed, lines))
    \cup D!ItemGates(lines, reviewed, [gross |-> One \div 20, ctn |-> CtnTolerance])
    \cup D!Escalated(c.inv.codes) \cup D!FinalizeGates(lines, reviewed)
    \cup t.codes
    \cup (IF override # << >> /\ override[1] \in DOMAIN lines /\ R!Refused(override[2])
          THEN {"HS_MANUAL_REVIEW"} ELSE {})

DeclarationOf(c, reviewed, lines, freight, blocking, rate) ==
    [reviewed |-> reviewed, lines |-> lines, freight |-> freight, blocking |-> blocking,
     valuation |-> D!Valuation(lines, c.inv.goods, freight, reviewed.values["insurance"], rate),
     xml |-> D!BuildXmlNow(lines, blocking)]

GateStep(c, reviewed, t, lines, freight, override, rate) ==
    DeclarationOf(c, reviewed, lines, freight, Blocking(c, reviewed, lines, t, override), rate)

CostStep(c, reviewed, items, t, freight, shares, override, rate) ==
    GateStep(c, reviewed, t,
             Lines(items, t, R!AllocateCost(freight, shares),
                   R!AllocateCost(reviewed.values["insurance"], shares)),
             freight, override, rate)

WeightStep(c, reviewed, items, t, override, rate) ==
    CostStep(c, reviewed, items, t,
             R!SelectFreight(c.candidates, reviewed.values["freight"], c.inv.currency),
             R!CostShares([k \in DOMAIN items |->
                             [gross |-> t.gross[k], value |-> items[k].total]], "value"),
             override, rate)

ConfirmStep(c, reviewed, items, override, rate) ==
    WeightStep(c, reviewed, items,
               Allocate(items, c.evidence, c.packing, reviewed.values["gross"],
                        reviewed.values["packages"]),
               override, rate)

Finalized(c, conf, ticked, override, rate) ==
    ConfirmStep(c, D!MergeConfirmation(review.values, conf, "", ticked),
                FinalItems(c, override), override, rate)

-----------------------------------------------------------------------------
Init ==
    /\ family \in Families
    /\ uploads = << >>
    /\ overlay = EmptyOverlay
    /\ history = << >>
    /\ review = NoReview
    /\ declared = NoDeclaration

(* reset_for_evidence_change: by the role of the file, and the HS entries    *)
(* are folded into the history by the description they were made for.       *)
Fold ==
    LET chosen == overlay.hs
        keys == {chosen[n].key : n \in DOMAIN chosen}
        last(x) == Max({n \in DOMAIN chosen : chosen[n].key = x})
    IN  [x \in DOMAIN history \cup keys |->
            IF x \in keys THEN chosen[last(x)].code ELSE history[x]]

Reset(role) ==
    CASE role = "INVOICE" ->
           [EmptyOverlay EXCEPT !.totals = overlay.totals, !.entries = overlay.entries]
      [] role \in {"AIR_WAYBILL", "PACKING_LIST"} ->
           [EmptyOverlay EXCEPT !.hs = overlay.hs, !.entries = overlay.entries]
      [] OTHER -> overlay

\* Mutant: an upload that discards the review but not what was declared of it.
AttachKeepsDeclaration(f) ==
    /\ f \in family.files /\ \A k \in DOMAIN uploads : uploads[k] # f
    /\ uploads' = Append(uploads, f)
    /\ overlay' = Reset(Document[f].role)
    /\ history' = IF Document[f].role = "INVOICE" THEN Fold ELSE history
    /\ review' = NoReview
    /\ UNCHANGED <<family, declared>>

(* A file is uploaded and its extraction succeeds.                          *)
Attach(f) ==
    /\ f \in family.files /\ \A k \in DOMAIN uploads : uploads[k] # f
    /\ uploads' = Append(uploads, f)
    /\ overlay' = Reset(Document[f].role)
    /\ history' = IF Document[f].role = "INVOICE" THEN Fold ELSE history
    /\ review' = NoReview
    /\ declared' = NoDeclaration
    /\ UNCHANGED family

(* The reviewer asks for the review.                                        *)
CriticalReview ==
    /\ review = NoReview
    /\ Context(uploads, overlay, history).items # << >>    \* INVOICE_NO_VALID_SOURCE
    /\ UNCHANGED <<family, uploads, overlay, history, declared>>
    /\ review' = BuiltReview(uploads, overlay, history)

(* Every entry of the reviewer is stored and the review recomputed.         *)
Entered(ov) ==
    /\ review # NoReview /\ overlay.entries < MaxEntries /\ ov # overlay
    /\ UNCHANGED <<family, uploads, history>>
    /\ overlay' = [ov EXCEPT !.entries = @ + 1]
    /\ review' = BuiltReview(uploads, overlay', history)
    /\ declared' = NoDeclaration

(* A pair of pinned weights must keep the net below the gross.              *)
PinWeights(k, gross, net) ==
    /\ review # NoReview /\ k \in DOMAIN review.context.items
    /\ gross > 0 /\ net > 0 => net < gross
    /\ Entered([overlay EXCEPT !.pins[k].gross = gross, !.pins[k].net = net])

PinCartons(k, ctn) ==
    /\ review # NoReview /\ k \in DOMAIN review.context.items
    /\ Entered([overlay EXCEPT !.pins[k].ctn = ctn])

SetShipmentTotals(gross, ctn) ==
    /\ gross > 0 /\ ctn > 0
    /\ Entered([overlay EXCEPT !.totals = [gross |-> gross, ctn |-> ctn]])

(* The remedy a blocked allocation offers: the total its pins need.         *)
ApplyRemedy ==
    /\ review # NoReview /\ review.table # None
    /\ review.table.grossNeed > 0 \/ review.table.ctnNeed > 0
    /\ LET t == review.table
           ship == review.context.ship
           need(x, now) == IF x > 0 THEN x ELSE now
       IN  SetShipmentTotals(need(t.grossNeed, ship.gross), need(t.ctnNeed, ship.packages))

SelectHs(k, code) ==
    /\ review # NoReview /\ k \in DOMAIN review.context.items
    /\ code \in DOMAIN Official
    /\ LET entry == [row |-> k, code |-> code, key |-> review.context.items[k].text]
           at == {n \in DOMAIN overlay.hs : overlay.hs[n].row = k}
       IN  Entered(IF at = {} THEN [overlay EXCEPT !.hs = Append(@, entry)]
                   ELSE [overlay EXCEPT !.hs[Max(at)] = entry])

(* finalize_job against the review that is stored.                          *)
Finalize(conf, ticked, override, rate) ==
    /\ review # NoReview
    /\ UNCHANGED <<family, uploads, overlay, history, review>>
    /\ declared' = Finalized(review.context, conf, ticked, override, rate)

Next ==
    \/ \E f \in DOMAIN Document : Attach(f)
    \/ CriticalReview
    \/ "weights" \in family.kinds
       /\ \E k \in Rows, g \in GrossPins, n \in NetPins : PinWeights(k, g, n)
    \/ "cartons" \in family.kinds /\ \E k \in Rows, c \in CtnPins : PinCartons(k, c)
    \/ "totals" \in family.kinds /\ \E t \in TotalsEntered : SetShipmentTotals(t[1], t[2])
    \/ ApplyRemedy
    \/ "hs" \in family.kinds /\ \E k \in Rows, code \in HsEntered : SelectHs(k, code)
    \/ "final" \in family.kinds /\ declared = NoDeclaration
       /\ \E conf \in Confirmations, ticked \in SUBSET {"field40", "authority"},
             override \in Overrides, rate \in Rates : Finalize(conf, ticked, override, rate)

Spec == Init /\ [][Next]_vars

-----------------------------------------------------------------------------
(* What a review is computed of.                                            *)
ItemFields == {"value", "total", "qty", "invWeight", "desc", "pinGross", "pinNet", "pinCtn",
               "hs", "hsSource", "hsExplicit"}

ContextOK(c) ==
    /\ FiguresOK(c.items, c.evidence)
    /\ {c.ship.gross, c.ship.printed, c.ship.packages} \subseteq Nat
    /\ \A i \in DOMAIN c.items :
           /\ ItemFields \subseteq DOMAIN c.items[i]
           /\ c.items[i].total \in Nat /\ c.items[i].text \in Texts
           /\ c.items[i].hs = << >> \/ c.items[i].hs \in DOMAIN Official
    /\ \A k \in DOMAIN c.candidates : c.candidates[k].amount \in Int

ReviewOK == review # NoReview => ContextOK(review.context)

Overlay ==
    [pins : [Rows -> [gross : Nat, net : Nat, ctn : Nat]],
     totals : [gross : Nat, ctn : Nat],
     hs : Seq([row : Rows, code : DOMAIN Official, key : Texts]),
     entries : 0..MaxEntries]

(* The type invariant: what a job holds, that a review is computed of        *)
(* figures, and that nothing is declared that was not reviewed.             *)
TypeOK ==
    /\ family \in Families
    /\ uploads \in Seq(DOMAIN Document)
    /\ Range(uploads) \subseteq family.files /\ IsInjective(uploads)
    /\ overlay \in Overlay
    /\ history \in [DOMAIN history -> DOMAIN Official]
    /\ review = NoReview => declared = NoDeclaration
    /\ ReviewOK

-----------------------------------------------------------------------------
(* What the allocation of a review promises.                                *)

Table == review.table
Allocated == review # None /\ review.table # None
(* A table is exact or says why not: unless it carries a blocking code, the *)
(* rows' gross weights and cartons add up to the authorised totals to the   *)
(* last decimal, every net is below its gross, and what a reviewer pinned   *)
(* stands (allocate_weights_and_cartons, steps 4 to 5b).                    *)
ReconcilesOrBlocks ==
    Allocated => ExactOrBlocked(Table, review.context.items,
                                review.context.ship.gross, review.context.ship.packages)

(* A figure somebody printed is the last to move: a net is rejected only if *)
(* it was read out of a description; a row's cartons, stated by the packing *)
(* list, differ from its share only once every row the list does not state  *)
(* is down to the least a row may have (3b, _allocate_cartons).             *)
PrintedFiguresMoveLast ==
    Allocated =>
        LET c == review.context
            t == Table
            All == DOMAIN c.items
            free == {i \in All : c.items[i].pinCtn = 0}
            stated == {i \in free : c.evidence[i].ctn > 0}
            share == NoPinBaseline(t.ctnWeight, c.ship.packages)
        IN  /\ t.codes \cap GrossCodes = {} =>
                 \A i \in All :
                    (\/ InvoiceStates(c.items[i])
                     \/ NetFromUomQuantity(c.items[i]) > 0
                     \/ c.evidence[i].net > 0) /\ c.items[i].pinNet = 0 =>
                        t.net[i] = NetLadder(c.items[i], c.evidence[i]).net
            /\ /\ c.ship.packages > 0
               /\ t.codes \cap CartonCodes = {}
               /\ \E i \in stated : t.ctn[i] # share[i]
               => \A i \in free \ stated : t.ctn[i] = MinCtn

(* The total a blocked table proposes is enough: once it is applied, what   *)
(* blocked is gone (the remedies of REVIEWED_GROSS_*, REVIEWED_CTN_* and    *)
(* GROSS_ALLOCATION_IMPOSSIBLE).                                            *)
RemedyUnblocks ==
    [][ApplyRemedy => /\ review.table.grossNeed > 0 => review'.table.codes \cap GrossCodes = {}
                      /\ review.table.ctnNeed > 0 => review'.table.codes \cap CartonCodes = {}
      ]_vars

(* When an air waybill that prints a weight states the gross it is the      *)
(* lightest of them, and in whatever order they were uploaded when no two   *)
(* weights are equal; and if one is lighter than the others, its own house  *)
(* number is the one Field 40 prints, whatever states the gross             *)
(* (_prefer_lower_awb, _pick, derive_field40).                              *)
LowestAwbDecides ==
    review # None =>
        LET c == review.context
            weighed == T!WeighedAirWaybills(c.classes)
            gross(i) == c.forms[i].gross
            none == PackingTotals(<< >>)
            reordered(p) == [i \in DOMAIN c.forms |-> c.forms[p[i]]]
        IN  /\ c.form \in weighed =>
                 /\ \A i \in weighed : gross(c.form) <= gross(i)
                 /\ (\A i, j \in weighed : gross(i) = gross(j) => i = j) =>
                        \A p \in Bijection(DOMAIN c.forms, DOMAIN c.forms) :
                            T!ResolveShipmentAuthority(reordered(p), none, c.inv.refs).gross
                                = gross(c.form)
            /\ \A i \in weighed :
                 /\ weighed # {i} /\ \A j \in weighed \ {i} : gross(i) < gross(j)
                 /\ T!OwnHouseNumber(c.forms[i]) # ""
                 => c.field40 = T!OwnHouseNumber(c.forms[i])

(* The invoices inside a file by the page each starts on, as reported where *)
(* two start on one; 0 where none is reported.  A page belongs to the last  *)
(* that starts on it or before it, one before all of them to the first.     *)
Starting(chunk) == {j \in DOMAIN chunk.subs : chunk.subs[j].page > 0}
StartsBefore(chunk, i, j) ==
    LET page(k) == chunk.subs[k].page
    IN  page(i) < page(j) \/ (page(i) = page(j) /\ i < j)
InvoiceAt(chunk, page) ==
    LET all == Starting(chunk)
        begun == {j \in all : chunk.subs[j].page <= page}
        first == CHOOSE j \in all : \A i \in all \ {j} : StartsBefore(chunk, j, i)
        last == CHOOSE j \in begun : \A i \in begun \ {j} : StartsBefore(chunk, i, j)
    IN  IF all = {} THEN 0 ELSE IF begun = {} THEN first ELSE last

(* The rows that are to be declared, as file and line.  Proformas count when *)
(* there is nothing else, among the files and among the invoices of a file. *)
GoodsPrinted(chunk) ==
    LET valid == {j \in Starting(chunk) : I!GoodsKind(chunk.subs[j].kind)}
    IN  {n \in DOMAIN chunk.rows :
            /\ chunk.rows[n].goods
            /\ {chunk.rows[n].total, chunk.rows[n].unit} # {I!NotPrinted}
            /\ valid # {} => InvoiceAt(chunk, chunk.rows[n].page) \in valid}

InvoiceFile(files, k) == Document[files[k]].body
InvoiceFiles(files) ==
    LET all == {k \in DOMAIN files : Document[files[k]].role = "INVOICE"}
        final == {k \in all : I!GoodsKind(InvoiceFile(files, k).doc.kind)}
    IN  IF final = {} THEN all ELSE final

RowsPrinted(files) ==
    UNION {{k} \X GoodsPrinted(InvoiceFile(files, k)) : k \in InvoiceFiles(files)}

(* File by file, invoice by invoice, line by line. *)
PrintedBefore(files, a, b) ==
    LET chunk == InvoiceFile(files, a[1])
        invoice(n) == InvoiceAt(chunk, chunk.rows[n].page)
        i == invoice(a[2])
        j == invoice(b[2])
    IN  \/ a[1] < b[1]
        \/ a[1] = b[1] /\ IF i = j THEN a[2] < b[2] ELSE StartsBefore(chunk, i, j)

(* Every goods row that is printed is declared once, where the rows printed *)
(* before it leave it; and a printed invoice that was uploaded twice never  *)
(* becomes an XML (finalize_invoices, _virtual_invoices).                   *)
RowsOnce ==
    /\ review # None =>
         LET list == review.context.inv.items
             printed == RowsPrinted(uploads)
             place(x) == 1 + Cardinality({y \in printed : PrintedBefore(uploads, y, x)})
         IN  /\ Len(list) = Cardinality(printed)
             /\ \A x \in printed :
                    list[place(x)].row = InvoiceFile(uploads, x[1]).rows[x[2]]
    /\ declared # None /\ declared.xml =>
         LET list == review.context.inv.items
         IN  \A j, k \in DOMAIN list :
                list[j].number = list[k].number /\ list[j].number # ""
                    => list[j].doc = list[k].doc

(* What the packing lists print is neither lost nor counted twice: the      *)
(* weights matched to the items are those of the matched rows, and so are   *)
(* the cartons when every row is matched, up to half a step an item for the *)
(* rounding of its share.  A carton that rows of one list share counts once, *)
(* and one of another list that bears the same mark counts again.  Where     *)
(* some rows are left out the shares of the others may have been rounded up, *)
(* half a step a row (packing_match, passes 2 to 5).                        *)
Conserved(c, lists) ==
    LET n == Cardinality(DOMAIN c.items)
        taken(fld) == SumFunction([k \in DOMAIN c.items |-> c.evidence[k][fld]])
        match == P!Matches(c.rows, {c.items[k].text : k \in DOMAIN c.items})
        own == {i \in DOMAIN c.rows : c.rows[i].text \in DOMAIN match}
        weight(fld) == SumFunction([i \in own |-> c.rows[i][fld]])
        lines == UNION {{k} \X DOMAIN lists[k].rows : k \in DOMAIN lists}
        line(x) == lists[x[1]].rows[x[2]]
        counted == {x \in lines : line(x).carton > 0}
        alone == {x \in counted : line(x).group = NoGroup}
        boxes == {<<x[1], line(x).group>> : x \in counted \ alone}
        inside(b) == {x \in counted : x[1] = b[1] /\ line(x).group = b[2]}
        printed(b) == [x \in inside(b) |-> line(x).carton]
        box(b) == IF Cardinality(Range(printed(b))) > 1 THEN SumFunction(printed(b))
                  ELSE IF GroupRange[b[2]] > 0 THEN GroupRange[b[2]] ELSE Max(Range(printed(b)))
        cartons == SumFunction([x \in alone |-> line(x).carton])
                   + SumFunction([b \in boxes |-> box(b)])
        apart(a, b) == 2 * (IF a > b THEN a - b ELSE b - a)
    IN  /\ \A fld \in {"gross", "net"} : apart(taken(fld), weight(fld)) <= n
        /\ own = DOMAIN c.rows => apart(taken("ctn"), cartons) <= n
        /\ (\A x \in counted : line(x).qty >= 0) =>
               2 * taken("ctn") <= 2 * cartons + n + Cardinality(lines)

EvidenceConserved ==
    review # None => Conserved(review.context, Trusted(Payloads(uploads, "PACKING_LIST")))

(* An XML is built only of a declaration that adds up, in warn mode too: the *)
(* items' weights and cartons are the totals that were confirmed.  The one   *)
(* exception is a total too small for its rows: the code                     *)
(* CARTON_ALLOCATION_IMPOSSIBLE is no hard one, and the cartons may be off   *)
(* by what the validator tolerates.  A declaration that is ready holds no   *)
(* code that was only guessed, has a confirmed transport reference, and     *)
(* takes no weight for kilograms without the reviewer's word for it         *)
(* (WARN_MODE_HARD_CODES, validate_declaration, pipeline.finalize).         *)
XmlReconciles ==
    declared # None /\ declared.xml =>
        LET v == declared.reviewed.values
            lines == declared.lines
            gross == SumFunction([k \in DOMAIN lines |-> lines[k].gross])
            ctn == SumFunction([k \in DOMAIN lines |-> lines[k].ctn])
        IN  /\ v["gross"] > 0 => /\ gross = v["gross"]
                                 /\ \A k \in DOMAIN lines : lines[k].net < lines[k].gross
            /\ v["packages"] > 0 =>
                 \/ ctn = v["packages"]
                 \/ /\ "CARTON_ALLOCATION_IMPOSSIBLE" \in declared.blocking
                    /\ ctn <= v["packages"] + CtnTolerance
                    /\ ctn >= v["packages"] - CtnTolerance
            /\ declared.blocking = {} =>
                 /\ \A k \in DOMAIN lines : /\ lines[k].hs \in DOMAIN Official
                                            /\ \/ lines[k].hsSource # "SEMANTIC_DESCRIPTION"
                                               \/ lines[k].hsExplicit
                 /\ "field40" \in declared.reviewed.confirmed
                 /\ declared.reviewed.unitMissing
                       => "authority" \in declared.reviewed.confirmed
                 /\ v["gross"] > 0 /\ v["packages"] > 0

(* The freight and the insurance of the items are those of the shipment.    *)
(* Its freight is what the reviewer entered instead of what was proposed;    *)
(* otherwise it is the highest amount the documents state that is not in     *)
(* another currency than the invoices', however high those are, and nothing  *)
(* if all are.  The national values of the items are the shipment's up to a  *)
(* cent each (to_critical_review, select_freight, allocate_cost,            *)
(* build_declaration).                                                      *)
CostsAddUp ==
    declared # None =>
        LET v == declared.reviewed.values
            lines == declared.lines
            n == Cardinality(DOMAIN lines)
            column(f) == SumFunction([k \in DOMAIN lines |-> lines[k][f]])
            cif == SumFunction([k \in DOMAIN lines |-> declared.valuation.items[k].cif])
            foreign(cur) == "" \notin {cur, review.context.inv.currency}
                            /\ cur # review.context.inv.currency
            printed == {f \in Range(review.context.candidates) : f.amount # R!NoAmount}
            own == {f.amount : f \in {f \in printed : ~foreign(f.currency)}}
            entered == v["freight"] \notin {R!NoAmount, review.values.values["freight"]}
        IN  lines # << >> =>
            /\ column("freight") = declared.freight
            /\ column("insurance") = v["insurance"]
            /\ declared.freight =
                 IF entered THEN v["freight"] ELSE IF own = {} THEN 0 ELSE Max(own)
            /\ cif <= declared.valuation.cif + n /\ declared.valuation.cif <= cif + n
===============================================================================
