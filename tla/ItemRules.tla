------------------------------- MODULE ItemRules -------------------------------
(***************************************************************************)
(* What is decided for each item once the item list stands: its HS code    *)
(* (rules/hs_resolver.py), its origin (rules/coo.py), its supplementary    *)
(* quantity (rules/supplementary_unit.py), its part of the freight and the *)
(* insurance (rules/freight.py); and the bank and the terms of payment of  *)
(* the shipment (rules/banking.py).                                        *)
(*                                                                         *)
(* An HS code is a tuple of five groups: the digits that make it an HS4,   *)
(* HS6, HS8, the two after it, and the last; a printed code is a prefix of *)
(* a tuple.  Amounts of money are whole cents (q2), quantities and weights *)
(* whole steps, Steps of them in 1; NoAmount is None.                      *)
(***************************************************************************)
EXTENDS Integers, FiniteSets, FiniteSetsExt, Functions, Sequences, SequencesExt

CONSTANTS
    Official,       \* official code -> [unit, other, rank]: rank is its order
    Score,          \* description -> official code -> percent of the words met
    Guess,          \* description -> best_hs_by_description, or NoCode
    Country,        \* what is printed as a country -> alpha-2
    Steps           \* the steps in 1 of a quantity or weight

NoCode == << >>
NoCountry == ""
NoAmount == -1

RoundedDiv(num, den) == (2 * num + den) \div (2 * den)      \* q2, q3: half up

-----------------------------------------------------------------------------
(* HS: a cascade of four sources; every code it accepts is official.        *)

Threshold == 34     \* _HS_SEMANTIC_THRESHOLD, in percent

Resolution(code, source, explicit) == [code |-> code, source |-> source, explicit |-> explicit]
Unresolved == Resolution(NoCode, "", FALSE)     \* blocks: HS_MANUAL_REVIEW

Band(prefix) == {c \in DOMAIN Official : IsPrefix(prefix, c)}

LastOf(codes) == CHOOSE c \in codes : \A d \in codes : Official[d].rank <= Official[c].rank

OtherFallback(band) ==
    LET others == {c \in band : Official[c].other}
    IN  LastOf(IF others = {} THEN band ELSE others)

(* Highest score, then a specific code before an "Other", then the first.   *)
PickWithinBand(desc, band) ==
    LET best == {c \in band : \A d \in band : Score[desc][d] <= Score[desc][c]}
        specific == {c \in best : ~Official[c].other}
        pool == IF specific = {} THEN best ELSE specific
        scored(first) == IF Score[desc][first] >= Threshold THEN first ELSE OtherFallback(band)
    IN  scored(CHOOSE c \in pool : \A d \in pool : Official[c].rank <= Official[d].rank)

(* The longest of the bands 8, 6 and 4 that has codes; a longer hint narrows *)
(* it when some code of the band extends the hint.                          *)
CompletedSource == <<"INVOICE_HS_COMPLETED_4", "INVOICE_HS_COMPLETED_6", "INVOICE_HS_COMPLETED_8">>

CompletedFrom(printed, desc, n) ==
    Resolution(PickWithinBand(desc, IF Len(printed) > n /\ Band(printed) # {} THEN Band(printed)
                                    ELSE Band(SubSeq(printed, 1, n))),
               CompletedSource[n], FALSE)

CompleteViaPrefix(printed, desc) ==
    LET tiers == {n \in 1..3 : n <= Len(printed) /\ Band(SubSeq(printed, 1, n)) # {}}
    IN  IF tiers = {} THEN Unresolved ELSE CompletedFrom(printed, desc, Max(tiers))

(* hist: the codes confirmed before for an item of this description.  There  *)
(* is no LLM hint in the program as it is wired: llm_hint_fn is never given. *)
ResolveHs(printed, desc, hist) ==
    LET else(completed) ==
        IF completed # Unresolved THEN completed
        ELSE IF desc \in DOMAIN hist /\ hist[desc] \in DOMAIN Official
        THEN Resolution(hist[desc], "HISTORY", FALSE)
        ELSE IF Guess[desc] # NoCode THEN Resolution(Guess[desc], "SEMANTIC_DESCRIPTION", FALSE)
        ELSE Unresolved
    IN  IF printed \in DOMAIN Official THEN Resolution(printed, "INVOICE_HS_EXACT", FALSE)
        ELSE else(CompleteViaPrefix(printed, desc))

(* apply_hs_reviews, apply_manual_hs: an entry stands only if it is official *)
(* (and, in the first, from a source of the review screen).  A refused entry *)
(* leaves the resolution as it was and blocks by its own code.              *)
Reviewed(hs, entry, source) ==
    IF entry \in DOMAIN Official THEN Resolution(entry, source, TRUE) ELSE hs
Refused(entry) == entry # NoCode /\ entry \notin DOMAIN Official

-----------------------------------------------------------------------------
(* Country of origin.                                                      *)

ResolveCoo(printed, profile, exporter) ==
    LET found(code, source) == [code |-> code, source |-> source]
    IN  IF printed \in DOMAIN Country THEN found(Country[printed], "ITEM_LEVEL")
        ELSE IF profile \in Range(Country) THEN found(profile, "VENDOR_PROFILE")
        ELSE IF exporter \in DOMAIN Country THEN found(Country[exporter], "EXPORTER_FALLBACK")
        ELSE found(NoCountry, "")           \* COO_UNRESOLVED

-----------------------------------------------------------------------------
(* Supplementary units: the unit is the tariff's, never the invoice's.      *)

CountUoms == {"PCS", "NOS", "SET"}      \* the ones of _COUNT_UOMS used here
MetreUoms == {"MTR"}
TariffUnits == {"KGM", "UNT", "PR", "NPR", "DZN", "MTR", "SQM", "LTR"}

Places(x, parts) ==     \* x rounded to 1/parts, on the lattice of Steps
    IF parts >= Steps THEN x ELSE RoundedDiv(x * parts, Steps) * (Steps \div parts)

Derived(unit, uom, qty, net) ==
    LET counted == uom \in CountUoms
    IN  CASE unit = "KGM" -> Places(net, 10000)
          [] unit \in {"PR", "NPR"} ->
                 IF counted THEN RoundedDiv(qty, 2 * Steps) * Steps ELSE Places(qty, 1)
          [] unit = "DZN" -> IF counted THEN RoundedDiv(qty, 12) ELSE Places(qty, 1000)
          [] unit = "MTR" -> IF uom \in MetreUoms THEN Places(qty, 1000) ELSE Places(net, 1000)
          [] unit = "SQM" -> IF uom \in MetreUoms THEN RoundedDiv(1524 * qty, 1000)
                             ELSE Places(net, 1000)
          [] unit = "LTR" -> Places(net, 1000)
          [] OTHER -> Places(qty, 100)

(* A quantity of 0 blocks: SUPPLEMENTARY_QTY_INVALID.                       *)
Supplementary(unit, uom, qty, net, pin) ==
    [unit |-> IF unit \in TariffUnits THEN unit ELSE "UNT",
     qty |-> IF pin > 0 THEN pin ELSE Derived(unit, uom, qty, net)]

-----------------------------------------------------------------------------
(* Freight.                                                                *)

(* awb_charge_total: the boxes of a waybill form, NoAmount when blank.      *)
AwbChargeTotal(box) ==
    LET parts == {k \in {"weight", "valuation", "tax", "other"} : box[k] # NoAmount}
        components == SumFunctionOnSet(box, parts)
    IN  IF box.prepaid > 0 THEN box.prepaid
        ELSE IF box.collect > 0 THEN box.collect
        ELSE IF box.weight > 0 THEN components
        ELSE box.printed

ProrateToAuthority(total, formGross, authGross) ==
    IF formGross <= 0 \/ authGross <= 0 \/ formGross <= authGross THEN total
    ELSE RoundedDiv(total * authGross, formGross)

NoFreight == [amount |-> NoAmount, currency |-> ""]

(* awb_freight_candidate: of several charged forms the last one counts.     *)
AwbFreightCandidate(forms, authGross) ==
    LET charged == {i \in DOMAIN forms : AwbChargeTotal(forms[i].charges) # NoAmount}
        f == forms[Max(charged)]
    IN  IF charged = {} THEN NoFreight
        ELSE [amount |-> ProrateToAuthority(AwbChargeTotal(f.charges), f.gross, authGross),
              currency |-> f.charges.currency]

(* The freight the invoices bill: the document's own, or what its bundled   *)
(* invoices bill together; of several documents the last one counts.        *)
InvoiceFreight(chunks) ==
    LET billed(totals) == {t \in totals : t.freight # NoAmount}
        subs(c) == {k \in DOMAIN c.subs : billed(c.subs[k].totals) # {}}
        amount(totals) == (CHOOSE t \in billed(totals) : TRUE).freight
        of(c) == IF billed(c.doc.totals) # {} THEN amount(c.doc.totals)
                 ELSE IF subs(c) = {} THEN NoAmount
                 ELSE SumFunction([k \in subs(c) |-> amount(c.subs[k].totals)])
        billing == {k \in DOMAIN chunks : of(chunks[k]) # NoAmount}
    IN  IF billing = {} THEN NoFreight
        ELSE [amount |-> of(chunks[Max(billing)]), currency |-> ""]

(* What the bank document mentions, in the currency they agree on.          *)
BankFreight(mentions) ==
    LET currencies == {mentions[k].currency : k \in DOMAIN mentions} \ {""}
    IN  IF mentions = << >> THEN NoFreight
        ELSE [amount |-> SumFunction([k \in DOMAIN mentions |-> mentions[k].amount]),
              currency |-> IF Cardinality(currencies) = 1 THEN CHOOSE c \in currencies : TRUE
                           ELSE ""]

\* Mutant: amounts are compared whatever their currency.
ComparableAny(candidates, currency) == {k \in DOMAIN candidates : candidates[k].amount # NoAmount}

(* The candidates that can be compared: what is stated in the currency of   *)
(* the invoices, or in none that is printed.                                *)
Comparable(candidates, currency) ==
    {k \in DOMAIN candidates :
        /\ candidates[k].amount # NoAmount
        /\ currency = "" \/ candidates[k].currency \in {"", currency}}

(* select_freight: the highest of the comparable candidates, which are the  *)
(* invoices', the waybills' and the bank's; an override beats them all.     *)
SelectFreight(candidates, override, currency) ==
    LET comparable == Comparable(candidates, currency)
    IN  IF override # NoAmount THEN override
        ELSE IF comparable = {} THEN 0 ELSE Max({candidates[k].amount : k \in comparable})

(* to_critical_review: what the review proposes, nothing if nothing counts. *)
FreightDefault(candidates, currency) ==
    IF Comparable(candidates, currency) = {} THEN NoAmount
    ELSE SelectFreight(candidates, NoAmount, currency)

(* allocate_cost: each share is rounded, the residual goes to the largest.  *)
AllocateCost(total, share) ==
    LET sum == SumFunction(share)
        part == [i \in DOMAIN share |-> IF sum = 0 THEN 0 ELSE RoundedDiv(total * share[i], sum)]
        largest == Min({i \in DOMAIN share : \A j \in DOMAIN share : share[j] <= share[i]})
    IN  IF DOMAIN share = {} \/ total = 0 THEN [i \in DOMAIN share |-> 0]
        ELSE [part EXCEPT ![largest] = @ + total - SumFunction(part)]

(* The basis of an allocation: value, or gross when every item has one.     *)
CostShares(items, basis) ==
    IF basis = "gross_weight" /\ \A i \in DOMAIN items : items[i].gross > 0
    THEN [i \in DOMAIN items |-> items[i].gross]
    ELSE [i \in DOMAIN items |-> items[i].value]

-----------------------------------------------------------------------------
(* Banking: what the bank document names is matched, never defaulted.       *)

ResolveBanking(doc, banks, terms) ==    \* banks, terms: what is printed -> code
    LET bank == IF doc.bank \in DOMAIN banks THEN banks[doc.bank] ELSE ""
        term == IF doc.terms \in DOMAIN terms THEN terms[doc.terms] ELSE ""
        state(code, printed, open) ==
            IF code # "" THEN "RESOLVED" ELSE IF printed # "" THEN open ELSE "ABSENT"
    IN  [bank |-> bank, bankState |-> state(bank, doc.bank, "AMBIGUOUS"),
         terms |-> term, termsState |-> state(term, doc.terms, "REVIEW_REQUIRED")]
=============================================================================
