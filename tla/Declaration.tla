------------------------------ MODULE Declaration ------------------------------
(***************************************************************************)
(* From the computed review to the declaration: build_review and           *)
(* merge_confirmation (review/critical_review.py), build_declaration        *)
(* (declaration/builder.py), validate_declaration (declaration/validator.py),*)
(* the gates of pipeline.finalize, and the decision of services to build an *)
(* XML.                                                                    *)
(*                                                                         *)
(* A review is a function of Fields; a confirmation gives each field a      *)
(* value or Keep.  "" is an empty text.  A message is a code; a code that   *)
(* blocks is a member of the set of blocking codes.                        *)
(***************************************************************************)
EXTENDS Integers, FiniteSets, FiniteSetsExt, Functions, Sequences

CONSTANTS
    Keep,           \* a field of the confirmation that was not sent
    UnitMass,       \* recognised unit of mass -> kilograms per unit, a fraction
    Seeds,          \* settings: the default of each Regime field
    Reference,      \* Regime field, country, bank and terms -> the official values
    ValidExim,      \* 13 to 15 alphanumeric characters
    StrictBlocking  \* settings.xml_strict_blocking

(* What the reviewer chooses in the regime dialogue, stored with the job.   *)
Regime == {"model", "office", "borderOffice", "extended", "national", "borderMode", "inlandMode"}

(* What the documents propose and the reviewer may overwrite.  An amount    *)
(* is a number, -1 for none.                                               *)
Fields == Regime \cup
    {"gross", "unit", "packages", "packageType", "hawb", "mawb", "bl", "field40", "exporterCountry",
     "importerCountry", "importerExim", "bank", "terms", "freight", "insurance"}

(* A printed weight in kilograms; a unit that is not recognised counts as    *)
(* kilograms (WEIGHT_UNIT_TO_KG.get(unit, 1)).                              *)
Kilograms(weight, unit) ==
    IF unit \in DOMAIN UnitMass
    THEN (2 * weight * UnitMass[unit][1] + UnitMass[unit][2]) \div (2 * UnitMass[unit][2])
    ELSE weight

-----------------------------------------------------------------------------
(* build_review.                                                           *)

(* "BL" or "AWB": the document this shipment travelled on.                  *)
TransportDocType(mawb, hawb, bl, authority) ==
    IF \/ authority = "BILL_OF_LADING"
       \/ bl # "" /\ mawb = "" /\ hawb = ""
    THEN "BL" ELSE "AWB"

(* compose_field9: the transport references Field 9 prints, in order.       *)
Field9References(mawb, hawb, bl, kind) ==
    LET air == IF mawb = "" /\ hawb = "" THEN << >> ELSE << <<"AWB", mawb, hawb>> >>
        sea == IF bl = "" THEN << >> ELSE << <<"BL", bl>> >>
    IN  IF kind = "BL" /\ (sea # << >> \/ air = << >>) THEN sea ELSE air \o sea

(* selections: the stored regime choices; Box 25 and 26 have no default.    *)
RegimeSeed(selections) ==
    [f \in Regime |->
        IF f \in DOMAIN selections /\ selections[f] # "" THEN selections[f]
        ELSE IF f \in {"borderMode", "inlandMode"} THEN ""
        ELSE IF f = "borderOffice" /\ "office" \in DOMAIN selections /\ selections["office"] # ""
        THEN selections["office"]
        ELSE Seeds[f]]

(* ship: [type, gross, printed, unit, packages, hawb, mawb, bl, field40]; a  *)
(* figure is 0 when the documents state none.                               *)
BuildReview(inv, ship, banking, selections, freightDefault) ==
    LET seed == RegimeSeed(selections)
        bl == IF ship.bl # "" THEN ship.bl ELSE inv.bl      \* BL_FROM_INVOICE
        field40 == IF ship.field40 # "" THEN ship.field40 ELSE bl
    IN  [values |-> [f \in Fields |->
            CASE f \in Regime -> seed[f]
              [] f = "gross" -> ship.printed
              [] f = "unit" -> IF ship.unit \in DOMAIN UnitMass THEN ship.unit ELSE "KGM"
              [] f = "packages" -> ship.packages
              [] f = "packageType" -> "CT"       \* settings.package_type_default
              [] f = "hawb" -> ship.hawb
              [] f = "mawb" -> ship.mawb
              [] f = "bl" -> bl
              [] f = "field40" -> field40
              [] f = "exporterCountry" -> inv.exporterCountry
              [] f = "importerCountry" -> inv.importerCountry
              [] f = "importerExim" -> inv.exim
              [] f = "bank" -> banking.bank
              [] f = "terms" -> banking.terms
              [] f = "freight" -> freightDefault
              [] f = "insurance" -> -1],
         authority |-> ship.type,
         unitMissing |-> IF ship.unit = "" THEN ship.printed > 0
                         ELSE ship.unit \notin DOMAIN UnitMass,
         docType |-> TransportDocType(ship.mawb, ship.hawb, bl, ship.type)]

-----------------------------------------------------------------------------
(* merge_confirmation: the confirmation wins, blanks are explicit.          *)

(* The border office follows the clearance office unless they differ.       *)
BorderOffice(review, conf, office) ==
    IF conf["borderOffice"] = Keep
    THEN IF review.values["borderOffice"] = review.values["office"] THEN office
         ELSE review.values["borderOffice"]
    ELSE IF conf["borderOffice"] = "" THEN office ELSE conf["borderOffice"]

MergeConfirmation(review, conf, docType, confirmed) ==
    LET pick == [f \in Fields |-> IF conf[f] = Keep THEN review.values[f] ELSE conf[f]]
    IN  [values |-> [pick EXCEPT !["borderOffice"] = BorderOffice(review, conf, pick["office"]),
                                 !["gross"] = Kilograms(@, pick["unit"]),
                                 !["insurance"] = IF @ < 0 THEN 0 ELSE @],
         docType |-> IF docType \in {"AWB", "BL"} THEN docType
                     ELSE TransportDocType(pick["mawb"], pick["hawb"], pick["bl"],
                                           review.authority),
         authority |-> review.authority,
         unitMissing |-> review.unitMissing,
         confirmed |-> confirmed]       \* which of "field40", "authority" were ticked

-----------------------------------------------------------------------------
(* build_declaration: foreign amounts at a rate, in cents; rate is the      *)
(* fraction <<national, foreign>>.                                          *)

National(amount, rate) == (2 * amount * rate[1] + rate[2]) \div (2 * rate[2])

Valuation(items, goods, freight, insurance, rate) ==
    LET cost(f, i) == National(f, rate) + i
    IN  [cost |-> cost(freight, insurance),
         cif |-> National(goods, rate) + cost(freight, insurance),
         items |-> [k \in DOMAIN items |->
            [cost |-> cost(items[k].freight, items[k].insurance),
             cif |-> National(items[k].value, rate) + cost(items[k].freight, items[k].insurance)]]]

(* The exporter's country, or the first item's origin.                      *)
ExportCountry(reviewed, items) ==
    LET known == {k \in DOMAIN items : items[k].coo # ""}
    IN  IF reviewed.values["exporterCountry"] # "" THEN reviewed.values["exporterCountry"]
        ELSE IF known = {} THEN "" ELSE items[Min(known)].coo

-----------------------------------------------------------------------------
(* validate_declaration.                                                   *)

Code(cond, code) == IF cond THEN {code} ELSE {}

PackageTypes == {"PK", "CT"}    \* the ones of PACKAGE_TYPES used here

HeaderGates(reviewed, exportCountry) ==
    LET v == reviewed.values
        modes == {v["borderMode"], v["inlandMode"]}
        official(f) == v[f] \in Reference[f]
        country(c) == c = "" \/ c \in Reference["country"]
    IN  Code(v["importerExim"] \notin ValidExim, "IMPORTER_EXIM_INVALID")
        \cup Code(v["packageType"] \notin PackageTypes, "PACKAGE_TYPE_UNSUPPORTED")
        \cup Code(~official("model"), "DECLARATION_MODEL_INVALID")
        \cup Code(~official("office") \/ v["borderOffice"] \notin Reference["office"],
                  "CUSTOMS_OFFICE_INVALID")
        \cup Code(~official("extended") \/ ~official("national"), "PROCEDURE_INVALID")
        \cup Code(official("extended") /\ v["extended"][1] # v["model"][2],
                  "PROCEDURE_TYPE_MISMATCH")
        \cup Code("" \in modes, "TRANSPORT_MODE_REQUIRED")
        \cup Code(modes \ {""} \notin SUBSET Reference["mode"], "TRANSPORT_MODE_INVALID")
        \cup Code(/\ v["field40"] = ""
                  /\ reviewed.authority \in {"HAWB", "TRUE_DO", "TRACKING", "SINGLE_AWB"},
                  "FIELD_40_MISSING")
        \cup Code(~country(v["importerCountry"]), "IMPORTER_COUNTRY_INVALID")
        \cup Code(~country(exportCountry), "EXPORTER_COUNTRY_INVALID")
        \cup Code(v["bank"] # "" /\ v["bank"] \notin Reference["bank"], "BANK_PAIR_MISMATCH")
        \cup Code(v["terms"] # "" /\ v["terms"] \notin Reference["terms"], "PAYMENT_TERM_INVALID")

(* items: [hs, coo, supQty, gross, net, ctn]; within: how far a sum may be   *)
(* off the authorised total (_TOL).                                         *)
ItemGates(items, reviewed, within) ==
    LET gross == SumFunction([k \in DOMAIN items |-> items[k].gross])
        ctn == SumFunction([k \in DOMAIN items |-> items[k].ctn])
        off(sum, total, tol) == total > 0 /\ (sum > total + tol \/ sum < total - tol)
    IN  Code(items = << >>, "INVOICE_NO_VALID_SOURCE")
        \cup Code(\E k \in DOMAIN items : items[k].hs = << >>, "HS_MANUAL_REVIEW")
        \cup Code(\E k \in DOMAIN items : items[k].coo = "", "COO_UNRESOLVED")
        \cup Code(\E k \in DOMAIN items : items[k].supQty = 0, "SUPPLEMENTARY_QTY_INVALID")
        \cup Code(\/ \E k \in DOMAIN items : items[k].gross > 0 /\ items[k].net >= items[k].gross
                  \/ off(gross, reviewed.values["gross"], within.gross),
                  "WEIGHT_RECONCILIATION_IMPOSSIBLE")
        \cup Code(off(ctn, reviewed.values["packages"], within.ctn),
                  "CARTON_RECONCILIATION_FAILED")

(* The engines' warnings that validate_declaration makes blocking.          *)
Escalated(warnings) ==
    warnings \cap {"MIXED_INVOICE_CURRENCIES", "INVOICE_DUPLICATE_DOCUMENT"}

\* Mutant: a guessed code is let through.
FinalizeGatesGuessed(items, reviewed) ==
    LET v == reviewed.values
    IN  Code(v["gross"] <= 0, "SHIPMENT_GROSS_REQUIRED")
        \cup Code(v["packages"] <= 0, "SHIPMENT_PACKAGES_REQUIRED")
        \cup Code("field40" \notin reviewed.confirmed, "FIELD_40_UNCONFIRMED")

(* The gates of pipeline.finalize that come after it.                       *)
FinalizeGates(items, reviewed) ==
    LET v == reviewed.values
        referenced == {v["hawb"], v["mawb"], v["bl"]} # {""}
        guessed(k) == items[k].hsSource = "SEMANTIC_DESCRIPTION" /\ ~items[k].hsExplicit
    IN  Code(reviewed.unitMissing /\ "authority" \notin reviewed.confirmed,
             "WEIGHT_UNIT_UNCONFIRMED")
        \cup Code(v["gross"] <= 0, "SHIPMENT_GROSS_REQUIRED")
        \cup Code(v["packages"] <= 0, "SHIPMENT_PACKAGES_REQUIRED")
        \cup Code(~referenced, "TRANSPORT_REFERENCE_REQUIRED")
        \cup Code(referenced /\ "field40" \notin reviewed.confirmed, "FIELD_40_UNCONFIRMED")
        \cup Code(\E k \in DOMAIN items : guessed(k), "HS_GUESS_UNCONFIRMED")

-----------------------------------------------------------------------------
(* services.finalize_job.                                                  *)

WarnModeHardCodes ==
    {"GROSS_ALLOCATION_IMPOSSIBLE", "REVIEWED_GROSS_EXCEEDS_AUTHORITY",
     "REVIEWED_GROSS_TOTAL_MISMATCH", "WEIGHT_RECONCILIATION_IMPOSSIBLE",
     "INVOICE_DUPLICATE_DOCUMENT", "REVIEWED_CTN_EXCEEDS_AUTHORITY",
     "REVIEWED_CTN_TOTAL_MISMATCH", "CARTON_LATTICE_VIOLATION",
     "CARTON_RECONCILIATION_FAILED"}

Ready(blocking) == blocking = {}

BuildXmlNow(items, blocking) ==
    \/ Ready(blocking)
    \/ ~StrictBlocking /\ items # << >> /\ blocking \cap WarnModeHardCodes = {}
=============================================================================
