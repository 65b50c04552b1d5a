-------------------------- MODULE TransportAuthority --------------------------
(***************************************************************************)
(* app/rules/airwaybill_authority.py: which one document states the gross  *)
(* weight and the packages of the shipment, and which numbers it goes by.  *)
(*                                                                         *)
(* A form is what was extracted of one transport document: the words of    *)
(* its title that the code looks for, its own numbers, who issued it, what *)
(* its parties look like, and the figures, each possibly unreadable.       *)
(***************************************************************************)
EXTENDS Integers, FiniteSets, FiniteSetsExt, Sequences

CONSTANTS
    AirlineNumbers,     \* 3 + 8 digits
    ForwarderNumbers,   \* with a letter in it
    NoNumber

Unread == -1            \* a figure that is None
NoForm == 0
NoUnit == ""            \* no unit is printed: weights are compared as they are printed

AirWaybills == {"HAWB", "MAWB", "UNKNOWN_AWB"}

DocumentKind(f) ==
    IF "delivery order" \in f.title
    THEN IF "packing" \in f.title THEN "MIXED_DO_PACKING"
         ELSE IF "waybill" \in f.title THEN "AWB" ELSE "TRUE_DO"
    ELSE IF \/ "bill of lading" \in f.title /\ "waybill" \notin f.title
            \/ /\ f.bl # NoNumber
               /\ {f.hawb, f.mawb, f.primary} = {NoNumber}
               /\ "waybill" \notin f.title
    THEN "BILL_OF_LADING"
    ELSE IF "tracking" \in f.title THEN "TRACKING" ELSE "AWB"

OwnBlNumber(f) ==
    IF f.bl # NoNumber THEN f.bl
    ELSE IF DocumentKind(f) = "BILL_OF_LADING" THEN f.primary ELSE NoNumber

Decide(hawb, mawb) ==
    IF hawb >= mawb + 30 THEN "HAWB"
    ELSE IF mawb >= hawb + 30 THEN "MAWB" ELSE "UNKNOWN_AWB"

FirstNumber(numbers) ==
    LET S == {i \in DOMAIN numbers : numbers[i] # NoNumber}
    IN  IF S = {} THEN NoNumber ELSE numbers[Min(S)]

(* The scores that speak for a house document, and for a master. *)
Points(cond, p) == IF cond THEN p ELSE 0

ClassifyForm(f) ==
    LET kind == DocumentKind(f)
        number == FirstNumber(<<f.hawb, f.primary, f.mawb>>)
        house == "house" \in f.title \/ f.hawb # NoNumber
        own == IF f.hawb # NoNumber THEN f.hawb ELSE number
        hawb == Points("house" \in f.title, 100) + Points(f.hawb # NoNumber, 60)
                + Points(own \in ForwarderNumbers, 20) + Points(f.issuer = "forwarder", 30)
                + Points(f.shipper = "trade", 30) + Points(f.consignee = "trade", 30)
        mawb == Points("master" \in f.title, 100) + Points(f.mawb # NoNumber /\ ~house, 60)
                + Points(own \in AirlineNumbers, 40) + Points(f.issuer = "airline", 30)
                + Points(f.shipper = "logistics", 30) + Points(f.consignee = "logistics", 30)
        read(dec, h, m, n) == [dec |-> dec, hawb |-> h, mawb |-> m, number |-> n,
                               gross |-> f.gross, packages |-> f.packages,
                               chargeable |-> f.chargeable]
    IN  IF kind = "AWB" THEN read(Decide(hawb, mawb), hawb, mawb, number)
        ELSE read(kind, 0, 0, IF kind = "BILL_OF_LADING" /\ OwnBlNumber(f) # NoNumber
                              THEN OwnBlNumber(f) ELSE number)

Confidence(c) ==
    LET gap == IF c.hawb > c.mawb THEN c.hawb - c.mawb ELSE c.mawb - c.hawb
    IN  IF c.dec \in AirWaybills THEN Min({100, gap}) ELSE 100

WeighedAirWaybills(cs) ==
    {i \in DOMAIN cs : cs[i].dec \in AirWaybills /\ cs[i].gross # Unread}

(* min(...) and max(...) of the code take the first of equals. *)
Lightest(cs, S) ==
    Min({i \in S : \A j \in S : cs[i].gross <= cs[j].gross})
Heaviest(cs, S) ==
    Min({i \in S : \A j \in S : cs[i].gross >= cs[j].gross})

ComparativeRescore(cs) ==
    LET S == WeighedAirWaybills(cs)
        lo == Lightest(cs, S)
        hi == Heaviest(cs, S)
        crossed == /\ cs[lo].packages # Unread /\ cs[hi].packages # Unread
                   /\ cs[lo].packages > cs[hi].packages
        rescored(i) ==
            LET h == cs[i].hawb + Points(i = lo, 20)
                m == cs[i].mawb + Points(i = hi, 20)
            IN  [cs[i] EXCEPT !.hawb = h, !.mawb = m, !.dec = Decide(h, m)]
    IN  IF Cardinality(S) < 2 THEN cs
        ELSE IF cs[lo].gross = cs[hi].gross \/ crossed THEN cs
        ELSE [i \in DOMAIN cs |-> IF i \in {lo, hi} THEN rescored(i) ELSE cs[i]]

Classifications(forms) ==
    ComparativeRescore([i \in DOMAIN forms |-> ClassifyForm(forms[i])])

(* _pick: packages first, then the form of this invoice, then confidence;   *)
(* the sort is stable.                                                      *)
Pick(forms, cs, S, invoices) ==
    LET key(i) == <<IF cs[i].packages = Unread THEN 1 ELSE 0,
                    IF forms[i].refs \cap invoices = {} THEN 1 ELSE 0,
                    - Confidence(cs[i]), i>>
        before(a, b) == \E k \in 1..4 : /\ a[k] < b[k]
                                        /\ \A m \in 1..(k - 1) : a[m] = b[m]
    IN  CHOOSE i \in S : \A j \in S \ {i} : before(key(i), key(j))

LighterOrFewer(cs, S) ==    \* min by gross, then by packages, unreadable last
    LET few(i) == cs[i].packages
        light == {i \in S : \A j \in S : cs[i].gross <= cs[j].gross}
        counted == {i \in light : few(i) # Unread}
    IN  IF counted = {} THEN Min(light)
        ELSE Min({i \in counted : \A j \in counted : few(i) <= few(j)})

\* Mutant: the form that was picked stands.
PreferChosen(cs, chosen) == chosen

PreferLowerAwb(cs, chosen) ==
    LET S == WeighedAirWaybills(cs)
        lowest == LighterOrFewer(cs, S)
    IN  IF Cardinality(S) < 2 \/ chosen \notin S \/ cs[lowest].gross = cs[chosen].gross
        THEN chosen ELSE lowest

-----------------------------------------------------------------------------
(* The numbers of the house and the master waybill and of the bill of      *)
(* lading: with two weights the lighter form is the house.                 *)

OwnHouseNumber(f) ==
    FirstNumber(<<f.hawb, IF f.primary \in ForwarderNumbers THEN f.primary ELSE NoNumber>>)
OwnMasterNumber(f) ==
    FirstNumber(<<f.mawb, IF f.primary \in AirlineNumbers THEN f.primary ELSE NoNumber>>)

HouseNumber(forms, cs) ==
    LET S == WeighedAirWaybills(cs)
        lo == Lightest(cs, S)
        apart == Cardinality(S) >= 2 /\ cs[lo].gross < cs[Heaviest(cs, S)].gross
    IN  FirstNumber(<<IF apart THEN OwnHouseNumber(forms[lo]) ELSE NoNumber,
                      FirstNumber([i \in DOMAIN forms |-> forms[i].hawb]),
                      FirstNumber([i \in DOMAIN forms |->
                          IF forms[i].primary \in ForwarderNumbers THEN forms[i].primary
                          ELSE NoNumber])>>)

MasterNumber(forms, cs) ==
    LET S == WeighedAirWaybills(cs)
        hi == Heaviest(cs, S)
        apart == Cardinality(S) >= 2 /\ cs[Lightest(cs, S)].gross < cs[hi].gross
    IN  FirstNumber(<<IF apart THEN OwnMasterNumber(forms[hi]) ELSE NoNumber,
                      FirstNumber([i \in DOMAIN forms |-> forms[i].mawb]),
                      FirstNumber([i \in DOMAIN forms |->
                          IF forms[i].primary \in AirlineNumbers THEN forms[i].primary
                          ELSE NoNumber])>>)

BillNumber(forms, cs) ==
    LET bills == {i \in DOMAIN cs : cs[i].dec = "BILL_OF_LADING"}
        weighed == {i \in bills : cs[i].gross # Unread}
        own == IF weighed # {} THEN OwnBlNumber(forms[Lightest(cs, weighed)])
               ELSE IF bills # {} THEN OwnBlNumber(forms[Min(bills)]) ELSE NoNumber
    IN  FirstNumber(<<own, FirstNumber([i \in DOMAIN forms |-> OwnBlNumber(forms[i])])>>)

-----------------------------------------------------------------------------
(* resolve_shipment_authority: the ladder.  Each rung is the form it takes,  *)
(* or NoForm; `packing' are the printed totals of the packing list.          *)

LadderRungs(forms, cs, invoices) ==
    LET Of(dec) == {i \in DOMAIN cs : cs[i].dec = dec}
        Weighed(dec) == {i \in Of(dec) : cs[i].gross # Unread}
        picked(S) == IF S = {} THEN NoForm ELSE Pick(forms, cs, S, invoices)
        hawb == picked(Weighed("HAWB"))
        usable == {i \in Of("MAWB") \cup Of("UNKNOWN_AWB") : cs[i].gross # Unread}
        rung(type, form) == [type |-> type, form |-> form]
    IN  << rung("HAWB", IF hawb = NoForm THEN NoForm ELSE PreferLowerAwb(cs, hawb)),
           rung("BILL_OF_LADING",
                IF Weighed("BILL_OF_LADING") # {} THEN Lightest(cs, Weighed("BILL_OF_LADING"))
                ELSE IF Of("BILL_OF_LADING") # {} THEN Min(Of("BILL_OF_LADING")) ELSE NoForm),
           rung("TRUE_DO", picked(Weighed("TRUE_DO"))),
           rung("TRACKING", picked(Weighed("TRACKING"))),
           rung("HAWB", picked(Of("HAWB"))),
           rung(IF Cardinality(usable) = 1 THEN "SINGLE_AWB" ELSE "HAWB",
                IF usable = {} THEN NoForm ELSE LighterOrFewer(cs, usable)),
           rung("PACKING_LIST", picked(Weighed("MIXED_DO_PACKING"))) >>

AuthorityOf(forms, cs, packing, rungs) ==
    LET found == {k \in DOMAIN rungs : rungs[k].form # NoForm}
        rung == rungs[Min(found)]
        authority(type, form, gross, unit, packages) ==
            [type |-> type, form |-> form, gross |-> gross, unit |-> unit, packages |-> packages,
             hawb |-> HouseNumber(forms, cs), mawb |-> MasterNumber(forms, cs),
             bl |-> BillNumber(forms, cs), classes |-> cs]
    IN  IF found # {}
        THEN authority(rung.type, rung.form, cs[rung.form].gross, forms[rung.form].unit,
                       cs[rung.form].packages)
        ELSE IF packing.gross # Unread
        THEN authority("PACKING_LIST", NoForm, packing.gross, packing.unit, packing.packages)
        ELSE authority("UNKNOWN", NoForm, Unread, NoUnit, Unread)

ResolveShipmentAuthority(forms, packing, invoices) ==
    LET resolved(cs) == AuthorityOf(forms, cs, packing, LadderRungs(forms, cs, invoices))
    IN  resolved(Classifications(forms))

(* derive_field40: the number Field 40 prints. *)
DeriveField40(ship) ==
    LET awbs == {i \in DOMAIN ship.classes : ship.classes[i].dec \in AirWaybills}
        weights == {ship.classes[i].gross : i \in WeighedAirWaybills(ship.classes)}
        weighed == Cardinality(WeighedAirWaybills(ship.classes))
        single == FirstNumber(<<ship.mawb, ship.hawb,
                                FirstNumber([i \in DOMAIN ship.classes |->
                                    IF i \in awbs THEN ship.classes[i].number ELSE NoNumber])>>)
    IN  IF awbs = {} /\ ship.hawb = NoNumber /\ ship.mawb = NoNumber THEN ship.bl
        ELSE IF ship.hawb # NoNumber /\ ship.mawb # NoNumber
        THEN IF weighed >= 2 /\ Cardinality(weights) = 1 THEN ship.mawb ELSE ship.hawb
        ELSE single
=============================================================================
