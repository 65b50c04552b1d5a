------------------------------ MODULE MC_Shipment ------------------------------
(***************************************************************************)
(* Shipment on small jobs of a few documents each.  Weights are in steps of *)
(* 0.1 kg (One = 10) and cartons in twentieths (CtnOne = 20), so that one    *)
(* step is what the validator tolerates; money is in cents.                 *)
(***************************************************************************)
EXTENDS Shipment

-----------------------------------------------------------------------------
(* What can be printed.                                                    *)

MCOfficial ==
    (<<"8504", "40", "00", "00">> :> [unit |-> "UNT", other |-> FALSE, rank |-> 1]) @@
    (<<"8504", "40", "90", "00">> :> [unit |-> "DZN", other |-> TRUE, rank |-> 2]) @@
    (<<"8544", "42", "00", "00">> :> [unit |-> "KGM", other |-> FALSE, rank |-> 3])
Adapter == <<"8504", "40", "00", "00">>
Cable == <<"8544", "42", "00", "00">>
Unofficial == <<"9999", "00", "00", "00">>

Word(words, size, codes) == [words |-> words, size |-> size, codes |-> codes]
MCMeaning ==
    ("adapter 5v" :> Word({"power", "adapter", "wall"}, "5v", {})) @@
    ("adapter 9v" :> Word({"power", "adapter", "wall"}, "9v", {})) @@
    ("cable A1" :> Word({"cable", "usb"}, "", {"A1"})) @@
    ("cord A1" :> Word({"cord", "braided"}, "", {"A1"})) @@
    ("power wall adapter" :> Word({"power", "adapter", "wall", "plug"}, "5v", {})) @@
    ("hub" :> Word({"hub"}, "", {}))
MCTextOrder == <<"adapter 5v", "adapter 9v", "cable A1", "cord A1", "hub", "power wall adapter">>

MCScore ==
    [d \in DOMAIN MCMeaning |-> [c \in DOMAIN MCOfficial |->
        IF c = Cable /\ d \in {"cable A1", "cord A1"} THEN 60
        ELSE IF c = Adapter /\ "adapter" \in MCMeaning[d].words THEN 50 ELSE 10]]
MCGuess == [d \in DOMAIN MCMeaning |-> IF d = "cable A1" THEN Cable ELSE << >>]
MCCountry == ("China" :> "CN") @@ ("CN" :> "CN") @@ ("Nepal" :> "NP") @@ ("NP" :> "NP")
MCUnitMass == ("KGS" :> <<1, 1>>) @@ ("KGM" :> <<1, 1>>) @@ ("G" :> <<1, 1000>>)
              @@ ("LB" :> <<45, 100>>)

-----------------------------------------------------------------------------
(* Documents.                                                              *)

NotPrinted == -1
Row0 == [page |-> 1, goods |-> TRUE, qty |-> 1, unit |-> NotPrinted, total |-> 10,
         text |-> "hub", uom |-> "PCS", weight |-> 0, perUnit |-> FALSE, described |-> 0,
         hs |-> << >>, coo |-> ""]
Line(text, qty, total) == [Row0 EXCEPT !.text = text, !.qty = qty, !.total = total]

Chunk(kind, number, currency, totals, subs, rows) ==
    [doc |-> [kind |-> kind, number |-> number, currency |-> currency, totals |-> totals],
     subs |-> subs, rows |-> rows]
Sub(page, kind, number, currency, totals) ==
    [page |-> page, kind |-> kind, number |-> number, currency |-> currency, totals |-> totals]
Totals(grand, freight) == {[grand |-> grand, charges |-> -1, discount |-> -1, freight |-> freight]}
Grand(t) == Totals(t, -1)

Pack0 == [text |-> "hub", qty |-> 1, gross |-> 0, net |-> 0, declared |-> 0,
          type |-> "UNKNOWN", carton |-> 0, group |-> ""]
Packed(text, qty, gross, net, carton, group) ==
    [Pack0 EXCEPT !.text = text, !.qty = qty, !.gross = gross, !.net = net,
                  !.carton = carton, !.group = group]
List(gross, packages, net, extraction, rows) ==
    [gross |-> gross, unit |-> "KGS", packages |-> packages, net |-> net,
     extraction |-> extraction, rows |-> rows]

NoCharges == [prepaid |-> -1, collect |-> -1, weight |-> -1, valuation |-> -1, tax |-> -1,
              other |-> -1, printed |-> -1, currency |-> ""]
Form0 == [title |-> {"waybill"}, hawb |-> "", mawb |-> "", primary |-> "", bl |-> "",
          issuer |-> "", shipper |-> "", consignee |-> "", gross |-> -1, unit |-> "KGS",
          packages |-> -1, chargeable |-> -1, refs |-> {}, charges |-> NoCharges]
House(gross, packages) ==
    [Form0 EXCEPT !.title = {"house", "waybill"}, !.hawb = "FWD1", !.mawb = "157-1",
                  !.issuer = "forwarder", !.gross = gross, !.packages = packages]
Master(gross, packages) ==
    [Form0 EXCEPT !.title = {"waybill"}, !.mawb = "157-1", !.issuer = "airline",
                  !.shipper = "logistics", !.gross = gross, !.packages = packages]
Plain(number, gross, packages) ==
    [Form0 EXCEPT !.primary = number, !.gross = gross, !.packages = packages]

File(role, body) == [role |-> role, body |-> body]

MCDocument ==
    \* three kinds of net statement; the last description cannot be true of a
    \* light shipment
    ("inv nets" :> File("INVOICE", Chunk("COMMERCIAL", "A", "USD", {}, << >>,
        << [Line("adapter 5v", 2, 10) EXCEPT !.weight = 15],
           Line("cable A1", 1, 30),
           [Line("hub", 4, 20) EXCEPT !.described = 40] >>))) @@
    ("inv mass" :> File("INVOICE", Chunk("COMMERCIAL", "A", "USD", {}, << >>,
        << [Line("adapter 5v", 2, 10) EXCEPT !.uom = "KGS"],
           [Line("hub", 3, 20) EXCEPT !.weight = 8, !.perUnit = TRUE] >>))) @@
    ("list ctn" :> File("PACKING_LIST", List(100, 5, 80, "complete",
        << Packed("adapter 5v", 2, 30, 20, 20, ""), Packed("cable A1", 1, 20, 0, 40, "") >>))) @@
    ("list bare" :> File("PACKING_LIST", List(-1, -1, 40, "partial",
        << [Pack0 EXCEPT !.text = "adapter 5v", !.declared = 25],
           [Pack0 EXCEPT !.text = "hub", !.declared = 15] >>))) @@
    ("house" :> File("AIR_WAYBILL", House(100, 5))) @@
    ("house light" :> File("AIR_WAYBILL", [House(40, 5) EXCEPT !.unit = ""])) @@
    ("master" :> File("AIR_WAYBILL", Master(120, 3))) @@
    ("master same" :> File("AIR_WAYBILL", Master(100, 3))) @@
    ("plain air" :> File("AIR_WAYBILL", Plain("157-2", 90, -1))) @@
    ("plain fwd" :> File("AIR_WAYBILL", Plain("FWD2", 90, 4))) @@
    ("unread" :> File("AIR_WAYBILL", House(-1, 2))) @@
    ("sea" :> File("AIR_WAYBILL",
        [Form0 EXCEPT !.title = {"bill of lading"}, !.bl = "BL1", !.gross = 110, !.packages = 2])) @@
    ("order" :> File("AIR_WAYBILL",
        [Form0 EXCEPT !.title = {"delivery order"}, !.gross = 130, !.unit = "CBM",
                      !.refs = {"A"}])) @@
    ("tracking" :> File("AIR_WAYBILL", [Form0 EXCEPT !.title = {"tracking"}, !.gross = 70])) @@
    ("charged" :> File("AIR_WAYBILL", [House(50, 2) EXCEPT !.unit = "",
        !.charges = [NoCharges EXCEPT !.weight = 1001, !.other = 200, !.currency = "USD"]])) @@
    ("charged EUR" :> File("AIR_WAYBILL", [House(50, 2) EXCEPT !.unit = "LB",
        !.charges = [NoCharges EXCEPT !.prepaid = 900, !.currency = "EUR"]])) @@
    \* invoices: a bundle with a proforma of two pages in it and a
    \* line of its first page at its end, a copy of one of its invoices,
    \* a proforma of its own, an unreadable total
    ("bundle" :> File("INVOICE", Chunk("COMMERCIAL", "A", "USD", Grand(50),
        << Sub(4, "COMMERCIAL", "C", "", Totals(25, 40)),
           Sub(1, "COMMERCIAL", "B", "USD", Totals(-1, 60)),
           Sub(2, "PROFORMA", "P", "USD", {}) >>,
        << Line("adapter 5v", 2, 10),
           [Line("cable A1", 1, 30) EXCEPT !.page = 2],
           [Line("cable A1", 1, 5) EXCEPT !.page = 3],
           [Line("hub", 1, 25) EXCEPT !.page = 4],
           [Line("hub", 1, 3) EXCEPT !.page = 4, !.goods = FALSE],
           Line("adapter 9v", 1, 4) >>))) @@
    ("copy" :> File("INVOICE", Chunk("COMMERCIAL", "C", "USD", Grand(26), << >>,
        << Line("hub", 1, 25), Line("hub", 1, -1) >>))) @@
    ("proforma" :> File("INVOICE", Chunk("PROFORMA", "P", "EUR", Grand(100), << >>,
        << [Line("cable A1", 1, -2) EXCEPT !.unit = 5] >>))) @@
    ("euros" :> File("INVOICE", Chunk("COMMERCIAL", "E", "EUR", Totals(100, 30), << >>,
        << Line("cable A1", 3, 7) >>))) @@
    \* packing: near texts, shared cartons
    ("inv near" :> File("INVOICE", Chunk("COMMERCIAL", "N", "USD", {}, << >>,
        << Line("adapter 5v", 2, 10), Line("adapter 9v", 1, 10), Line("cable A1", 3, 5),
           Line("cable A1", 1, 5) >>))) @@
    ("list near" :> File("PACKING_LIST", List(60, 3, -1, "complete",
        << Packed("power wall adapter", 2, 11, 9, 20, "g1"),
           Packed("cord A1", 4, 13, 0, 20, "g1"), Packed("adapter 9v", 1, 5, 4, 20, "g1") >>))) @@
    ("list more" :> File("PACKING_LIST", List(-1, -1, -1, "complete",
        << Packed("cable A1", 1, 7, 5, 20, "g2"), Packed("hub", 1, 9, 0, 40, "g2") >>))) @@
    \* a second supplier's list, whose cartons bear the mark of the first's
    ("list twin" :> File("PACKING_LIST", List(-1, -1, -1, "complete",
        << Packed("adapter 9v", 1, 4, 3, 20, "g1"),
           Packed("power wall adapter", 2, 6, 5, 20, "g1") >>))) @@
    ("list late" :> File("PACKING_LIST", List(90, 4, -1, "over budget",
        << Packed("hub", 4, 50, 45, 40, "") >>))) @@
    \* customs: an exact code, a prefix, a guess
    ("inv hs" :> File("INVOICE", Chunk("COMMERCIAL", "H", "USD", {}, << >>,
        << [Line("adapter 5v", 1, 10) EXCEPT !.hs = <<"8504", "40">>],
           [Line("cable A1", 2, 20) EXCEPT !.coo = "China"] >>))) @@
    ("inv hs again" :> File("INVOICE", Chunk("COMMERCIAL", "H2", "USD", {}, << >>,
        << Line("cable A1", 2, 20), Line("hub", 12, 7) >>))) @@
    ("bank" :> File("BANKING", [bank |-> "NMB", terms |-> "DAP",
        mentions |-> << [amount |-> 500, currency |-> "EUR"],
                        [amount |-> 20, currency |-> ""] >>]))

Job(files, kinds) == [files |-> files, kinds |-> kinds]
Transport == {"house", "master", "master same", "plain air", "plain fwd", "unread", "sea",
              "order", "tracking"}

MCFamilies ==
    {Job({"inv nets", "list ctn", "house"}, {"weights"}),
     Job({"inv nets", "house light"}, {"weights", "totals"}),
     Job({"inv mass", "house light"}, {"weights"}),
     Job({"inv nets", "list ctn", "house"}, {"cartons"}),
     Job({"inv nets", "house"}, {"cartons", "totals"}),
     Job({"inv mass", "list bare", "house"}, {}),
     Job({"inv nets", "list ctn", "list late"}, {}),
     Job({"bundle", "copy", "proforma", "euros"}, {}),
     Job({"inv near", "list near", "list more", "list twin", "house"}, {}),
     Job({"inv hs", "inv hs again", "charged"}, {"hs"}),
     Job({"inv hs", "bank", "charged"}, {"final"}),
     Job({"inv hs", "euros", "bank", "charged EUR"}, {"final"}),
     Job({"bundle", "copy", "house light"}, {"final"})}
    \cup {Job(fs \cup {"inv nets"}, {}) : fs \in {s \in SUBSET Transport : Cardinality(s) = 3}}

-----------------------------------------------------------------------------
(* What a reviewer enters and confirms.                                    *)

MCGrossPins == {0, 35, 45}
MCNetPins == {0, 20}
MCCtnPins == {0, 16, 120}
MCTotals == {<<50, 2>>, <<200, 16>>}

MCReference ==
    [f \in {"model", "office", "extended", "national", "mode", "country", "bank", "terms"} |->
        CASE f = "model" -> {<<"IM", "4">>}
          [] f = "office" -> {"office1", "office2"}
          [] f = "extended" -> {<<"4", "000">>}
          [] f = "national" -> {"000"}
          [] f = "mode" -> {"4"}
          [] f = "country" -> {"CN", "NP"}
          [] f = "bank" -> {"0101"}
          [] f = "terms" -> {"11"}]
MCSeeds == [f \in {"model", "office", "borderOffice", "extended", "national"} |->
    CASE f = "model" -> <<"IM", "4">> [] f = "extended" -> <<"4", "000">>
      [] f = "national" -> "000" [] OTHER -> "office1"]

KeepAll == [f \in D!Fields |-> Keep]
Modes == [KeepAll EXCEPT !["borderMode"] = "4", !["inlandMode"] = "4"]
MCConfirmations ==
    {KeepAll, Modes,
     [Modes EXCEPT !["freight"] = 100, !["insurance"] = 7, !["gross"] = 70],
     [Modes EXCEPT !["gross"] = 0, !["freight"] = -1],      \* both left blank
     [Modes EXCEPT !["packages"] = 1],     \* too few for two rows, by one step
     [Modes EXCEPT !["packages"] = 60, !["office"] = "office2", !["unit"] = "LB"],
     [Modes EXCEPT !["borderOffice"] = "", !["bl"] = "BL7", !["extended"] = <<"1", "000">>]}
MCHsEntered == {Adapter, Cable}
MCRates == {<<13, 4>>}
MCBanks == "NMB" :> "0101"
MCTerms == "DAP" :> "11"
MCGroupRange == ("g1" :> 40) @@ ("g2" :> 0)
MCOverrides == {<< >>, <<2, Cable>>, <<1, Unofficial>>}
=============================================================================
