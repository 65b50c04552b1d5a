------------------------------- MODULE Documents -------------------------------
(***************************************************************************)
(* extraction/common_models.py: what the extraction of a document yields,   *)
(* of the fields the rules read.  Figures are whole steps, -1 or below for  *)
(* one that is absent or unreadable, unless a row says otherwise; a text is *)
(* one of Texts and the mark of a carton group one of Marks.                *)
(***************************************************************************)
EXTENDS Integers, Sequences

CONSTANTS Texts, Marks

InvoiceLine ==
    [page : Int, goods : BOOLEAN, qty : Int, unit : Int, total : Int, text : Texts,
     uom : STRING, weight : Int, perUnit : BOOLEAN, described : Int,
     hs : Seq(STRING), coo : STRING]

InvoiceTotals == [grand : Int, charges : Int, discount : Int, freight : Int]

(* totals is {} or {t}. *)
InvoiceHeader ==
    [kind : STRING, number : STRING, currency : STRING, totals : SUBSET InvoiceTotals]

SubInvoice ==
    [page : Int, kind : STRING, number : STRING, currency : STRING,
     totals : SUBSET InvoiceTotals]

InvoiceChunk == [doc : InvoiceHeader, subs : Seq(SubInvoice), rows : Seq(InvoiceLine)]

(* Zero is a figure that a row of a packing list does not print.            *)
PackingRow ==
    [text : Texts, qty : Int, gross : Int, net : Int, declared : Int, type : STRING,
     carton : Nat, group : Marks]

PackingListChunk ==
    [gross : Int, unit : STRING, packages : Int, net : Int, extraction : STRING,
     rows : Seq(PackingRow)]

AirWaybillCharges ==
    [prepaid : Int, collect : Int, weight : Int, valuation : Int, tax : Int, other : Int,
     printed : Int, currency : STRING]

AirWaybillForm ==
    [title : SUBSET STRING, hawb : STRING, mawb : STRING, primary : STRING, bl : STRING,
     issuer : STRING, shipper : STRING, consignee : STRING,
     gross : Int, unit : STRING, packages : Int, chargeable : Int, refs : SUBSET STRING,
     charges : AirWaybillCharges]

Mention == [amount : Int, currency : STRING]

BankingExtraction == [bank : STRING, terms : STRING, mentions : Seq(Mention)]
===============================================================================
