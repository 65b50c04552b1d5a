--------------------------- MODULE InvoiceAuthority ---------------------------
(***************************************************************************)
(* app/rules/invoice_authority.py: the goods rows of the uploaded invoices *)
(* as one numbered list, and what the invoices say about themselves.       *)
(*                                                                         *)
(* A chunk is one uploaded document: doc (its kind and number, currency,   *)
(* totals), subs (the printed invoices inside it, each with the page it    *)
(* starts on, 0 when it reports none) and rows in printed order.  A row    *)
(* has page, goods (REAL_GOODS_ITEM), qty, unit and total; NotPrinted is a *)
(* figure that is absent, Unparsed one that is there but unreadable.       *)
(***************************************************************************)
EXTENDS Integers, FiniteSets, FiniteSetsExt, Sequences, SequencesExt

CONSTANTS NoInvoiceNumber, HalfUnit     \* HalfUnit: 0.5 of the currency

NotPrinted == -1
Unparsed == -2

Known(x) == IF x >= 0 THEN x ELSE 0

GoodsKind(kind) == kind \notin {"PROFORMA", "CHARGE"}

(* The entries of s at the positions in S, in their order.                  *)
EntriesAt(s, S) == FlattenSeq([k \in DOMAIN s |-> IF k \in S THEN << s[k] >> ELSE << >>])

(* finalize_invoices: proforma and charge documents count only when there   *)
(* is nothing else.                                                         *)
FinalChunks(chunks) ==
    LET final == EntriesAt(chunks, {k \in DOMAIN chunks : GoodsKind(chunks[k].doc.kind)})
    IN  IF final = << >> THEN chunks ELSE final

\* Mutant: sub-invoices in the order they were reported.
AnchoredAsReported(chunk) ==
    EntriesAt(chunk.subs, {k \in DOMAIN chunk.subs : chunk.subs[k].page > 0})

(* _virtual_invoices: the rows of a bundle are cut, in place, at the pages *)
(* its anchored sub-invoices start on; the sort by page is stable.          *)
Anchored(chunk) ==
    LET page(k) == chunk.subs[k].page
        anchored == {k \in DOMAIN chunk.subs : page(k) > 0}
        before(k) == {j \in anchored : page(j) < page(k) \/ (page(j) = page(k) /\ j < k)}
    IN  [n \in 1..Cardinality(anchored) |->
            chunk.subs[CHOOSE k \in anchored : Cardinality(before(k)) = n - 1]]

BucketOf(subs, page) ==
    LET started == {k \in DOMAIN subs : subs[k].page <= page}
    IN  IF started = {} THEN 1 ELSE Max(started)

VirtualInvoices(chunk) ==
    LET subs == Anchored(chunk)
        one == Len(subs) = 1
        virtual(k) ==
            [number |-> IF subs[k].number = NoInvoiceNumber /\ one THEN chunk.doc.number
                        ELSE subs[k].number,
             kind |-> subs[k].kind,
             currency |-> IF subs[k].currency = "" THEN chunk.doc.currency
                          ELSE subs[k].currency,
             totals |-> IF subs[k].totals = {} /\ one THEN chunk.doc.totals ELSE subs[k].totals,
             rows |-> EntriesAt(chunk.rows, {n \in DOMAIN chunk.rows :
                                       BucketOf(subs, chunk.rows[n].page) = k})]
    IN  IF subs = << >>
        THEN << [number |-> chunk.doc.number, kind |-> chunk.doc.kind,
                 currency |-> chunk.doc.currency, totals |-> chunk.doc.totals,
                 rows |-> chunk.rows] >>
        ELSE [k \in DOMAIN subs |-> virtual(k)]

(* A bundle may mix proforma pages with invoices. *)
KeptVirtuals(all) ==
    LET keep == EntriesAt(all, {k \in DOMAIN all : GoodsKind(all[k].kind)})
    IN  IF Len(all) > 1 /\ keep # << >> THEN keep ELSE all

(* A goods row always prints a price or a total; the total is never        *)
(* computed while one is printed and readable.                              *)
Goods(r) == r.goods /\ ~(r.unit = NotPrinted /\ r.total = NotPrinted)
GoodsRows(v) == EntriesAt(v.rows, {k \in DOMAIN v.rows : Goods(v.rows[k])})

LineTotal(r) == IF r.total >= 0 THEN r.total ELSE Known(r.qty) * Known(r.unit)

(* A non-zero amount was on the page and the item is worth nothing. *)
ZeroSuspect(r) == LineTotal(r) = 0 /\ (r.total = Unparsed \/ r.unit > 0 \/ r.unit = Unparsed)

GoodsOf(v) == FoldLeft(LAMBDA sum, r : sum + LineTotal(r), 0, GoodsRows(v))

(* The printed grand total net of printed charges; totals is {} or {t}. *)
GoodsTarget(v) ==
    LET t == CHOOSE x \in v.totals : TRUE
    IN  IF v.totals = {} THEN NotPrinted
        ELSE IF t.grand < 0 THEN NotPrinted
        ELSE t.grand - Known(t.charges) + Known(t.discount)

Gap(a, b) == IF a > b THEN a - b ELSE b - a

IncompleteSuspect(v) ==
    LET target == GoodsTarget(v)
    IN  /\ target # NotPrinted /\ Gap(target, GoodsOf(v)) > HalfUnit
        /\ 5 * GoodsOf(v) < 4 * target

TotalMismatch(v) ==
    LET target == GoodsTarget(v)
    IN  /\ target # NotPrinted /\ Gap(target, GoodsOf(v)) > HalfUnit
        /\ ~IncompleteSuspect(v)

-----------------------------------------------------------------------------
(* The result: the items in printed order, numbered by their position, each *)
(* with the invoice it is of and its row.                                   *)

VirtualsOf(chunks) ==
    LET of(k, kept) == [j \in DOMAIN kept |-> [doc |-> k, inv |-> kept[j]]]
    IN  FlattenSeq([k \in DOMAIN chunks |-> of(k, KeptVirtuals(VirtualInvoices(chunks[k])))])

ItemsOf(vs) ==
    LET rows(v, goods) == [k \in DOMAIN goods |->
                             [number |-> v.inv.number, doc |-> v.doc, row |-> goods[k]]]
    IN  FlattenSeq([k \in DOMAIN vs |-> rows(vs[k], GoodsRows(vs[k].inv))])

InvoiceResult(vs, items) ==
    LET numbers == {vs[k].inv.number : k \in DOMAIN vs} \ {NoInvoiceNumber}
        docsOf(n) == {vs[k].doc : k \in {k \in DOMAIN vs : vs[k].inv.number = n}}
        named == {k \in DOMAIN vs : vs[k].inv.currency # ""}
        currencies == {vs[k].inv.currency : k \in named}
    IN  [items |-> items,
         goods |-> FoldLeft(LAMBDA sum, i : sum + LineTotal(i.row), 0, items),
         refs |-> numbers,
         currency |-> IF named = {} THEN "USD" ELSE vs[Max(named)].inv.currency,
         codes |-> (IF \E n \in numbers : Cardinality(docsOf(n)) > 1
                    THEN {"INVOICE_DUPLICATE_DOCUMENT"} ELSE {})
              \cup (IF Cardinality(currencies) > 1 THEN {"MIXED_INVOICE_CURRENCIES"} ELSE {})
              \cup (IF \E k \in DOMAIN vs : IncompleteSuspect(vs[k].inv)
                    THEN {"ROWS_INCOMPLETE_SUSPECT"} ELSE {})
              \cup (IF \E k \in DOMAIN vs : TotalMismatch(vs[k].inv)
                    THEN {"TOTAL_MISMATCH"} ELSE {})
              \cup (IF \E k \in DOMAIN items : ZeroSuspect(items[k].row)
                    THEN {"ITEM_PRICE_ZERO_SUSPECT"} ELSE {})
              \cup (IF items = << >> THEN {"INVOICE_NO_VALID_SOURCE"} ELSE {})]

FinalizeInvoices(chunks) ==
    LET result(vs) == InvoiceResult(vs, ItemsOf(vs))
    IN  result(VirtualsOf(FinalChunks(chunks)))
=============================================================================
