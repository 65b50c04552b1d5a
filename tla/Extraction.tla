----------------------------- MODULE Extraction -----------------------------
(***************************************************************************)
(* Reading one document's goods table (extraction/openai_extractor.py, with *)
(* its table parser, validator and vendor layout memory): the page windows  *)
(* that run at the same time, the two gates their calls queue at, the time  *)
(* budget of a packing list, backoff, repair rounds, the scoped re-request  *)
(* of empty pages, the merge and the honesty passes over it.                *)
(*                                                                          *)
(* A page is its printed lines.  A line may print goods (a quantity and a   *)
(* unit), an identity (id > 0), arithmetic that closes (proves) and an      *)
(* amount.  A payload row says which line it transcribes, how often (copy), *)
(* in which window, and where its value comes from: the line itself         *)
(* ("printed"), elsewhere on the page, another page ("foreign"), nowhere    *)
(* ("none").  The model's reply is any of Replies; the budget may run out   *)
(* at any moment.  Descriptions and headers of the payload are left out,    *)
(* and with them the calls that only ask who owns a description.            *)
(***************************************************************************)
EXTENDS Integers, FiniteSets, Sequences, FiniteSetsExt

CONSTANTS
    Docs,
    Concurrency,        \* llm_concurrency: permits of the gate, windows of a pool
    Threshold,          \* extraction_chunk_page_threshold
    WindowPages,        \* _window_size, by role
    MaxPages,           \* extraction_max_pages; 0 is no ceiling
    MaxRepair,          \* extraction_max_repair_rounds
    MaxTries,           \* Len(_BACKOFF_SECONDS)
    MinRowsToRecord     \* _MIN_ROWS_TO_RECORD, MIN_MEMORY_ROWS

ASSUME ConcurrencyAssumption == Concurrency \in Nat
ASSUME WindowAssumption == WindowPages \in [{"INVOICE", "PACKING_LIST"} -> Nat \ {0}]

VARIABLES
    document,       \* per document, what is printed: [role, layout, total, mislabelled, pages]
    habits,         \* what the model does when it replies, in this behaviour
    phase,          \* "new" | "columns" | "reading" | "done" | "failed" | "over"
    late,           \* the document's deadline has passed
    window,         \* its windows, by their first page; 0 is the header call
    result,         \* what extract_document returns: [rows, said, complete]
    layouts,        \* vendor_layout: the header signatures remembered
    heard           \* history: per window, the largest number of rows in one valid reply

extractionVars == <<document, habits, phase, late, window, result, layouts, heard>>

Chunkable == {"INVOICE", "PACKING_LIST"}
Pages(d) == 1..Len(document[d].pages)
Lines(d, p) == DOMAIN document[d].pages[p].lines
Line(d, p, i) == document[d].pages[p].lines[i]
Budgeted(d) == document[d].role = "PACKING_LIST"

-----------------------------------------------------------------------------
(* What a page provably prints.                                            *)

GoodsLines(d, p) == {i \in Lines(d, p) : Line(d, p, i).goods}
PrintsGoods(d, p) == GoodsLines(d, p) # {}
Anchors(d, p) == {i \in GoodsLines(d, p) : Line(d, p, i).id > 0}

\* Mutant: any row of the page will do.
CoveredByPage(d, rows, p, i) == \E r \in rows : r.page = p

\* uncovered_anchors: some row of the page or of a neighbour shows its identity.
Covered(d, rows, p, i) ==
    \E r \in rows : r.page \in p - 1..p + 1 /\ Line(d, r.page, r.line).id = Line(d, p, i).id

\* validate_invoice and validate_packing on the pages of a scope.
Errors(d, rows, scope) ==
    {[code |-> "PAGE_ROWS_MISSING", page |-> p] :
        p \in {q \in scope : PrintsGoods(d, q) /\ \A r \in rows : r.page # q}}
    \cup
    {[code |-> "ROW_ANCHOR_MISSING", page |-> p] :
        p \in {q \in scope : \E i \in Anchors(d, q) : ~Covered(d, rows, q, i)}}

\* _gap_fill_pages: only when empty pages are all that is wrong.
GapPages(errors) ==
    IF \E e \in errors : e.code # "PAGE_ROWS_MISSING" THEN {} ELSE {e.page : e \in errors}

Amounts(d, rows) == MapThenSumSet(LAMBDA r : Line(d, r.page, r.line).amount, rows)
Off(sum, total) == sum * 50 > total * 51 \/ sum * 50 < total * 49

-----------------------------------------------------------------------------
(* The table parser.                                                       *)

\* _parse_with: the column map of the page's own or an earlier header, or a
\* remembered one.
Mapped(d, p, remembered) ==
    remembered \/ \E q \in 1..p : document[d].pages[q].header
HasHeader(d) == Mapped(d, Len(document[d].pages), FALSE)
ParsedRows(d, p, remembered) ==
    IF ~Mapped(d, p, remembered) THEN {}
    ELSE {[page |-> p, line |-> i, value |-> "printed", by |-> -1, copy |-> 0] :
            i \in {j \in GoodsLines(d, p) : Line(d, p, j).proves}}
Leftover(d, p, remembered) ==
    Mapped(d, p, remembered) /\ \E i \in GoodsLines(d, p) : ~Line(d, p, i).proves
Confirmed(d, remembered) ==
    {p \in Pages(d) : ParsedRows(d, p, remembered) # {} /\ ~Leftover(d, p, remembered)}
RowsOfPages(d, pages, remembered) == UNION {ParsedRows(d, p, remembered) : p \in pages}

\* parse_pages: a remembered map is tried only where no header was read.
Remembered(d) ==
    /\ ~HasHeader(d) /\ document[d].layout \in layouts
    /\ Cardinality(RowsOfPages(d, Confirmed(d, TRUE), TRUE)) >= MinRowsToRecord

\* _gated, _gate_invoice_totals: a table read whole must add up to its printed
\* total.  A mislabelled packing table does not, until somebody says which
\* column is which.
AddsUp(d, asked) ==
    LET remembered == Remembered(d)
        owned == Confirmed(d, remembered)
        total == document[d].total
    IN  \/ \E p \in Pages(d) \ owned :
              ParsedRows(d, p, remembered) # {} \/ Leftover(d, p, remembered)
        \/ total = 0
        \/ /\ ~document[d].mislabelled \/ asked
           /\ ~Off(Amounts(d, RowsOfPages(d, owned, remembered)), total)
Owned(d, asked) ==
    IF document[d].role \in Chunkable /\ AddsUp(d, asked) THEN Confirmed(d, Remembered(d)) ELSE {}

-----------------------------------------------------------------------------
(* Windows.                                                                *)

Around(d, scope) ==
    scope \cup ({Min(scope) - 1, Max(scope) + 1} \cap Pages(d))
Frame(scope, shown) == [scope |-> scope, shown |-> shown, round |-> 0, rows |-> {}, valid |-> FALSE]
Waiting(scope, shown) ==
    [step |-> "waiting", slot |-> "none", tries |-> 0, outer |-> Frame(scope, shown), gap |-> << >>,
     filled |-> FALSE, said |-> {}, lost |-> FALSE, error |-> FALSE]

\* _extract_chunked: consecutive windows, a page of context on either side.
Chunks(d) ==
    LET size == WindowPages[document[d].role]
        firsts == {p \in Pages(d) : (p - 1) % size = 0}
        scope(p) == p..Min({p + size - 1, Len(document[d].pages)})
    IN  [p \in firsts |-> Waiting(scope(p), Around(d, scope(p)))]

\* _extract_parser_first: the header call, and windows over runs of the pages
\* the parser does not own although they show goods.
ResidueRuns(d, owned) ==
    LET size == WindowPages[document[d].role]
        residue == {p \in Pages(d) \ owned : PrintsGoods(d, p)}
        before(p) == {q \in residue : q <= p /\ q..p \subseteq residue}
        firsts == {p \in residue : (p - Min(before(p))) % size = 0}
        scope(p) == {q \in residue : q >= p /\ q < p + size /\ p..q \subseteq residue}
    IN  [p \in {0} \cup firsts |->
            IF p = 0 THEN Waiting({}, Pages(d)) ELSE Waiting(scope(p), Around(d, scope(p)))]

Plan(d, owned) ==
    IF owned # {} THEN ResidueRuns(d, owned)
    ELSE IF document[d].role \in Chunkable /\ Len(document[d].pages) > Threshold THEN Chunks(d)
    ELSE [p \in {1} |-> Waiting(Pages(d), Pages(d))]

NoResult == [rows |-> {}, said |-> {}, complete |-> TRUE]

Reads(d, owned) ==
    /\ phase' = [phase EXCEPT ![d] = "reading"]
    /\ window' = [window EXCEPT ![d] = Plan(d, owned)]
    /\ heard' = [heard EXCEPT ![d] = [w \in DOMAIN Plan(d, owned) |-> 0]]

\* extract: the page ceiling, the parser, and the question a packing table is
\* worth when its totals refuse to close.
Begin(d) ==
    /\ phase[d] = "new"
    /\ \/ /\ MaxPages > 0 /\ Len(document[d].pages) > MaxPages
          /\ phase' = [phase EXCEPT ![d] = "failed"]
          /\ UNCHANGED <<window, heard>>
       \/ /\ MaxPages = 0 \/ Len(document[d].pages) <= MaxPages
          /\ IF Budgeted(d) /\ Confirmed(d, Remembered(d)) # {} /\ ~AddsUp(d, FALSE)
             THEN /\ phase' = [phase EXCEPT ![d] = "columns"]
                  /\ window' = [window EXCEPT ![d] = [w \in {0} |-> Waiting({}, {})]]
                  /\ heard' = [heard EXCEPT ![d] = [w \in {0} |-> 0]]
             ELSE Reads(d, Owned(d, FALSE))
    /\ UNCHANGED <<document, habits, late, result, layouts>>

BudgetEnds(d) ==
    /\ phase[d] \in {"new", "columns", "reading"} /\ Budgeted(d) /\ ~late[d]
    /\ late' = [late EXCEPT ![d] = TRUE]
    /\ UNCHANGED <<document, habits, phase, window, result, layouts, heard>>

-----------------------------------------------------------------------------
(* One call.                                                               *)

Holders(slot) ==
    {h \in UNION {{d} \X DOMAIN window[d] : d \in Docs} : window[h[1]][h[2]].slot = slot}
PermitFree == Cardinality(Holders("shared")) < Concurrency
Steps(d, w, new) == window' = [window EXCEPT ![d][w] = new]
restOfDoc == <<document, habits, phase, late, result, layouts>>

\* _run_windows: as many workers as permits.
StartWindow(d, w) ==
    /\ window[d][w].step = "waiting"
    /\ Cardinality({v \in DOMAIN window[d] : window[d][v].step \notin {"waiting", "done"}}) < Concurrency
    /\ Steps(d, w, [window[d][w] EXCEPT !.step = "ready"])
    /\ UNCHANGED <<restOfDoc, heard>>

\* Mutant: the slot is not given back.
DoneKeepsSlot(win) == [win EXCEPT !.step = "done", !.gap = << >>]

\* A frame ends: a re-request hands its rows to the window that made it.
Done(win) == [win EXCEPT !.step = "done", !.slot = "none", !.gap = << >>]

NextRound(win) ==
    IF win.outer.round >= MaxRepair
    THEN Done([win EXCEPT !.said = @ \cup {"FIELD_REVIEW_REQUIRED"}])
    ELSE [win EXCEPT !.outer.round = @ + 1, !.step = "ready", !.slot = "none", !.tries = 0,
                     !.gap = << >>]

GapReturns(d, win, rows) ==
    LET kept == {r \in rows : r.page \in win.gap[1].scope}
        merged == win.outer.rows \cup kept
    IN  IF kept = {} THEN NextRound(win)
        ELSE IF Errors(d, merged, win.outer.scope) = {}
        THEN Done([win EXCEPT !.outer.rows = merged, !.said = @ \cup {"GAP_FILLED"}])
        ELSE NextRound([win EXCEPT !.outer.rows = merged])

\* Mutant: the budget takes the rows with it.
AbortedEmpty(d, win) ==
    Done([win EXCEPT !.lost = TRUE, !.outer.rows = {}, !.outer.valid = FALSE])

\* ExtractionDeadlineExceeded inside a window: what was read is kept, the
\* window is marked, and only a window with nothing to show yields nothing.
Aborted(d, win) ==
    IF win.gap # << >> /\ win.gap[1].valid THEN GapReturns(d, win, win.gap[1].rows)
    ELSE Done([win EXCEPT !.lost = TRUE])

\* A call that fails for good: a re-request that fails is only a repair that
\* did not come, anything else fails the document.
Broken(win) ==
    IF win.gap # << >> THEN NextRound(win) ELSE Done([win EXCEPT !.error = TRUE])

\* _create before the call: the budget, then the reserved slot without
\* blocking, else the shared gate.
TakeSlot(d, w) ==
    LET win == window[d][w]
        calling(slot) == [win EXCEPT !.step = "calling", !.slot = slot]
    IN  /\ win.step = "ready"
        /\ Steps(d, w, IF late[d] THEN Aborted(d, win)
                       ELSE IF Budgeted(d) /\ Holders("reserved") = {} THEN calling("reserved")
                       ELSE IF PermitFree THEN calling("shared")
                       ELSE [win EXCEPT !.step = "queued"])
        /\ UNCHANGED <<restOfDoc, heard>>

\* A queued call gets its permit, and looks at the clock again.
GetPermit(d, w) ==
    LET win == window[d][w]
    IN  /\ win.step = "queued" /\ PermitFree
        /\ Steps(d, w, IF late[d] THEN Aborted(d, win)
                       ELSE [win EXCEPT !.step = "calling", !.slot = "shared"])
        /\ UNCHANGED <<restOfDoc, heard>>

\* A rate limit, timeout or dropped connection: backoff, a bounded number of
\* times.
CallFails(d, w) ==
    LET win == window[d][w]
    IN  /\ win.step = "calling"
        /\ \/ /\ "transient" \in habits
              /\ Steps(d, w, IF late[d] THEN Aborted(d, win)
                             ELSE IF win.tries >= MaxTries THEN Broken(win)
                             ELSE [win EXCEPT !.step = "backoff", !.slot = "none", !.tries = @ + 1])
           \/ /\ "refused" \in habits
              /\ Steps(d, w, Broken(win))
        /\ UNCHANGED <<restOfDoc, heard>>

Wake(d, w) ==
    /\ window[d][w].step = "backoff"
    /\ Steps(d, w, [window[d][w] EXCEPT !.step = "ready"])
    /\ UNCHANGED <<restOfDoc, heard>>

-----------------------------------------------------------------------------
(* One reply.                                                              *)

\* What the model may send back for the pages it was asked for (external).
Replies(d, w, frame) ==
    LET row(p, i, value, copy) ==
            [page |-> p, line |-> i, value |-> value, by |-> w, copy |-> copy]
        goods(pages) == UNION {{row(p, i, "printed", 0) : i \in GoodsLines(d, p)} : p \in pages}
        whole == goods(frame.scope)
        showing == {p \in frame.scope : PrintsGoods(d, p)}
        ofLast == {r \in whole : showing # {} /\ r.page = Max(showing)}
        lastRow == {r \in ofLast : \A q \in ofLast : q.line <= r.line}
        fragments == UNION {{row(p, i, "elsewhere", 0) :
                              i \in {j \in Lines(d, p) : ~Line(d, p, j).goods}} : p \in frame.scope}
    IN  (IF "whole" \in habits THEN {whole} ELSE {})
        \cup (IF "drop" \in habits THEN {whole \ lastRow} ELSE {})
        \cup (IF "blank" \in habits THEN {whole \ ofLast} ELSE {})
        \cup (IF "context" \in habits THEN {whole \cup goods(frame.shown)} ELSE {})
        \cup (IF "repeat" \in habits THEN {whole \cup {[r EXCEPT !.copy = 1] : r \in lastRow}} ELSE {})
        \cup (IF "borrow" \in habits
              THEN {(whole \ lastRow) \cup {[r EXCEPT !.value = "foreign"] : r \in lastRow}} ELSE {})
        \cup (IF "invent" \in habits THEN {whole \cup fragments} ELSE {})

\* _extract_window once a reply parses: a reply with fewer rows than an
\* earlier one is sent back, errors cost a scoped re-request or a full round.
Received(d, win, rows) ==
    LET inGap == win.gap # << >>
        frame == IF inGap THEN win.gap[1] ELSE win.outer
        shrunk == frame.valid /\ Cardinality(rows) < Cardinality(frame.rows)
        kept == [frame EXCEPT !.rows = rows, !.valid = TRUE]
        errors == Errors(d, rows, frame.scope)
    IN  IF inGap
        THEN IF ~shrunk /\ errors = {} THEN GapReturns(d, win, rows)
             ELSE LET now == IF shrunk THEN frame ELSE kept
                  IN  IF frame.round >= MaxRepair THEN GapReturns(d, win, now.rows)
                      ELSE [win EXCEPT !.gap = <<[now EXCEPT !.round = @ + 1]>>, !.step = "ready",
                                       !.slot = "none", !.tries = 0]
        ELSE IF shrunk THEN NextRound(win)
        ELSE IF errors = {} THEN Done([win EXCEPT !.outer = kept])
        ELSE IF GapPages(errors) # {} /\ ~win.filled
        THEN LET pages == GapPages(errors)
             IN  [win EXCEPT !.outer = kept, !.filled = TRUE, !.step = "ready", !.slot = "none",
                    !.tries = 0,
                    !.gap = <<Frame(pages, Around(d, pages) \cap win.outer.shown)>>]
        ELSE NextRound([win EXCEPT !.outer = kept])

\* A reply that is not the schema costs a round and keeps what was read.
Garbled(d, win) ==
    IF win.gap = << >> THEN NextRound(win)
    ELSE IF win.gap[1].round >= MaxRepair THEN GapReturns(d, win, win.gap[1].rows)
    ELSE [win EXCEPT !.gap[1].round = @ + 1, !.step = "ready", !.slot = "none", !.tries = 0]

Reply(d, w) ==
    LET win == window[d][w]
    IN  /\ phase[d] = "reading" /\ win.step = "calling"
        /\ \/ \E rows \in Replies(d, w, IF win.gap = << >> THEN win.outer ELSE win.gap[1]) :
                /\ Steps(d, w, Received(d, win, rows))
                /\ heard' = [heard EXCEPT ![d][w] =
                                IF win.gap = << >> THEN Max({@, Cardinality(rows)}) ELSE @]
           \/ /\ "garbled" \in habits
              /\ Steps(d, w, Garbled(d, win))
              /\ UNCHANGED heard
        /\ UNCHANGED restOfDoc

\* _resolve_packing_columns and the second parse: the roles the model proposes
\* are kept only when the document's own totals then close.
ColumnsAnswered(d) ==
    /\ phase[d] = "columns" /\ window[d][0].step = "calling"
    /\ \E asked \in BOOLEAN : Reads(d, Owned(d, asked))
    /\ UNCHANGED <<document, habits, late, result, layouts>>

\* The question failed (none of the roles) or ran out of budget (the document).
ColumnsLost(d) ==
    /\ phase[d] = "columns" /\ window[d][0].step = "done"
    /\ IF window[d][0].lost
       THEN /\ phase' = [phase EXCEPT ![d] = "over"]
            /\ result' = [result EXCEPT ![d].said = {"PACKING_EXTRACTION_OVER_BUDGET"}]
            /\ UNCHANGED <<window, heard>>
       ELSE Reads(d, {}) /\ UNCHANGED result
    /\ UNCHANGED <<document, habits, late, layouts>>

-----------------------------------------------------------------------------
(* The document's result.                                                  *)

\* _drop_out_of_scope_rows
InScope(win) == {r \in win.outer.rows : r.page \in win.outer.scope}

\* neutralize_invented_fragment_values, ground_row_values (invoices): a value
\* its own line, or its page, does not print is removed and named.
Grounded(d, rows) ==
    LET invented(r) == r.value = "elsewhere" /\ Line(d, r.page, r.line).id > 0
                       /\ ~Line(d, r.page, r.line).goods
        foreign(r) == r.value = "foreign"
    IN  IF document[d].role # "INVOICE" THEN [rows |-> rows, said |-> {}]
        ELSE [rows |-> {IF invented(r) \/ foreign(r) THEN [r EXCEPT !.value = "none"] ELSE r : r \in rows},
              said |-> (IF \E r \in rows : invented(r) THEN {"FRAGMENT_VALUES_UNPRINTED"} ELSE {})
                       \cup (IF \E r \in rows : foreign(r) THEN {"ROW_VALUE_UNPRINTED"} ELSE {})]
Valued(d, rows) == {r \in rows : document[d].role = "INVOICE" => r.value # "none"}

\* reconcile_row_duplicates: more rows than the pages provably print.
Overcounted(d, rows) ==
    LET printed == MapThenSumSet(LAMBDA p : Cardinality(Anchors(d, p)), Pages(d))
    IN  printed > 0 /\ Cardinality(Valued(d, rows)) > printed

\* reconcile_invoice_sum: only a shortfall, only on a table of three rows or
\* more.
Short(d, rows) ==
    /\ document[d].role = "INVOICE" /\ Cardinality(rows) >= 3 /\ document[d].total > 0
    /\ document[d].total - Amounts(d, Valued(d, rows)) > Max({1, document[d].total \div 50})

\* flag_incomplete_pages
EmptyPages(d, rows) == {p \in Pages(d) : PrintsGoods(d, p) /\ \A r \in rows : r.page # p}

\* validate_packing(whole_document): the rows against the printed total.
PackingSumOff(d, rows) ==
    /\ document[d].role = "PACKING_LIST" /\ rows # {} /\ document[d].total > 0
    /\ Off(Amounts(d, rows), document[d].total)

\* _finalize_rows, _flag_partial and the whole-document validation after them.
Judged(d, raw, said, lost) ==
    LET grounded == Grounded(d, raw)
        rows == grounded.rows
        empty == document[d].role \in Chunkable /\ EmptyPages(d, rows) # {}
    IN  [rows |-> rows,
         complete |-> ~empty /\ ~lost,
         said |-> said \cup grounded.said
            \cup (IF document[d].role \in Chunkable /\ Overcounted(d, rows)
                  THEN {"EXTRACTION_OVERCOUNT"} ELSE {})
            \cup (IF Short(d, rows) THEN {"INVOICE_SUM_MISMATCH"} ELSE {})
            \cup (IF empty THEN {"EXTRACTION_INCOMPLETE"} ELSE {})
            \cup (IF lost THEN {"PACKING_EXTRACTION_PARTIAL"} ELSE {})
            \cup (IF PackingSumOff(d, rows) THEN {"PACKING_SUM_MISMATCH"} ELSE {})
            \cup (IF document[d].role \in Chunkable
                  THEN {e.code : e \in Errors(d, rows, Pages(d))} ELSE {})
            \cup (IF late[d] /\ ~lost THEN {"PACKING_EXTRACTION_SLOW"} ELSE {})]

\* The pages whose rows came from the parser, in a document read that way.
ParserPages(d) ==
    IF 0 \notin DOMAIN window[d] THEN {}
    ELSE {p \in Confirmed(d, Remembered(d)) : \A w \in DOMAIN window[d] : p \notin window[d][w].outer.scope}

\* record_layout: only a layout read off the document's own header.
RecordLayout(d, parsed) ==
    layouts \cup (IF HasHeader(d) /\ Cardinality(parsed) >= MinRowsToRecord
                  THEN {document[d].layout} ELSE {})

\* All windows are in: merge, judge, remember the layout.
Finish(d) ==
    LET wins == window[d]
        read == {w \in DOMAIN wins : ~wins[w].lost \/ wins[w].outer.valid}
        parsed == RowsOfPages(d, ParserPages(d), Remembered(d))
        raw == parsed \cup UNION {InScope(wins[w]) : w \in read}
        said == UNION {wins[w].said : w \in DOMAIN wins}
                \cup (IF \E w \in read \ {0} : InScope(wins[w]) # wins[w].outer.rows
                      THEN {"CONTEXT_ROWS_DROPPED"} ELSE {})
                \cup (IF 0 \in DOMAIN wins \/ ~AddsUp(d, FALSE) THEN {"TABLE_PARSER"} ELSE {})
    IN  /\ phase[d] = "reading" /\ \A w \in DOMAIN wins : wins[w].step = "done"
        /\ IF \E w \in DOMAIN wins : wins[w].error
           THEN phase' = [phase EXCEPT ![d] = "failed"] /\ UNCHANGED <<result, layouts>>
           ELSE IF read = {} /\ 0 \notin DOMAIN wins
           THEN /\ phase' = [phase EXCEPT ![d] = "over"]
                /\ result' = [result EXCEPT ![d].said = {"PACKING_EXTRACTION_OVER_BUDGET"}]
                /\ UNCHANGED layouts
           ELSE /\ phase' = [phase EXCEPT ![d] = "done"]
                /\ result' = [result EXCEPT ![d] =
                       Judged(d, raw, said, \E w \in DOMAIN wins : wins[w].lost)]
                /\ layouts' = IF 0 \in DOMAIN wins THEN RecordLayout(d, parsed) ELSE layouts
        /\ UNCHANGED <<document, habits, late, window, heard>>

-----------------------------------------------------------------------------
ExtractionAtRest(documents, behaves) ==
    /\ document = documents /\ habits = behaves
    /\ phase = [d \in Docs |-> IF d \in DOMAIN documents THEN "new" ELSE "none"]
    /\ late = [d \in Docs |-> FALSE]
    /\ window = [d \in Docs |-> << >>] /\ heard = [d \in Docs |-> << >>]
    /\ result = [d \in Docs |-> NoResult] /\ layouts = {}

WindowStep(d, w) ==
    \/ StartWindow(d, w) \/ TakeSlot(d, w) \/ GetPermit(d, w) \/ CallFails(d, w) \/ Wake(d, w)
    \/ Reply(d, w)

DocumentStep(d) == Begin(d) \/ ColumnsAnswered(d) \/ ColumnsLost(d) \/ Finish(d)

ExtractionNext ==
    \E d \in Docs :
        \/ DocumentStep(d) \/ BudgetEnds(d)
        \/ \E w \in DOMAIN window[d] : WindowStep(d, w)

\* What may be printed: any pages, of the two roles that carry a goods table.
PrintedPage ==
    [header : BOOLEAN,
     lines : Seq([goods : BOOLEAN, id : Nat, proves : BOOLEAN, amount : Nat])]
Printable ==
    [role : Chunkable, layout : STRING, total : Nat, mislabelled : BOOLEAN, pages : Seq(PrintedPage)]

ExtractionInit ==
    \E D \in SUBSET Docs, behaves \in SUBSET STRING :
        \E documents \in [D -> Printable] : ExtractionAtRest(documents, behaves)
ExtractionSpec == ExtractionInit /\ [][ExtractionNext]_extractionVars

\* Every worker thread runs, and every call ends: in a reply, an error or its
\* own timeout.  Nothing makes a budget run out.
WindowRuns(d, w) == w \in DOMAIN window[d] /\ WindowStep(d, w)

-----------------------------------------------------------------------------
Ended == {"done", "failed", "over"}

\* The pages print a goods line, and every goods line carries an identity of its
\* own; on a packing list, whose rows are not checked against their lines, no
\* other line shows one.  Where nothing is provably printed, nothing is counted.
Identified(d) ==
    LET goods == UNION {{<<p, i>> : i \in GoodsLines(d, p)} : p \in Pages(d)}
        id(l) == Line(d, l[1], l[2]).id
    IN  /\ goods # {}
        /\ \A k, l \in goods : id(l) > 0 /\ (id(k) = id(l) => k = l)
        /\ Budgeted(d) => \A p \in Pages(d) : \A i \in Lines(d, p) : Line(d, p, i).id > 0 => <<p, i>> \in goods
Informs == {"TABLE_PARSER", "GAP_FILLED", "CONTEXT_ROWS_DROPPED", "PACKING_EXTRACTION_SLOW"}

(* A table whose goods lines print identities, and that is returned without  *)
(* a warning, holds exactly the rows the pages print, each once, and on an   *)
(* invoice none with a value of another page: whatever the replies were,     *)
(* however the windows overlapped, failed or ran out of budget, and whoever  *)
(* read which page (openai_extractor.py: merge, scope filter, honesty        *)
(* passes; validator.py: anchors and empty pages).                           *)
CleanMeansComplete ==
    \A d \in Docs : (phase[d] = "done" /\ Identified(d) /\ result[d].said \subseteq Informs) =>
        LET rows == Valued(d, result[d].rows)
            printed == UNION {{<<p, i, 0>> : i \in GoodsLines(d, p)} : p \in Pages(d)}
        IN  /\ {<<r.page, r.line, r.copy>> : r \in rows} = printed
            /\ Cardinality(rows) = Cardinality(printed)
            /\ document[d].role = "INVOICE" => \A r \in rows : r.value # "foreign"

(* Rows a call was paid for are never given back: a window ends with at      *)
(* least as many rows as its best reply, all of its own pages' rows are in   *)
(* the result, and a document is reported over budget only when no window    *)
(* ever heard anything (openai_extractor.py: the shrink check, the abort     *)
(* that keeps the last valid reply, the merge of the partial windows).       *)
PaidRowsKept ==
    \A d \in Docs : \A w \in DOMAIN window[d] \ {0} :
        /\ phase[d] = "done" =>
             /\ Cardinality(window[d][w].outer.rows) >= heard[d][w]
             /\ \A r \in InScope(window[d][w]) : \E q \in result[d].rows :
                    <<q.page, q.line, q.by, q.copy>> = <<r.page, r.line, r.by, r.copy>>
        /\ phase[d] = "over" => heard[d][w] = 0

(* Every document handed in ends in a result, a failure or an exhausted      *)
(* budget: repair rounds, backoff, the re-request of empty pages and the     *)
(* wait for a permit are all bounded, and no window waits on a slot that     *)
(* nobody will give back.                                                    *)
EveryExtractionEnds == \A d \in Docs : phase[d] = "new" ~> phase[d] \in Ended
=============================================================================
