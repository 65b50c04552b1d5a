-------------------------- MODULE ExtractionProofs --------------------------
(***************************************************************************)
(* Proofs about the reading of goods tables of Extraction, for any          *)
(* documents, any number of permits, rounds and tries, and any replies the  *)
(* model makes: the calls in flight, the rows a reply was paid for, and     *)
(* what a result without a warning says.                                    *)
(***************************************************************************)
EXTENDS Extraction, FiniteSetTheorems, SequenceTheorems, WellFoundedInduction, TLAPS

-----------------------------------------------------------------------------
(* What a row transcribes: a line of a page; one that prints no goods only  *)
(* as a fragment whose value stands elsewhere.                              *)
Row(d) ==
    {r \in [page : Pages(d), line : Nat, value : {"printed", "elsewhere", "foreign"},
            by : -1..(Len(document[d].pages) + 1), copy : {0, 1}] :
        r.line \in Lines(d, r.page) /\ (Line(d, r.page, r.line).goods \/ r.value = "elsewhere")}

(* A repeated row repeats one that is there.                                *)
Paired(rows) ==
    \A r \in rows : r.copy = 0 \/ \E q \in rows : <<q.page, q.line, q.copy>> = <<r.page, r.line, 0>>

Frames(d) ==
    [scope : SUBSET Pages(d), shown : SUBSET Pages(d), round : Nat, rows : SUBSET Row(d),
     valid : BOOLEAN]
FrameOK(d, f) == f \in Frames(d) /\ Paired(f.rows) /\ (~f.valid => f.rows = {})

WindowRemarks == {"FIELD_REVIEW_REQUIRED", "GAP_FILLED"}
Windows(d) ==
    [step : {"waiting", "ready", "queued", "calling", "backoff", "done"},
     slot : {"none", "reserved", "shared"}, tries : Nat, outer : Frames(d), gap : Seq(Frames(d)),
     filled : BOOLEAN, said : SUBSET WindowRemarks, lost : BOOLEAN, error : BOOLEAN]

(* A window: its frames are sound, a re-request is made only of rows that   *)
(* were read, and only a call holds a slot.                                 *)
WindowOK(d, win) ==
    /\ win \in Windows(d)
    /\ FrameOK(d, win.outer)
    /\ win.gap # << >> => win.outer.valid /\ FrameOK(d, win.gap[1])
    /\ win.slot # "none" => win.step = "calling"

(* What a window holds is at least its best reply.                          *)
Holds(win, best) ==
    /\ best \in Nat /\ best <= Cardinality(win.outer.rows)
    /\ ~win.outer.valid => best = 0

(* A document and its windows: they exist once it is being read, and stand   *)
(* still once it ended.                                                     *)
DocumentOK(d) ==
    /\ d \in DOMAIN document <=> phase[d] # "none"
    /\ DOMAIN heard[d] = DOMAIN window[d]
    /\ phase[d] \in {"none", "new"} => DOMAIN window[d] = {}
    /\ phase[d] = "columns" => DOMAIN window[d] = {0}
    /\ phase[d] \in {"done", "over"} => \A w \in DOMAIN window[d] : window[d][w].step = "done"
    /\ \A w \in DOMAIN window[d] :
           /\ w \in 0..(Len(document[d].pages) + 1)
           /\ WindowOK(d, window[d][w])
           /\ Holds(window[d][w], heard[d][w])

TypeOK ==
    /\ \E D \in SUBSET Docs : document \in [D -> Printable]
    /\ phase \in [Docs -> {"none", "new", "columns", "reading", "done", "failed", "over"}]
    /\ late \in [Docs -> BOOLEAN]
    /\ DOMAIN window = Docs /\ DOMAIN heard = Docs
    /\ DOMAIN result = Docs
    /\ \A d \in Docs : DocumentOK(d)

(* The two gates.                                                           *)
CallsBounded ==
    /\ IsFiniteSet(Holders("shared")) /\ Cardinality(Holders("shared")) <= Concurrency
    /\ \A h, k \in Holders("reserved") : h = k

-----------------------------------------------------------------------------
(***************************************************************************)
(* Documents and rows                                                       *)
(***************************************************************************)
\* The pages of a document and their lines.
LEMMA PageFacts ==
    ASSUME NEW d, document[d] \in Printable
    PROVE  /\ document[d].pages \in Seq(PrintedPage)
           /\ document[d].role \in Chunkable
           /\ Len(document[d].pages) \in Nat
           /\ Pages(d) = 1..Len(document[d].pages)
           /\ \A p \in Pages(d) :
                /\ Lines(d, p) = 1..Len(document[d].pages[p].lines)
                /\ Len(document[d].pages[p].lines) \in Nat
                /\ \A i \in Lines(d, p) :
                     /\ Line(d, p, i).goods \in BOOLEAN
                     /\ Line(d, p, i).id \in Nat
<1>1. document[d].pages \in Seq(PrintedPage) /\ document[d].role \in Chunkable
  BY DEF Printable
<1>2. Len(document[d].pages) \in Nat /\ Pages(d) = 1..Len(document[d].pages)
  BY <1>1 DEF Pages
<1>3. ASSUME NEW p \in Pages(d)
      PROVE  /\ Lines(d, p) = 1..Len(document[d].pages[p].lines)
             /\ Len(document[d].pages[p].lines) \in Nat
             /\ \A i \in Lines(d, p) :
                  /\ Line(d, p, i).goods \in BOOLEAN
                  /\ Line(d, p, i).id \in Nat
  <2>1. document[d].pages[p] \in PrintedPage
    BY <1>1, <1>2, <1>3
  <2>2. document[d].pages[p].lines \in
          Seq([goods : BOOLEAN, id : Nat, proves : BOOLEAN, amount : Nat])
    BY <2>1 DEF PrintedPage
  <2> DEFINE text == document[d].pages[p].lines
  <2>3. Lines(d, p) = 1..Len(text) /\ Len(text) \in Nat
    BY <2>2 DEF Lines
  <2>4. \A i \in 1..Len(text) :
            text[i] \in [goods : BOOLEAN, id : Nat, proves : BOOLEAN, amount : Nat]
    BY <2>2, ElementOfSeq
  <2>5. \A i : Line(d, p, i) = text[i]
    BY DEF Line
  <2> HIDE DEF text
  <2>6. \A i \in Lines(d, p) : Line(d, p, i).goods \in BOOLEAN /\ Line(d, p, i).id \in Nat
    BY <2>3, <2>4, <2>5
  <2> QED BY <2>3, <2>6 DEF text
<1> QED BY <1>1, <1>2, <1>3

\* A document has finitely many rows to transcribe: a row is a page, a line, a
\* value, a reader and a copy.
LEMMA RowsAreFinite ==
    ASSUME NEW d, document[d] \in Printable
    PROVE  IsFiniteSet(Row(d))
<1> DEFINE P == Pages(d)
           page == [p \in P |-> {p} \X Lines(d, p)]
           L == UNION {page[p] : p \in P}
           V == {"printed", "elsewhere", "foreign"}
           B == -1..(Len(document[d].pages) + 1)
           C == {0, 1}
           T == ((L \X V) \X B) \X C
           F == [t \in T |-> [page |-> t[1][1][1][1], line |-> t[1][1][1][2], value |-> t[1][1][2],
                              by |-> t[1][2], copy |-> t[2]]]
<1>1. IsFiniteSet(P) /\ IsFiniteSet(B)
  BY PageFacts, FS_Interval
<1>2. IsFiniteSet(V) /\ IsFiniteSet(C)
  <2>1. IsFiniteSet({"printed"} \cup {"elsewhere"})
    BY FS_Singleton, FS_Union
  <2>2. IsFiniteSet(({"printed"} \cup {"elsewhere"}) \cup {"foreign"})
    BY <2>1, FS_Singleton, FS_Union
  <2>3. IsFiniteSet({0} \cup {1})
    BY FS_Singleton, FS_Union
  <2>4. V = ({"printed"} \cup {"elsewhere"}) \cup {"foreign"} /\ C = {0} \cup {1}
    OBVIOUS
  <2> QED BY <2>2, <2>3, <2>4
<1>3. \A p \in P : IsFiniteSet(page[p])
  <2> SUFFICES ASSUME NEW p \in P PROVE IsFiniteSet(page[p])
    OBVIOUS
  <2>1. Lines(d, p) = 1..Len(document[d].pages[p].lines) /\ Len(document[d].pages[p].lines) \in Int
    BY PageFacts
  <2>2. IsFiniteSet(Lines(d, p))
    <3> DEFINE n == Len(document[d].pages[p].lines)
    <3> HIDE DEF n
    <3>1. IsFiniteSet(1..n)
      BY <2>1, FS_Interval DEF n
    <3> QED BY <2>1, <3>1 DEF n
  <2>3. IsFiniteSet({p})
    BY FS_Singleton
  <2> QED BY <2>2, <2>3, FS_Product
<1>4. IsFiniteSet({page[p] : p \in P})
  <2>1. page \in Surjection(P, {page[p] : p \in P})
    BY DEF Surjection
  <2> QED BY <1>1, <2>1, FS_Surjection
<1>5. IsFiniteSet(L)
  BY <1>3, <1>4, FS_UNION
<1> HIDE DEF page
<1>6. IsFiniteSet(T)
  <2>1. IsFiniteSet(L \X V)
    BY <1>2, <1>5, FS_Product
  <2>2. IsFiniteSet((L \X V) \X B)
    BY <1>1, <2>1, FS_Product
  <2> QED BY <1>2, <2>2, FS_Product
<1>7. IsFiniteSet({F[t] : t \in T})
  <2>1. F \in Surjection(T, {F[t] : t \in T})
    BY DEF Surjection
  <2> QED BY <1>6, <2>1, FS_Surjection
<1>8. Row(d) \subseteq {F[t] : t \in T}
  <2> SUFFICES ASSUME NEW r \in Row(d) PROVE r \in {F[t] : t \in T}
    OBVIOUS
  <2> DEFINE t == <<<<<<<<r.page, r.line>>, r.value>>, r.by>>, r.copy>>
  <2>1. /\ r \in [page : P, line : Nat, value : V, by : B, copy : C]
        /\ r.line \in Lines(d, r.page)
    BY DEF Row
  <2>2. <<r.page, r.line>> \in L
    BY <2>1 DEF page
  <2>3. t \in T
    BY <2>1, <2>2
  <2>4. F[t] = [page |-> r.page, line |-> r.line, value |-> r.value, by |-> r.by, copy |-> r.copy]
    BY <2>3
  <2>5. F[t] = r
    BY <2>1, <2>4
  <2> QED BY <2>3, <2>5
<1> QED BY <1>7, <1>8, FS_Subset

\* Any set of rows has a size.
LEMMA RowSetFacts ==
    ASSUME NEW d, document[d] \in Printable, NEW rows \in SUBSET Row(d)
    PROVE  IsFiniteSet(rows) /\ Cardinality(rows) \in Nat
<1>1. IsFiniteSet(rows)
  BY RowsAreFinite, FS_Subset
<1> QED BY <1>1, FS_CardinalityType

-----------------------------------------------------------------------------
(***************************************************************************)
(* What a window holds after one call.                                      *)
(***************************************************************************)
(* The new window reads the same pages, and holds no fewer rows.            *)
Grows(win, new) ==
    /\ new.outer.scope = win.outer.scope
    /\ Cardinality(win.outer.rows) <= Cardinality(new.outer.rows)
    /\ win.outer.valid => new.outer.valid

\* The fields of a window.
LEMMA WindowFacts ==
    ASSUME NEW d, NEW win, WindowOK(d, win)
    PROVE  /\ win \in Windows(d) /\ win.outer \in Frames(d)
           /\ win.outer.rows \in SUBSET Row(d) /\ win.outer.scope \in SUBSET Pages(d)
           /\ win.outer.shown \in SUBSET Pages(d) /\ win.outer.round \in Nat
           /\ win.outer.valid \in BOOLEAN
           /\ Paired(win.outer.rows) /\ (~win.outer.valid => win.outer.rows = {})
           /\ win.gap # << >> => /\ FrameOK(d, win.gap[1]) /\ win.gap[1].scope \in SUBSET Pages(d)
                                 /\ win.gap[1].rows \in SUBSET Row(d)
                                 /\ Paired(win.gap[1].rows) /\ win.outer.valid
BY DEF WindowOK, Windows, FrameOK, Frames

\* A window ends.
LEMMA DoneKeeps ==
    ASSUME NEW d, NEW win, WindowOK(d, win)
    PROVE  WindowOK(d, Done(win)) /\ Done(win).outer = win.outer /\ Done(win).slot = "none"
<1>1. win \in Windows(d) /\ FrameOK(d, win.outer)
  BY DEF WindowOK
<1> DEFINE none == << >>
           new == [win EXCEPT !.step = "done", !.slot = "none", !.gap = none]
<1>2. none \in Seq(Frames(d)) /\ Done(win) = new
  BY DEF Done
<1> HIDE DEF none
<1>3. /\ new.gap = none /\ new.slot = "none" /\ new.outer = win.outer /\ new \in Windows(d)
  BY <1>1, <1>2 DEF Windows
<1> QED BY <1>1, <1>2, <1>3 DEF WindowOK, none

\* A window is told something: only its remarks change.
LEMMA SaidKeeps ==
    ASSUME NEW d, NEW win, WindowOK(d, win), NEW text \in SUBSET WindowRemarks
    PROVE  /\ WindowOK(d, [win EXCEPT !.said = @ \cup text])
           /\ [win EXCEPT !.said = @ \cup text].outer = win.outer
<1> DEFINE new == [win EXCEPT !.said = @ \cup text]
<1>1. win \in Windows(d)
  BY DEF WindowOK
<1>2. /\ new \in Windows(d) /\ new.outer = win.outer /\ new.gap = win.gap
      /\ new.slot = win.slot /\ new.step = win.step
  BY <1>1 DEF Windows
<1> QED BY <1>2 DEF WindowOK

\* A window goes on with another frame.
LEMMA OuterKeeps ==
    ASSUME NEW d, NEW win, WindowOK(d, win), NEW f, FrameOK(d, f), win.outer.valid => f.valid
    PROVE  /\ WindowOK(d, [win EXCEPT !.outer = f])
           /\ [win EXCEPT !.outer = f].outer = f
           /\ [win EXCEPT !.outer = f].gap = win.gap
           /\ [win EXCEPT !.outer = f].slot = win.slot
<1> DEFINE new == [win EXCEPT !.outer = f]
<1>1. win \in Windows(d) /\ f \in Frames(d)
  BY DEF WindowOK, FrameOK
<1>2. /\ new \in Windows(d) /\ new.outer = f /\ new.gap = win.gap
      /\ new.slot = win.slot /\ new.step = win.step
  BY <1>1 DEF Windows
<1> QED BY <1>2 DEF WindowOK

\* A window asks again, in the same frames or a re-request.
Asks(win, g) == [win EXCEPT !.step = "ready", !.slot = "none", !.tries = 0, !.gap = g]

LEMMA AgainKeeps ==
    ASSUME NEW d, NEW win, WindowOK(d, win), NEW g,
           g = << >> \/ (win.outer.valid /\ \E f : FrameOK(d, f) /\ g = <<f>>)
    PROVE  /\ WindowOK(d, Asks(win, g)) /\ Asks(win, g).outer = win.outer
           /\ Asks(win, g).slot = "none"
<1> DEFINE new == Asks(win, g)
<1>1. win \in Windows(d) /\ FrameOK(d, win.outer)
  BY DEF WindowOK
<1>2. g \in Seq(Frames(d)) /\ (g # << >> => win.outer.valid /\ FrameOK(d, g[1]))
  <2>1. CASE g = << >>
    BY <2>1
  <2>2. ASSUME win.outer.valid, NEW f, FrameOK(d, f), g = <<f>>
        PROVE  g \in Seq(Frames(d)) /\ (g # << >> => win.outer.valid /\ FrameOK(d, g[1]))
    BY <2>2 DEF FrameOK
  <2> QED BY <2>1, <2>2
<1>3. /\ new \in Windows(d) /\ new.outer = win.outer /\ new.gap = g /\ new.slot = "none"
  BY <1>1, <1>2 DEF Windows, Asks
<1>4. WindowOK(d, new) /\ new.outer = win.outer /\ new.slot = "none"
  BY <1>1, <1>2, <1>3 DEF WindowOK
<1> QED BY <1>4

\* Another round of repair.
LEMMA NextRoundKeeps ==
    ASSUME NEW d, NEW win, WindowOK(d, win)
    PROVE  /\ WindowOK(d, NextRound(win))
           /\ NextRound(win).outer.rows = win.outer.rows
           /\ NextRound(win).outer.scope = win.outer.scope
           /\ NextRound(win).outer.valid = win.outer.valid
           /\ NextRound(win).slot = "none"
<1>1. CASE win.outer.round >= MaxRepair
  <2> DEFINE told == [win EXCEPT !.said = @ \cup {"FIELD_REVIEW_REQUIRED"}]
  <2>1. WindowOK(d, told) /\ told.outer = win.outer
    <3> DEFINE text == {"FIELD_REVIEW_REQUIRED"}
    <3>1. text \in SUBSET WindowRemarks
      BY DEF WindowRemarks
    <3> HIDE DEF text
    <3>2. WindowOK(d, [win EXCEPT !.said = @ \cup text])
          /\ [win EXCEPT !.said = @ \cup text].outer = win.outer
      BY <3>1, SaidKeeps
    <3> QED BY <3>2 DEF text
  <2>2. NextRound(win) = Done(told)
    BY <1>1 DEF NextRound
  <2> HIDE DEF told
  <2> QED BY <2>1, <2>2, DoneKeeps
<1>2. CASE ~(win.outer.round >= MaxRepair)
  <2> DEFINE f == [win.outer EXCEPT !.round = @ + 1]
             next == [win EXCEPT !.outer = f]
             new == [next EXCEPT !.step = "ready", !.slot = "none", !.tries = 0, !.gap = << >>]
  <2>1. win \in Windows(d) /\ win.outer \in Frames(d) /\ FrameOK(d, win.outer)
    BY DEF WindowOK, FrameOK
  <2>2. /\ f \in Frames(d) /\ f.rows = win.outer.rows /\ f.scope = win.outer.scope
        /\ f.valid = win.outer.valid
    BY <2>1 DEF Frames
  <2>3. FrameOK(d, f)
    BY <2>1, <2>2 DEF FrameOK
  <2>4. NextRound(win) = new
    BY <1>2, <2>1 DEF NextRound, Windows
  <2> HIDE DEF f
  <2>5. WindowOK(d, next) /\ next.outer = f
    BY <2>2, <2>3, OuterKeeps
  <2> HIDE DEF next
  <2>6. WindowOK(d, new) /\ new.outer = f /\ new.slot = "none"
    <3> DEFINE none == << >>
    <3>1. new = Asks(next, none) /\ none = << >>
      BY DEF Asks
    <3> HIDE DEF new, none
    <3> QED BY <2>5, <3>1, AgainKeeps
  <2> QED BY <2>2, <2>4, <2>6
<1> QED BY <1>1, <1>2

\* A re-request hands over its rows: the window holds what it held and more.
LEMMA GapReturnsKeeps ==
    ASSUME NEW d, document[d] \in Printable, NEW win, WindowOK(d, win), win.gap # << >>,
           NEW rows \in SUBSET Row(d), Paired(rows)
    PROVE  /\ WindowOK(d, GapReturns(d, win, rows)) /\ Grows(win, GapReturns(d, win, rows))
           /\ GapReturns(d, win, rows).slot = "none"
<1> DEFINE kept == {r \in rows : r.page \in win.gap[1].scope}
           merged == win.outer.rows \cup kept
           f == [win.outer EXCEPT !.rows = merged]
           next == [win EXCEPT !.outer = f]
           told == [next EXCEPT !.said = @ \cup {"GAP_FILLED"}]
<1>1. /\ win \in Windows(d) /\ win.outer \in Frames(d) /\ win.outer.valid
      /\ win.outer.rows \in SUBSET Row(d) /\ Paired(win.outer.rows)
  BY WindowFacts
<1>2. merged \in SUBSET Row(d) /\ win.outer.rows \subseteq merged
  BY <1>1
<1>3. Paired(merged)
  <2>1. Paired(kept)
    BY DEF Paired
  <2> HIDE DEF kept
  <2> QED BY <1>1, <2>1 DEF Paired
<1>4. Cardinality(win.outer.rows) <= Cardinality(merged)
  <2>1. IsFiniteSet(merged)
    BY <1>2, RowSetFacts
  <2> QED BY <1>2, <2>1, FS_Subset
<1>5. \/ GapReturns(d, win, rows) = NextRound(win)
      \/ GapReturns(d, win, rows) = Done(told)
      \/ GapReturns(d, win, rows) = NextRound(next)
  <2>1. told = [win EXCEPT !.outer.rows = merged, !.said = @ \cup {"GAP_FILLED"}]
    BY <1>1 DEF Windows
  <2> QED BY <2>1 DEF GapReturns
<1> HIDE DEF kept, merged
<1>6. /\ f \in Frames(d) /\ f.rows = merged /\ f.scope = win.outer.scope /\ f.valid
  BY <1>1, <1>2 DEF Frames
<1>7. FrameOK(d, f)
  BY <1>3, <1>6 DEF FrameOK
<1> HIDE DEF f
<1>8. WindowOK(d, next) /\ next.outer = f
  BY <1>6, <1>7, OuterKeeps
<1> HIDE DEF next
<1>9. WindowOK(d, told) /\ told.outer = f
  <2> DEFINE text == {"GAP_FILLED"}
  <2>1. text \in SUBSET WindowRemarks
    BY DEF WindowRemarks
  <2> HIDE DEF text
  <2>2. WindowOK(d, [next EXCEPT !.said = @ \cup text])
        /\ [next EXCEPT !.said = @ \cup text].outer = next.outer
    BY <1>8, <2>1, SaidKeeps
  <2> QED BY <1>8, <2>2 DEF text
<1> HIDE DEF told
<1>10. WindowOK(d, NextRound(win)) /\ Grows(win, NextRound(win)) /\ NextRound(win).slot = "none"
  <2>1. Cardinality(win.outer.rows) <= Cardinality(win.outer.rows)
    BY <1>1, RowSetFacts
  <2> QED BY <2>1, NextRoundKeeps DEF Grows
<1>11. WindowOK(d, Done(told)) /\ Grows(win, Done(told)) /\ Done(told).slot = "none"
  BY <1>4, <1>6, <1>9, DoneKeeps DEF Grows
<1>12. WindowOK(d, NextRound(next)) /\ Grows(win, NextRound(next)) /\ NextRound(next).slot = "none"
  BY <1>4, <1>6, <1>8, NextRoundKeeps DEF Grows
<1> QED BY <1>5, <1>10, <1>11, <1>12

\* A step that keeps a window's rows grows it.
LEMMA SameRowsGrow ==
    ASSUME NEW d, document[d] \in Printable, NEW win, WindowOK(d, win), NEW new,
           new.outer.rows = win.outer.rows, new.outer.scope = win.outer.scope,
           new.outer.valid = win.outer.valid
    PROVE  Grows(win, new)
<1>1. Cardinality(win.outer.rows) \in Nat
  BY WindowFacts, RowSetFacts
<1> QED BY <1>1 DEF Grows

\* The budget ends a window without taking its rows.
LEMMA AbortedKeeps ==
    ASSUME NEW d, document[d] \in Printable, NEW win, WindowOK(d, win)
    PROVE  WindowOK(d, Aborted(d, win)) /\ Grows(win, Aborted(d, win)) /\ Aborted(d, win).slot = "none"
<1>1. CASE win.gap # << >> /\ win.gap[1].valid
  <2>1. Aborted(d, win) = GapReturns(d, win, win.gap[1].rows)
    BY <1>1 DEF Aborted
  <2>2. win.gap[1].rows \in SUBSET Row(d) /\ Paired(win.gap[1].rows)
    BY <1>1, WindowFacts
  <2> QED BY <1>1, <2>1, <2>2, GapReturnsKeeps
<1>2. CASE ~(win.gap # << >> /\ win.gap[1].valid)
  <2> DEFINE next == [win EXCEPT !.lost = TRUE]
  <2>1. Aborted(d, win) = Done(next)
    BY <1>2 DEF Aborted
  <2>2. /\ next \in Windows(d) /\ next.outer = win.outer /\ next.gap = win.gap
        /\ next.slot = win.slot /\ next.step = win.step
    <3>1. win \in Windows(d)
      BY WindowFacts
    <3> QED BY <3>1 DEF Windows
  <2> HIDE DEF next
  <2>3. WindowOK(d, next)
    BY <2>2 DEF WindowOK
  <2>4. WindowOK(d, Done(next)) /\ Done(next).outer = win.outer /\ Done(next).slot = "none"
    BY <2>2, <2>3, DoneKeeps
  <2> QED BY <2>1, <2>4, SameRowsGrow
<1> QED BY <1>1, <1>2

\* A call that fails for good ends the window, or only its re-request.
LEMMA BrokenKeeps ==
    ASSUME NEW d, document[d] \in Printable, NEW win, WindowOK(d, win)
    PROVE  WindowOK(d, Broken(win)) /\ Grows(win, Broken(win)) /\ Broken(win).slot = "none"
<1>1. CASE win.gap # << >>
  BY <1>1, NextRoundKeeps, SameRowsGrow DEF Broken
<1>2. CASE win.gap = << >>
  <2> DEFINE next == [win EXCEPT !.error = TRUE]
  <2>1. Broken(win) = Done(next)
    BY <1>2 DEF Broken
  <2>2. /\ next \in Windows(d) /\ next.outer = win.outer /\ next.gap = win.gap
        /\ next.slot = win.slot /\ next.step = win.step
    <3>1. win \in Windows(d)
      BY WindowFacts
    <3> QED BY <3>1 DEF Windows
  <2> HIDE DEF next
  <2>3. WindowOK(d, next)
    BY <2>2 DEF WindowOK
  <2>4. WindowOK(d, Done(next)) /\ Done(next).outer = win.outer /\ Done(next).slot = "none"
    BY <2>2, <2>3, DoneKeeps
  <2> QED BY <2>1, <2>4, SameRowsGrow
<1> QED BY <1>1, <1>2

\* A reply that is not the schema costs a round and keeps what was read.
LEMMA GarbledKeeps ==
    ASSUME NEW d, document[d] \in Printable, NEW win, WindowOK(d, win)
    PROVE  WindowOK(d, Garbled(d, win)) /\ Grows(win, Garbled(d, win)) /\ Garbled(d, win).slot = "none"
<1>1. CASE win.gap = << >>
  BY <1>1, NextRoundKeeps, SameRowsGrow DEF Garbled
<1>2. CASE win.gap # << >> /\ win.gap[1].round >= MaxRepair
  <2>1. Garbled(d, win) = GapReturns(d, win, win.gap[1].rows)
    BY <1>2 DEF Garbled
  <2>2. win.gap[1].rows \in SUBSET Row(d) /\ Paired(win.gap[1].rows)
    BY <1>2, WindowFacts
  <2> QED BY <1>2, <2>1, <2>2, GapReturnsKeeps
<1>3. CASE win.gap # << >> /\ ~(win.gap[1].round >= MaxRepair)
  <2> DEFINE g == [win.gap EXCEPT ![1].round = @ + 1]
             new == [win EXCEPT !.gap = g, !.step = "ready", !.slot = "none", !.tries = 0]
  <2>1. Garbled(d, win) = new
    BY <1>3 DEF Garbled
  <2>2. /\ win \in Windows(d) /\ win.gap \in Seq(Frames(d)) /\ 1 \in DOMAIN win.gap
        /\ FrameOK(d, win.gap[1]) /\ win.gap[1] \in Frames(d) /\ win.outer.valid
    <3>1. win \in Windows(d) /\ win.gap \in Seq(Frames(d))
      BY WindowFacts DEF Windows
    <3>2. 1 \in DOMAIN win.gap
      BY <1>3, <3>1
    <3> QED BY <1>3, <3>1, <3>2, WindowFacts DEF FrameOK
  <2>3. /\ g[1] = [win.gap[1] EXCEPT !.round = @ + 1]
        /\ g = [win.gap EXCEPT ![1] = [win.gap[1] EXCEPT !.round = @ + 1]]
    BY <2>2
  <2>4. g[1] \in Frames(d) /\ g[1].rows = win.gap[1].rows /\ g[1].valid = win.gap[1].valid
    BY <2>2, <2>3 DEF Frames
  <2>5. g \in Seq(Frames(d)) /\ FrameOK(d, g[1])
    <3>1. g \in Seq(Frames(d))
      BY <2>2, <2>3, <2>4, ExceptSeq
    <3> QED BY <2>2, <2>4, <3>1 DEF FrameOK
  <2> HIDE DEF g
  <2>6. /\ new \in Windows(d) /\ new.outer = win.outer /\ new.gap = g /\ new.slot = "none"
    BY <2>2, <2>5 DEF Windows
  <2>7. WindowOK(d, new)
    BY <2>2, <2>5, <2>6, WindowFacts DEF WindowOK
  <2>8. Grows(win, new)
    BY <2>6, SameRowsGrow
  <2> QED BY <2>1, <2>6, <2>7, <2>8
<1> QED BY <1>1, <1>2, <1>3

-----------------------------------------------------------------------------
(***************************************************************************)
(* Replies                                                                  *)
(***************************************************************************)
\* Whatever the model sends back transcribes lines of the document's pages, and
\* what it repeats is there.
LEMMA RepliesAreRows ==
    ASSUME NEW d, document[d] \in Printable, NEW w \in 0..(Len(document[d].pages) + 1),
           NEW frame, frame.scope \in SUBSET Pages(d), frame.shown \in SUBSET Pages(d),
           NEW rows \in Replies(d, w, frame)
    PROVE  rows \in SUBSET Row(d) /\ Paired(rows)
<1> DEFINE row(p, i, value, copy) ==
               [page |-> p, line |-> i, value |-> value, by |-> w, copy |-> copy]
           goods(pages) == UNION {{row(p, i, "printed", 0) : i \in GoodsLines(d, p)} : p \in pages}
           whole == goods(frame.scope)
           showing == {p \in frame.scope : PrintsGoods(d, p)}
           ofLast == {r \in whole : showing # {} /\ r.page = Max(showing)}
           lastRow == {r \in ofLast : \A q \in ofLast : q.line <= r.line}
           fragments == UNION {{row(p, i, "elsewhere", 0) :
                              i \in {j \in Lines(d, p) : ~Line(d, p, j).goods}} : p \in frame.scope}
           ByW == {r \in Row(d) : r.copy = 0}
<1>1. ASSUME NEW pages \in SUBSET Pages(d)
      PROVE  goods(pages) \subseteq ByW /\ \A r \in goods(pages) : r.value = "printed"
                                        /\ Line(d, r.page, r.line).goods
  <2> SUFFICES ASSUME NEW r \in goods(pages)
               PROVE  r \in ByW /\ r.value = "printed" /\ Line(d, r.page, r.line).goods
    OBVIOUS
  <2>0. PICK p \in pages : \E i \in GoodsLines(d, p) : r = row(p, i, "printed", 0)
    OBVIOUS
  <2>1. PICK i \in GoodsLines(d, p) : r = row(p, i, "printed", 0)
    BY <2>0
  <2>2. p \in Pages(d) /\ i \in Lines(d, p) /\ Line(d, p, i).goods /\ i \in Nat
    BY <2>1, PageFacts DEF GoodsLines
  <2>3. /\ r \in [page : Pages(d), line : Nat, value : {"printed", "elsewhere", "foreign"},
                  by : -1..(Len(document[d].pages) + 1), copy : {0, 1}]
        /\ r.page = p /\ r.line = i /\ r.copy = 0 /\ r.value = "printed"
    BY <2>1, <2>2, PageFacts
  <2> QED BY <2>2, <2>3 DEF Row
<1>2. fragments \subseteq ByW
  <2> SUFFICES ASSUME NEW r \in fragments PROVE r \in ByW
    OBVIOUS
  <2>0. PICK p \in frame.scope : \E i \in Lines(d, p) : r = row(p, i, "elsewhere", 0)
    OBVIOUS
  <2>1. PICK i \in Lines(d, p) : r = row(p, i, "elsewhere", 0)
    BY <2>0
  <2>2. p \in Pages(d) /\ i \in Nat
    BY <2>1, PageFacts
  <2>3. /\ r \in [page : Pages(d), line : Nat, value : {"printed", "elsewhere", "foreign"},
                  by : -1..(Len(document[d].pages) + 1), copy : {0, 1}]
        /\ r.page = p /\ r.line = i /\ r.copy = 0 /\ r.value = "elsewhere"
    BY <2>1, <2>2, PageFacts
  <2> QED BY <2>1, <2>3 DEF Row
<1>3. whole \subseteq ByW /\ lastRow \subseteq whole /\ ofLast \subseteq whole
      /\ \A r \in whole : r.value = "printed" /\ Line(d, r.page, r.line).goods
  BY <1>1
<1>4. \/ rows \subseteq whole
      \/ rows = whole \cup goods(frame.shown)
      \/ rows = whole \cup {[r EXCEPT !.copy = 1] : r \in lastRow}
      \/ rows = (whole \ lastRow) \cup {[r EXCEPT !.value = "foreign"] : r \in lastRow}
      \/ rows = whole \cup fragments
  <2> HIDE DEF goods, whole, showing, ofLast, lastRow, fragments
  <2>1. \/ rows \in {whole} \/ rows \in {whole \ lastRow} \/ rows \in {whole \ ofLast}
        \/ rows \in {whole \cup goods(frame.shown)}
        \/ rows \in {whole \cup {[r EXCEPT !.copy = 1] : r \in lastRow}}
        \/ rows \in {(whole \ lastRow) \cup {[r EXCEPT !.value = "foreign"] : r \in lastRow}}
        \/ rows \in {whole \cup fragments}
    BY DEF Replies, whole, goods, showing, ofLast, lastRow, fragments
  <2> QED BY <2>1
<1>5. goods(frame.shown) \subseteq ByW
  BY <1>1
<1>6. ASSUME NEW s \in SUBSET ByW PROVE s \in SUBSET Row(d) /\ Paired(s)
  BY DEF Paired
<1> HIDE DEF goods, whole, showing, ofLast, lastRow, fragments
<1>7. {[r EXCEPT !.value = "foreign"] : r \in lastRow} \subseteq ByW
  <2> SUFFICES ASSUME NEW r \in lastRow PROVE [r EXCEPT !.value = "foreign"] \in ByW
    OBVIOUS
  <2>1. r \in Row(d) /\ r.copy = 0 /\ Line(d, r.page, r.line).goods
    BY <1>3
  <2> QED BY <2>1 DEF Row
<1>8. ASSUME rows = whole \cup {[r EXCEPT !.copy = 1] : r \in lastRow}
      PROVE  rows \in SUBSET Row(d) /\ Paired(rows)
  <2> DEFINE again(r) == [r EXCEPT !.copy = 1]
  <2>1. \A r \in lastRow : /\ again(r) \in Row(d) /\ r \in whole /\ r.copy = 0
                           /\ again(r).page = r.page /\ again(r).line = r.line
    <3> SUFFICES ASSUME NEW r \in lastRow
                 PROVE  /\ again(r) \in Row(d) /\ r \in whole /\ r.copy = 0
                        /\ again(r).page = r.page /\ again(r).line = r.line
      OBVIOUS
    <3>1. r \in Row(d) /\ r.copy = 0 /\ r \in whole
      BY <1>3
    <3> QED BY <3>1 DEF Row
  <2>2. rows = whole \cup {again(r) : r \in lastRow}
    BY <1>8
  <2> HIDE DEF again
  <2>3. rows \in SUBSET Row(d)
    BY <1>3, <2>1, <2>2
  <2>4. Paired(rows)
    BY <1>3, <2>1, <2>2 DEF Paired
  <2> QED BY <2>3, <2>4
<1>9. CASE rows \subseteq whole
  <2>1. rows \in SUBSET ByW
    BY <1>3, <1>9
  <2> QED BY <1>6, <2>1
<1>10. CASE rows = whole \cup goods(frame.shown)
  <2>1. rows \in SUBSET ByW
    BY <1>3, <1>5, <1>10
  <2> QED BY <1>6, <2>1
<1>11. CASE rows = (whole \ lastRow) \cup {[r EXCEPT !.value = "foreign"] : r \in lastRow}
  <2>1. rows \in SUBSET ByW
    BY <1>3, <1>7, <1>11
  <2> QED BY <1>6, <2>1
<1>12. CASE rows = whole \cup fragments
  <2>1. rows \in SUBSET ByW
    BY <1>2, <1>3, <1>12
  <2> QED BY <1>6, <2>1
<1> QED BY <1>4, <1>8, <1>9, <1>10, <1>11, <1>12

\* A re-request asks for pages of its window.
LEMMA GapPagesInScope ==
    ASSUME NEW d, NEW rows, NEW scope
    PROVE  GapPages(Errors(d, rows, scope)) \subseteq scope
<1>1. \A e \in Errors(d, rows, scope) : e.page \in scope
  BY DEF Errors
<1> HIDE DEF Errors
<1> QED BY <1>1 DEF GapPages

\* A reply: a window keeps the larger of what it held and what it received.
LEMMA ReceivedKeeps ==
    ASSUME NEW d, document[d] \in Printable, NEW win, WindowOK(d, win),
           NEW rows \in SUBSET Row(d), Paired(rows)
    PROVE  LET new == Received(d, win, rows)
           IN  /\ WindowOK(d, new) /\ new.slot = "none"
               /\ Grows(win, new)
               /\ win.gap = << >> =>
                     new.outer.valid /\ Cardinality(rows) <= Cardinality(new.outer.rows)
<1> DEFINE frame == IF win.gap # << >> THEN win.gap[1] ELSE win.outer
           shrunk == frame.valid /\ Cardinality(rows) < Cardinality(frame.rows)
           kept == [frame EXCEPT !.rows = rows, !.valid = TRUE]
           errors == Errors(d, rows, frame.scope)
           new == Received(d, win, rows)
<1>1. frame \in Frames(d) /\ FrameOK(d, frame) /\ Paired(frame.rows)
  BY WindowFacts DEF FrameOK
<1>2. /\ kept \in Frames(d) /\ kept.rows = rows /\ kept.valid /\ kept.scope = frame.scope
      /\ kept.shown = frame.shown /\ kept.round = frame.round
  BY <1>1 DEF Frames
<1>3. FrameOK(d, kept)
  BY <1>2 DEF FrameOK
<1>4. Cardinality(rows) \in Nat /\ Cardinality(frame.rows) \in Nat
  <2>1. frame.rows \in SUBSET Row(d)
    BY <1>1 DEF Frames
  <2> QED BY <2>1, RowSetFacts
<1>5. CASE win.gap # << >>
  <2> DEFINE now == IF shrunk THEN frame ELSE kept
             f == [now EXCEPT !.round = @ + 1]
             g == <<f>>
             again == [win EXCEPT !.gap = g, !.step = "ready", !.slot = "none", !.tries = 0]
  <2>1. \/ new = GapReturns(d, win, rows)
        \/ new = GapReturns(d, win, now.rows)
        \/ new = again
    BY <1>5 DEF Received
  <2>2. now \in Frames(d) /\ FrameOK(d, now) /\ now.rows \in SUBSET Row(d) /\ Paired(now.rows)
    <3>1. now \in Frames(d) /\ FrameOK(d, now)
      BY <1>1, <1>2, <1>3
    <3> QED BY <3>1 DEF FrameOK, Frames
  <2> HIDE DEF now, new, kept, frame
  <2>3. f \in Frames(d) /\ f.rows = now.rows /\ f.valid = now.valid
    BY <2>2 DEF Frames
  <2>4. FrameOK(d, f)
    BY <2>2, <2>3 DEF FrameOK
  <2>5. win.outer.valid /\ win \in Windows(d)
    BY <1>5, WindowFacts
  <2> HIDE DEF f
  <2>6. WindowOK(d, again) /\ Grows(win, again) /\ again.slot = "none"
    <3>1. again = Asks(win, g)
      BY <2>5 DEF Windows, Asks
    <3>2. g = << >> \/ (win.outer.valid /\ \E e : FrameOK(d, e) /\ g = <<e>>)
      BY <2>4, <2>5
    <3> HIDE DEF g, again
    <3>4. WindowOK(d, again) /\ again.outer = win.outer /\ again.slot = "none"
      BY <3>1, <3>2, AgainKeeps
    <3> QED BY <3>4, SameRowsGrow
  <2>7. WindowOK(d, new) /\ Grows(win, new) /\ new.slot = "none"
    <3>1. CASE new = GapReturns(d, win, rows)
      BY <1>5, <3>1, GapReturnsKeeps
    <3>2. CASE new = GapReturns(d, win, now.rows)
      BY <1>5, <2>2, <3>2, GapReturnsKeeps
    <3> QED BY <2>1, <2>6, <3>1, <3>2
  <2> QED BY <1>5, <2>7 DEF new
<1>6. CASE win.gap = << >> /\ shrunk
  <2>1. new = NextRound(win)
    BY <1>6 DEF Received
  <2>2. frame = win.outer
    BY <1>6
  <2>3. WindowOK(d, new) /\ Grows(win, new) /\ new.slot = "none"
    BY <2>1, NextRoundKeeps, SameRowsGrow
  <2>4. new.outer.valid /\ Cardinality(rows) <= Cardinality(new.outer.rows)
    <3>1. win.outer.valid /\ Cardinality(rows) < Cardinality(win.outer.rows)
      BY <1>6, <2>2
    <3>2. Cardinality(win.outer.rows) \in Nat
      BY <1>4, <2>2
    <3> HIDE DEF new
    <3>3. new.outer.valid = win.outer.valid /\ new.outer.rows = win.outer.rows
      BY <2>1, NextRoundKeeps
    <3> QED BY <1>4, <3>1, <3>2, <3>3
  <2> QED BY <2>3, <2>4
<1>7. CASE win.gap = << >> /\ ~shrunk
  <2> DEFINE next == [win EXCEPT !.outer = kept]
             filled == [next EXCEPT !.filled = TRUE]
             pages == GapPages(errors)
             asked == Frame(pages, Around(d, pages) \cap win.outer.shown)
             g == <<asked>>
             again == [filled EXCEPT !.step = "ready", !.slot = "none", !.tries = 0, !.gap = g]
  <2>1. frame = win.outer /\ win \in Windows(d)
    BY <1>7, WindowFacts
  <2>2. \/ new = Done(next)
        \/ new = again
        \/ new = NextRound(next)
    <3>1. again = [win EXCEPT !.outer = kept, !.filled = TRUE, !.step = "ready", !.slot = "none",
                              !.tries = 0, !.gap = g]
      <4> HIDE DEF kept, g
      <4> QED BY <2>1 DEF Windows
    <3> QED BY <1>7, <2>1, <3>1 DEF Received
  <2>3. Cardinality(win.outer.rows) <= Cardinality(rows)
    <3>1. CASE win.outer.valid
      BY <1>4, <1>7, <2>1, <3>1
    <3>2. CASE ~win.outer.valid
      <4>1. win.outer.rows = {}
        BY <3>2, WindowFacts
      <4> QED BY <1>4, <4>1, FS_EmptySet
    <3> QED BY <3>1, <3>2
  <2> HIDE DEF kept, new, shrunk, errors
  <2>4. WindowOK(d, next) /\ next.outer = kept
    BY <1>2, <1>3, OuterKeeps
  <2>5. WindowOK(d, filled) /\ filled.outer = kept
    <3>1. next \in Windows(d)
      BY <2>4 DEF WindowOK
    <3> HIDE DEF next
    <3>2. /\ filled \in Windows(d) /\ filled.outer = next.outer /\ filled.gap = next.gap
          /\ filled.slot = next.slot /\ filled.step = next.step
      BY <3>1 DEF Windows
    <3> HIDE DEF filled
    <3> QED BY <2>4, <3>2 DEF WindowOK
  <2>6. FrameOK(d, asked)
    <3>1. pages \in SUBSET Pages(d)
      <4>1. frame.scope \in SUBSET Pages(d)
        BY <1>1 DEF Frames
      <4> QED BY <4>1, GapPagesInScope DEF errors
    <3>2. (Around(d, pages) \cap win.outer.shown) \in SUBSET Pages(d)
      BY WindowFacts
    <3> HIDE DEF pages
    <3> QED BY <3>1, <3>2 DEF Frame, FrameOK, Frames, Paired
  <2>7. WindowOK(d, again) /\ again.outer = kept /\ again.slot = "none"
    <3>1. g = << >> \/ (filled.outer.valid /\ \E e : FrameOK(d, e) /\ g = <<e>>)
      BY <1>2, <2>5, <2>6
    <3>2. again = Asks(filled, g)
      BY DEF Asks
    <3> HIDE DEF g, filled, again
    <3> QED BY <2>5, <3>1, <3>2, AgainKeeps
  <2> HIDE DEF again, next
  <2>8. WindowOK(d, new) /\ /\ new.outer.rows = rows /\ new.outer.scope = win.outer.scope
                            /\ new.outer.valid /\ new.slot = "none"
    <3>1. CASE new = Done(next)
      BY <1>2, <2>1, <2>4, <3>1, DoneKeeps
    <3>2. CASE new = again
      BY <1>2, <2>1, <2>7, <3>2
    <3>3. CASE new = NextRound(next)
      BY <1>2, <2>1, <2>4, <3>3, NextRoundKeeps
    <3> QED BY <2>2, <3>1, <3>2, <3>3
  <2> QED BY <1>4, <2>3, <2>8 DEF Grows, new
<1> QED BY <1>5, <1>6, <1>7

-----------------------------------------------------------------------------
(***************************************************************************)
(* Plans                                                                    *)
(***************************************************************************)
\* A window that has not begun.
Fresh(d, win) ==
    /\ WindowOK(d, win) /\ win.slot = "none" /\ win.outer.rows = {}
    /\ Holds(win, 0)

LEMMA WaitingIsFresh ==
    ASSUME NEW d, NEW scope \in SUBSET Pages(d), NEW shown \in SUBSET Pages(d)
    PROVE  Fresh(d, Waiting(scope, shown))
<1> DEFINE win == Waiting(scope, shown)
           none == << >>
<1>1. none \in Seq(Frames(d)) /\ {} \in SUBSET WindowRemarks
  OBVIOUS
<1>2. /\ Frame(scope, shown) \in Frames(d) /\ FrameOK(d, Frame(scope, shown))
      /\ Frame(scope, shown).rows = {} /\ ~Frame(scope, shown).valid
  BY DEF Frame, Frames, FrameOK, Paired
<1>3. /\ win \in Windows(d) /\ win.outer = Frame(scope, shown) /\ win.gap = none
      /\ win.slot = "none"
  <2>1. win = [step |-> "waiting", slot |-> "none", tries |-> 0, outer |-> Frame(scope, shown),
               gap |-> none, filled |-> FALSE, said |-> {}, lost |-> FALSE, error |-> FALSE]
    BY DEF Waiting
  <2> HIDE DEF none, win
  <2> QED BY <1>1, <1>2, <2>1 DEF Windows
<1>4. WindowOK(d, win)
  BY <1>2, <1>3 DEF WindowOK
<1>5. Holds(win, 0)
  <2>1. win.outer.rows = {}
    BY <1>2, <1>3
  <2>2. Cardinality(win.outer.rows) = 0
    BY <2>1, FS_EmptySet
  <2> HIDE DEF win
  <2> QED BY <2>2 DEF Holds
<1> QED BY <1>2, <1>3, <1>4, <1>5 DEF Fresh

LEMMA MinOfTwo ==
    ASSUME NEW a \in Int, NEW b \in Int
    PROVE  Min({a, b}) \in Int /\ Min({a, b}) <= a /\ Min({a, b}) <= b
<1>1. \E x \in {a, b} : \A y \in {a, b} : x =< y
  OBVIOUS
<1>2. Min({a, b}) \in {a, b} /\ \A y \in {a, b} : Min({a, b}) =< y
  BY <1>1 DEF Min
<1> QED BY <1>2

\* Every plan is windows that have not begun, over pages of the document.
LEMMA PlanIsFresh ==
    ASSUME NEW d, document[d] \in Printable, NEW owned
    PROVE  \A w \in DOMAIN Plan(d, owned) :
              w \in 0..(Len(document[d].pages) + 1) /\ Fresh(d, Plan(d, owned)[w])
<1> DEFINE size == WindowPages[document[d].role]
           n == Len(document[d].pages)
<1>1. size \in Nat \ {0} /\ n \in Nat /\ Pages(d) = 1..n
  BY PageFacts, WindowAssumption DEF Chunkable
<1>2. ASSUME NEW scope \in SUBSET Pages(d)
      PROVE  Fresh(d, Waiting(scope, Around(d, scope))) /\ Fresh(d, Waiting(scope, Pages(d)))
  <2>1. Around(d, scope) \in SUBSET Pages(d)
    BY DEF Around
  <2> QED BY <2>1, WaitingIsFresh
<1>3. CASE owned # {}
  <2> DEFINE residue == {p \in Pages(d) \ owned : PrintsGoods(d, p)}
             before(p) == {q \in residue : q <= p /\ q..p \subseteq residue}
             firsts == {p \in residue : (p - Min(before(p))) % size = 0}
             scope(p) == {q \in residue : q >= p /\ q < p + size /\ p..q \subseteq residue}
             W(p) == IF p = 0 THEN Waiting({}, Pages(d)) ELSE Waiting(scope(p), Around(d, scope(p)))
  <2>1. Plan(d, owned) = [p \in {0} \cup firsts |-> W(p)]
    BY <1>3 DEF Plan, ResidueRuns
  <2>2. firsts \subseteq Pages(d) /\ \A p : scope(p) \in SUBSET Pages(d)
    OBVIOUS
  <2>3. \A p : Fresh(d, W(p))
    BY <1>2, <2>2
  <2> HIDE DEF firsts, W
  <2> QED BY <1>1, <2>1, <2>2, <2>3
<1>4. CASE owned = {} /\ document[d].role \in Chunkable /\ n > Threshold
  <2> DEFINE firsts == {p \in Pages(d) : (p - 1) % size = 0}
             scope(p) == p..Min({p + size - 1, n})
             W(p) == Waiting(scope(p), Around(d, scope(p)))
  <2>1. Plan(d, owned) = [p \in firsts |-> W(p)]
    BY <1>4 DEF Plan, Chunks
  <2>2. firsts \subseteq Pages(d)
    OBVIOUS
  <2>3. ASSUME NEW p \in Pages(d) PROVE scope(p) \in SUBSET Pages(d)
    <3>1. p + size - 1 \in Int /\ n \in Int /\ p \in Nat /\ p >= 1
      BY <1>1
    <3>2. Min({p + size - 1, n}) \in Int /\ Min({p + size - 1, n}) <= n
      BY <3>1, MinOfTwo
    <3> QED BY <1>1, <3>1, <3>2
  <2>4. \A p \in Pages(d) : Fresh(d, W(p))
    BY <1>2, <2>3
  <2> HIDE DEF firsts, W
  <2> QED BY <1>1, <2>1, <2>2, <2>4
<1>5. CASE owned = {} /\ ~(document[d].role \in Chunkable /\ n > Threshold)
  <2>1. Plan(d, owned) = [p \in {1} |-> Waiting(Pages(d), Pages(d))]
    BY <1>5 DEF Plan
  <2>2. Fresh(d, Waiting(Pages(d), Pages(d)))
    BY <1>2
  <2> HIDE DEF n
  <2>3. DOMAIN Plan(d, owned) = {1} /\ Plan(d, owned)[1] = Waiting(Pages(d), Pages(d))
    BY <2>1
  <2>4. 1 \in 0..(n + 1)
    BY <1>1
  <2> QED BY <2>2, <2>3, <2>4 DEF n
<1> QED BY <1>3, <1>4, <1>5

-----------------------------------------------------------------------------
(***************************************************************************)
(* The invariant of the windows                                             *)
(***************************************************************************)
LEMMA ExtractionStarts == ExtractionInit => TypeOK
<1> SUFFICES ASSUME NEW D \in SUBSET Docs, NEW behaves \in SUBSET STRING,
                    NEW documents \in [D -> Printable], ExtractionAtRest(documents, behaves)
             PROVE  TypeOK
  BY DEF ExtractionInit
<1>1. /\ document = documents /\ DOMAIN documents = D
      /\ phase = [d \in Docs |-> IF d \in D THEN "new" ELSE "none"]
      /\ late = [d \in Docs |-> FALSE]
      /\ window = [d \in Docs |-> << >>] /\ heard = [d \in Docs |-> << >>]
      /\ result = [d \in Docs |-> NoResult]
  BY DEF ExtractionAtRest
<1>2. document \in [D -> Printable]
  BY <1>1
<1>3. \A d \in Docs : DOMAIN window[d] = {} /\ DOMAIN heard[d] = {}
  BY <1>1
<1>4. \A d \in Docs : DocumentOK(d)
  BY <1>1, <1>3 DEF DocumentOK
<1> QED BY <1>1, <1>2, <1>4 DEF TypeOK

\* What the invariant says of one document.
LEMMA DocumentFacts ==
    ASSUME TypeOK, NEW d \in Docs, phase[d] # "none"
    PROVE  document[d] \in Printable
BY DEF TypeOK, DocumentOK

LEMMA WindowOfDocument ==
    ASSUME TypeOK, NEW d \in Docs, NEW w \in DOMAIN window[d]
    PROVE  /\ document[d] \in Printable /\ phase[d] \notin {"none", "new"}
           /\ w \in 0..(Len(document[d].pages) + 1)
           /\ WindowOK(d, window[d][w]) /\ Holds(window[d][w], heard[d][w])
BY DEF TypeOK, DocumentOK

\* The documents stand still, so what is said of their rows does.
LEMMA RowsStand ==
    ASSUME document' = document, NEW d
    PROVE  /\ Pages(d)' = Pages(d) /\ Row(d)' = Row(d) /\ Frames(d)' = Frames(d)
           /\ Windows(d)' = Windows(d)
<1>1. Pages(d)' = Pages(d) /\ \A p : Lines(d, p)' = Lines(d, p)
  BY DEF Pages, Lines
<1>2. \A p, i : Line(d, p, i)' = Line(d, p, i)
  BY DEF Line
<1>3. Row(d)' = Row(d)
  BY <1>1, <1>2 DEF Row
<1>4. Frames(d)' = Frames(d)
  BY <1>1, <1>3 DEF Frames
<1> QED BY <1>1, <1>3, <1>4 DEF Windows

LEMMA WindowStands ==
    ASSUME document' = document, NEW d, NEW e, NEW v
    PROVE  WindowOK(d, window[e][v])' <=> WindowOK(d, window'[e][v])
<1>1. Windows(d)' = Windows(d) /\ Frames(d)' = Frames(d)
  BY RowsStand
<1> QED BY <1>1 DEF WindowOK, FrameOK

(* One step of window w of d: the window that steps is not done, it holds    *)
(* what was heard, and nothing else moves.                                  *)
Moves(d, w, new) ==
    /\ window[d][w].step # "done" /\ Steps(d, w, new) /\ WindowOK(d, new)
    /\ UNCHANGED restOfDoc
    /\ DOMAIN heard' = DOMAIN heard
    /\ \A e \in Docs \ {d} : heard'[e] = heard[e]
    /\ DOMAIN heard'[d] = DOMAIN heard[d]
    /\ \A v \in DOMAIN heard[d] \ {w} : heard'[d][v] = heard[d][v]
    /\ Holds(new, heard'[d][w])

\* A window that grows still holds its best reply.
LEMMA GrownHolds ==
    ASSUME NEW d, document[d] \in Printable, NEW win, WindowOK(d, win), NEW new, WindowOK(d, new),
           Grows(win, new), NEW best, Holds(win, best)
    PROVE  Holds(new, best)
<1>1. Cardinality(win.outer.rows) \in Nat /\ Cardinality(new.outer.rows) \in Nat
  BY WindowFacts, RowSetFacts
<1> QED BY <1>1 DEF Holds, Grows

\* A step that hears nothing.
LEMMA SilentMove ==
    ASSUME TypeOK, NEW d \in Docs, NEW w \in DOMAIN window[d], NEW new,
           window[d][w].step # "done", Steps(d, w, new), WindowOK(d, new),
           Grows(window[d][w], new), UNCHANGED restOfDoc, UNCHANGED heard
    PROVE  Moves(d, w, new)
<1>1. Holds(new, heard[d][w])
  BY WindowOfDocument, GrownHolds
<1> QED BY <1>1 DEF Moves

\* The slot a window may have after a step.
MayHold(new) ==
    \/ new.slot = "none"
    \/ new.slot = "shared" /\ PermitFree
    \/ new.slot = "reserved" /\ Holders("reserved") = {}

\* A window that stops, or that calls.
Turns(win, step, slot) == [win EXCEPT !.step = step, !.slot = slot]

LEMMA StepKeeps ==
    ASSUME NEW d, document[d] \in Printable, NEW win, WindowOK(d, win), win.slot = "none",
           NEW step \in {"ready", "queued", "calling", "backoff"},
           NEW slot \in {"none", "reserved", "shared"}, slot # "none" => step = "calling"
    PROVE  /\ WindowOK(d, Turns(win, step, slot)) /\ Grows(win, Turns(win, step, slot))
           /\ Turns(win, step, slot).slot = slot
<1> DEFINE new == Turns(win, step, slot)
<1>1. win \in Windows(d)
  BY WindowFacts
<1>2. /\ new \in Windows(d) /\ new.outer = win.outer /\ new.gap = win.gap
      /\ new.slot = slot /\ new.step = step
  BY <1>1 DEF Windows, Turns
<1> HIDE DEF new
<1>3. WindowOK(d, new)
  BY <1>2 DEF WindowOK
<1>4. Grows(win, new)
  BY <1>2, SameRowsGrow
<1> QED BY <1>2, <1>3, <1>4 DEF new

\* Every step of a window is a move, and takes a slot only from a free gate.
LEMMA StartWindowMoves ==
    ASSUME TypeOK, NEW d \in Docs, NEW w \in DOMAIN window[d], StartWindow(d, w)
    PROVE  \E new : Moves(d, w, new) /\ MayHold(new)
<1> DEFINE win == window[d][w]
           new == [win EXCEPT !.step = "ready"]
<1>1. /\ win.step = "waiting" /\ Steps(d, w, new) /\ UNCHANGED restOfDoc /\ UNCHANGED heard
  BY DEF StartWindow
<1>2. WindowOK(d, win) /\ document[d] \in Printable
  BY WindowOfDocument
<1>3. win \in Windows(d) /\ win.slot = "none"
  BY <1>1, <1>2 DEF WindowOK, Windows
<1>4. new = Turns(win, "ready", "none")
  BY <1>3 DEF Windows, Turns
<1> HIDE DEF win, new
<1>5. WindowOK(d, new) /\ Grows(win, new) /\ new.slot = "none"
  BY <1>2, <1>3, <1>4, StepKeeps
<1>6. Moves(d, w, new)
  BY <1>1, <1>5, SilentMove DEF win
<1> QED BY <1>5, <1>6 DEF MayHold

LEMMA WakeMoves ==
    ASSUME TypeOK, NEW d \in Docs, NEW w \in DOMAIN window[d], Wake(d, w)
    PROVE  \E new : Moves(d, w, new) /\ MayHold(new)
<1> DEFINE win == window[d][w]
           new == [win EXCEPT !.step = "ready"]
<1>1. /\ win.step = "backoff" /\ Steps(d, w, new) /\ UNCHANGED restOfDoc /\ UNCHANGED heard
  BY DEF Wake
<1>2. WindowOK(d, win) /\ document[d] \in Printable
  BY WindowOfDocument
<1>3. win \in Windows(d) /\ win.slot = "none"
  BY <1>1, <1>2 DEF WindowOK, Windows
<1>4. new = Turns(win, "ready", "none")
  BY <1>3 DEF Windows, Turns
<1> HIDE DEF win, new
<1>5. WindowOK(d, new) /\ Grows(win, new) /\ new.slot = "none"
  BY <1>2, <1>3, <1>4, StepKeeps
<1>6. Moves(d, w, new)
  BY <1>1, <1>5, SilentMove DEF win
<1> QED BY <1>5, <1>6 DEF MayHold

LEMMA TakeSlotMoves ==
    ASSUME TypeOK, NEW d \in Docs, NEW w \in DOMAIN window[d], TakeSlot(d, w)
    PROVE  \E new : Moves(d, w, new) /\ MayHold(new)
<1> DEFINE win == window[d][w]
           calling(slot) == [win EXCEPT !.step = "calling", !.slot = slot]
           queued == [win EXCEPT !.step = "queued"]
<1>1. /\ win.step = "ready" /\ UNCHANGED restOfDoc /\ UNCHANGED heard
      /\ \/ Steps(d, w, Aborted(d, win))
         \/ Holders("reserved") = {} /\ Steps(d, w, calling("reserved"))
         \/ PermitFree /\ Steps(d, w, calling("shared"))
         \/ Steps(d, w, queued)
  BY DEF TakeSlot
<1>2. WindowOK(d, win) /\ document[d] \in Printable
  BY WindowOfDocument
<1>3. win \in Windows(d) /\ win.slot = "none"
  BY <1>1, <1>2 DEF WindowOK, Windows
<1>4. queued = Turns(win, "queued", "none") /\ \A slot : calling(slot) = Turns(win, "calling", slot)
  BY <1>3 DEF Windows, Turns
<1> HIDE DEF win, queued, calling
<1>5. WindowOK(d, queued) /\ Grows(win, queued) /\ queued.slot = "none"
  BY <1>2, <1>3, <1>4, StepKeeps
<1>6. \A slot \in {"reserved", "shared"} :
          WindowOK(d, calling(slot)) /\ Grows(win, calling(slot)) /\ calling(slot).slot = slot
  BY <1>2, <1>3, <1>4, StepKeeps
<1>7. WindowOK(d, Aborted(d, win)) /\ Grows(win, Aborted(d, win)) /\ Aborted(d, win).slot = "none"
  BY <1>2, AbortedKeeps
<1>8. ASSUME NEW new, WindowOK(d, new), Grows(win, new), Steps(d, w, new) PROVE Moves(d, w, new)
  BY <1>1, <1>8, SilentMove DEF win
<1>9. CASE Steps(d, w, Aborted(d, win))
  BY <1>7, <1>8, <1>9 DEF MayHold
<1>10. CASE Holders("reserved") = {} /\ Steps(d, w, calling("reserved"))
  BY <1>6, <1>8, <1>10 DEF MayHold
<1>11. CASE PermitFree /\ Steps(d, w, calling("shared"))
  BY <1>6, <1>8, <1>11 DEF MayHold
<1>12. CASE Steps(d, w, queued)
  BY <1>5, <1>8, <1>12 DEF MayHold
<1> QED BY <1>1, <1>9, <1>10, <1>11, <1>12

LEMMA GetPermitMoves ==
    ASSUME TypeOK, NEW d \in Docs, NEW w \in DOMAIN window[d], GetPermit(d, w)
    PROVE  \E new : Moves(d, w, new) /\ MayHold(new)
<1> DEFINE win == window[d][w]
           calling == [win EXCEPT !.step = "calling", !.slot = "shared"]
<1>1. /\ win.step = "queued" /\ UNCHANGED restOfDoc /\ UNCHANGED heard /\ PermitFree
      /\ Steps(d, w, Aborted(d, win)) \/ Steps(d, w, calling)
  BY DEF GetPermit
<1>2. WindowOK(d, win) /\ document[d] \in Printable
  BY WindowOfDocument
<1>3. win.slot = "none"
  BY <1>1, <1>2 DEF WindowOK, Windows
<1> HIDE DEF win
<1>4. WindowOK(d, calling) /\ Grows(win, calling) /\ calling.slot = "shared"
  <2>1. calling = Turns(win, "calling", "shared")
    BY DEF Turns
  <2> HIDE DEF calling
  <2> QED BY <1>2, <1>3, <2>1, StepKeeps
<1>5. WindowOK(d, Aborted(d, win)) /\ Grows(win, Aborted(d, win)) /\ Aborted(d, win).slot = "none"
  BY <1>2, AbortedKeeps
<1> HIDE DEF calling
<1>6. ASSUME NEW new, WindowOK(d, new), Grows(win, new), Steps(d, w, new) PROVE Moves(d, w, new)
  BY <1>1, <1>6, SilentMove DEF win
<1> QED BY <1>1, <1>4, <1>5, <1>6 DEF MayHold

LEMMA CallFailsMoves ==
    ASSUME TypeOK, NEW d \in Docs, NEW w \in DOMAIN window[d], CallFails(d, w)
    PROVE  \E new : Moves(d, w, new) /\ MayHold(new)
<1> DEFINE win == window[d][w]
           asleep == [win EXCEPT !.step = "backoff", !.slot = "none", !.tries = @ + 1]
<1>1. /\ win.step = "calling" /\ UNCHANGED restOfDoc /\ UNCHANGED heard
      /\ \/ Steps(d, w, Aborted(d, win)) \/ Steps(d, w, Broken(win)) \/ Steps(d, w, asleep)
  BY DEF CallFails
<1>2. WindowOK(d, win) /\ document[d] \in Printable
  BY WindowOfDocument
<1> HIDE DEF win
<1>3. win \in Windows(d)
  BY <1>2 DEF WindowOK
<1>4. /\ asleep \in Windows(d) /\ asleep.outer = win.outer /\ asleep.gap = win.gap
      /\ asleep.slot = "none" /\ asleep.step = "backoff"
  <2>1. win.tries + 1 \in Nat
    BY <1>3 DEF Windows
  <2> QED BY <1>3, <2>1 DEF Windows
<1> HIDE DEF asleep
<1>5. WindowOK(d, asleep) /\ Grows(win, asleep)
  <2>1. WindowOK(d, asleep)
    BY <1>2, <1>4 DEF WindowOK
  <2> QED BY <1>2, <1>4, <2>1, SameRowsGrow
<1>6. /\ WindowOK(d, Aborted(d, win)) /\ Grows(win, Aborted(d, win)) /\ Aborted(d, win).slot = "none"
      /\ WindowOK(d, Broken(win)) /\ Grows(win, Broken(win)) /\ Broken(win).slot = "none"
  BY <1>2, AbortedKeeps, BrokenKeeps
<1>7. ASSUME NEW new, WindowOK(d, new), Grows(win, new), Steps(d, w, new) PROVE Moves(d, w, new)
  BY <1>1, <1>7, SilentMove DEF win
<1> QED BY <1>1, <1>4, <1>5, <1>6, <1>7 DEF MayHold

LEMMA MaxOfTwo ==
    ASSUME NEW a \in Nat, NEW b \in Nat
    PROVE  Max({a, b}) \in {a, b} /\ a <= Max({a, b}) /\ b <= Max({a, b})
<1>1. \E x \in {a, b} : \A y \in {a, b} : x >= y
  OBVIOUS
<1>2. Max({a, b}) \in {a, b} /\ \A y \in {a, b} : Max({a, b}) >= y
  BY <1>1 DEF Max
<1> QED BY <1>2

LEMMA ReplyMoves ==
    ASSUME TypeOK, NEW d \in Docs, NEW w \in DOMAIN window[d], Reply(d, w)
    PROVE  \E new : Moves(d, w, new) /\ MayHold(new)
<1> DEFINE win == window[d][w]
           frame == IF win.gap = << >> THEN win.outer ELSE win.gap[1]
<1>1. /\ phase[d] = "reading" /\ win.step = "calling" /\ UNCHANGED restOfDoc
      /\ \/ \E rows \in Replies(d, w, frame) :
              /\ Steps(d, w, Received(d, win, rows))
              /\ heard' = [heard EXCEPT ![d][w] =
                              IF win.gap = << >> THEN Max({@, Cardinality(rows)}) ELSE @]
         \/ Steps(d, w, Garbled(d, win)) /\ UNCHANGED heard
  BY DEF Reply
<1>2. /\ WindowOK(d, win) /\ document[d] \in Printable /\ Holds(win, heard[d][w])
      /\ w \in 0..(Len(document[d].pages) + 1)
  BY WindowOfDocument
<1>3. CASE Steps(d, w, Garbled(d, win)) /\ UNCHANGED heard
  <2>1. WindowOK(d, Garbled(d, win)) /\ Grows(win, Garbled(d, win)) /\ Garbled(d, win).slot = "none"
    BY <1>2, GarbledKeeps
  <2> HIDE DEF win
  <2>2. Moves(d, w, Garbled(d, win))
    BY <1>1, <1>3, <2>1, SilentMove DEF win
  <2> QED BY <2>1, <2>2 DEF MayHold
<1>4. ASSUME NEW rows \in Replies(d, w, frame), Steps(d, w, Received(d, win, rows)),
             heard' = [heard EXCEPT ![d][w] =
                          IF win.gap = << >> THEN Max({@, Cardinality(rows)}) ELSE @]
      PROVE  \E new : Moves(d, w, new) /\ MayHold(new)
  <2> DEFINE new == Received(d, win, rows)
             best == IF win.gap = << >> THEN Max({heard[d][w], Cardinality(rows)}) ELSE heard[d][w]
  <2> HIDE DEF win
  <2>1. frame.scope \in SUBSET Pages(d) /\ frame.shown \in SUBSET Pages(d)
    <3>1. CASE win.gap = << >>
      BY <1>2, <3>1, WindowFacts
    <3>2. CASE win.gap # << >>
      <4>1. win.gap[1] \in Frames(d)
        BY <1>2, <3>2, WindowFacts DEF FrameOK
      <4> QED BY <3>2, <4>1 DEF Frames
    <3> QED BY <3>1, <3>2
  <2> HIDE DEF frame
  <2>2. rows \in SUBSET Row(d) /\ Paired(rows)
    BY <1>2, <1>4, <2>1, RepliesAreRows
  <2>3. /\ WindowOK(d, new) /\ new.slot = "none" /\ Grows(win, new)
        /\ win.gap = << >> => new.outer.valid /\ Cardinality(rows) <= Cardinality(new.outer.rows)
    BY <1>2, <2>2, ReceivedKeeps
  <2>4. /\ DOMAIN heard' = DOMAIN heard /\ DOMAIN heard'[d] = DOMAIN heard[d]
        /\ \A e \in Docs \ {d} : heard'[e] = heard[e]
        /\ \A v \in DOMAIN heard[d] \ {w} : heard'[d][v] = heard[d][v]
        /\ heard'[d][w] = best
    <3>1. DOMAIN heard = Docs /\ w \in DOMAIN heard[d]
      BY DEF TypeOK, DocumentOK
    <3>2. heard' = [heard EXCEPT ![d][w] = best]
      BY <1>4
    <3> HIDE DEF best
    <3> QED BY <3>1, <3>2
  <2> HIDE DEF new
  <2>5. Holds(new, best)
    <3>1. Holds(new, heard[d][w])
      BY <1>2, <2>3, GrownHolds
    <3>2. CASE win.gap = << >>
      <4>1. heard[d][w] \in Nat /\ Cardinality(rows) \in Nat
        BY <1>2, <2>2, RowSetFacts DEF Holds
      <4>2. best \in {heard[d][w], Cardinality(rows)}
        BY <3>2, <4>1, MaxOfTwo
      <4> QED BY <2>3, <3>1, <3>2, <4>1, <4>2 DEF Holds
    <3>3. CASE win.gap # << >>
      BY <3>1, <3>3
    <3> QED BY <3>2, <3>3
  <2> HIDE DEF best
  <2>6. Moves(d, w, new)
    BY <1>1, <1>4, <2>3, <2>4, <2>5 DEF Moves, new, win
  <2> QED BY <2>3, <2>6 DEF MayHold
<1> QED BY <1>1, <1>3, <1>4

LEMMA WindowStepMoves ==
    ASSUME TypeOK, NEW d \in Docs, NEW w \in DOMAIN window[d], WindowStep(d, w)
    PROVE  \E new : Moves(d, w, new) /\ MayHold(new)
BY StartWindowMoves, TakeSlotMoves, GetPermitMoves, CallFailsMoves, WakeMoves, ReplyMoves
   DEF WindowStep

-----------------------------------------------------------------------------
\* A document that nothing touches is as it was.
LEMMA DocumentStands ==
    ASSUME NEW e, DocumentOK(e), document' = document, phase'[e] = phase[e],
           window'[e] = window[e], heard'[e] = heard[e]
    PROVE  DocumentOK(e)'
<1>1. \A v : WindowOK(e, window[e][v])' <=> WindowOK(e, window[e][v])
  BY WindowStands
<1> QED BY <1>1 DEF DocumentOK, Holds

\* After a move: the window that moved, and the others.
LEMMA AfterMove ==
    ASSUME TypeOK, NEW d \in Docs, NEW w \in DOMAIN window[d], NEW new, Moves(d, w, new)
    PROVE  /\ DOMAIN window' = Docs /\ DOMAIN window'[d] = DOMAIN window[d]
           /\ \A e \in Docs \ {d} : window'[e] = window[e]
           /\ \A v \in DOMAIN window[d] \ {w} : window'[d][v] = window[d][v]
           /\ window'[d][w] = new
<1>1. DOMAIN window = Docs /\ window' = [window EXCEPT ![d][w] = new]
  BY DEF TypeOK, Moves, Steps
<1> QED BY <1>1

\* A document that has ended moves no window.
LEMMA MovesWhileReading ==
    ASSUME TypeOK, NEW d \in Docs, NEW w \in DOMAIN window[d], NEW new, Moves(d, w, new)
    PROVE  phase[d] \notin {"none", "new", "done", "over"}
BY DEF TypeOK, DocumentOK, Moves

LEMMA MoveTypes ==
    ASSUME TypeOK, NEW d \in Docs, NEW w \in DOMAIN window[d], NEW new, Moves(d, w, new)
    PROVE  TypeOK'
<1>1. /\ DOMAIN window' = Docs /\ DOMAIN window'[d] = DOMAIN window[d]
      /\ \A e \in Docs \ {d} : window'[e] = window[e]
      /\ \A v \in DOMAIN window[d] \ {w} : window'[d][v] = window[d][v]
      /\ window'[d][w] = new
  BY AfterMove
<1>2. UNCHANGED <<document, phase, late, result>>
  BY DEF Moves, restOfDoc
<1>3. /\ DOMAIN heard' = DOMAIN heard /\ DOMAIN heard'[d] = DOMAIN heard[d]
      /\ \A e \in Docs \ {d} : heard'[e] = heard[e]
      /\ \A v \in DOMAIN heard[d] \ {w} : heard'[d][v] = heard[d][v]
      /\ Holds(new, heard'[d][w]) /\ WindowOK(d, new)
  BY DEF Moves
<1>4. \A e \in Docs : DocumentOK(e)
  BY DEF TypeOK
<1>5. ASSUME NEW e \in Docs \ {d} PROVE DocumentOK(e)'
  BY <1>1, <1>2, <1>3, <1>4, <1>5, DocumentStands
<1>6. DocumentOK(d)'
  <2>1. ASSUME NEW v \in DOMAIN window[d]
        PROVE  WindowOK(d, window[d][v])' /\ Holds(window'[d][v], heard'[d][v])
    <3>1. WindowOK(d, window'[d][v]) /\ Holds(window'[d][v], heard'[d][v])
      <4>1. CASE v = w
        BY <1>1, <1>3, <4>1
      <4>2. CASE v # w
        BY <1>1, <1>3, <1>4, <2>1, <4>2 DEF DocumentOK
      <4> QED BY <4>1, <4>2
    <3>2. WindowOK(d, window[d][v])'
      BY <1>2, <3>1, WindowStands
    <3> QED BY <3>1, <3>2
  <2>2. DOMAIN heard[d] = DOMAIN window[d] /\ phase[d] \notin {"none", "new", "done", "over"}
    BY <1>4, MovesWhileReading DEF DocumentOK
  <2> QED BY <1>1, <1>2, <1>3, <1>4, <2>1, <2>2 DEF DocumentOK, Holds
<1> QED BY <1>1, <1>2, <1>3, <1>5, <1>6 DEF TypeOK

\* The plan of a document replaces its windows.
LEMMA ReadsTypes ==
    ASSUME TypeOK, NEW d \in Docs, phase[d] \in {"new", "columns"}, NEW owned, Reads(d, owned),
           UNCHANGED <<document, late, result>>
    PROVE  /\ TypeOK'
           /\ DOMAIN window' = Docs /\ \A e \in Docs \ {d} : window'[e] = window[e]
           /\ \A w \in DOMAIN window'[d] : window'[d][w].slot = "none"
<1> DEFINE plan == Plan(d, owned)
           none == [w \in DOMAIN plan |-> 0]
<1>1. /\ phase' = [phase EXCEPT ![d] = "reading"] /\ window' = [window EXCEPT ![d] = plan]
      /\ heard' = [heard EXCEPT ![d] = none]
  BY DEF Reads
<1>2. document[d] \in Printable
  BY DocumentFacts
<1>3. \A w \in DOMAIN plan : w \in 0..(Len(document[d].pages) + 1) /\ Fresh(d, plan[w])
  BY <1>2, PlanIsFresh
<1>4. DOMAIN none = DOMAIN plan /\ \A w \in DOMAIN plan : none[w] = 0
  OBVIOUS
<1> HIDE DEF plan, none
<1>5. /\ phase \in [Docs -> {"none", "new", "columns", "reading", "done", "failed", "over"}]
      /\ DOMAIN window = Docs /\ DOMAIN heard = Docs /\ \A e \in Docs : DocumentOK(e)
  BY DEF TypeOK
<1>6. /\ phase' \in [Docs -> {"none", "new", "columns", "reading", "done", "failed", "over"}]
      /\ DOMAIN window' = Docs /\ DOMAIN heard' = Docs
      /\ \A e \in Docs \ {d} : window'[e] = window[e] /\ heard'[e] = heard[e] /\ phase'[e] = phase[e]
      /\ phase'[d] = "reading" /\ window'[d] = plan /\ heard'[d] = none
  BY <1>1, <1>5
<1>7. ASSUME NEW e \in Docs \ {d} PROVE DocumentOK(e)'
  BY <1>5, <1>6, <1>7, DocumentStands
<1>8. DocumentOK(d)'
  <2>1. ASSUME NEW w \in DOMAIN plan
        PROVE  WindowOK(d, window[d][w])' /\ Holds(window'[d][w], heard'[d][w])
    <3>1. WindowOK(d, window'[d][w]) /\ Holds(window'[d][w], heard'[d][w])
      BY <1>3, <1>4, <1>6 DEF Fresh
    <3> QED BY <3>1, WindowStands
  <2>2. d \in DOMAIN document /\ phase[d] # "none"
    BY <1>5 DEF DocumentOK
  <2> QED BY <1>3, <1>4, <1>6, <2>1, <2>2 DEF DocumentOK, Holds
<1>9. \A w \in DOMAIN window'[d] : window'[d][w].slot = "none"
  BY <1>3, <1>6 DEF Fresh
<1>10. TypeOK'
  BY <1>6, <1>7, <1>8 DEF TypeOK
<1> QED BY <1>6, <1>9, <1>10

\* A document ends: its windows stay as they are.
LEMMA EndTypes ==
    ASSUME TypeOK, NEW d \in Docs, phase[d] # "none",
           NEW end \in {"done", "over", "failed"},
           phase' = [phase EXCEPT ![d] = end], UNCHANGED <<document, late, window, heard>>,
           DOMAIN result' = Docs, \A w \in DOMAIN window[d] : window[d][w].step = "done"
    PROVE  TypeOK'
<1>1. /\ phase \in [Docs -> {"none", "new", "columns", "reading", "done", "failed", "over"}]
      /\ \A e \in Docs : DocumentOK(e)
  BY DEF TypeOK
<1>2. /\ phase' \in [Docs -> {"none", "new", "columns", "reading", "done", "failed", "over"}]
      /\ \A e \in Docs \ {d} : phase'[e] = phase[e]
      /\ phase'[d] = end
  BY <1>1
<1>3. ASSUME NEW e \in Docs \ {d} PROVE DocumentOK(e)'
  BY <1>1, <1>2, <1>3, DocumentStands
<1>4. DocumentOK(d)'
  <2>1. \A v : WindowOK(d, window[d][v])' <=> WindowOK(d, window[d][v])
    BY WindowStands
  <2> QED BY <1>1, <1>2, <2>1 DEF DocumentOK, Holds
<1> QED BY <1>2, <1>3, <1>4 DEF TypeOK

LEMMA BeginTypes ==
    ASSUME TypeOK, NEW d \in Docs, Begin(d)
    PROVE  /\ TypeOK'
           /\ DOMAIN window' = Docs /\ \A e \in Docs \ {d} : window'[e] = window[e]
           /\ \A w \in DOMAIN window'[d] : window'[d][w].slot = "none"
<1> DEFINE first == [w \in {0} |-> Waiting({}, {})]
           none == [w \in {0} |-> 0]
<1>1. phase[d] = "new" /\ UNCHANGED <<document, late, result>> /\ DOMAIN window[d] = {}
  BY DEF Begin, TypeOK, DocumentOK
<1>2. CASE phase' = [phase EXCEPT ![d] = "failed"] /\ UNCHANGED <<window, heard>>
  <2>1. DOMAIN result' = Docs /\ DOMAIN window = Docs
    BY <1>1 DEF TypeOK
  <2>2. TypeOK'
    BY <1>1, <1>2, <2>1, EndTypes
  <2> QED BY <1>1, <1>2, <2>1, <2>2
<1>3. ASSUME phase' = [phase EXCEPT ![d] = "columns"], window' = [window EXCEPT ![d] = first],
             heard' = [heard EXCEPT ![d] = none]
      PROVE  /\ TypeOK'
             /\ DOMAIN window' = Docs /\ \A e \in Docs \ {d} : window'[e] = window[e]
             /\ \A w \in DOMAIN window'[d] : window'[d][w].slot = "none"
  <2>1. /\ phase \in [Docs -> {"none", "new", "columns", "reading", "done", "failed", "over"}]
        /\ DOMAIN window = Docs /\ DOMAIN heard = Docs /\ \A e \in Docs : DocumentOK(e)
    BY DEF TypeOK
  <2>2. Fresh(d, Waiting({}, {})) /\ DOMAIN first = {0} /\ first[0] = Waiting({}, {})
        /\ DOMAIN none = {0} /\ none[0] = 0
    BY WaitingIsFresh
  <2> HIDE DEF first, none
  <2>3. /\ phase' \in [Docs -> {"none", "new", "columns", "reading", "done", "failed", "over"}]
        /\ DOMAIN window' = Docs /\ DOMAIN heard' = Docs
        /\ \A e \in Docs \ {d} : window'[e] = window[e] /\ heard'[e] = heard[e] /\ phase'[e] = phase[e]
        /\ phase'[d] = "columns" /\ window'[d] = first /\ heard'[d] = none
    BY <1>3, <2>1
  <2>4. ASSUME NEW e \in Docs \ {d} PROVE DocumentOK(e)'
    BY <1>1, <2>1, <2>3, <2>4, DocumentStands
  <2>5. DocumentOK(d)'
    <3>1. WindowOK(d, window'[d][0]) /\ Holds(window'[d][0], heard'[d][0])
      BY <2>2, <2>3 DEF Fresh
    <3>2. WindowOK(d, window[d][0])'
      BY <1>1, <3>1, WindowStands
    <3>3. d \in DOMAIN document /\ 0 \in 0..(Len(document[d].pages) + 1)
      <4>1. document[d] \in Printable /\ d \in DOMAIN document
        BY <1>1, <2>1, DocumentFacts DEF DocumentOK
      <4> QED BY <4>1, PageFacts
    <3> QED BY <1>1, <2>2, <2>3, <3>1, <3>2, <3>3 DEF DocumentOK, Holds
  <2>6. TypeOK'
    BY <1>1, <2>3, <2>4, <2>5 DEF TypeOK
  <2> QED BY <2>2, <2>3, <2>6 DEF Fresh
<1>4. CASE Reads(d, Owned(d, FALSE))
  BY <1>1, <1>4, ReadsTypes
<1> QED BY <1>2, <1>3, <1>4 DEF Begin

LEMMA ColumnsAnsweredTypes ==
    ASSUME TypeOK, NEW d \in Docs, ColumnsAnswered(d)
    PROVE  /\ TypeOK'
           /\ DOMAIN window' = Docs /\ \A e \in Docs \ {d} : window'[e] = window[e]
           /\ \A w \in DOMAIN window'[d] : window'[d][w].slot = "none"
<1>1. /\ phase[d] = "columns" /\ UNCHANGED <<document, late, result>>
      /\ \E asked \in BOOLEAN : Reads(d, Owned(d, asked))
  BY DEF ColumnsAnswered
<1> QED BY <1>1, ReadsTypes

LEMMA ColumnsLostTypes ==
    ASSUME TypeOK, NEW d \in Docs, ColumnsLost(d)
    PROVE  /\ TypeOK'
           /\ \/ UNCHANGED window
              \/ /\ DOMAIN window' = Docs /\ \A e \in Docs \ {d} : window'[e] = window[e]
                 /\ \A w \in DOMAIN window'[d] : window'[d][w].slot = "none"
<1>1. /\ phase[d] = "columns" /\ UNCHANGED <<document, late>> /\ window[d][0].step = "done"
  BY DEF ColumnsLost
<1>2. CASE Reads(d, {}) /\ UNCHANGED result
  BY <1>1, <1>2, ReadsTypes
<1>3. ASSUME phase' = [phase EXCEPT ![d] = "over"], UNCHANGED <<window, heard>>,
             result' = [result EXCEPT ![d].said = {"PACKING_EXTRACTION_OVER_BUDGET"}]
      PROVE  TypeOK' /\ UNCHANGED window
  <2>1. DOMAIN result' = Docs /\ DOMAIN window[d] = {0}
    BY <1>1, <1>3 DEF TypeOK, DocumentOK
  <2> QED BY <1>1, <1>3, <2>1, EndTypes
<1> QED BY <1>2, <1>3 DEF ColumnsLost

LEMMA FinishTypes ==
    ASSUME TypeOK, NEW d \in Docs, Finish(d)
    PROVE  TypeOK' /\ UNCHANGED window
<1>1. /\ phase[d] = "reading" /\ UNCHANGED <<document, late, window, heard>>
      /\ \A w \in DOMAIN window[d] : window[d][w].step = "done"
      /\ \E end \in {"done", "over", "failed"} : phase' = [phase EXCEPT ![d] = end]
      /\ DOMAIN result' = DOMAIN result
  BY DEF Finish
<1>2. DOMAIN result' = Docs
  BY <1>1 DEF TypeOK
<1> QED BY <1>1, <1>2, EndTypes

LEMMA BudgetTypes ==
    ASSUME TypeOK, NEW d \in Docs, BudgetEnds(d)
    PROVE  TypeOK' /\ UNCHANGED window
<1>1. /\ UNCHANGED <<document, phase, window, heard, result>>
      /\ late' = [late EXCEPT ![d] = TRUE]
  BY DEF BudgetEnds
<1>2. \A e \in Docs : DocumentOK(e)'
  BY <1>1, DocumentStands DEF TypeOK
<1> QED BY <1>1, <1>2 DEF TypeOK

LEMMA StutterTypes ==
    ASSUME TypeOK, UNCHANGED extractionVars
    PROVE  TypeOK'
<1>1. UNCHANGED <<document, phase, late, window, heard, result>>
  BY DEF extractionVars
<1>2. \A e \in Docs : DocumentOK(e)'
  BY <1>1, DocumentStands DEF TypeOK
<1> QED BY <1>1, <1>2 DEF TypeOK

LEMMA NextTypes == TypeOK /\ [ExtractionNext]_extractionVars => TypeOK'
<1> SUFFICES ASSUME TypeOK, [ExtractionNext]_extractionVars PROVE TypeOK'
  OBVIOUS
<1>1. CASE UNCHANGED extractionVars
  BY <1>1, StutterTypes
<1>2. ASSUME NEW d \in Docs, DocumentStep(d) \/ BudgetEnds(d) PROVE TypeOK'
  BY <1>2, BeginTypes, ColumnsAnsweredTypes, ColumnsLostTypes, FinishTypes, BudgetTypes
     DEF DocumentStep
<1>3. ASSUME NEW d \in Docs, NEW w \in DOMAIN window[d], WindowStep(d, w) PROVE TypeOK'
  BY <1>3, WindowStepMoves, MoveTypes
<1> QED BY <1>1, <1>2, <1>3 DEF ExtractionNext

(* Every frame of every window transcribes lines of its document, a          *)
(* re-request is made only of rows that were read, only a window that calls  *)
(* holds a slot, and a window holds at least its best reply                  *)
(* (openai_extractor.py: _extract_window and its gates).                     *)
THEOREM ExtractionTypes == ExtractionSpec => []TypeOK
BY ExtractionStarts, NextTypes, PTL DEF ExtractionSpec

-----------------------------------------------------------------------------
(***************************************************************************)
(* The gates                                                                *)
(***************************************************************************)
LEMMA HoldersAre ==
    /\ \A slot, h : h \in Holders(slot) <=>
          \E d \in Docs : \E w \in DOMAIN window[d] : h = <<d, w>> /\ window[d][w].slot = slot
    /\ \A slot, h : h \in Holders(slot)' <=>
          \E d \in Docs : \E w \in DOMAIN window'[d] : h = <<d, w>> /\ window'[d][w].slot = slot
<1>1. \A slot, h : h \in Holders(slot) <=>
          \E d \in Docs : \E w \in DOMAIN window[d] : h = <<d, w>> /\ window[d][w].slot = slot
  BY DEF Holders
<1>2. \A slot, h : h \in Holders(slot)' <=>
          \E d \in Docs : \E w \in DOMAIN window'[d] : h = <<d, w>> /\ window'[d][w].slot = slot
  BY DEF Holders
<1> QED BY <1>1, <1>2

\* Where slots are only given back, the bounds stand.
LEMMA FewerHolders ==
    ASSUME CallsBounded, Holders("shared")' \subseteq Holders("shared"),
           Holders("reserved")' \subseteq Holders("reserved")
    PROVE  CallsBounded'
<1>1. /\ IsFiniteSet(Holders("shared")') /\ Cardinality(Holders("shared")') \in Nat
      /\ Cardinality(Holders("shared")) \in Nat
      /\ Cardinality(Holders("shared")') <= Cardinality(Holders("shared"))
  BY FS_Subset, FS_CardinalityType DEF CallsBounded
<1> QED BY <1>1, ConcurrencyAssumption DEF CallsBounded

LEMMA GatesStart == ExtractionInit => CallsBounded
<1> SUFFICES ASSUME ExtractionInit PROVE CallsBounded
  OBVIOUS
<1>1. \A d \in Docs : DOMAIN window[d] = {}
  BY DEF ExtractionInit, ExtractionAtRest
<1>2. Holders("shared") = {} /\ Holders("reserved") = {}
  BY <1>1, HoldersAre
<1> QED BY <1>2, FS_EmptySet, ConcurrencyAssumption DEF CallsBounded

\* A window takes a slot only while its gate is free.
LEMMA MoveHolds ==
    ASSUME TypeOK, CallsBounded, NEW d \in Docs, NEW w \in DOMAIN window[d], NEW new,
           Moves(d, w, new), MayHold(new)
    PROVE  CallsBounded'
<1>1. /\ DOMAIN window' = Docs /\ DOMAIN window'[d] = DOMAIN window[d]
      /\ \A e \in Docs \ {d} : window'[e] = window[e]
      /\ \A v \in DOMAIN window[d] \ {w} : window'[d][v] = window[d][v]
      /\ window'[d][w] = new
  BY AfterMove
<1>2. \A slot : Holders(slot)' \subseteq Holders(slot) \cup {<<d, w>>}
  BY <1>1, HoldersAre
<1>3. \A slot : new.slot # slot => Holders(slot)' \subseteq Holders(slot)
  BY <1>1, HoldersAre
<1>4. CASE new.slot = "none"
  BY <1>3, <1>4, FewerHolders
<1>5. CASE new.slot = "shared" /\ PermitFree
  <2>1. Holders("reserved")' \subseteq Holders("reserved")
    BY <1>3, <1>5
  <2> DEFINE more == Holders("shared") \cup {<<d, w>>}
  <2>2. /\ IsFiniteSet(more) /\ Cardinality(more) <= Concurrency
    <3>1. /\ IsFiniteSet(Holders("shared")) /\ Cardinality(Holders("shared")) < Concurrency
          /\ Cardinality(Holders("shared")) \in Nat
      BY <1>5, FS_CardinalityType DEF CallsBounded, PermitFree
    <3>2. /\ IsFiniteSet(more)
          /\ Cardinality(more) = Cardinality(Holders("shared"))
                \/ Cardinality(more) = Cardinality(Holders("shared")) + 1
      BY <3>1, FS_AddElement
    <3> QED BY <3>1, <3>2, ConcurrencyAssumption
  <2>3. Holders("shared")' \subseteq more
    BY <1>2
  <2> HIDE DEF more
  <2>4. /\ IsFiniteSet(Holders("shared")') /\ Cardinality(Holders("shared")') <= Cardinality(more)
        /\ Cardinality(Holders("shared")') \in Nat /\ Cardinality(more) \in Nat
    BY <2>2, <2>3, FS_Subset, FS_CardinalityType
  <2> QED BY <2>1, <2>2, <2>4, ConcurrencyAssumption DEF CallsBounded
<1>6. CASE new.slot = "reserved" /\ Holders("reserved") = {}
  <2>1. Holders("shared")' \subseteq Holders("shared")
    BY <1>3, <1>6
  <2>2. Holders("reserved")' \subseteq {<<d, w>>}
    BY <1>2, <1>6
  <2>3. /\ IsFiniteSet(Holders("shared")') /\ Cardinality(Holders("shared")') \in Nat
        /\ Cardinality(Holders("shared")) \in Nat
        /\ Cardinality(Holders("shared")') <= Cardinality(Holders("shared"))
    BY <2>1, FS_Subset, FS_CardinalityType DEF CallsBounded
  <2> QED BY <2>2, <2>3, ConcurrencyAssumption DEF CallsBounded
<1> QED BY <1>4, <1>5, <1>6 DEF MayHold

\* Windows that are replaced hold nothing.
LEMMA NewWindowsHoldNothing ==
    ASSUME TypeOK, CallsBounded, NEW d \in Docs,
           DOMAIN window' = Docs, \A e \in Docs \ {d} : window'[e] = window[e],
           \A w \in DOMAIN window'[d] : window'[d][w].slot = "none"
    PROVE  CallsBounded'
<1>1. \A slot \in {"shared", "reserved"} : Holders(slot)' \subseteq Holders(slot)
  BY HoldersAre
<1> QED BY <1>1, FewerHolders

LEMMA SameWindowsHold ==
    ASSUME CallsBounded, UNCHANGED window
    PROVE  CallsBounded'
<1>1. \A slot \in {"shared", "reserved"} : Holders(slot)' \subseteq Holders(slot)
  BY HoldersAre
<1> QED BY <1>1, FewerHolders

LEMMA GatesStep == TypeOK /\ CallsBounded /\ [ExtractionNext]_extractionVars => CallsBounded'
<1> SUFFICES ASSUME TypeOK, CallsBounded, [ExtractionNext]_extractionVars PROVE CallsBounded'
  OBVIOUS
<1>1. CASE UNCHANGED extractionVars
  BY <1>1, SameWindowsHold DEF extractionVars
<1>2. ASSUME NEW d \in Docs, DocumentStep(d) \/ BudgetEnds(d) PROVE CallsBounded'
  <2>1. CASE Begin(d)
    BY <2>1, BeginTypes, NewWindowsHoldNothing
  <2>2. CASE ColumnsAnswered(d)
    BY <2>2, ColumnsAnsweredTypes, NewWindowsHoldNothing
  <2>3. CASE ColumnsLost(d)
    BY <2>3, ColumnsLostTypes, NewWindowsHoldNothing, SameWindowsHold
  <2>4. CASE Finish(d) \/ BudgetEnds(d)
    BY <2>4, FinishTypes, BudgetTypes, SameWindowsHold
  <2> QED BY <1>2, <2>1, <2>2, <2>3, <2>4 DEF DocumentStep
<1>3. ASSUME NEW d \in Docs, NEW w \in DOMAIN window[d], WindowStep(d, w) PROVE CallsBounded'
  BY <1>3, WindowStepMoves, MoveHolds
<1> QED BY <1>1, <1>2, <1>3 DEF ExtractionNext

(* At no moment are more calls in flight than the gate has permits and the   *)
(* one reserved slot: whatever fails, is cut off by the budget or asked      *)
(* again, a slot is taken only while free and is held only by a call         *)
(* (openai_extractor.py: the shared semaphore, the reserved packing slot).   *)
THEOREM GatesHold == ExtractionSpec => []CallsBounded
<1>1. ExtractionSpec => []TypeOK
  BY ExtractionTypes
<1> QED BY <1>1, GatesStart, GatesStep, PTL DEF ExtractionSpec

-----------------------------------------------------------------------------
(***************************************************************************)
(* Rows that were paid for                                                  *)
(***************************************************************************)
Untouched(d) ==
    /\ document' = document /\ phase'[d] = phase[d] /\ window'[d] = window[d]
    /\ heard'[d] = heard[d] /\ result'[d] = result[d]

DocumentMoves(d) ==
    DocumentStep(d) \/ BudgetEnds(d) \/ \E w \in DOMAIN window[d] : WindowStep(d, w)

\* A step of one document leaves the others alone.
LEMMA OthersUntouched ==
    ASSUME TypeOK, NEW e \in Docs, DocumentMoves(e), NEW d \in Docs, d # e
    PROVE  Untouched(d)
<1>1. /\ phase \in [Docs -> {"none", "new", "columns", "reading", "done", "failed", "over"}]
      /\ DOMAIN window = Docs /\ DOMAIN heard = Docs /\ DOMAIN result = Docs
  BY DEF TypeOK
<1>2. ASSUME NEW owned, Reads(e, owned)
      PROVE  phase'[d] = phase[d] /\ window'[d] = window[d] /\ heard'[d] = heard[d]
  BY <1>1, <1>2 DEF Reads
<1>3. CASE Begin(e)
  BY <1>1, <1>2, <1>3 DEF Begin, Untouched
<1>4. CASE ColumnsAnswered(e)
  BY <1>1, <1>2, <1>4 DEF ColumnsAnswered, Untouched
<1>5. CASE ColumnsLost(e)
  BY <1>1, <1>2, <1>5 DEF ColumnsLost, Untouched
<1>6. CASE Finish(e)
  <2>1. /\ UNCHANGED <<document, window, heard>>
        /\ \E end : phase' = [phase EXCEPT ![e] = end]
        /\ UNCHANGED result \/ \E r : result' = [result EXCEPT ![e] = r]
    BY <1>6 DEF Finish
  <2> QED BY <1>1, <2>1 DEF Untouched
<1>7. CASE BudgetEnds(e)
  BY <1>7 DEF BudgetEnds, Untouched
<1>8. ASSUME NEW w \in DOMAIN window[e], WindowStep(e, w)
      PROVE  Untouched(d)
  <2>1. PICK new : Moves(e, w, new)
    BY <1>8, WindowStepMoves
  <2>2. window'[d] = window[d]
    BY <2>1, AfterMove
  <2> QED BY <2>1, <2>2 DEF Moves, restOfDoc, Untouched
<1> QED BY <1>3, <1>4, <1>5, <1>6, <1>7, <1>8 DEF DocumentMoves, DocumentStep

\* A document that has ended stays; one that ends was finished, or had lost its
\* columns.
LEMMA Ending ==
    ASSUME TypeOK, [ExtractionNext]_extractionVars, NEW d \in Docs,
           phase'[d] \in {"done", "over"}
    PROVE  \/ Untouched(d)
           \/ Finish(d)
           \/ phase'[d] = "over" /\ ColumnsLost(d)
<1>1. CASE UNCHANGED extractionVars
  BY <1>1 DEF extractionVars, Untouched
<1>2. ASSUME NEW e \in Docs, DocumentMoves(e), e # d PROVE Untouched(d)
  BY <1>2, OthersUntouched
<1>3. CASE DocumentMoves(d)
  <2>1. phase \in [Docs -> {"none", "new", "columns", "reading", "done", "failed", "over"}]
    BY DEF TypeOK
  <2>2. ASSUME NEW owned, Reads(d, owned) PROVE FALSE
    BY <2>1, <2>2 DEF Reads
  <2>3. CASE Begin(d)
    BY <2>1, <2>2, <2>3 DEF Begin
  <2>4. CASE ColumnsAnswered(d)
    BY <2>2, <2>4 DEF ColumnsAnswered
  <2>5. CASE ColumnsLost(d)
    <3>1. phase' = [phase EXCEPT ![d] = "over"]
      BY <2>2, <2>5 DEF ColumnsLost
    <3> QED BY <2>1, <2>5, <3>1
  <2>6. CASE BudgetEnds(d)
    BY <2>1, <2>6 DEF BudgetEnds, Untouched
  <2>7. ASSUME NEW w \in DOMAIN window[d], WindowStep(d, w) PROVE FALSE
    <3>1. PICK new : Moves(d, w, new)
      BY <2>7, WindowStepMoves
    <3>2. phase[d] \notin {"done", "over"}
      BY <3>1, MovesWhileReading
    <3> QED BY <3>1, <3>2 DEF Moves, restOfDoc
  <2> QED BY <1>3, <2>3, <2>4, <2>5, <2>6, <2>7 DEF DocumentMoves, DocumentStep
<1> QED BY <1>1, <1>2, <1>3 DEF ExtractionNext, DocumentMoves

PaidFor(d) ==
    \A w \in DOMAIN window[d] \ {0} :
        /\ phase[d] = "done" =>
             /\ Cardinality(window[d][w].outer.rows) >= heard[d][w]
             /\ \A r \in InScope(window[d][w]) : \E q \in result[d].rows :
                    <<q.page, q.line, q.by, q.copy>> = <<r.page, r.line, r.by, r.copy>>
        /\ phase[d] = "over" => heard[d][w] = 0

LEMMA UntouchedPaid ==
    ASSUME NEW d, PaidFor(d), Untouched(d) PROVE PaidFor(d)'
BY DEF PaidFor, Untouched, InScope

\* Grounding may take a row's value, never the row.
LEMMA GroundedKeepsRows ==
    ASSUME NEW d, NEW rows \in SUBSET Row(d), NEW r \in rows
    PROVE  \E q \in Grounded(d, rows).rows :
               <<q.page, q.line, q.by, q.copy>> = <<r.page, r.line, r.by, r.copy>>
<1> DEFINE bare == [r EXCEPT !.value = "none"]
<1>1. /\ bare.page = r.page /\ bare.line = r.line /\ bare.by = r.by /\ bare.copy = r.copy
  BY DEF Row
<1>2. bare \in Grounded(d, rows).rows \/ r \in Grounded(d, rows).rows
  BY DEF Grounded
<1> HIDE DEF bare
<1> QED BY <1>1, <1>2

\* The rows the parser read are rows of the document.
LEMMA ParsedRowsAreRows ==
    ASSUME NEW d, document[d] \in Printable, NEW pages \in SUBSET Pages(d), NEW remembered
    PROVE  /\ RowsOfPages(d, pages, remembered) \in SUBSET Row(d)
           /\ \A r \in RowsOfPages(d, pages, remembered) : r.copy = 0
<1> SUFFICES ASSUME NEW p \in pages, NEW r \in ParsedRows(d, p, remembered)
             PROVE  r \in Row(d) /\ r.copy = 0
  BY DEF RowsOfPages
<1>1. PICK i \in GoodsLines(d, p) :
          r = [page |-> p, line |-> i, value |-> "printed", by |-> -1, copy |-> 0]
  BY DEF ParsedRows
<1>2. p \in Pages(d) /\ i \in Lines(d, p) /\ Line(d, p, i).goods /\ i \in Nat
  BY <1>1, PageFacts DEF GoodsLines
<1>3. /\ r \in [page : Pages(d), line : Nat, value : {"printed", "elsewhere", "foreign"},
                by : -1..(Len(document[d].pages) + 1), copy : {0, 1}]
      /\ r.page = p /\ r.line = i /\ r.copy = 0
  BY <1>1, <1>2, PageFacts
<1> QED BY <1>2, <1>3 DEF Row

(* What Finish puts together.                                               *)
Read(d) == {w \in DOMAIN window[d] : ~window[d][w].lost \/ window[d][w].outer.valid}
Raw(d) ==
    RowsOfPages(d, ParserPages(d), Remembered(d)) \cup UNION {InScope(window[d][w]) : w \in Read(d)}

LEMMA RawIsRows ==
    ASSUME TypeOK, NEW d \in Docs, phase[d] # "none"
    PROVE  Raw(d) \in SUBSET Row(d) /\ Paired(Raw(d))
<1>1. document[d] \in Printable
  BY DocumentFacts
<1>2. ParserPages(d) \in SUBSET Pages(d)
  BY DEF ParserPages, Confirmed
<1>3. /\ RowsOfPages(d, ParserPages(d), Remembered(d)) \in SUBSET Row(d)
      /\ \A r \in RowsOfPages(d, ParserPages(d), Remembered(d)) : r.copy = 0
  BY <1>1, <1>2, ParsedRowsAreRows
<1>4. ASSUME NEW w \in DOMAIN window[d]
      PROVE  InScope(window[d][w]) \in SUBSET Row(d) /\ Paired(InScope(window[d][w]))
  <2>1. /\ window[d][w].outer.rows \in SUBSET Row(d) /\ Paired(window[d][w].outer.rows)
    BY <1>4, WindowOfDocument, WindowFacts
  <2> QED BY <2>1 DEF InScope, Paired
<1>5. Raw(d) \in SUBSET Row(d)
  BY <1>3, <1>4 DEF Raw, Read
<1>6. Paired(Raw(d))
  <2> SUFFICES ASSUME NEW r \in Raw(d), r.copy # 0
               PROVE  \E q \in Raw(d) : <<q.page, q.line, q.copy>> = <<r.page, r.line, 0>>
    BY DEF Paired
  <2>1. PICK w \in Read(d) : r \in InScope(window[d][w])
    BY <1>3 DEF Raw
  <2>2. w \in DOMAIN window[d]
    BY DEF Read
  <2>3. PICK q \in InScope(window[d][w]) : <<q.page, q.line, q.copy>> = <<r.page, r.line, 0>>
    BY <1>4, <2>1, <2>2 DEF Paired
  <2> QED BY <2>1, <2>3 DEF Raw
<1> QED BY <1>5, <1>6

LEMMA JudgedRows ==
    \A d, raw, said, lost : Judged(d, raw, said, lost).rows = Grounded(d, raw).rows
BY DEF Judged

\* How a finished document ends.
LEMMA FinishFacts ==
    ASSUME TypeOK, NEW d \in Docs, Finish(d)
    PROVE  /\ phase[d] = "reading" /\ UNCHANGED <<document, window, heard, late>>
           /\ phase'[d] = "over" => Read(d) = {}
           /\ phase'[d] = "done" => \E said, lost : result'[d] = Judged(d, Raw(d), said, lost)
<1>1. d \in DOMAIN result /\ d \in DOMAIN phase
  BY DEF TypeOK
<1>2. phase[d] = "reading" /\ UNCHANGED <<document, window, heard, late>>
  BY DEF Finish
<1>3. \/ phase' = [phase EXCEPT ![d] = "failed"]
      \/ phase' = [phase EXCEPT ![d] = "over"] /\ Read(d) = {}
      \/ phase' = [phase EXCEPT ![d] = "done"]
         /\ \E said, lost : result' = [result EXCEPT ![d] = Judged(d, Raw(d), said, lost)]
  <2> DEFINE said == UNION {window[d][w].said : w \in DOMAIN window[d]}
                     \cup (IF \E w \in Read(d) \ {0} : InScope(window[d][w]) # window[d][w].outer.rows
                           THEN {"CONTEXT_ROWS_DROPPED"} ELSE {})
                     \cup (IF 0 \in DOMAIN window[d] \/ ~AddsUp(d, FALSE)
                           THEN {"TABLE_PARSER"} ELSE {})
             lost == \E w \in DOMAIN window[d] : window[d][w].lost
  <2> HIDE DEF said, lost
  <2>1. IF \E w \in DOMAIN window[d] : window[d][w].error
        THEN phase' = [phase EXCEPT ![d] = "failed"]
        ELSE IF Read(d) = {} /\ 0 \notin DOMAIN window[d]
        THEN phase' = [phase EXCEPT ![d] = "over"]
        ELSE /\ phase' = [phase EXCEPT ![d] = "done"]
             /\ result' = [result EXCEPT ![d] = Judged(d, Raw(d), said, lost)]
    BY Zenon DEF Finish, Read, Raw, said, lost
  <2> QED BY <2>1
<1> QED BY <1>1, <1>2, <1>3

LEMMA FinishPaid ==
    ASSUME TypeOK, NEW d \in Docs, Finish(d)
    PROVE  PaidFor(d)'
<1>1. /\ phase[d] = "reading" /\ UNCHANGED <<document, window, heard, late>>
      /\ phase'[d] = "over" => Read(d) = {}
      /\ phase'[d] = "done" => \E said, lost : result'[d] = Judged(d, Raw(d), said, lost)
  BY FinishFacts
<1> SUFFICES ASSUME NEW w \in DOMAIN window[d]
             PROVE  /\ phase'[d] = "done" =>
                         /\ Cardinality(window[d][w].outer.rows) >= heard[d][w]
                         /\ \A r \in InScope(window[d][w]) : \E q \in result'[d].rows :
                               <<q.page, q.line, q.by, q.copy>> = <<r.page, r.line, r.by, r.copy>>
                    /\ phase'[d] = "over" => heard[d][w] = 0
  BY <1>1 DEF PaidFor, InScope
<1>2. /\ WindowOK(d, window[d][w]) /\ Holds(window[d][w], heard[d][w])
      /\ document[d] \in Printable
  BY WindowOfDocument
<1>3. /\ window[d][w].outer.rows \in SUBSET Row(d)
      /\ ~window[d][w].outer.valid => window[d][w].outer.rows = {}
      /\ window[d][w].outer.valid \in BOOLEAN
  BY <1>2, WindowFacts
<1>4. Cardinality(window[d][w].outer.rows) \in Nat
  BY <1>2, <1>3, RowSetFacts
<1>5. ASSUME phase'[d] = "done", NEW r \in InScope(window[d][w])
      PROVE  \E q \in result'[d].rows :
                <<q.page, q.line, q.by, q.copy>> = <<r.page, r.line, r.by, r.copy>>
  <2>1. w \in Read(d) /\ r \in Raw(d)
    BY <1>3, <1>5 DEF Read, Raw, InScope
  <2>2. result'[d].rows = Grounded(d, Raw(d)).rows
    BY <1>1, <1>5, JudgedRows
  <2>3. Raw(d) \in SUBSET Row(d)
    BY <1>1, RawIsRows
  <2> QED BY <2>1, <2>2, <2>3, GroundedKeepsRows
<1>6. ASSUME phase'[d] = "over" PROVE heard[d][w] = 0
  <2>1. w \notin Read(d)
    BY <1>1, <1>6
  <2>2. ~window[d][w].outer.valid
    BY <2>1 DEF Read
  <2> QED BY <1>2, <2>2 DEF Holds
<1>7. Cardinality(window[d][w].outer.rows) >= heard[d][w]
  BY <1>2, <1>4 DEF Holds
<1> QED BY <1>5, <1>6, <1>7

LEMMA LostPaid ==
    ASSUME TypeOK, NEW d \in Docs, ColumnsLost(d), phase'[d] = "over"
    PROVE  PaidFor(d)'
<1>1. DOMAIN window[d] = {0} /\ phase \in [Docs ->
          {"none", "new", "columns", "reading", "done", "failed", "over"}]
  BY DEF TypeOK, DocumentOK, ColumnsLost
<1>2. UNCHANGED window
  BY <1>1 DEF ColumnsLost, Reads
<1> QED BY <1>1, <1>2 DEF PaidFor

LEMMA PaidStep ==
    TypeOK /\ PaidRowsKept /\ [ExtractionNext]_extractionVars => PaidRowsKept'
<1> SUFFICES ASSUME TypeOK, PaidRowsKept, [ExtractionNext]_extractionVars, NEW d \in Docs
             PROVE  PaidFor(d)'
  BY DEF PaidRowsKept, PaidFor
<1>1. PaidFor(d)
  BY DEF PaidRowsKept, PaidFor
<1>2. CASE phase'[d] \in {"done", "over"}
  BY <1>1, <1>2, Ending, UntouchedPaid, FinishPaid, LostPaid
<1>3. CASE phase'[d] \notin {"done", "over"}
  BY <1>3 DEF PaidFor
<1> QED BY <1>2, <1>3

(* Rows a call was paid for are never given back, whatever the replies were  *)
(* and however the windows overlapped, failed or were cut off by the budget  *)
(* (openai_extractor.py: the shrink check, the abort that keeps the last     *)
(* valid reply, the merge of the partial windows).                           *)
THEOREM PaidRowsStay == ExtractionSpec => []PaidRowsKept
<1>1. ExtractionSpec => []TypeOK
  BY ExtractionTypes
<1>2. ExtractionInit => PaidRowsKept
  <2> SUFFICES ASSUME ExtractionInit PROVE PaidRowsKept
    OBVIOUS
  <2>1. \A d \in Docs : DOMAIN window[d] = {}
    BY DEF ExtractionInit, ExtractionAtRest
  <2> QED BY <2>1 DEF PaidRowsKept
<1> QED BY <1>1, <1>2, PaidStep, PTL DEF ExtractionSpec

-----------------------------------------------------------------------------
(***************************************************************************)
(* Counting                                                                 *)
(***************************************************************************)
\* A nonempty set of numbers has a least one.
LEMMA LeastOf ==
    ASSUME NEW S \in SUBSET Nat, S # {}
    PROVE  \E n \in S : \A m \in S : n <= m
<1>1. IsWellFoundedOn({ss \in Nat \X Nat : ss[1] < ss[2]}, Nat)
  BY NatLessThanWellFounded DEF OpToRel
<1>2. PICK n \in S : \A m \in S : <<m, n>> \notin {ss \in Nat \X Nat : ss[1] < ss[2]}
  BY <1>1, WFMin
<1>3. ASSUME NEW m \in S PROVE n <= m
  <2>1. ~(m < n)
    BY <1>2
  <2> QED BY <2>1
<1> QED BY <1>3

Anchored(d, s) == UNION {{<<p, i>> : i \in Anchors(d, p)} : p \in s}

\* One page more counts its own anchors more.
LEMMA AnchorsAdd ==
    ASSUME NEW d, document[d] \in Printable, NEW s \in SUBSET Pages(d), NEW x \in s
    PROVE  /\ IsFiniteSet(Anchored(d, s)) /\ Cardinality(Anchored(d, s)) \in Nat
           /\ Cardinality(Anchored(d, s)) =
                 Cardinality(Anchors(d, x)) + Cardinality(Anchored(d, s \ {x}))
<1> DEFINE own == {<<x, i>> : i \in Anchors(d, x)}
           others == Anchored(d, s \ {x})
           tag == [i \in Anchors(d, x) |-> <<x, i>>]
           T == UNION {{p} \X Lines(d, p) : p \in Pages(d)}
<1>1. IsFiniteSet(T)
  <2> DEFINE page == [p \in Pages(d) |-> {p} \X Lines(d, p)]
  <2>1. IsFiniteSet(Pages(d))
    BY PageFacts, FS_Interval
  <2>2. \A p \in Pages(d) : IsFiniteSet(page[p])
    <3> SUFFICES ASSUME NEW p \in Pages(d) PROVE IsFiniteSet({p} \X Lines(d, p))
      OBVIOUS
    <3> DEFINE n == Len(document[d].pages[p].lines)
    <3>1. Lines(d, p) = 1..n /\ n \in Nat
      BY PageFacts
    <3> HIDE DEF n
    <3>2. IsFiniteSet(1..n)
      BY <3>1, FS_Interval
    <3>3. IsFiniteSet({p})
      BY FS_Singleton
    <3> QED BY <3>1, <3>2, <3>3, FS_Product
  <2>3. page \in Surjection(Pages(d), {page[p] : p \in Pages(d)})
    BY DEF Surjection
  <2>4. IsFiniteSet({page[p] : p \in Pages(d)})
    BY <2>1, <2>3, FS_Surjection
  <2>5. T = UNION {page[p] : p \in Pages(d)}
    OBVIOUS
  <2> HIDE DEF page
  <2> QED BY <2>2, <2>4, <2>5, FS_UNION
<1>2. own \subseteq T /\ others \subseteq T /\ Anchors(d, x) \subseteq Lines(d, x)
  BY DEF Anchored, Anchors, GoodsLines
<1>3. Anchored(d, s) = own \cup others /\ own \cap others = {}
  BY DEF Anchored
<1>4. IsFiniteSet(own) /\ IsFiniteSet(others)
  BY <1>1, <1>2, FS_Subset
<1>5. Cardinality(own) = Cardinality(Anchors(d, x))
  <2>1. tag \in Injection(Anchors(d, x), own) /\ tag \in Surjection(Anchors(d, x), own)
    BY DEF Injection, Surjection, IsInjective
  <2> QED BY <1>4, <2>1, FS_Injection
<1> HIDE DEF own, others
<1>6. /\ IsFiniteSet(own \cup others)
      /\ Cardinality(own \cup others) = Cardinality(own) + Cardinality(others)
      /\ Cardinality(own) \in Nat /\ Cardinality(others) \in Nat
  <2>1. Cardinality(own) \in Nat /\ Cardinality(others) \in Nat
    BY <1>4, FS_CardinalityType
  <2>2. /\ IsFiniteSet(own \cup others)
        /\ Cardinality(own \cup others) =
              Cardinality(own) + Cardinality(others) - Cardinality(own \cap others)
    BY <1>4, FS_Union
  <2>3. Cardinality(own \cap others) = 0
    BY <1>3, FS_EmptySet
  <2> QED BY <2>1, <2>2, <2>3
<1> QED BY <1>3, <1>5, <1>6 DEF others

\* The printed anchors of a document, page by page, are all its anchors.
LEMMA AnchorsCounted ==
    ASSUME NEW d, document[d] \in Printable
    PROVE  MapThenSumSet(LAMBDA p : Cardinality(Anchors(d, p)), Pages(d)) =
              Cardinality(Anchored(d, Pages(d)))
<1> DEFINE P == Pages(d)
           sums(h, s) == IF s = {} THEN 0
                         ELSE LET x == CHOOSE x \in s : TRUE
                              IN  Cardinality(Anchors(d, x)) + h[s \ {x}]
           sum == CHOOSE h : h = [s \in SUBSET P |-> sums(h, s)]
           count == [s \in SUBSET P |-> Cardinality(Anchored(d, s))]
<1>1. MapThenSumSet(LAMBDA p : Cardinality(Anchors(d, p)), P) = sum[P]
  BY DEF MapThenSumSet, MapThenFoldSet
<1>2. count[{}] = 0
  <2>1. Anchored(d, {}) = {}
    BY DEF Anchored
  <2> QED BY <2>1, FS_EmptySet
<1>3. ASSUME NEW s \in SUBSET P, NEW x \in s
      PROVE  count[s] = Cardinality(Anchors(d, x)) + count[s \ {x}]
  BY AnchorsAdd
<1> HIDE DEF P
<1>4. count = [s \in SUBSET P |-> sums(count, s)]
  <2>1. ASSUME NEW s \in SUBSET P PROVE count[s] = sums(count, s)
    <3>1. CASE s = {}
      BY <1>2, <3>1
    <3>2. CASE s # {}
      <4> DEFINE x == CHOOSE x \in s : TRUE
      <4>1. x \in s
        BY <3>2
      <4>2. sums(count, s) = Cardinality(Anchors(d, x)) + count[s \ {x}]
        BY <3>2
      <4> HIDE DEF x, count, sums
      <4> QED BY <1>3, <4>1, <4>2
    <3> QED BY <3>1, <3>2
  <2>2. count = [s \in SUBSET P |-> count[s]]
    OBVIOUS
  <2> HIDE DEF count, sums
  <2> QED BY <2>1, <2>2
<1>5. sum = [s \in SUBSET P |-> sums(sum, s)]
  <2> HIDE DEF count, sums
  <2> QED BY <1>4
<1>6. \A s \in SUBSET P : sum[s] = sums(sum, s)
  <2> HIDE DEF sum, sums
  <2> QED BY <1>5
<1> HIDE DEF sum, count
<1>7. IsFiniteSet(P)
  BY PageFacts, FS_Interval DEF P
<1>8. \A s \in SUBSET P : sum[s] = count[s]
  <2> DEFINE Bad == {n \in Nat : \E s \in SUBSET P : Cardinality(s) = n /\ sum[s] # count[s]}
  <2>1. Bad = {}
    <3> SUFFICES ASSUME Bad # {} PROVE FALSE
      OBVIOUS
    <3>1. PICK n \in Bad : \A m \in Bad : n <= m
      BY LeastOf
    <3>2. PICK s \in SUBSET P : Cardinality(s) = n /\ sum[s] # count[s]
      BY <3>1
    <3>3. CASE s = {}
      BY <1>2, <1>6, <3>2, <3>3
    <3>4. CASE s # {}
      <4> DEFINE x == CHOOSE x \in s : TRUE
                 t == s \ {x}
      <4>1. x \in s /\ sum[s] = Cardinality(Anchors(d, x)) + sum[t]
        BY <1>6, <3>4
      <4> HIDE DEF x
      <4>2. count[s] = Cardinality(Anchors(d, x)) + count[t]
        BY <1>3, <4>1
      <4>3. IsFiniteSet(s) /\ n \in Nat
        BY <1>7, <3>1, FS_Subset
      <4>4. Cardinality(t) = n - 1 /\ IsFiniteSet(t)
        BY <3>2, <4>1, <4>3, FS_RemoveElement
      <4>5. n - 1 \in Nat
        BY <4>4, FS_CardinalityType
      <4>6. n - 1 \notin Bad
        BY <3>1, <4>3, <4>5
      <4>7. sum[t] = count[t]
        BY <4>4, <4>5, <4>6
      <4> QED BY <3>2, <4>1, <4>2, <4>7
    <3> QED BY <3>3, <3>4
  <2> SUFFICES ASSUME NEW s \in SUBSET P, sum[s] # count[s] PROVE FALSE
    OBVIOUS
  <2>2. Cardinality(s) \in Nat
    BY <1>7, FS_Subset, FS_CardinalityType
  <2> QED BY <2>1, <2>2
<1> QED BY <1>1, <1>8 DEF count, P

\* Pigeonholes: if every place is taken and there are no more rows than places,
\* every row has a place of its own.
LEMMA OneRowPerPlace ==
    ASSUME NEW rows, IsFiniteSet(rows), NEW places, IsFiniteSet(places), NEW at,
           \A l \in places : \E r \in rows : at[r] = l,
           Cardinality(rows) <= Cardinality(places)
    PROVE  /\ \A r \in rows : at[r] \in places
           /\ \A r, q \in rows : at[r] = at[q] => r = q
           /\ Cardinality(rows) = Cardinality(places)
<1> DEFINE taker == [l \in places |-> CHOOSE r \in rows : at[r] = l]
<1>1. \A l \in places : taker[l] \in rows /\ at[taker[l]] = l
  OBVIOUS
<1>2. taker \in Injection(places, rows)
  <2>1. taker \in [places -> rows]
    BY <1>1
  <2>2. \A l, k \in places : taker[l] = taker[k] => l = k
    BY <1>1
  <2> HIDE DEF taker
  <2> QED BY <2>1, <2>2 DEF Injection, IsInjective
<1>3. Cardinality(rows) \in Nat /\ Cardinality(places) \in Nat
  BY FS_CardinalityType
<1>4. taker \in Surjection(places, rows) /\ Cardinality(rows) = Cardinality(places)
  BY <1>2, <1>3, FS_Injection
<1>5. \A r \in rows : \E l \in places : taker[l] = r
  BY <1>4 DEF Surjection
<1> HIDE DEF taker
<1> QED BY <1>1, <1>4, <1>5

-----------------------------------------------------------------------------
(***************************************************************************)
(* A result without a warning                                               *)
(***************************************************************************)
Goods(d) == UNION {{<<p, i>> : i \in GoodsLines(d, p)} : p \in Pages(d)}
Whole(d, rows) ==
    LET valued == Valued(d, rows)
        printed == UNION {{<<p, i, 0>> : i \in GoodsLines(d, p)} : p \in Pages(d)}
    IN  /\ {<<r.page, r.line, r.copy>> : r \in valued} = printed
        /\ Cardinality(valued) = Cardinality(printed)
        /\ document[d].role = "INVOICE" => \A r \in valued : r.value # "foreign"

\* What a result that says nothing says.
LEMMA CleanSays ==
    ASSUME NEW d, document[d] \in Printable, NEW raw \in SUBSET Row(d), NEW said, NEW lost,
           Judged(d, raw, said, lost).said \subseteq Informs
    PROVE  /\ Grounded(d, raw).said = {}
           /\ ~Overcounted(d, Grounded(d, raw).rows)
           /\ Errors(d, Grounded(d, raw).rows, Pages(d)) = {}
<1> DEFINE grounded == Grounded(d, raw)
           rows == grounded.rows
           errors == Errors(d, rows, Pages(d))
<1>1. document[d].role \in Chunkable
  BY PageFacts
<1>2. /\ grounded.said \subseteq Judged(d, raw, said, lost).said
      /\ Overcounted(d, rows) => "EXTRACTION_OVERCOUNT" \in Judged(d, raw, said, lost).said
      /\ {e.code : e \in errors} \subseteq Judged(d, raw, said, lost).said
  <2> HIDE DEF grounded
  <2>1. /\ grounded.said \subseteq Judged(d, raw, said, lost).said
        /\ Overcounted(d, rows) => "EXTRACTION_OVERCOUNT" \in Judged(d, raw, said, lost).said
    BY <1>1 DEF Judged, grounded
  <2>2. {e.code : e \in errors} \subseteq Judged(d, raw, said, lost).said
    BY <1>1 DEF Judged, grounded
  <2> QED BY <2>1, <2>2
<1>3. grounded.said \subseteq {"FRAGMENT_VALUES_UNPRINTED", "ROW_VALUE_UNPRINTED"}
  BY DEF Grounded
<1>4. \A e \in errors : e.code \in {"PAGE_ROWS_MISSING", "ROW_ANCHOR_MISSING"}
  BY DEF Errors
<1> HIDE DEF grounded, errors
<1> QED BY <1>2, <1>3, <1>4 DEF Informs, grounded, errors

\* Grounding that says nothing took nothing.
LEMMA CleanKeepsValues ==
    ASSUME NEW d, NEW raw \in SUBSET Row(d), Grounded(d, raw).said = {}
    PROVE  /\ Grounded(d, raw).rows = raw /\ Valued(d, raw) = raw
           /\ document[d].role = "INVOICE" => \A r \in raw :
                /\ r.value # "foreign"
                /\ ~(r.value = "elsewhere" /\ Line(d, r.page, r.line).id > 0
                     /\ ~Line(d, r.page, r.line).goods)
<1>1. \A r \in raw : r.value # "none"
  BY DEF Row
<1>2. Valued(d, raw) = raw
  BY <1>1 DEF Valued
<1>3. CASE document[d].role # "INVOICE"
  BY <1>2, <1>3 DEF Grounded
<1>4. CASE document[d].role = "INVOICE"
  <2>1. \A r \in raw : /\ r.value # "foreign"
                       /\ ~(r.value = "elsewhere" /\ Line(d, r.page, r.line).id > 0
                            /\ ~Line(d, r.page, r.line).goods)
    BY <1>4 DEF Grounded
  <2>2. Grounded(d, raw).rows = raw
    BY <1>4, <2>1 DEF Grounded
  <2> QED BY <1>2, <2>1, <2>2
<1> QED BY <1>3, <1>4

\* Where every identity is shown, every printed line has its row.
LEMMA IdentityFindsLine ==
    ASSUME NEW d, document[d] \in Printable, Identified(d), NEW raw \in SUBSET Row(d),
           Grounded(d, raw).said = {}, Errors(d, raw, Pages(d)) = {}, NEW l \in Goods(d)
    PROVE  \E r \in raw : <<r.page, r.line>> = l
<1>1. PICK p \in Pages(d) : \E i \in GoodsLines(d, p) : l = <<p, i>>
  BY DEF Goods
<1>2. PICK i \in GoodsLines(d, p) : l = <<p, i>>
  BY <1>1
<1>3. /\ \A k, m \in Goods(d) : /\ Line(d, k[1], k[2]).id > 0
                                /\ Line(d, k[1], k[2]).id = Line(d, m[1], m[2]).id => k = m
      /\ Budgeted(d) => \A q \in Pages(d) : \A j \in Lines(d, q) :
             Line(d, q, j).id > 0 => <<q, j>> \in Goods(d)
  BY DEF Identified, Goods
<1>4. Line(d, p, i).id > 0
  BY <1>2, <1>3
<1>5. i \in Anchors(d, p)
  BY <1>2, <1>4 DEF Anchors
<1>6. Covered(d, raw, p, i)
  BY <1>5 DEF Errors
<1>7. PICK r \in raw : Line(d, r.page, r.line).id = Line(d, p, i).id
  BY <1>6 DEF Covered
<1>8. /\ r.page \in Pages(d) /\ r.line \in Lines(d, r.page)
      /\ Line(d, r.page, r.line).goods \/ r.value = "elsewhere"
  BY DEF Row
<1>9. <<r.page, r.line>> \in Goods(d)
  <2>1. CASE Line(d, r.page, r.line).goods
    BY <1>8, <2>1 DEF Goods, GoodsLines
  <2>2. CASE ~Line(d, r.page, r.line).goods /\ document[d].role = "INVOICE"
    BY <1>4, <1>7, <1>8, <2>2, CleanKeepsValues
  <2>3. CASE document[d].role = "PACKING_LIST"
    BY <1>3, <1>4, <1>7, <1>8, <2>3 DEF Budgeted
  <2> QED BY <2>1, <2>2, <2>3, PageFacts DEF Chunkable
<1> QED BY <1>2, <1>3, <1>7, <1>9

\* The judgement: a result that only informs is the printed table.
LEMMA CleanIsWhole ==
    ASSUME NEW d, document[d] \in Printable, Identified(d), NEW raw \in SUBSET Row(d), Paired(raw),
           NEW said, NEW lost, Judged(d, raw, said, lost).said \subseteq Informs
    PROVE  Whole(d, Judged(d, raw, said, lost).rows)
<1> DEFINE at == [r \in raw |-> <<r.page, r.line>>]
           printed == UNION {{<<p, i, 0>> : i \in GoodsLines(d, p)} : p \in Pages(d)}
           tag == [l \in Goods(d) |-> <<l[1], l[2], 0>>]
<1>1. /\ Grounded(d, raw).said = {}
      /\ Grounded(d, raw).rows = raw /\ Valued(d, raw) = raw
      /\ document[d].role = "INVOICE" => \A r \in raw : r.value # "foreign"
  BY CleanSays, CleanKeepsValues
<1>2. ~Overcounted(d, raw) /\ Errors(d, raw, Pages(d)) = {}
  BY <1>1, CleanSays
<1>3. \A l \in Goods(d) : \E r \in raw : at[r] = l
  BY <1>1, <1>2, IdentityFindsLine
<1>4. Anchored(d, Pages(d)) = Goods(d) /\ Goods(d) # {}
  <2>1. /\ Goods(d) # {}
        /\ \A k \in Goods(d) : Line(d, k[1], k[2]).id > 0
    BY DEF Identified, Goods
  <2>2. \A p \in Pages(d) : Anchors(d, p) = GoodsLines(d, p)
    <3> SUFFICES ASSUME NEW p \in Pages(d), NEW i \in GoodsLines(d, p) PROVE Line(d, p, i).id > 0
      BY DEF Anchors
    <3>1. <<p, i>> \in Goods(d)
      BY DEF Goods
    <3> QED BY <2>1, <3>1
  <2> QED BY <2>1, <2>2 DEF Anchored, Goods
<1>5. /\ IsFiniteSet(Goods(d)) /\ Cardinality(Goods(d)) \in Nat /\ Cardinality(Goods(d)) > 0
  <2>1. PICK p \in Pages(d) : TRUE
    BY <1>4 DEF Goods
  <2>2. IsFiniteSet(Goods(d)) /\ Cardinality(Goods(d)) \in Nat
    BY <1>4, AnchorsAdd
  <2> QED BY <1>4, <2>2, FS_EmptySet
<1>6. IsFiniteSet(raw) /\ Cardinality(raw) \in Nat
  BY RowSetFacts
<1>7. Cardinality(raw) <= Cardinality(Goods(d))
  <2>1. MapThenSumSet(LAMBDA p : Cardinality(Anchors(d, p)), Pages(d)) = Cardinality(Goods(d))
    BY <1>4, AnchorsCounted
  <2>2. ~(Cardinality(Goods(d)) > 0 /\ Cardinality(raw) > Cardinality(Goods(d)))
    BY <1>1, <1>2, <2>1 DEF Overcounted
  <2> QED BY <1>5, <1>6, <2>2
<1>8. /\ \A r \in raw : at[r] \in Goods(d)
      /\ \A r, q \in raw : at[r] = at[q] => r = q
      /\ Cardinality(raw) = Cardinality(Goods(d))
  <2> HIDE DEF at
  <2> QED BY <1>3, <1>5, <1>6, <1>7, OneRowPerPlace
<1>9. \A r \in raw : r.copy = 0
  <2> SUFFICES ASSUME NEW r \in raw, r.copy # 0 PROVE FALSE
    OBVIOUS
  <2>1. PICK q \in raw : <<q.page, q.line, q.copy>> = <<r.page, r.line, 0>>
    BY DEF Paired
  <2>2. q = r
    BY <1>8, <2>1
  <2> QED BY <2>1, <2>2
<1>10. {<<r.page, r.line, r.copy>> : r \in raw} = printed
  <2>1. ASSUME NEW r \in raw PROVE <<r.page, r.line, r.copy>> \in printed
    <3>1. <<r.page, r.line>> \in Goods(d)
      BY <1>8
    <3> QED BY <1>9, <3>1 DEF Goods
  <2>2. ASSUME NEW x \in printed PROVE \E r \in raw : x = <<r.page, r.line, r.copy>>
    <3>1. PICK p \in Pages(d) : \E i \in GoodsLines(d, p) : x = <<p, i, 0>>
      OBVIOUS
    <3>2. PICK i \in GoodsLines(d, p) : x = <<p, i, 0>>
      BY <3>1
    <3>3. <<p, i>> \in Goods(d)
      BY <3>2 DEF Goods
    <3>4. PICK r \in raw : <<r.page, r.line>> = <<p, i>>
      BY <1>3, <3>3
    <3> QED BY <1>9, <3>2, <3>4
  <2> HIDE DEF printed
  <2> QED BY <2>1, <2>2
<1>11. Cardinality(printed) = Cardinality(Goods(d))
  <2>1. /\ \A l \in Goods(d) : tag[l] \in printed
        /\ \A l, k \in Goods(d) : tag[l] = tag[k] => l = k
        /\ \A x \in printed : \E l \in Goods(d) : tag[l] = x
    <3>1. ASSUME NEW p \in Pages(d), NEW i \in GoodsLines(d, p)
          PROVE  <<p, i>> \in Goods(d) /\ tag[<<p, i>>] = <<p, i, 0>> /\ <<p, i, 0>> \in printed
      BY DEF Goods
    <3>2. ASSUME NEW l \in Goods(d)
          PROVE  \E p \in Pages(d) : \E i \in GoodsLines(d, p) : l = <<p, i>>
      BY DEF Goods
    <3>3. ASSUME NEW x \in printed
          PROVE  \E p \in Pages(d) : \E i \in GoodsLines(d, p) : x = <<p, i, 0>>
      OBVIOUS
    <3> HIDE DEF tag, printed
    <3>4. ASSUME NEW l \in Goods(d), NEW k \in Goods(d), tag[l] = tag[k] PROVE l = k
      <4>1. PICK p \in Pages(d) : \E i \in GoodsLines(d, p) : l = <<p, i>>
        BY <3>2
      <4>2. PICK i \in GoodsLines(d, p) : l = <<p, i>>
        BY <4>1
      <4>3. PICK q \in Pages(d) : \E j \in GoodsLines(d, q) : k = <<q, j>>
        BY <3>2
      <4>4. PICK j \in GoodsLines(d, q) : k = <<q, j>>
        BY <4>3
      <4>5. tag[l] = <<p, i, 0>> /\ tag[k] = <<q, j, 0>>
        BY <3>1, <4>2, <4>4
      <4> QED BY <3>4, <4>2, <4>4, <4>5
    <3>5. ASSUME NEW l \in Goods(d) PROVE tag[l] \in printed
      <4>1. PICK p \in Pages(d) : \E i \in GoodsLines(d, p) : l = <<p, i>>
        BY <3>2
      <4> QED BY <3>1, <4>1
    <3>6. ASSUME NEW x \in printed PROVE \E l \in Goods(d) : tag[l] = x
      <4>1. PICK p \in Pages(d) : \E i \in GoodsLines(d, p) : x = <<p, i, 0>>
        BY <3>3
      <4> QED BY <3>1, <4>1
    <3> QED BY <3>4, <3>5, <3>6
  <2>2. tag \in Surjection(Goods(d), printed) /\ tag \in Injection(Goods(d), printed)
    <3> HIDE DEF printed
    <3> QED BY <2>1 DEF Surjection, Injection, IsInjective
  <2> HIDE DEF printed, tag
  <2> QED BY <1>5, <2>2, FS_Surjection
<1>12. Judged(d, raw, said, lost).rows = raw
  BY <1>1, JudgedRows
<1> QED BY <1>1, <1>8, <1>10, <1>11, <1>12 DEF Whole

CleanFor(d) ==
    (phase[d] = "done" /\ Identified(d) /\ result[d].said \subseteq Informs)
        => Whole(d, result[d].rows)

\* What is printed stands still.
LEMMA PrintStands ==
    ASSUME document' = document, NEW d, NEW rows
    PROVE  /\ Identified(d)' <=> Identified(d)
           /\ \A x : x = result'[d].rows => (Whole(d, result[d].rows)' <=> Whole(d, x))
<1>1. Pages(d)' = Pages(d) /\ \A p : Lines(d, p)' = Lines(d, p)
  BY DEF Pages, Lines
<1>2. \A p, i : Line(d, p, i)' = Line(d, p, i)
  BY DEF Line
<1>3. \A p : GoodsLines(d, p)' = GoodsLines(d, p)
  BY <1>1, <1>2 DEF GoodsLines
<1>4. Identified(d)' <=> Identified(d)
  BY <1>1, <1>2, <1>3 DEF Identified, Budgeted
<1>5. Whole(d, result[d].rows)' <=> Whole(d, result'[d].rows)
  <2>1. Valued(d, result[d].rows)' = Valued(d, result'[d].rows)
    BY DEF Valued
  <2>2. (UNION {{<<p, i, 0>> : i \in GoodsLines(d, p)} : p \in Pages(d)})'
        = UNION {{<<p, i, 0>> : i \in GoodsLines(d, p)} : p \in Pages(d)}
    BY <1>1, <1>3
  <2> QED BY <2>1, <2>2 DEF Whole
<1> QED BY <1>4, <1>5

LEMMA CleanStep ==
    TypeOK /\ CleanMeansComplete /\ [ExtractionNext]_extractionVars => CleanMeansComplete'
<1> SUFFICES ASSUME TypeOK, CleanMeansComplete, [ExtractionNext]_extractionVars, NEW d \in Docs,
                    phase'[d] = "done", Identified(d)', result'[d].said \subseteq Informs
             PROVE  Whole(d, result[d].rows)'
  BY DEF CleanMeansComplete, Whole
<1>1. CASE Untouched(d)
  <2>1. document' = document /\ phase[d] = "done" /\ result'[d] = result[d]
    BY <1>1 DEF Untouched
  <2>2. Whole(d, result[d].rows)
    BY <2>1, PrintStands DEF CleanMeansComplete, Whole
  <2> QED BY <2>1, <2>2, PrintStands
<1>2. CASE Finish(d)
  <2>1. /\ phase[d] = "reading" /\ document' = document
        /\ \E said, lost : result'[d] = Judged(d, Raw(d), said, lost)
    BY <1>2, FinishFacts
  <2>2. PICK said, lost : result'[d] = Judged(d, Raw(d), said, lost)
    BY <2>1
  <2>3. document[d] \in Printable /\ Raw(d) \in SUBSET Row(d) /\ Paired(Raw(d))
    BY <2>1, DocumentFacts, RawIsRows
  <2>4. Identified(d)
    BY <2>1, PrintStands
  <2>5. Whole(d, result'[d].rows)
    BY <2>2, <2>3, <2>4, CleanIsWhole
  <2> QED BY <2>1, <2>5, PrintStands
<1> QED BY <1>1, <1>2, Ending

(* A table whose goods lines print identities, and that is returned without  *)
(* a warning, holds exactly the rows the pages print, each once: whatever    *)
(* the replies were, however many windows read it, in which order, and       *)
(* whatever was lost on the way (openai_extractor.py: merge, scope filter,   *)
(* honesty passes; validator.py: anchors and empty pages).                   *)
THEOREM CleanResultsAreComplete == ExtractionSpec => []CleanMeansComplete
<1>1. ExtractionSpec => []TypeOK
  BY ExtractionTypes
<1>2. ExtractionInit => CleanMeansComplete
  <2> SUFFICES ASSUME ExtractionInit, NEW d \in Docs PROVE phase[d] # "done"
    BY DEF CleanMeansComplete
  <2> QED BY DEF ExtractionInit, ExtractionAtRest
<1> QED BY <1>1, <1>2, CleanStep, PTL DEF ExtractionSpec

=============================================================================
