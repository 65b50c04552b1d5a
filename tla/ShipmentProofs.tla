---------------------------- MODULE ShipmentProofs ----------------------------
(***************************************************************************)
(* Proofs about Shipment, for documents, entries and totals of any number   *)
(* and size: every table a reviewer is shown is exact or says why not, and  *)
(* the lines of an XML add up to the totals that were confirmed and its     *)
(* costs to the shipment's.  First what an allocation, a declaration and    *)
(* its costs promise when they are given figures; then that a job never     *)
(* gives them anything else, and that its invoices yield each printed row   *)
(* once, in its place; last the promises, of every job.                     *)
(***************************************************************************)
EXTENDS Shipment, ResolutionProofs

-----------------------------------------------------------------------------
(* The review and its table.                                                *)

\* The review on record was computed of documents and entries.
ReviewIsComputed ==
    review # NoReview => \E files, ov, hist : review = BuiltReview(files, ov, hist)

\* Such a review is the one its context gives.
LEMMA ReviewOfItsContext ==
    ASSUME ReviewIsComputed, review # NoReview
    PROVE  /\ review = ReviewOf(review.context)
           /\ \E files, ov, hist : review.context = Context(files, ov, hist)
<1>1. PICK files, ov, hist : review = BuiltReview(files, ov, hist)
  BY DEF ReviewIsComputed
<1>2. PICK c : c = Context(files, ov, hist)
  OBVIOUS
<1>3. review = ReviewOf(c)
  BY <1>1, <1>2 DEF BuiltReview
<1>4. review.context = c
  BY <1>3 DEF ReviewOf
<1> QED BY <1>2, <1>3, <1>4

\* No step touches the review but to discard it or to build it of documents.
LEMMA ReviewSteps ==
    Next => \/ review' = review \/ review' = NoReview
            \/ \E files, ov, hist : review' = BuiltReview(files, ov, hist)
<1> DEFINE Built == \E files, ov, hist : review' = BuiltReview(files, ov, hist)
<1> SUFFICES ASSUME Next PROVE review' = review \/ review' = NoReview \/ Built
  OBVIOUS
<1>1. ASSUME NEW f, Attach(f) PROVE review' = NoReview
  BY <1>1 DEF Attach
<1>2. CASE CriticalReview
  BY <1>2 DEF CriticalReview
<1>3. ASSUME NEW ov, Entered(ov) PROVE Built
  BY <1>3 DEF Entered
<1>4. ASSUME NEW k, NEW gross, NEW net, PinWeights(k, gross, net) PROVE Built
  BY <1>3, <1>4 DEF PinWeights
<1>5. ASSUME NEW k, NEW ctn, PinCartons(k, ctn) PROVE Built
  BY <1>3, <1>5 DEF PinCartons
<1>6. ASSUME NEW gross, NEW ctn, SetShipmentTotals(gross, ctn) PROVE Built
  BY <1>3, <1>6 DEF SetShipmentTotals
<1>7. CASE ApplyRemedy
  <2>1. \E gross, ctn : SetShipmentTotals(gross, ctn)
    BY <1>7 DEF ApplyRemedy
  <2> QED BY <1>6, <2>1
<1>8. ASSUME NEW k, NEW code, SelectHs(k, code) PROVE Built
  <2>1. \E ov : Entered(ov)
    BY <1>8 DEF SelectHs
  <2> QED BY <1>3, <2>1
<1>9. ASSUME NEW conf, NEW ticked, NEW override, NEW rate, Finalize(conf, ticked, override, rate)
      PROVE  review' = review
  BY <1>9 DEF Finalize
<1> HIDE DEF Built
<1> QED BY <1>1, <1>2, <1>4, <1>5, <1>6, <1>7, <1>8, <1>9 DEF Next

\* The review on record is always the one its context gives.
LEMMA ReviewStaysComputed == ReviewIsComputed /\ [Next]_vars => ReviewIsComputed'
<1> SUFFICES ASSUME ReviewIsComputed, [Next]_vars PROVE ReviewIsComputed'
  OBVIOUS
<1>1. CASE review' = review
  BY <1>1 DEF ReviewIsComputed
<1>2. CASE review' = NoReview
  BY <1>2 DEF ReviewIsComputed
<1>3. CASE \E files, ov, hist : review' = BuiltReview(files, ov, hist)
  BY <1>3 DEF ReviewIsComputed
<1>4. UNCHANGED vars => review' = review
  BY DEF vars
<1> QED BY <1>1, <1>2, <1>3, <1>4, ReviewSteps

\* The allocation behind the table of a review on record.
LEMMA TableIsAllocated ==
    ASSUME ReviewIsComputed, ReviewOK, Allocated
    PROVE  LET c == review.context
           IN  /\ FiguresOK(c.items, c.evidence) /\ c.items # << >>
               /\ c.ship.gross \in Nat /\ c.ship.gross > 0 /\ c.ship.packages \in Nat
               /\ review.table =
                    Allocate(c.items, c.evidence, c.packing, c.ship.gross, c.ship.packages)
<1>1. PICK c : c = review.context
  OBVIOUS
<1>2. review # NoReview /\ review.table # None
  BY DEF Allocated, NoReview
<1>3. review = ReviewOf(c) /\ ContextOK(c)
  BY <1>1, <1>2, ReviewOfItsContext DEF ReviewOK
<1>4. review.table = Preview(c)
  <2>1. ReviewOf(c).table = Preview(c)
    BY DEF ReviewOf
  <2> QED BY <1>3, <2>1
<1>5. c.ship.gross > 0 /\ c.items # << >>
      /\ review.table = Allocate(c.items, c.evidence, c.packing, c.ship.gross, c.ship.packages)
  BY <1>2, <1>4 DEF Preview
<1>6. FiguresOK(c.items, c.evidence) /\ c.ship.gross \in Nat /\ c.ship.packages \in Nat
  BY <1>3 DEF ContextOK
<1> QED BY <1>1, <1>5, <1>6

\* The table of a computed review reconciles.
LEMMA ComputedReconciles == ReviewIsComputed /\ ReviewOK => ReconcilesOrBlocks
<1> SUFFICES ASSUME ReviewIsComputed, ReviewOK, Allocated
             PROVE  ExactOrBlocked(Table, review.context.items,
                                   review.context.ship.gross, review.context.ship.packages)
  BY DEF ReconcilesOrBlocks
<1>1. PICK items, ev, packing, gross, packages :
        /\ items = review.context.items /\ ev = review.context.evidence
        /\ packing = review.context.packing
        /\ gross = review.context.ship.gross /\ packages = review.context.ship.packages
  OBVIOUS
<1>2. /\ gross \in Int /\ gross > 0 /\ packages \in Int /\ FiguresOK(items, ev) /\ items # << >>
      /\ Table = Allocate(items, ev, packing, gross, packages)
  BY <1>1, TableIsAllocated DEF Table
<1>3. ExactOrBlocked(Allocate(items, ev, packing, gross, packages), items, gross, packages)
  BY <1>2, AllocationReconciles
<1> QED BY <1>1, <1>2, <1>3

\* What PrintedFiguresMoveLast asks of a table t of these items.
PrintedLast(t, items, ev, packages) ==
    LET All == DOMAIN items
        free == {i \in All : items[i].pinCtn = 0}
        stated == {i \in free : ev[i].ctn > 0}
        share == NoPinBaseline(t.ctnWeight, packages)
    IN  /\ t.codes \cap GrossCodes = {} =>
             \A i \in All :
                (\/ InvoiceStates(items[i])
                 \/ NetFromUomQuantity(items[i]) > 0
                 \/ ev[i].net > 0) /\ items[i].pinNet = 0 =>
                    t.net[i] = NetLadder(items[i], ev[i]).net
        /\ /\ packages > 0
           /\ t.codes \cap CartonCodes = {}
           /\ \E i \in stated : t.ctn[i] # share[i]
           => \A i \in free \ stated : t.ctn[i] = MinCtn

\* The nets of an allocation move before what is printed does.
LEMMA AllocationNets ==
    ASSUME NEW items, NEW ev, FiguresOK(items, ev), items # << >>, NEW packing,
           NEW gross \in Nat, gross > 0, NEW packages \in Nat,
           NEW t, t = Allocate(items, ev, packing, gross, packages), t.codes \cap GrossCodes = {},
           NEW i \in DOMAIN items, items[i].pinNet = 0,
           InvoiceStates(items[i]) \/ NetFromUomQuantity(items[i]) > 0 \/ ev[i].net > 0
    PROVE  t.net[i] = NetLadder(items[i], ev[i]).net
<1>1. PICK l, g, weight, c :
          /\ Parted(t, items, ev, packing, gross, packages, l, g, weight, c)
          /\ LadderOK(l, items) /\ GrossGiven(g, items, l, gross)
  BY TableParts
<1>2. g.codes = {}
  BY <1>1 DEF Parted
<1>3. PICK it, e : it = items[i] /\ e = ev[i]
  OBVIOUS
<1> QED BY <1>1, <1>2, PrintedNets

\* The cartons a list states are the last to move.
CartonsLast(t, items, ev, packages) ==
    packages > 0 /\ t.codes \cap CartonCodes = {} =>
        \A i, j \in DOMAIN items :
            /\ items[i].pinCtn = 0 /\ ev[i].ctn > 0
            /\ t.ctn[i] # NoPinBaseline(t.ctnWeight, packages)[i]
            /\ items[j].pinCtn = 0 /\ ~(ev[j].ctn > 0)
            => t.ctn[j] = MinCtn

LEMMA AllocationCartons ==
    ASSUME NEW items, NEW ev, FiguresOK(items, ev), items # << >>, NEW packing,
           NEW gross \in Nat, gross > 0, NEW packages \in Nat,
           NEW t, t = Allocate(items, ev, packing, gross, packages)
    PROVE  CartonsLast(t, items, ev, packages)
<1> SUFFICES ASSUME packages > 0, t.codes \cap CartonCodes = {},
                    NEW i \in DOMAIN items, items[i].pinCtn = 0, ev[i].ctn > 0,
                    t.ctn[i] # NoPinBaseline(t.ctnWeight, packages)[i],
                    NEW j \in DOMAIN items, items[j].pinCtn = 0, ~(ev[j].ctn > 0)
             PROVE  t.ctn[j] = MinCtn
  BY DEF CartonsLast
<1> DEFINE S == DOMAIN items
           pin == CtnPinsOf(items)
           evidence == CtnStated(items, ev)
<1>1. PICK l, g, w, c :
          /\ Parted(t, items, ev, packing, gross, packages, l, g, w, c)
          /\ LadderOK(l, items) /\ GrossGiven(g, items, l, gross)
  BY TableParts
<1>2. /\ c = AllocateCartons(w, evidence, pin, packages)
      /\ DOMAIN w = S /\ Nats(w, S) /\ t.ctn = c.ctn /\ t.ctnWeight = w /\ c.codes = {}
  BY <1>1 DEF Parted
<1>3. S \in SUBSET Int /\ IsFiniteSet(S)
  BY DEF FiguresOK
<1>4. DOMAIN pin = S /\ Nats(pin, S)
  BY DEF CtnPinsOf, FiguresOK, Nats
<1>5. evidence \in SUBSET S /\ i \in evidence /\ j \in S \ evidence
  BY DEF CtnStated
<1>6. pin[i] = 0 /\ pin[j] = 0
  BY DEF CtnPinsOf
<1> HIDE DEF S, pin, evidence
<1>7. StatedLast(AllocateCartons(w, evidence, pin, packages), w, evidence, pin, packages)
  BY <1>2, <1>3, <1>4, <1>5, StatedMoveLast
<1>8. c.ctn[j] = MinCtn
  BY <1>2, <1>5, <1>6, <1>7 DEF StatedLast
<1> QED BY <1>2, <1>8

\* Both, of a whole table.
LEMMA AllocationPrintedLast ==
    ASSUME NEW items, NEW ev, FiguresOK(items, ev), items # << >>, NEW packing,
           NEW gross \in Nat, gross > 0, NEW packages \in Nat,
           NEW t, t = Allocate(items, ev, packing, gross, packages)
    PROVE  PrintedLast(t, items, ev, packages)
<1> DEFINE free == {i \in DOMAIN items : items[i].pinCtn = 0}
           stated == {i \in free : ev[i].ctn > 0}
           share == NoPinBaseline(t.ctnWeight, packages)
<1>1. ASSUME t.codes \cap GrossCodes = {}, NEW i \in DOMAIN items, items[i].pinNet = 0,
             InvoiceStates(items[i]) \/ NetFromUomQuantity(items[i]) > 0 \/ ev[i].net > 0
      PROVE  t.net[i] = NetLadder(items[i], ev[i]).net
  BY <1>1, AllocationNets
<1>2. ASSUME packages > 0, t.codes \cap CartonCodes = {},
             NEW i \in stated, t.ctn[i] # share[i], NEW j \in free \ stated
      PROVE  t.ctn[j] = MinCtn
  <2>1. /\ i \in DOMAIN items /\ items[i].pinCtn = 0 /\ ev[i].ctn > 0
        /\ j \in DOMAIN items /\ items[j].pinCtn = 0 /\ ~(ev[j].ctn > 0)
    OBVIOUS
  <2>2. t.ctn[i] # NoPinBaseline(t.ctnWeight, packages)[i]
    BY <1>2
  <2> HIDE DEF free, stated, share
  <2>3. CartonsLast(t, items, ev, packages)
    BY AllocationCartons
  <2> QED BY <1>2, <2>1, <2>2, <2>3 DEF CartonsLast
<1> QED BY <1>1, <1>2 DEF PrintedLast

\* Of the table of a review on record, the printed figures move last.
LEMMA ComputedPrintedLast == ReviewIsComputed /\ ReviewOK => PrintedFiguresMoveLast
<1> SUFFICES ASSUME ReviewIsComputed, ReviewOK, Allocated
             PROVE  PrintedLast(Table, review.context.items, review.context.evidence,
                                review.context.ship.packages)
  BY Zenon DEF PrintedFiguresMoveLast, PrintedLast
<1>1. PICK items, ev, packing, gross, packages, t :
        /\ items = review.context.items /\ ev = review.context.evidence
        /\ packing = review.context.packing /\ t = Table
        /\ gross = review.context.ship.gross /\ packages = review.context.ship.packages
  OBVIOUS
<1>2. /\ FiguresOK(items, ev) /\ items # << >> /\ gross \in Nat /\ gross > 0 /\ packages \in Nat
      /\ t = Allocate(items, ev, packing, gross, packages)
  BY <1>1, TableIsAllocated DEF Table
<1>3. PrintedLast(t, items, ev, packages)
  BY <1>2, AllocationPrintedLast
<1> QED BY <1>1, <1>3

-----------------------------------------------------------------------------
(* The declaration and its XML.                                             *)

LEMMA NaturalsAreWhole == \A n \in Nat : n \in Int
OBVIOUS

\* The totals a confirmation leaves in force are numbers of steps.
LEMMA ConfirmedTotals ==
    ASSUME NEW c, ContextOK(c), NEW conf \in Confirmations, NEW ticked, NEW reviewed,
           reviewed = D!MergeConfirmation(ReviewOf(c).values, conf, "", ticked)
    PROVE  /\ reviewed.values["gross"] \in Int /\ reviewed.values["packages"] \in Int
           /\ reviewed.confirmed = ticked
<1> DEFINE r == ReviewOf(c).values
           pick == [f \in D!Fields |-> IF conf[f] = Keep THEN r.values[f] ELSE conf[f]]
<1>1. /\ "gross" \in D!Fields /\ "packages" \in D!Fields
      /\ "gross" \notin D!Regime /\ "packages" \notin D!Regime
  BY DEF D!Fields, D!Regime
<1>2. r.values["gross"] = c.ship.printed /\ r.values["packages"] = c.ship.packages
  BY <1>1 DEF ReviewOf, D!BuildReview
<1>3. c.ship.printed \in Int /\ c.ship.packages \in Int
  <2>1. {c.ship.gross, c.ship.printed, c.ship.packages} \subseteq Nat
    BY DEF ContextOK
  <2> QED BY <2>1, NaturalsAreWhole, Zenon
<1> HIDE DEF r
<1>4. pick["gross"] \in Int /\ pick["packages"] \in Int
  BY <1>1, <1>2, <1>3, ConfirmationsAssumption
<1>5. DOMAIN pick = D!Fields
  OBVIOUS
<1>6. reviewed.values = [pick EXCEPT !["borderOffice"] = D!BorderOffice(r, conf, pick["office"]),
                                     !["gross"] = D!Kilograms(@, pick["unit"]),
                                     !["insurance"] = IF @ < 0 THEN 0 ELSE @]
      /\ reviewed.confirmed = ticked
  BY DEF D!MergeConfirmation, r
<1> HIDE DEF pick
<1>7. /\ reviewed.values["gross"] = D!Kilograms(pick["gross"], pick["unit"])
      /\ reviewed.values["packages"] = pick["packages"]
  BY <1>1, <1>5, <1>6
<1>8. D!Kilograms(pick["gross"], pick["unit"]) \in Int
  BY <1>4, KilogramsTyped
<1> QED BY <1>4, <1>6, <1>7, <1>8

\* A confirmation changes the codes of the items, not their figures.
LEMMA FinalItemsKeepFigures ==
    ASSUME NEW c, ContextOK(c), NEW override
    PROVE  /\ FiguresOK(FinalItems(c, override), c.evidence)
           /\ DOMAIN FinalItems(c, override) = DOMAIN c.items
           /\ \A k \in DOMAIN c.items :
                  \/ FinalItems(c, override)[k].hs = << >>
                  \/ FinalItems(c, override)[k].hs \in DOMAIN Official
<1> DEFINE out == FinalItems(c, override)
<1>1. DOMAIN out = DOMAIN c.items
  BY DEF FinalItems
<1>2. ASSUME NEW k \in DOMAIN c.items
      PROVE  /\ \A f \in {"value", "qty", "invWeight", "desc", "pinGross", "pinNet", "pinCtn"} :
                    out[k][f] = c.items[k][f]
             /\ out[k].hs = << >> \/ out[k].hs \in DOMAIN Official
  <2> DEFINE it == c.items[k]
             now == R!Resolution(it.hs, it.hsSource, it.hsExplicit)
             hs == IF override = << >> \/ override[1] # k THEN now
                   ELSE R!Reviewed(now, override[2], "MANUAL_OVERRIDE")
  <2>1. out[k] = [it EXCEPT !.hs = hs.code, !.hsSource = hs.source, !.hsExplicit = hs.explicit]
    BY DEF FinalItems
  <2>2. ItemFields \subseteq DOMAIN it /\ (it.hs = << >> \/ it.hs \in DOMAIN Official)
    BY DEF ContextOK
  <2>3. hs.code = it.hs \/ hs.code \in DOMAIN Official
    BY DEF R!Reviewed, R!Resolution
  <2> HIDE DEF it, hs, out
  <2>4. out[k].hs = hs.code
    BY <2>1, <2>2 DEF ItemFields
  <2>5. ASSUME NEW f \in {"value", "qty", "invWeight", "desc", "pinGross", "pinNet", "pinCtn"}
        PROVE  out[k][f] = it[f]
    <3>1. f \in DOMAIN it /\ f \notin {"hs", "hsSource", "hsExplicit"}
      BY <2>2 DEF ItemFields
    <3> QED BY <2>1, <3>1
  <2> QED BY <2>2, <2>3, <2>4, <2>5 DEF it
<1> HIDE DEF out
<1>3. FiguresOK(c.items, c.evidence)
  BY DEF ContextOK
<1>4. FiguresOK(out, c.evidence)
  BY <1>1, <1>2, <1>3 DEF FiguresOK
<1> QED BY <1>1, <1>2, <1>4 DEF out

\* What a line takes from its item and from its row of the table.
LEMMA LinesTake ==
    ASSUME NEW items, NEW t, NEW freights, NEW insurances, NEW lines,
           lines = Lines(items, t, freights, insurances)
    PROVE  /\ DOMAIN lines = DOMAIN items
           /\ \A k \in DOMAIN items :
                 /\ lines[k].gross = t.gross[k] /\ lines[k].net = t.net[k]
                 /\ lines[k].ctn = t.ctn[k] /\ lines[k].hs = items[k].hs
BY DEF Lines

\* A column of the lines adds up to the column of the table.
LEMMA ColumnsAddUp ==
    ASSUME NEW S, IsFiniteSet(S), NEW f, DOMAIN f = S, NEW g, g = [k \in S |-> f[k]]
    PROVE  SumFunction(g) = SumFunction(f)
<1>1. DOMAIN g = S /\ \A k \in S : g[k] = f[k]
  OBVIOUS
<1>2. Sum(g, S) = Sum(f, S)
  BY <1>1, SumSame
<1> QED BY <1>1, <1>2 DEF Sum, SumFunction

\* The sum the gates take is the sum of this module.
LEMMA SameSum == ASSUME NEW f PROVE D!SumFunction(f) = SumFunction(f)
BY DEF D!SumFunction, D!SumFunctionOnSet, D!FoldFunctionOnSet, D!MapThenFoldSet,
       SumFunction, SumFunctionOnSet, FoldFunctionOnSet, MapThenFoldSet

\* Cartons that are off the total by more than the tolerance fire their gate.
LEMMA CartonGate ==
    ASSUME NEW items, NEW reviewed, NEW within,
           LET ctn == SumFunction([k \in DOMAIN items |-> items[k].ctn])
               total == reviewed.values["packages"]
           IN  total > 0 /\ (ctn > total + within.ctn \/ ctn < total - within.ctn)
    PROVE  "CARTON_RECONCILIATION_FAILED" \in D!ItemGates(items, reviewed, within)
<1> DEFINE ctn == D!SumFunction([k \in DOMAIN items |-> items[k].ctn])
           total == reviewed.values["packages"]
           off == total > 0 /\ (ctn > total + within.ctn \/ ctn < total - within.ctn)
           code == "CARTON_RECONCILIATION_FAILED"
<1>1. D!Code(off, code) \subseteq D!ItemGates(items, reviewed, within)
  BY Zenon DEF D!ItemGates
<1>2. off
  BY SameSum
<1> HIDE DEF off, code
<1>3. code \in D!Code(off, code)
  BY <1>2 DEF D!Code
<1> QED BY <1>1, <1>3 DEF code

\* What the gates that fired say of the lines of an XML.
LEMMA GatesTell ==
    ASSUME NEW c, NEW reviewed, NEW lines, NEW t, NEW override, NEW blocking,
           blocking = Blocking(c, reviewed, lines, t, override), D!BuildXmlNow(lines, blocking)
    PROVE  /\ lines # << >>
           /\ t.codes \cap GrossCodes = {} /\ "WEIGHT_RECONCILIATION_IMPOSSIBLE" \notin t.codes
           /\ t.codes \cap CartonCodes \subseteq {"CARTON_ALLOCATION_IMPOSSIBLE"}
           /\ t.codes \subseteq blocking
           /\ LET ctn == SumFunction([k \in DOMAIN lines |-> lines[k].ctn])
                  v == reviewed.values
              IN  v["packages"] > 0 => /\ ~(ctn > v["packages"] + CtnTolerance)
                                       /\ ~(ctn < v["packages"] - CtnTolerance)
           /\ blocking = {} =>
                 /\ \A k \in DOMAIN lines : /\ lines[k].hs # << >>
                                            /\ \/ lines[k].hsSource # "SEMANTIC_DESCRIPTION"
                                               \/ lines[k].hsExplicit
                 /\ "field40" \in reviewed.confirmed
                 /\ reviewed.unitMissing => "authority" \in reviewed.confirmed
                 /\ ~(reviewed.values["gross"] <= 0) /\ ~(reviewed.values["packages"] <= 0)
<1> DEFINE v == reviewed.values
           ctn == SumFunction([k \in DOMAIN lines |-> lines[k].ctn])
           within == [gross |-> One \div 20, ctn |-> CtnTolerance]
           gates == D!ItemGates(lines, reviewed, within)
           final == D!FinalizeGates(lines, reviewed)
<1>1. gates \subseteq blocking /\ final \subseteq blocking /\ t.codes \subseteq blocking
  BY DEF Blocking
<1>2. lines # << >>
  <2>1. lines = << >> => "INVOICE_NO_VALID_SOURCE" \in gates
    BY DEF D!ItemGates, D!Code
  <2> HIDE DEF gates
  <2> QED BY <1>1, <2>1 DEF D!BuildXmlNow, D!Ready
<1>3. blocking \cap D!WarnModeHardCodes = {}
  BY DEF D!BuildXmlNow, D!Ready
<1>4. /\ t.codes \cap GrossCodes = {} /\ "WEIGHT_RECONCILIATION_IMPOSSIBLE" \notin t.codes
      /\ t.codes \cap CartonCodes \subseteq {"CARTON_ALLOCATION_IMPOSSIBLE"}
  BY <1>1, <1>3 DEF D!WarnModeHardCodes, GrossCodes, CartonCodes
<1>5. v["packages"] > 0 => ~(ctn > v["packages"] + CtnTolerance) /\ ~(ctn < v["packages"] - CtnTolerance)
  <2> SUFFICES ASSUME v["packages"] > 0,
                      ctn > v["packages"] + CtnTolerance \/ ctn < v["packages"] - CtnTolerance
               PROVE  "CARTON_RECONCILIATION_FAILED" \in gates
    BY <1>1, <1>3 DEF D!WarnModeHardCodes
  <2> QED BY CartonGate
<1>6. ASSUME blocking = {}
      PROVE  /\ \A k \in DOMAIN lines : /\ lines[k].hs # << >>
                                        /\ \/ lines[k].hsSource # "SEMANTIC_DESCRIPTION"
                                           \/ lines[k].hsExplicit
             /\ "field40" \in reviewed.confirmed
             /\ reviewed.unitMissing => "authority" \in reviewed.confirmed
             /\ ~(v["gross"] <= 0) /\ ~(v["packages"] <= 0)
  <2>1. gates = {} /\ final = {}
    BY <1>1, <1>6
  <2>2. \A k \in DOMAIN lines : lines[k].hs # << >>
    <3>1. (\E k \in DOMAIN lines : lines[k].hs = << >>) => "HS_MANUAL_REVIEW" \in gates
      BY DEF D!ItemGates, D!Code
    <3> HIDE DEF gates
    <3> QED BY <2>1, <3>1
  <2>3. \A k \in DOMAIN lines : \/ lines[k].hsSource # "SEMANTIC_DESCRIPTION"
                                \/ lines[k].hsExplicit
    <3>1. (\E k \in DOMAIN lines : lines[k].hsSource = "SEMANTIC_DESCRIPTION" /\ ~lines[k].hsExplicit)
             => "HS_GUESS_UNCONFIRMED" \in final
      BY DEF D!FinalizeGates, D!Code
    <3> HIDE DEF final
    <3> QED BY <2>1, <3>1
  <2>4. "field40" \in reviewed.confirmed
    <3>1. "field40" \notin reviewed.confirmed
             => "FIELD_40_UNCONFIRMED" \in final \/ "TRANSPORT_REFERENCE_REQUIRED" \in final
      BY DEF D!FinalizeGates, D!Code
    <3> HIDE DEF final
    <3> QED BY <2>1, <3>1
  <2>5. ~(v["gross"] <= 0) /\ ~(v["packages"] <= 0)
    <3>1. /\ v["gross"] <= 0 => "SHIPMENT_GROSS_REQUIRED" \in final
          /\ v["packages"] <= 0 => "SHIPMENT_PACKAGES_REQUIRED" \in final
      BY DEF D!FinalizeGates, D!Code
    <3> HIDE DEF final
    <3> QED BY <2>1, <3>1
  <2>6. reviewed.unitMissing => "authority" \in reviewed.confirmed
    <3>1. reviewed.unitMissing /\ "authority" \notin reviewed.confirmed
             => "WEIGHT_UNIT_UNCONFIRMED" \in final
      BY DEF D!FinalizeGates, D!Code
    <3> HIDE DEF final
    <3> QED BY <2>1, <3>1
  <2> QED BY <2>2, <2>3, <2>4, <2>5, <2>6
<1> QED BY <1>1, <1>2, <1>4, <1>5, <1>6

\* What XmlReconciles asks of the lines, the values and the codes of a declaration.
Reconciled(reviewed, lines, blocking) ==
    LET v == reviewed.values
        gross == SumFunction([k \in DOMAIN lines |-> lines[k].gross])
        ctn == SumFunction([k \in DOMAIN lines |-> lines[k].ctn])
    IN  /\ v["gross"] > 0 => /\ gross = v["gross"]
                             /\ \A k \in DOMAIN lines : lines[k].net < lines[k].gross
        /\ v["packages"] > 0 =>
             \/ ctn = v["packages"]
             \/ /\ "CARTON_ALLOCATION_IMPOSSIBLE" \in blocking
                /\ ctn <= v["packages"] + CtnTolerance
                /\ ctn >= v["packages"] - CtnTolerance
        /\ blocking = {} =>
             /\ \A k \in DOMAIN lines : /\ lines[k].hs \in DOMAIN Official
                                        /\ \/ lines[k].hsSource # "SEMANTIC_DESCRIPTION"
                                           \/ lines[k].hsExplicit
             /\ "field40" \in reviewed.confirmed
             /\ reviewed.unitMissing => "authority" \in reviewed.confirmed
             /\ v["gross"] > 0 /\ v["packages"] > 0

\* The declaration d is what finalize makes of the context c and the values proposed.
Makes(c, values, conf, ticked, override, rate, d) ==
    d = ConfirmStep(c, D!MergeConfirmation(values, conf, "", ticked),
                    FinalItems(c, override), override, rate)

\* The parts of a declaration of these items: its table t, its lines, the shares of the costs.
PartsOf(d, c, reviewed, items, override, t, lines, freights, insurances) ==
    /\ t = Allocate(items, c.evidence, c.packing, reviewed.values["gross"],
                    reviewed.values["packages"])
    /\ lines = Lines(items, t, freights, insurances)
    /\ d.reviewed = reviewed /\ d.lines = lines
    /\ d.blocking = Blocking(c, reviewed, lines, t, override)
    /\ d.xml = D!BuildXmlNow(lines, d.blocking)

\* A declaration has such parts.
LEMMA DeclarationParts ==
    ASSUME NEW c, NEW reviewed, NEW items, NEW override, NEW rate, NEW d,
           d = ConfirmStep(c, reviewed, items, override, rate)
    PROVE  \E t, lines, freights, insurances :
               PartsOf(d, c, reviewed, items, override, t, lines, freights, insurances)
<1> DEFINE t == Allocate(items, c.evidence, c.packing, reviewed.values["gross"],
                         reviewed.values["packages"])
           freight == R!SelectFreight(c.candidates, reviewed.values["freight"], c.inv.currency)
           shares == R!CostShares([k \in DOMAIN items |->
                             [gross |-> t.gross[k], value |-> items[k].total]], "value")
           freights == R!AllocateCost(freight, shares)
           insurances == R!AllocateCost(reviewed.values["insurance"], shares)
           lines == Lines(items, t, freights, insurances)
           blocking == Blocking(c, reviewed, lines, t, override)
<1>1. d = WeightStep(c, reviewed, items, t, override, rate)
  BY DEF ConfirmStep
<1>2. d = CostStep(c, reviewed, items, t, freight, shares, override, rate)
  BY <1>1 DEF WeightStep
<1>3. d = GateStep(c, reviewed, t, lines, freight, override, rate)
  BY <1>2 DEF CostStep
<1>4. d = DeclarationOf(c, reviewed, lines, freight, blocking, rate)
  BY <1>3 DEF GateStep
<1> HIDE DEF t, freight, shares, lines, blocking
<1>5. /\ d.reviewed = reviewed /\ d.lines = lines /\ d.blocking = blocking
      /\ d.xml = D!BuildXmlNow(lines, blocking)
  BY <1>4 DEF DeclarationOf
<1>6. lines = Lines(items, t, freights, insurances)
  BY DEF lines
<1>7. PartsOf(d, c, reviewed, items, override, t, lines, freights, insurances)
  BY <1>5, <1>6 DEF PartsOf, t, blocking
<1> HIDE DEF freights, insurances
<1> QED BY <1>7

\* The lines of a declaration for which an XML is built add up.
LEMMA MadeReconciles ==
    ASSUME NEW c, ContextOK(c), NEW conf \in Confirmations, NEW ticked, NEW override, NEW rate,
           NEW d, Makes(c, ReviewOf(c).values, conf, ticked, override, rate, d), d.xml
    PROVE  Reconciled(d.reviewed, d.lines, d.blocking)
<1> DEFINE reviewed == D!MergeConfirmation(ReviewOf(c).values, conf, "", ticked)
           items == FinalItems(c, override)
           S == DOMAIN items
<1>1. d = ConfirmStep(c, reviewed, items, override, rate)
  BY DEF Makes
<1>2. reviewed.values["gross"] \in Int /\ reviewed.values["packages"] \in Int
  BY ConfirmedTotals
<1>3. /\ FiguresOK(items, c.evidence) /\ DOMAIN items = DOMAIN c.items
      /\ \A k \in DOMAIN c.items : items[k].hs = << >> \/ items[k].hs \in DOMAIN Official
  BY FinalItemsKeepFigures
<1> HIDE DEF reviewed, items
<1>0. PICK t, lines, freights, insurances :
             PartsOf(d, c, reviewed, items, override, t, lines, freights, insurances)
  BY <1>1, DeclarationParts
<1>4. /\ t = Allocate(items, c.evidence, c.packing, reviewed.values["gross"],
                      reviewed.values["packages"])
      /\ lines = Lines(items, t, freights, insurances)
      /\ d.reviewed = reviewed /\ d.lines = lines
      /\ d.blocking = Blocking(c, reviewed, lines, t, override)
      /\ d.xml = D!BuildXmlNow(lines, d.blocking)
  BY <1>0 DEF PartsOf
<1>5. /\ DOMAIN lines = S
      /\ \A k \in S : /\ lines[k].gross = t.gross[k] /\ lines[k].net = t.net[k]
                      /\ lines[k].ctn = t.ctn[k] /\ lines[k].hs = items[k].hs
  <2>1. lines = Lines(items, t, freights, insurances)
    BY <1>4
  <2> QED BY <2>1, LinesTake
<1>6. PICK blocking : blocking = d.blocking
  OBVIOUS
<1>7. blocking = Blocking(c, reviewed, lines, t, override) /\ D!BuildXmlNow(lines, blocking)
  BY <1>4, <1>6
<1> DEFINE ctn == SumFunction([k \in DOMAIN lines |-> lines[k].ctn])
           gross == SumFunction([k \in DOMAIN lines |-> lines[k].gross])
           v == reviewed.values
<1>8. /\ lines # << >>
      /\ t.codes \cap GrossCodes = {} /\ "WEIGHT_RECONCILIATION_IMPOSSIBLE" \notin t.codes
      /\ t.codes \cap CartonCodes \subseteq {"CARTON_ALLOCATION_IMPOSSIBLE"}
      /\ t.codes \subseteq blocking
      /\ v["packages"] > 0 => /\ ~(ctn > v["packages"] + CtnTolerance)
                              /\ ~(ctn < v["packages"] - CtnTolerance)
      /\ blocking = {} =>
            /\ \A k \in DOMAIN lines : /\ lines[k].hs # << >>
                                       /\ \/ lines[k].hsSource # "SEMANTIC_DESCRIPTION"
                                          \/ lines[k].hsExplicit
            /\ "field40" \in reviewed.confirmed
            /\ reviewed.unitMissing => "authority" \in reviewed.confirmed
            /\ ~(v["gross"] <= 0) /\ ~(v["packages"] <= 0)
  BY <1>7, GatesTell
<1>9. items # << >>
  BY <1>5, <1>8 DEF Lines
<1>10. PICK g, p, ev, packing : /\ g = v["gross"] /\ p = v["packages"]
                                /\ ev = c.evidence /\ packing = c.packing
  OBVIOUS
<1>11. TableGives(t, items, g, p)
  <2>1. t = Allocate(items, ev, packing, g, p)
    BY <1>4, <1>10
  <2> QED BY <1>2, <1>3, <1>9, <1>10, <2>1, AllocationReconciles
<1>12. IsFiniteSet(S)
  BY <1>3 DEF FiguresOK
<1>13. ASSUME g > 0
       PROVE  gross = g /\ \A k \in S : lines[k].net < lines[k].gross
  <2>1. DOMAIN t.gross = S /\ SumFunction(t.gross) = g /\ \A i \in S : t.net[i] < t.gross[i]
    BY <1>8, <1>11, <1>13 DEF TableGives
  <2>2. PICK f : f = t.gross
    OBVIOUS
  <2>3. [k \in DOMAIN lines |-> lines[k].gross] = [k \in S |-> f[k]]
    BY <1>5, <2>2
  <2>4. gross = SumFunction(f)
    BY <1>12, <2>1, <2>2, <2>3, ColumnsAddUp
  <2> QED BY <1>5, <2>1, <2>2, <2>4
<1>14. ASSUME p > 0
       PROVE  \/ ctn = p
              \/ /\ "CARTON_ALLOCATION_IMPOSSIBLE" \in blocking
                 /\ ctn <= p + CtnTolerance /\ ctn >= p - CtnTolerance
  <2>1. PICK f : f = t.ctn
    OBVIOUS
  <2>2. DOMAIN f = S /\ RowsKept(f, S)
    BY <1>8, <1>11, <1>14, <2>1 DEF TableGives
  <2>3. [k \in DOMAIN lines |-> lines[k].ctn] = [k \in S |-> f[k]]
    BY <1>5, <2>1
  <2>4. ctn = SumFunction(f)
    BY <1>12, <2>2, <2>3, ColumnsAddUp
  <2>5. CASE t.codes \cap CartonCodes = {}
    <3>1. SumFunction(f) = p
      BY <1>11, <1>14, <2>1, <2>5 DEF TableGives
    <3> QED BY <2>4, <3>1
  <2>6. CASE t.codes \cap CartonCodes # {}
    <3>1. "CARTON_ALLOCATION_IMPOSSIBLE" \in blocking
      BY <1>8, <2>6
    <3>2. ctn \in Int
      <4>1. Nats(f, S)
        BY <2>2 DEF RowsKept, Nats
      <4>2. Sum(f, S) \in Nat
        BY <1>12, <4>1, SumNat
      <4> QED BY <2>2, <2>4, <4>2 DEF Sum, SumFunction
    <3>3. p \in Int /\ CtnTolerance \in Int
      BY <1>2, <1>10, StepsAssumption DEF CtnTolerance
    <3>4. ~(ctn > p + CtnTolerance) /\ ~(ctn < p - CtnTolerance)
      BY <1>8, <1>10, <1>14
    <3> HIDE DEF ctn
    <3> QED BY <3>1, <3>2, <3>3, <3>4
  <2> QED BY <2>5, <2>6
<1>15. ASSUME blocking = {}
       PROVE  /\ \A k \in S : /\ lines[k].hs \in DOMAIN Official
                              /\ \/ lines[k].hsSource # "SEMANTIC_DESCRIPTION"
                                 \/ lines[k].hsExplicit
              /\ "field40" \in reviewed.confirmed
              /\ reviewed.unitMissing => "authority" \in reviewed.confirmed
              /\ g > 0 /\ p > 0
  <2>1. \A k \in S : lines[k].hs \in DOMAIN Official
    BY <1>3, <1>5, <1>8, <1>15
  <2>2. g > 0 /\ p > 0
    BY <1>2, <1>8, <1>10, <1>15
  <2> QED BY <1>5, <1>8, <1>15, <2>1, <2>2
<1>16. Reconciled(reviewed, lines, blocking)
  BY <1>5, <1>10, <1>13, <1>14, <1>15 DEF Reconciled
<1> QED BY <1>4, <1>6, <1>16

\* A declaration d is what finalize makes of the review r.
DeclaredOf(r, d) ==
    \E conf \in Confirmations, rate \in Rates : \E ticked, override :
        Makes(r.context, r.values, conf, ticked, override, rate, d)

\* What is declared was made of the review that is stored.
DeclaredIsMade == declared # NoDeclaration => review # NoReview /\ DeclaredOf(review, declared)

\* A step discards the declaration, leaves it and its review, or makes it of that review.
LEMMA DeclaredSteps ==
    Next => \/ declared' = NoDeclaration
            \/ review = NoReview /\ declared' = declared
            \/ review # NoReview /\ review' = review /\ DeclaredOf(review, declared')
<1> DEFINE Kept == \/ declared' = NoDeclaration
                   \/ review = NoReview /\ declared' = declared
                   \/ review # NoReview /\ review' = review /\ DeclaredOf(review, declared')
<1> SUFFICES ASSUME Next PROVE Kept
  OBVIOUS
<1>1. ASSUME NEW f, Attach(f) PROVE Kept
  BY <1>1 DEF Attach
<1>2. CASE CriticalReview
  BY <1>2 DEF CriticalReview
<1>3. ASSUME NEW ov, Entered(ov) PROVE Kept
  BY <1>3 DEF Entered
<1>4. ASSUME NEW k, NEW gross, NEW net, PinWeights(k, gross, net) PROVE Kept
  BY <1>3, <1>4 DEF PinWeights
<1>5. ASSUME NEW k, NEW ctn, PinCartons(k, ctn) PROVE Kept
  BY <1>3, <1>5 DEF PinCartons
<1>6. ASSUME NEW gross, NEW ctn, SetShipmentTotals(gross, ctn) PROVE Kept
  BY <1>3, <1>6 DEF SetShipmentTotals
<1>7. CASE ApplyRemedy
  <2>1. \E gross, ctn : SetShipmentTotals(gross, ctn)
    BY <1>7 DEF ApplyRemedy
  <2> QED BY <1>6, <2>1
<1>8. ASSUME NEW k, NEW code, SelectHs(k, code) PROVE Kept
  <2>1. \E ov : Entered(ov)
    BY <1>8 DEF SelectHs
  <2> QED BY <1>3, <2>1
<1>9. ASSUME NEW conf \in Confirmations, NEW ticked, NEW override, NEW rate \in Rates,
             Finalize(conf, ticked, override, rate)
      PROVE  Kept
  <2>1. review # NoReview /\ review' = review
        /\ declared' = Finalized(review.context, conf, ticked, override, rate)
    BY <1>9 DEF Finalize
  <2>2. Makes(review.context, review.values, conf, ticked, override, rate, declared')
    BY <2>1 DEF Finalized, Makes
  <2> QED BY <2>1, <2>2 DEF DeclaredOf
<1> HIDE DEF Kept
<1> QED BY <1>1, <1>2, <1>4, <1>5, <1>6, <1>7, <1>8, <1>9 DEF Next

\* The declaration on record is always one finalize made of the review on record: an upload or
\* an entry discards it with the review.
LEMMA DeclaredStaysMade == DeclaredIsMade /\ [Next]_vars => DeclaredIsMade'
<1> SUFFICES ASSUME DeclaredIsMade, [Next]_vars PROVE DeclaredIsMade'
  OBVIOUS
<1>1. CASE declared' = NoDeclaration
  BY <1>1 DEF DeclaredIsMade
<1>2. CASE review = NoReview /\ declared' = declared
  BY <1>2 DEF DeclaredIsMade
<1>3. CASE review # NoReview /\ review' = review /\ DeclaredOf(review, declared')
  BY <1>3 DEF DeclaredIsMade
<1>4. CASE UNCHANGED vars
  BY <1>4 DEF vars, DeclaredIsMade
<1> QED BY <1>1, <1>2, <1>3, <1>4, DeclaredSteps

\* What is made of a computed review adds up.
LEMMA DeclaredReconciles ==
    DeclaredIsMade /\ ReviewIsComputed /\ ReviewOK => XmlReconciles
<1> SUFFICES ASSUME DeclaredIsMade, ReviewIsComputed, ReviewOK, declared # None, declared.xml
             PROVE  Reconciled(declared.reviewed, declared.lines, declared.blocking)
  BY DEF XmlReconciles, Reconciled
<1>1. review # NoReview /\ DeclaredOf(review, declared)
  BY DEF DeclaredIsMade, NoDeclaration
<1>2. PICK c, d : c = review.context /\ d = declared
  OBVIOUS
<1>3. review = ReviewOf(c) /\ ContextOK(c)
  BY <1>1, <1>2, ReviewOfItsContext DEF ReviewOK
<1>4. PICK conf \in Confirmations, rate \in Rates : \E ticked, override :
          Makes(review.context, review.values, conf, ticked, override, rate, declared)
  BY <1>1 DEF DeclaredOf
<1>5. PICK ticked, override :
          Makes(review.context, review.values, conf, ticked, override, rate, declared)
  BY <1>4
<1>6. Makes(c, ReviewOf(c).values, conf, ticked, override, rate, d) /\ d.xml
  BY <1>2, <1>3, <1>5
<1> QED BY <1>2, <1>3, <1>6, MadeReconciles

-----------------------------------------------------------------------------
(* The costs of a declaration.                                              *)

\* The shares of a cost add up to the cost: what rounding left over goes to one of them
\* (allocate_cost).
LEMMA CostIsShared ==
    ASSUME NEW total \in Int, NEW share, NEW S, DOMAIN share = S, IsFiniteSet(S), S \in SUBSET Int,
           S # {}, Nats(share, S)
    PROVE  /\ DOMAIN R!AllocateCost(total, share) = S
           /\ Ints(R!AllocateCost(total, share), S)
           /\ Sum(R!AllocateCost(total, share), S) = total
<1> DEFINE sum == Sum(share, S)
           part == [i \in S |-> IF sum = 0 THEN 0 ELSE R!RoundedDiv(total * share[i], sum)]
           largest == Min({i \in S : \A j \in S : share[j] <= share[i]})
           out == R!AllocateCost(total, share)
<1>0. sum \in Nat
  BY SumNat
<1>1. \A f : R!SumFunction(f) = SumFunction(f)
  BY DEF R!SumFunction, R!SumFunctionOnSet, R!FoldFunctionOnSet, R!MapThenFoldSet,
         SumFunction, SumFunctionOnSet, FoldFunctionOnSet, MapThenFoldSet
<1>2. \A Q : R!Min(Q) = Min(Q)
  BY DEF R!Min, Min
<1>3. CASE total = 0
  <2>1. out = [i \in S |-> 0]
    BY <1>3 DEF R!AllocateCost
  <2>2. Sum(out, S) = 0
    <3>1. PICK c \in Int : c = 0
      OBVIOUS
    <3>2. \A i \in S : out[i] = c
      BY <2>1, <3>1
    <3> HIDE DEF out
    <3>3. Sum(out, S) = c * Cardinality(S)
      BY <3>2, SumConst
    <3>4. Cardinality(S) \in Nat
      BY FS_CardinalityType
    <3>5. c * Cardinality(S) = 0
      BY <3>1, <3>4
    <3> QED BY <3>3, <3>5
  <2> QED BY <1>3, <2>1, <2>2 DEF Ints
<1>4. CASE total # 0
  <2>1. Ints(part, S)
    <3>1. ASSUME NEW i \in S, sum # 0 PROVE R!RoundedDiv(total * share[i], sum) \in Int
      <4>1. share[i] \in Nat
        BY DEF Nats
      <4>2. 2 * (total * share[i]) + sum \in Int /\ 2 * sum \in Nat /\ 2 * sum > 0
        BY <1>0, <3>1, <4>1
      <4> QED BY <4>2, DivMod DEF R!RoundedDiv
    <3> QED BY <3>1 DEF Ints
  <2>2. largest \in S
    <3> DEFINE Q == {i \in S : \A j \in S : share[j] <= share[i]}
    <3>1. Ints(share, S)
      BY DEF Nats, Ints
    <3>2. Q # {} /\ Q \in SUBSET Int /\ Q \subseteq S
      BY <3>1, GreatestOf
    <3>3. IsFiniteSet(Q)
      BY FS_Subset
    <3> HIDE DEF Q
    <3>4. Min(Q) \in Q
      BY <3>2, <3>3, ExtremesOf
    <3> QED BY <3>2, <3>4 DEF Q
  <2>3. out = [part EXCEPT ![largest] = @ + total - Sum(part, S)]
    <3>1. SumFunction(share) = sum
      BY DEF SumFunction, Sum
    <3>2. DOMAIN part = S
      OBVIOUS
    <3>3. SumFunction(part) = Sum(part, S)
      BY <3>2 DEF SumFunction, Sum
    <3>4. part = [i \in DOMAIN share |-> IF R!SumFunction(share) = 0 THEN 0
                              ELSE R!RoundedDiv(total * share[i], R!SumFunction(share))]
      BY <1>1, <3>1
    <3>5. largest = R!Min({i \in DOMAIN share : \A j \in DOMAIN share : share[j] <= share[i]})
      BY <1>2
    <3> HIDE DEF part, largest, sum
    <3>6. out = [part EXCEPT ![largest] = @ + total - R!SumFunction(part)]
      BY <1>4, <3>4, <3>5 DEF R!AllocateCost
    <3>7. R!SumFunction(part) = Sum(part, S)
      BY <1>1, <3>3
    <3> HIDE DEF out
    <3> QED BY <3>6, <3>7
  <2>4. Sum(part, S) \in Int
    BY <2>1, SumInt
  <2>5. DOMAIN part = S
    OBVIOUS
  <2> HIDE DEF part, largest, sum, out
  <2>6. /\ DOMAIN out = S
        /\ out[largest] = part[largest] + total - Sum(part, S)
        /\ \A i \in S \ {largest} : out[i] = part[i]
    BY <2>2, <2>3, <2>5
  <2>7. Ints(out, S)
    BY <2>1, <2>2, <2>4, <2>6 DEF Ints
  <2>8. Sum(out, S) = out[largest] + Sum(out, S \ {largest})
    BY <2>2, <2>7, SumRemove
  <2>9. Sum(part, S) = part[largest] + Sum(part, S \ {largest})
    BY <2>1, <2>2, SumRemove
  <2>10. Sum(out, S \ {largest}) = Sum(part, S \ {largest})
    <3>1. IsFiniteSet(S \ {largest})
      BY FS_RemoveElement
    <3> QED BY <2>6, <3>1, SumSame
  <2>11. Sum(part, S \ {largest}) \in Int /\ part[largest] \in Int
    BY <2>1, <2>2, SumTerms
  <2>12. Sum(out, S) = total
    BY <2>4, <2>6, <2>8, <2>9, <2>10, <2>11
  <2> QED BY <2>6, <2>7, <2>12 DEF out
<1> QED BY <1>3, <1>4

\* Equal parts may be taken away.
LEMMA Cancels ==
    ASSUME NEW r \in Nat, r > 0, NEW x \in Int, NEW y \in Int, r * x < r * y
    PROVE  x < y
<1> SUFFICES ASSUME y <= x PROVE FALSE
  OBVIOUS
<1>1. x - y \in Nat
  OBVIOUS
<1>2. r * (x - y) \in Nat
  BY <1>1, TimesNat
<1>3. r * x = r * y + r * (x - y)
  OBVIOUS
<1>4. r * x \in Int /\ r * y \in Int
  OBVIOUS
<1> QED BY <1>2, <1>3, <1>4

\* An amount in national currency is within half a cent of its value (build_declaration).
LEMMA NationalNear ==
    ASSUME NEW a \in Int, NEW p \in Nat, p > 0, NEW q \in Nat, q > 0, NEW rate, rate = <<p, q>>
    PROVE  /\ D!National(a, rate) \in Int
           /\ (2 * q) * D!National(a, rate) <= (2 * p) * a + q
           /\ (2 * p) * a - q < (2 * q) * D!National(a, rate)
<1> DEFINE x == 2 * a * p + q
           m == 2 * q
<1>1. x \in Int /\ m \in Nat /\ m > 0
  OBVIOUS
<1>2. D!National(a, rate) = x \div m
  BY DEF D!National
<1>3. 2 * a * p = (2 * p) * a
  OBVIOUS
<1> HIDE DEF m
<1>4. x \div m \in Int /\ (x % m) \in 0..m-1 /\ x = m * (x \div m) + (x % m)
  <2> HIDE DEF x
  <2> QED BY <1>1, DivMod
<1> DEFINE n == x \div m
           rest == x % m
<1>5. n \in Int /\ rest \in Int /\ 0 <= rest /\ rest < m /\ x = m * n + rest
  BY <1>1, <1>4
<1> HIDE DEF n, rest
<1>6. m * n \in Int /\ (2 * p) * a \in Int
  BY <1>1, <1>5
<1>7. x = (2 * p) * a + q /\ m = 2 * q
  BY <1>3 DEF m
<1> HIDE DEF x
<1>8. m * n <= (2 * p) * a + q /\ (2 * p) * a - q < m * n
  <2> DEFINE u == (2 * p) * a
             w == m * n
  <2>1. u \in Int /\ w \in Int /\ x = u + q /\ x = w + rest
    BY <1>5, <1>6, <1>7
  <2> HIDE DEF u, w
  <2>2. w <= u + q /\ u - q < w
    BY <1>5, <1>7, <2>1
  <2> QED BY <2>2 DEF u, w
<1>9. D!National(a, rate) = n
  BY <1>2 DEF n
<1> QED BY <1>5, <1>7, <1>8, <1>9

\* So are the amounts of the items, all together, within half a cent each.
LEMMA NationalsNear ==
    ASSUME NEW S, IsFiniteSet(S), S # {}, NEW f, Ints(f, S), NEW g,
           NEW p \in Nat, p > 0, NEW q \in Nat, q > 0, NEW rate, rate = <<p, q>>,
           \A k \in S : g[k] = D!National(f[k], rate)
    PROVE  /\ Ints(g, S)
           /\ Near(Sum(g, S), D!National(Sum(f, S), rate), Cardinality(S))
<1> DEFINE n == Cardinality(S)
           A == Sum(f, S)
           X == Sum(g, S)
           G == D!National(A, rate)
<1>1. n \in Nat /\ n > 0
  BY FS_CardinalityType, FS_EmptySet
<1>2. \A k \in S : /\ f[k] \in Int /\ g[k] \in Int
                   /\ (2 * q) * g[k] <= (2 * p) * f[k] + q
                   /\ (2 * p) * f[k] - q < (2 * q) * g[k]
  BY NationalNear DEF Ints
<1>3. Ints(g, S)
  BY <1>2 DEF Ints
<1>4. A \in Int /\ X \in Int
  BY <1>3, SumInt
<1>5. G \in Int /\ (2 * q) * G <= (2 * p) * A + q /\ (2 * p) * A - q < (2 * q) * G
  <2> HIDE DEF A
  <2> QED BY <1>4, NationalNear
<1> DEFINE fp == [k \in S |-> (2 * p) * f[k]]
           gq == [k \in S |-> (2 * q) * g[k]]
           up == [k \in S |-> fp[k] + q]
           down == [k \in S |-> fp[k] + (1 - q)]
           plus == [k \in S |-> q]
           minus == [k \in S |-> 1 - q]
<1>6. /\ Ints(fp, S) /\ Ints(gq, S) /\ Ints(up, S) /\ Ints(down, S) /\ Ints(plus, S) /\ Ints(minus, S)
      /\ \A k \in S : /\ fp[k] = (2 * p) * f[k] /\ gq[k] = (2 * q) * g[k]
                      /\ plus[k] = q /\ minus[k] = 1 - q
                      /\ up[k] = fp[k] + plus[k] /\ down[k] = fp[k] + minus[k]
  BY <1>2 DEF Ints
<1>7. \A k \in S : gq[k] <= up[k] /\ down[k] <= gq[k]
  <2> SUFFICES ASSUME NEW k \in S PROVE gq[k] <= up[k] /\ down[k] <= gq[k]
    OBVIOUS
  <2> DEFINE u == (2 * p) * f[k]
             w == (2 * q) * g[k]
  <2>1. u \in Int /\ w \in Int /\ w <= u + q /\ u - q < w
    BY <1>2
  <2>2. gq[k] = w /\ up[k] = u + q /\ down[k] = u + (1 - q)
    OBVIOUS
  <2> HIDE DEF u, w, gq, up, down
  <2> QED BY <2>1, <2>2
<1> HIDE DEF fp, gq, up, down, plus, minus
<1>8. Sum(gq, S) <= Sum(up, S) /\ Sum(down, S) <= Sum(gq, S)
  BY <1>6, <1>7, SumLe
<1>9. Sum(up, S) = Sum(fp, S) + Sum(plus, S) /\ Sum(down, S) = Sum(fp, S) + Sum(minus, S)
  BY <1>6, SumPlus
<1>10. Sum(fp, S) = (2 * p) * A /\ Sum(gq, S) = (2 * q) * X
  <2>1. 2 * p \in Int /\ 2 * q \in Int
    OBVIOUS
  <2>2. Sum(fp, S) = (2 * p) * Sum(f, S)
    BY <1>6, <2>1, SumScale
  <2>3. Sum(gq, S) = (2 * q) * Sum(g, S)
    BY <1>3, <1>6, <2>1, SumScale
  <2> QED BY <2>2, <2>3
<1>11. Sum(plus, S) = q * n /\ Sum(minus, S) = (1 - q) * n
  <2>1. q \in Int /\ 1 - q \in Int
    OBVIOUS
  <2> QED BY <1>6, <2>1, SumConst
<1> DEFINE u == (2 * p) * A
           x == (2 * q) * X
           y == (2 * q) * G
           t == q * n
<1>12. u \in Int /\ x \in Int /\ y \in Int /\ t \in Int
  BY <1>1, <1>4, <1>5
<1>13. x <= u + t /\ u - t + n <= x
  <2>1. (1 - q) * n = n - t
    BY <1>1
  <2>2. x <= u + q * n /\ u + (1 - q) * n <= x
    BY <1>8, <1>9, <1>10, <1>11
  <2> QED BY <1>1, <1>12, <2>1, <2>2
<1>14. y <= u + q /\ u - q < y
  BY <1>5
<1>15. q * (2 * (X - G)) = x - y /\ q * (2 * (G - X)) = y - x /\ q * (n + 1) = t + q
  BY <1>1, <1>4, <1>5
<1> HIDE DEF u, x, y, t, X, G, A, n
<1>16. x - y < t + q /\ y - x < t + q
  BY <1>1, <1>12, <1>13, <1>14
<1>17. 2 * (X - G) < n + 1
  <2>1. q * (2 * (X - G)) < q * (n + 1)
    BY <1>15, <1>16
  <2> QED BY <1>1, <1>4, <1>5, <2>1, Cancels
<1>18. 2 * (G - X) < n + 1
  <2>1. q * (2 * (G - X)) < q * (n + 1)
    BY <1>15, <1>16
  <2> QED BY <1>1, <1>4, <1>5, <2>1, Cancels
<1>19. Near(X, G, n)
  BY <1>1, <1>4, <1>5, <1>17, <1>18 DEF Near
<1> QED BY <1>3, <1>19 DEF X, G, A, n

\* Two currencies that are both stated and differ.
Foreign(cur, own) == "" \notin {cur, own} /\ cur # own

\* The amounts the documents state that are not in another currency.
OwnAmounts(candidates, own) ==
    {f.amount : f \in {f \in {f \in Range(candidates) : f.amount # R!NoAmount} :
                          ~Foreign(f.currency, own)}}

\* The highest of them, or dflt where there is none.
HighestOwn(candidates, own, dflt) ==
    IF OwnAmounts(candidates, own) = {} THEN dflt ELSE Max(OwnAmounts(candidates, own))

\* The freight that is selected is the override, or the highest amount that is in no other
\* currency; so is the one that is proposed (select_freight, to_critical_review).
LEMMA FreightIsSelected ==
    ASSUME NEW candidates, IsFiniteSet(DOMAIN candidates),
           \A k \in DOMAIN candidates : candidates[k].amount \in Int,
           NEW override \in Int, NEW currency
    PROVE  LET f == R!SelectFreight(candidates, override, currency)
               g == R!FreightDefault(candidates, currency)
           IN  /\ f \in Int /\ g \in Int
               /\ override # R!NoAmount => f = override
               /\ override = R!NoAmount => f = HighestOwn(candidates, currency, 0)
               /\ g = HighestOwn(candidates, currency, R!NoAmount)
               /\ g # R!NoAmount => g = HighestOwn(candidates, currency, 0)
<1> DEFINE comparable == R!Comparable(candidates, currency)
           amounts == {candidates[k].amount : k \in comparable}
           own == OwnAmounts(candidates, currency)
           f == R!SelectFreight(candidates, override, currency)
           g == R!FreightDefault(candidates, currency)
           none == R!NoAmount
<1>1. f = IF override # none THEN override ELSE IF comparable = {} THEN 0 ELSE Max(amounts)
  <2>1. \A Q : R!Max(Q) = Max(Q)
    BY DEF R!Max, Max
  <2>2. f = IF override # none THEN override
            ELSE IF comparable = {} THEN 0 ELSE R!Max(amounts)
    BY DEF R!SelectFreight
  <2> HIDE DEF f, amounts, comparable, none
  <2> QED BY <2>1, <2>2
<1>2. g = IF comparable = {} THEN none ELSE Max(amounts)
  <2>1. \A Q : R!Max(Q) = Max(Q)
    BY DEF R!Max, Max
  <2>2. R!SelectFreight(candidates, none, currency)
          = IF comparable = {} THEN 0 ELSE R!Max(amounts)
    BY DEF R!SelectFreight
  <2>3. g = IF comparable = {} THEN none ELSE R!SelectFreight(candidates, none, currency)
    BY DEF R!FreightDefault
  <2> HIDE DEF g, amounts, comparable, none
  <2> QED BY <2>1, <2>2, <2>3
<1>3. ASSUME comparable # {} PROVE Max(amounts) \in amounts /\ amounts \subseteq Int
  <2>1. IsFiniteSet(comparable)
    <3>1. comparable \subseteq DOMAIN candidates
      BY DEF R!Comparable
    <3> QED BY <3>1, FS_Subset
  <2>2. IsFiniteSet(amounts)
    <3> DEFINE h == [k \in comparable |-> candidates[k].amount]
    <3>1. h \in Surjection(comparable, amounts)
      BY DEF Surjection
    <3> HIDE DEF h, comparable, amounts
    <3> QED BY <2>1, <3>1, FS_Surjection
  <2>3. amounts # {} /\ amounts \in SUBSET Int
    BY <1>3 DEF R!Comparable
  <2> HIDE DEF amounts, comparable
  <2> QED BY <2>2, <2>3, ExtremesOf
<1>4. amounts = own /\ (comparable = {} <=> own = {})
  <2>1. ASSUME NEW k \in comparable PROVE candidates[k].amount \in own
    <3>1. /\ k \in DOMAIN candidates /\ candidates[k].amount # R!NoAmount
          /\ ~Foreign(candidates[k].currency, currency)
      BY <2>1 DEF R!Comparable, Foreign
    <3> QED BY <3>1, Zenon DEF OwnAmounts, Range
  <2>2. ASSUME NEW x \in own PROVE \E k \in comparable : candidates[k].amount = x
    <3>1. PICK k \in DOMAIN candidates :
              /\ candidates[k].amount = x /\ candidates[k].amount # R!NoAmount
              /\ ~Foreign(candidates[k].currency, currency)
      BY <2>2, Zenon DEF OwnAmounts, Range
    <3>2. k \in comparable
      BY <3>1 DEF R!Comparable, Foreign
    <3> QED BY <3>1, <3>2
  <2> HIDE DEF comparable, own
  <2> QED BY <2>1, <2>2
<1>5. none \in Int
  BY DEF R!NoAmount
<1> HIDE DEF comparable, amounts, own, f, g, none
<1>6. (own # {} => Max(own) \in Int) /\ 0 \in Int
  BY <1>3, <1>4
<1>7. f \in Int /\ g \in Int
  BY <1>1, <1>2, <1>4, <1>5, <1>6
<1>8. /\ override # none => f = override
      /\ override = none => f = IF own = {} THEN 0 ELSE Max(own)
      /\ g = IF own = {} THEN none ELSE Max(own)
  BY <1>1, <1>2, <1>4
<1>9. g # none => g = IF own = {} THEN 0 ELSE Max(own)
  BY <1>8
<1> QED BY <1>7, <1>8, <1>9, Zenon DEF HighestOwn, own, f, g, none

\* The costs and the valuation of a declaration of these items.
CostsOf(d, c, reviewed, items, rate, lines, freight, shares) ==
    /\ freight = R!SelectFreight(c.candidates, reviewed.values["freight"], c.inv.currency)
    /\ shares = [k \in DOMAIN items |-> items[k].total]
    /\ d.freight = freight /\ d.reviewed = reviewed /\ d.lines = lines
    /\ lines = [k \in DOMAIN items |-> lines[k]]
    /\ \A k \in DOMAIN items :
          /\ lines[k].value = items[k].total
          /\ lines[k].freight = R!AllocateCost(freight, shares)[k]
          /\ lines[k].insurance = R!AllocateCost(reviewed.values["insurance"], shares)[k]
    /\ d.valuation = D!Valuation(lines, c.inv.goods, freight, reviewed.values["insurance"], rate)

\* A declaration has such costs.
LEMMA DeclarationCosts ==
    ASSUME NEW c, NEW reviewed, NEW items, NEW override, NEW rate, NEW d,
           d = ConfirmStep(c, reviewed, items, override, rate)
    PROVE  \E lines, freight, shares : CostsOf(d, c, reviewed, items, rate, lines, freight, shares)
<1> DEFINE t == Allocate(items, c.evidence, c.packing, reviewed.values["gross"],
                         reviewed.values["packages"])
           freight == R!SelectFreight(c.candidates, reviewed.values["freight"], c.inv.currency)
           shares == R!CostShares([k \in DOMAIN items |->
                             [gross |-> t.gross[k], value |-> items[k].total]], "value")
           freights == R!AllocateCost(freight, shares)
           insurances == R!AllocateCost(reviewed.values["insurance"], shares)
           lines == Lines(items, t, freights, insurances)
           blocking == Blocking(c, reviewed, lines, t, override)
<1>1. d = WeightStep(c, reviewed, items, t, override, rate)
  BY DEF ConfirmStep
<1>2. d = CostStep(c, reviewed, items, t, freight, shares, override, rate)
  BY <1>1 DEF WeightStep
<1>3. d = GateStep(c, reviewed, t, lines, freight, override, rate)
  BY <1>2 DEF CostStep
<1>4. d = DeclarationOf(c, reviewed, lines, freight, blocking, rate)
  BY <1>3 DEF GateStep
<1>5. shares = [k \in DOMAIN items |-> items[k].total]
  <2> HIDE DEF t
  <2> QED BY DEF R!CostShares
<1> HIDE DEF t, freight, shares, lines, blocking
<1>6. /\ d.freight = freight /\ d.reviewed = reviewed /\ d.lines = lines
      /\ d.valuation = D!Valuation(lines, c.inv.goods, freight, reviewed.values["insurance"], rate)
  BY <1>4 DEF DeclarationOf
<1>7. /\ lines = [k \in DOMAIN items |-> lines[k]]
      /\ \A k \in DOMAIN items : /\ lines[k].value = items[k].total
                                 /\ lines[k].freight = freights[k]
                                 /\ lines[k].insurance = insurances[k]
  <2> HIDE DEF freights, insurances
  <2> QED BY DEF lines, Lines
<1>8. CostsOf(d, c, reviewed, items, rate, lines, freight, shares)
  BY <1>5, <1>6, <1>7 DEF CostsOf, freight
<1> QED BY <1>8

\* A rate is a fraction of positive numbers.
Rate == (Nat \ {0}) \X (Nat \ {0})

\* At a rate, an amount of cents is worth an amount of cents.
LEMMA NationalAt == ASSUME NEW rate \in Rate, NEW a \in Int PROVE D!National(a, rate) \in Int
<1>1. PICK p \in Nat, q \in Nat : p > 0 /\ q > 0 /\ rate = <<p, q>>
  BY DEF Rate
<1> QED BY <1>1, NationalNear

\* The values of several amounts are together near the value of their sum.
LEMMA NationalsAt ==
    ASSUME NEW rate \in Rate, NEW S, IsFiniteSet(S), S # {}, NEW f, Ints(f, S), NEW g,
           \A k \in S : g[k] = D!National(f[k], rate)
    PROVE  /\ Ints(g, S)
           /\ Near(Sum(g, S), D!National(Sum(f, S), rate), Cardinality(S))
<1>1. PICK p \in Nat, q \in Nat : p > 0 /\ q > 0 /\ rate = <<p, q>>
  BY DEF Rate
<1> QED BY <1>1, NationalsNear

\* v are the values of these lines at the rate, cifs those of each line.
Valued(S, lines, value, freights, insurances, rate, v, cifs) ==
    /\ IsFiniteSet(S) /\ S # {} /\ DOMAIN lines = S
    /\ Ints(value, S) /\ Ints(freights, S) /\ Ints(insurances, S)
    /\ \A k \in S : /\ lines[k].value = value[k] /\ lines[k].freight = freights[k]
                     /\ lines[k].insurance = insurances[k]
    /\ v = D!Valuation(lines, Sum(value, S), Sum(freights, S), Sum(insurances, S), rate)
    /\ DOMAIN cifs = S /\ \A k \in S : cifs[k] = v.items[k].cif

\* The national values of the lines are the shipment's up to a cent each (build_declaration).
LEMMA ValuesNear ==
    ASSUME NEW rate \in Rate, NEW S, NEW lines, NEW value, NEW freights, NEW insurances, NEW v,
           NEW cifs, Valued(S, lines, value, freights, insurances, rate, v, cifs)
    PROVE  LET off == Sum(cifs, S) - v.cif
           IN  /\ Sum(cifs, S) \in Int /\ v.cif \in Int
               /\ off <= Cardinality(S) /\ -off <= Cardinality(S)
<1> DEFINE n == Cardinality(S)
           a == [k \in S |-> D!National(value[k], rate)]
           b == [k \in S |-> D!National(freights[k], rate)]
           ab == [k \in S |-> a[k] + b[k]]
           A == D!National(Sum(value, S), rate)
           B == D!National(Sum(freights, S), rate)
           N == Sum(insurances, S)
<1>a. /\ IsFiniteSet(S) /\ S # {} /\ DOMAIN lines = S
      /\ Ints(value, S) /\ Ints(freights, S) /\ Ints(insurances, S)
      /\ \A k \in S : /\ lines[k].value = value[k] /\ lines[k].freight = freights[k]
                       /\ lines[k].insurance = insurances[k]
      /\ v = D!Valuation(lines, Sum(value, S), Sum(freights, S), Sum(insurances, S), rate)
      /\ DOMAIN cifs = S /\ \A k \in S : cifs[k] = v.items[k].cif
  BY DEF Valued
<1>0. n \in Nat
  BY <1>a, FS_CardinalityType
<1>1. Ints(a, S) /\ Near(Sum(a, S), A, n) /\ Ints(b, S) /\ Near(Sum(b, S), B, n)
  <2>1. (\A k \in S : a[k] = D!National(value[k], rate))
        /\ (\A k \in S : b[k] = D!National(freights[k], rate))
    OBVIOUS
  <2> HIDE DEF a, b
  <2>2. Ints(a, S) /\ Near(Sum(a, S), A, n)
    BY <1>a, <2>1, NationalsAt
  <2>3. Ints(b, S) /\ Near(Sum(b, S), B, n)
    BY <1>a, <2>1, NationalsAt
  <2> QED BY <2>2, <2>3
<1>2. A \in Int /\ B \in Int /\ N \in Int
  <2>1. Sum(value, S) \in Int /\ Sum(freights, S) \in Int /\ N \in Int
    BY <1>a, SumInt
  <2> QED BY <2>1, NationalAt
<1>3. v.cif = A + (B + N)
  BY <1>a DEF D!Valuation
<1>4. \A k \in S : cifs[k] = a[k] + (b[k] + insurances[k])
  BY <1>a DEF D!Valuation
<1>5. Ints(ab, S) /\ Sum(ab, S) = Sum(a, S) + Sum(b, S)
  <2>1. Ints(ab, S) /\ \A k \in S : ab[k] = a[k] + b[k]
    BY <1>1 DEF Ints
  <2> HIDE DEF ab, a, b
  <2> QED BY <1>a, <1>1, <2>1, SumPlus
<1>6. \A k \in S : cifs[k] = ab[k] + insurances[k]
  BY <1>a, <1>1, <1>4 DEF Ints
<1> HIDE DEF a, b, ab, A, B
<1>7. Ints(cifs, S)
  BY <1>a, <1>5, <1>6 DEF Ints
<1>8. Sum(cifs, S) = Sum(ab, S) + N
  BY <1>a, <1>5, <1>6, <1>7, SumPlus
<1>9. Sum(a, S) \in Int /\ Sum(b, S) \in Int
  BY <1>a, <1>1, SumInt
<1> HIDE DEF N, n
<1>10. Sum(cifs, S) = (Sum(a, S) + Sum(b, S)) + N
  BY <1>5, <1>8
<1> DEFINE x == Sum(a, S)
           y == Sum(b, S)
           off == Sum(cifs, S) - v.cif
<1>11. off = (x - A) + (y - B) /\ Sum(cifs, S) \in Int /\ v.cif \in Int
  BY <1>2, <1>3, <1>9, <1>10
<1>12. x \in Int /\ y \in Int /\ Near(x, A, n) /\ Near(y, B, n)
  BY <1>1, <1>9
<1> HIDE DEF x, y, off
<1>13. off <= n /\ -off <= n
  BY <1>0, <1>2, <1>11, <1>12 DEF Near
<1> QED BY <1>11, <1>13 DEF off, n

\* The total of a list of items, added up from the left.
AddsUp(list) == I!FoldLeft(LAMBDA sum, i : sum + I!LineTotal(i.row), 0, list)

\* The goods of the invoices are the total of their items (finalize_invoices).
LEMMA GoodsAddUp == ASSUME NEW vs, NEW list PROVE I!InvoiceResult(vs, list).goods = AddsUp(list)
BY DEF I!InvoiceResult, AddsUp

\* A fold from the left that adds up is the sum.
LEMMA FoldIsSum ==
    ASSUME NEW items, NEW S, S = DOMAIN items, IsFiniteSet(S), S \in SUBSET Int,
           NEW f, Ints(f, S), \A k \in S : f[k] = I!LineTotal(items[k].row)
    PROVE  AddsUp(items) = Sum(f, S)
<1> DEFINE Adding(h) == h = [s \in SUBSET S |->
               IF s = {} THEN 0
               ELSE LET x == I!Max(s) IN h[s \ {x}] + I!LineTotal(items[x].row)]
           h == CHOOSE iter : Adding(iter)
           sums == [s \in SUBSET S |-> Sum(f, s)]
<1>1. AddsUp(items) = h[S]
  BY DEF AddsUp, I!FoldLeft, I!MapThenFoldSet
<1>2. ASSUME NEW s \in SUBSET S, s # {}
      PROVE  I!Max(s) \in s
  <2>1. I!Max(s) = Max(s)
    BY DEF I!Max, Max
  <2>2. IsFiniteSet(s) /\ s \in SUBSET Int
    BY FS_Subset
  <2> QED BY <1>2, <2>1, <2>2, ExtremesOf
<1>3. Adding(sums)
  <2>1. Sum(f, {}) = 0
    BY SumEmpty
  <2>2. ASSUME NEW s \in SUBSET S, s # {}
        PROVE  Sum(f, s) = sums[s \ {I!Max(s)}] + I!LineTotal(items[I!Max(s)].row)
    <3>1. PICK x : x = I!Max(s)
      OBVIOUS
    <3>2. x \in s
      BY <1>2, <2>2, <3>1
    <3>3. IsFiniteSet(s) /\ Ints(f, s)
      BY FS_Subset DEF Ints
    <3>4. Sum(f, s) = f[x] + Sum(f, s \ {x})
      BY <3>2, <3>3, SumRemove
    <3>5. Sum(f, s \ {x}) \in Int /\ f[x] \in Int
      BY <3>2, <3>3, SumTerms
    <3>6. f[x] = I!LineTotal(items[x].row)
      BY <3>2
    <3>7. sums[s \ {x}] = Sum(f, s \ {x})
      OBVIOUS
    <3> HIDE DEF sums
    <3> QED BY <3>1, <3>4, <3>5, <3>6, <3>7
  <2>3. \A s \in SUBSET S : sums[s] = IF s = {} THEN 0
               ELSE LET x == I!Max(s) IN sums[s \ {x}] + I!LineTotal(items[x].row)
    <3>1. \A s \in SUBSET S : sums[s] = Sum(f, s)
      OBVIOUS
    <3> HIDE DEF sums
    <3> QED BY <2>1, <2>2, <3>1
  <2>4. sums = [s \in SUBSET S |-> sums[s]]
    OBVIOUS
  <2> HIDE DEF sums
  <2> QED BY <2>3, <2>4
<1>4. Adding(h)
  <2> HIDE DEF Adding
  <2> QED BY <1>3
<1> HIDE DEF h
<1>5. \A s \in SUBSET S : h[s] = IF s = {} THEN 0
               ELSE LET x == I!Max(s) IN h[s \ {x}] + I!LineTotal(items[x].row)
  BY <1>4
<1> DEFINE Good == {s \in SUBSET S : h[s] = Sum(f, s)}
<1>6. {} \in Good
  BY <1>5, SumEmpty
<1>7. ASSUME NEW s \in SUBSET S, s # {} PROVE \E x \in s : s \ {x} \in Good => s \in Good
  <2>1. PICK x : x = I!Max(s)
    OBVIOUS
  <2>2. x \in s
    BY <1>2, <1>7, <2>1
  <2>3. SUFFICES ASSUME h[s \ {x}] = Sum(f, s \ {x}) PROVE h[s] = Sum(f, s)
    BY <2>2
  <2>4. h[s] = Sum(f, s \ {x}) + f[x]
    BY <1>5, <1>7, <2>1, <2>2, <2>3
  <2>5. IsFiniteSet(s) /\ Ints(f, s)
    BY FS_Subset DEF Ints
  <2>6. Sum(f, s) = f[x] + Sum(f, s \ {x})
    BY <2>2, <2>5, SumRemove
  <2>7. Sum(f, s \ {x}) \in Int /\ f[x] \in Int
    BY <2>2, <2>5, SumTerms
  <2> QED BY <2>4, <2>6, <2>7
<1>8. \A s \in SUBSET S : s \in Good
  <2> HIDE DEF Good
  <2> QED BY <1>6, <1>7, FiniteInduction
<1> QED BY <1>1, <1>8

\* What a context takes from the invoices and from the candidates for the freight.
LEMMA ContextTakes ==
    ASSUME NEW files, NEW ov, NEW hist, NEW c, c = Context(files, ov, hist)
    PROVE  \E vs, list, candidates :
               /\ c.inv = I!InvoiceResult(vs, list)
               /\ DOMAIN c.items = DOMAIN list
               /\ \A k \in DOMAIN list : c.items[k].total = I!LineTotal(list[k].row)
               /\ c.candidates = candidates /\ DOMAIN candidates = 1..3
               /\ c.freight = R!FreightDefault(candidates, c.inv.currency)
<1>1. PICK inv, lists, forms :
          /\ inv = I!FinalizeInvoices(Payloads(files, "INVOICE"))
          /\ c = OfDocuments(files, ov, hist, inv, lists, forms)
  BY DEF Context
<1>2. PICK vs, list : inv = I!InvoiceResult(vs, list)
  BY <1>1 DEF I!FinalizeInvoices
<1>3. inv.items = list
  BY <1>2 DEF I!InvoiceResult
<1>4. PICK ship : c = OfInvoices(files, ov, hist, inv, lists, forms, ship)
  BY <1>1 DEF OfDocuments
<1>5. PICK authority, items :
          /\ items = [k \in DOMAIN inv.items |-> ItemOf(inv.items[k], k, ov, hist)]
          /\ c = OfTransport(files, inv, lists, forms, ship, authority, items)
  BY <1>4 DEF OfInvoices
<1>6. PICK candidates, rows, printed :
          /\ DOMAIN candidates = 1..3
          /\ c = ContextOf(inv, lists, forms, ship, authority, items, rows, candidates, printed)
  <2> DEFINE printed == PrintedBanking(Payloads(files, "BANKING"))
             candidates == FreightCandidates(Payloads(files, "INVOICE"), forms, authority.printed,
                                             printed)
             rows == TrustedRows(lists)
  <2>1. c = ContextOf(inv, lists, forms, ship, authority, items, rows, candidates, printed)
    BY <1>5, Zenon DEF OfTransport
  <2>2. DOMAIN candidates = 1..3
    <3>1. PICK x, y, z : candidates = <<x, y, z>>
      BY DEF FreightCandidates
    <3> HIDE DEF candidates
    <3> QED BY <3>1
  <2> HIDE DEF candidates, rows, printed
  <2> QED BY <2>1, <2>2
<1>7. /\ c.inv = inv /\ c.items = items /\ c.candidates = candidates
      /\ c.freight = R!FreightDefault(candidates, inv.currency)
  BY <1>6 DEF ContextOf
<1>8. \A k \in DOMAIN list : items[k].total = I!LineTotal(list[k].row)
  BY <1>3, <1>5 DEF ItemOf, ItemFrom
<1>9. DOMAIN items = DOMAIN list
  BY <1>3, <1>5
<1> QED BY <1>2, <1>6, <1>7, <1>8, <1>9

\* What CostsAddUp asks of a declaration d of these candidates for the freight, of which
\* the review proposed one.
Costed(d, candidates, own, proposed) ==
    LET v == d.reviewed.values
        lines == d.lines
        n == Cardinality(DOMAIN lines)
        cif == SumFunction([k \in DOMAIN lines |-> d.valuation.items[k].cif])
    IN  lines # << >> =>
        /\ SumFunction([k \in DOMAIN lines |-> lines[k].freight]) = d.freight
        /\ SumFunction([k \in DOMAIN lines |-> lines[k].insurance]) = v["insurance"]
        /\ d.freight = IF v["freight"] \notin {R!NoAmount, proposed} THEN v["freight"]
                       ELSE HighestOwn(candidates, own, 0)
        /\ cif <= d.valuation.cif + n /\ d.valuation.cif <= cif + n

\* The absent amount is an integer.
LEMMA NoAmountIsInt == R!NoAmount \in Int
BY DEF R!NoAmount

\* An amount below zero counts as none.
LEMMA FlooredIsInt == \A y \in Int : (IF y < 0 THEN 0 ELSE y) \in Int
OBVIOUS

\* The review proposes the freight of its context, and no insurance.
LEMMA ProposedCosts ==
    ASSUME NEW c
    PROVE  LET r == ReviewOf(c).values
           IN  r.values["freight"] = c.freight /\ r.values["insurance"] = R!NoAmount
<1>1. /\ "freight" \in D!Fields /\ "insurance" \in D!Fields
      /\ "freight" \notin D!Regime /\ "insurance" \notin D!Regime
  BY DEF D!Fields, D!Regime
<1> QED BY <1>1 DEF ReviewOf, D!BuildReview, R!NoAmount

\* The costs a confirmation leaves in force are amounts.
LEMMA ConfirmedCosts ==
    ASSUME NEW c, c.freight \in Int, NEW conf \in Confirmations, NEW ticked, NEW reviewed,
           reviewed = D!MergeConfirmation(ReviewOf(c).values, conf, "", ticked)
    PROVE  reviewed.values["freight"] \in Int /\ reviewed.values["insurance"] \in Int
<1> DEFINE r == ReviewOf(c).values
           pick == [f \in D!Fields |-> IF conf[f] = Keep THEN r.values[f] ELSE conf[f]]
<1>1. /\ "freight" \in D!Fields /\ "insurance" \in D!Fields
      /\ "freight" \notin D!Regime /\ "insurance" \notin D!Regime
  BY DEF D!Fields, D!Regime
<1>2. r.values["freight"] = c.freight /\ r.values["insurance"] = R!NoAmount
  BY ProposedCosts
<1> HIDE DEF r
<1>3. pick["freight"] \in Int /\ pick["insurance"] \in Int
  <2>1. \A f \in {"freight", "insurance"} : conf[f] = Keep \/ conf[f] \in Int
    BY ConfirmationsAssumption
  <2>2. r.values["freight"] \in Int /\ r.values["insurance"] \in Int
    BY <1>2, NoAmountIsInt, Zenon
  <2>3. \A f \in {"freight", "insurance"} : pick[f] = IF conf[f] = Keep THEN r.values[f] ELSE conf[f]
    BY <1>1
  <2> HIDE DEF pick
  <2> QED BY <2>1, <2>2, <2>3
<1>4. DOMAIN pick = D!Fields
  OBVIOUS
<1>5. reviewed.values = [pick EXCEPT !["borderOffice"] = D!BorderOffice(r, conf, pick["office"]),
                                     !["gross"] = D!Kilograms(@, pick["unit"]),
                                     !["insurance"] = IF @ < 0 THEN 0 ELSE @]
  BY DEF D!MergeConfirmation, r
<1> HIDE DEF pick
<1>6. /\ reviewed.values["freight"] = pick["freight"]
      /\ reviewed.values["insurance"] = IF pick["insurance"] < 0 THEN 0 ELSE pick["insurance"]
  BY <1>1, <1>4, <1>5
<1> QED BY <1>3, <1>6, FlooredIsInt, Zenon

\* A confirmation changes the codes of the items, not their totals.
LEMMA FinalItemsKeepTotals ==
    ASSUME NEW c, ContextOK(c), NEW override
    PROVE  /\ DOMAIN FinalItems(c, override) = DOMAIN c.items
           /\ \A k \in DOMAIN c.items :
                 FinalItems(c, override)[k].total = c.items[k].total /\ c.items[k].total \in Nat
<1> SUFFICES ASSUME NEW k \in DOMAIN c.items
             PROVE  FinalItems(c, override)[k].total = c.items[k].total
  BY DEF FinalItems, ContextOK
<1>1. "total" \in DOMAIN c.items[k]
  BY DEF ContextOK, ItemFields
<1>2. PICK hs : FinalItems(c, override)[k]
                  = [c.items[k] EXCEPT !.hs = hs.code, !.hsSource = hs.source,
                                       !.hsExplicit = hs.explicit]
  BY DEF FinalItems
<1> QED BY <1>1, <1>2

\* The costs of a declaration of a context are those of the shipment.
LEMMA MadeCosts ==
    ASSUME NEW files, NEW ov, NEW hist, NEW c, c = Context(files, ov, hist), ContextOK(c),
           NEW conf \in Confirmations, NEW ticked, NEW override, NEW rate \in Rates,
           NEW d, Makes(c, ReviewOf(c).values, conf, ticked, override, rate, d)
    PROVE  Costed(d, c.candidates, c.inv.currency, c.freight)
<1> DEFINE reviewed == D!MergeConfirmation(ReviewOf(c).values, conf, "", ticked)
           items == FinalItems(c, override)
           S == DOMAIN items
           own == c.inv.currency
<1>1. PICK vs, list, candidates :
          /\ c.inv = I!InvoiceResult(vs, list)
          /\ DOMAIN c.items = DOMAIN list
          /\ \A k \in DOMAIN list : c.items[k].total = I!LineTotal(list[k].row)
          /\ c.candidates = candidates /\ DOMAIN candidates = 1..3
          /\ c.freight = R!FreightDefault(candidates, c.inv.currency)
  BY ContextTakes
<1>2. IsFiniteSet(DOMAIN candidates) /\ \A k \in DOMAIN candidates : candidates[k].amount \in Int
  <2>1. IsFiniteSet(1..3)
    <3>1. 1 \in Int /\ 3 \in Int
      OBVIOUS
    <3> QED BY <3>1, FS_Interval, Zenon
  <2>2. \A k \in DOMAIN c.candidates : c.candidates[k].amount \in Int
    BY DEF ContextOK
  <2> QED BY <1>1, <2>1, <2>2
<1>3. c.freight \in Int
  <2>1. R!NoAmount \in Int
    BY DEF R!NoAmount
  <2>2. R!FreightDefault(candidates, own) \in Int
    BY <1>2, <2>1, FreightIsSelected
  <2> QED BY <1>1, <2>2
<1>4. reviewed.values["freight"] \in Int /\ reviewed.values["insurance"] \in Int
  BY <1>3, ConfirmedCosts
<1>5. /\ S = DOMAIN c.items
      /\ \A k \in S : items[k].total = c.items[k].total /\ c.items[k].total \in Nat
  BY FinalItemsKeepTotals
<1>6. IsFiniteSet(S) /\ S \in SUBSET Int
  BY <1>5 DEF ContextOK, FiguresOK
<1>7. PICK lines, freight, shares : CostsOf(d, c, reviewed, items, rate, lines, freight, shares)
  <2>1. d = ConfirmStep(c, reviewed, items, override, rate)
    BY DEF Makes
  <2> HIDE DEF reviewed, items
  <2> QED BY <2>1, DeclarationCosts
<1> HIDE DEF reviewed, items
<1> DEFINE asked == reviewed.values["freight"]
           insurance == reviewed.values["insurance"]
           freights == R!AllocateCost(freight, shares)
           insurances == R!AllocateCost(insurance, shares)
<1>8. /\ freight = R!SelectFreight(candidates, asked, own)
      /\ shares = [k \in S |-> items[k].total]
      /\ d.freight = freight /\ d.reviewed = reviewed /\ d.lines = lines
      /\ lines = [k \in S |-> lines[k]]
      /\ \A k \in S : /\ lines[k].value = items[k].total
                      /\ lines[k].freight = freights[k] /\ lines[k].insurance = insurances[k]
      /\ d.valuation = D!Valuation(lines, c.inv.goods, freight, insurance, rate)
  BY <1>1, <1>7 DEF CostsOf
<1>9. /\ freight \in Int
      /\ asked # R!NoAmount => freight = asked
      /\ asked = R!NoAmount => freight = HighestOwn(candidates, own, 0)
  BY <1>2, <1>4, <1>8, FreightIsSelected
<1>10. SUFFICES ASSUME lines # << >>
                PROVE  Costed(d, candidates, own, c.freight)
  BY <1>1, <1>8 DEF Costed
<1>11. S # {}
  <2>1. ASSUME S = {} PROVE FALSE
    <3>1. lines = [k \in {} |-> lines[k]]
      BY <1>8, <2>1
    <3>2. [k \in {} |-> lines[k]] = << >>
      OBVIOUS
    <3> QED BY <1>10, <3>1, <3>2
  <2> QED BY <2>1
<1>12. DOMAIN shares = S /\ Nats(shares, S) /\ Ints(shares, S)
       /\ \A k \in S : lines[k].value = shares[k] /\ shares[k] = c.items[k].total
  <2>1. DOMAIN shares = S /\ \A k \in S : shares[k] = items[k].total
    BY <1>8
  <2>2. \A k \in S : shares[k] = c.items[k].total /\ shares[k] \in Nat
    BY <1>5, <2>1
  <2>3. \A k \in S : lines[k].value = shares[k]
    BY <1>8, <2>1
  <2> HIDE DEF S
  <2>4. Nats(shares, S) /\ Ints(shares, S)
    BY <2>2 DEF Nats, Ints
  <2> QED BY <2>1, <2>2, <2>3, <2>4
<1>13. DOMAIN freights = S /\ Ints(freights, S) /\ Sum(freights, S) = freight
  <2> HIDE DEF S
  <2> QED BY <1>6, <1>9, <1>11, <1>12, CostIsShared
<1>14. DOMAIN insurances = S /\ Ints(insurances, S) /\ Sum(insurances, S) = insurance
  <2>1. insurance \in Int
    BY <1>4
  <2> HIDE DEF S, insurance
  <2> QED BY <2>1, <1>6, <1>11, <1>12, CostIsShared
<1>15. Sum(shares, S) = c.inv.goods
  <2>1. S = DOMAIN list /\ \A k \in S : shares[k] = I!LineTotal(list[k].row)
    BY <1>1, <1>5, <1>12
  <2>2. AddsUp(list) = Sum(shares, S)
    <3> HIDE DEF S
    <3> QED BY <1>6, <1>12, <2>1, FoldIsSum
  <2>3. c.inv.goods = AddsUp(list)
    BY <1>1, GoodsAddUp
  <2> QED BY <2>2, <2>3
<1> HIDE DEF freights, insurances, S
<1>16. DOMAIN lines = S
  BY <1>8
<1>17. SumFunction([k \in DOMAIN lines |-> lines[k].freight]) = freight
  <2>1. [k \in DOMAIN lines |-> lines[k].freight] = [k \in S |-> freights[k]]
    BY <1>8, <1>16
  <2>2. SumFunction([k \in S |-> freights[k]]) = SumFunction(freights)
    BY <1>6, <1>13, ColumnsAddUp
  <2> QED BY <1>13, <2>1, <2>2 DEF Sum, SumFunction
<1>18. SumFunction([k \in DOMAIN lines |-> lines[k].insurance]) = insurance
  <2>1. [k \in DOMAIN lines |-> lines[k].insurance] = [k \in S |-> insurances[k]]
    BY <1>8, <1>16
  <2>2. SumFunction([k \in S |-> insurances[k]]) = SumFunction(insurances)
    BY <1>6, <1>14, ColumnsAddUp
  <2> QED BY <1>14, <2>1, <2>2 DEF Sum, SumFunction
<1> DEFINE cifs == [k \in DOMAIN lines |-> d.valuation.items[k].cif]
           n == Cardinality(DOMAIN lines)
<1>19. SumFunction(cifs) <= d.valuation.cif + n /\ d.valuation.cif <= SumFunction(cifs) + n
  <2>1. PICK v : v = d.valuation
    OBVIOUS
  <2>2. v = D!Valuation(lines, Sum(shares, S), Sum(freights, S), Sum(insurances, S), rate)
    BY <1>8, <1>13, <1>14, <1>15, <2>1
  <2>3. DOMAIN cifs = S /\ \A k \in S : cifs[k] = v.items[k].cif
    BY <1>16, <2>1
  <2>4. rate \in Rate
    BY RatesAssumption DEF Rate
  <2>5. \A k \in S : /\ lines[k].value = shares[k] /\ lines[k].freight = freights[k]
                     /\ lines[k].insurance = insurances[k]
    BY <1>8, <1>12
  <2> HIDE DEF cifs
  <2>6. LET off == Sum(cifs, S) - v.cif
        IN  /\ Sum(cifs, S) \in Int /\ v.cif \in Int
            /\ off <= Cardinality(S) /\ -off <= Cardinality(S)
    <3>1. /\ IsFiniteSet(S) /\ S # {} /\ DOMAIN lines = S
          /\ Ints(shares, S) /\ Ints(freights, S) /\ Ints(insurances, S)
      BY <1>6, <1>11, <1>12, <1>13, <1>14, <1>16
    <3>2. Valued(S, lines, shares, freights, insurances, rate, v, cifs)
      BY <2>2, <2>3, <2>5, <3>1 DEF Valued
    <3> QED BY <2>4, <3>2, ValuesNear
  <2>7. SumFunction(cifs) = Sum(cifs, S)
    BY <2>3 DEF Sum, SumFunction
  <2>8. Cardinality(S) \in Nat
    BY <1>6, FS_CardinalityType
  <2> QED BY <1>16, <2>1, <2>6, <2>7, <2>8
<1>20. freight = IF asked \notin {R!NoAmount, c.freight} THEN asked
                 ELSE HighestOwn(candidates, own, 0)
  <2>1. c.freight # R!NoAmount => c.freight = HighestOwn(candidates, own, 0)
    <3>1. c.freight = R!FreightDefault(candidates, own)
      BY <1>1
    <3> QED BY <1>2, <1>4, <3>1, FreightIsSelected
  <2> HIDE DEF asked, own
  <2> QED BY <1>9, <2>1
<1> HIDE DEF cifs, n
<1> QED BY <1>8, <1>17, <1>18, <1>19, <1>20 DEF Costed, cifs, n

\* What is declared of a review of documents has the costs of the shipment.
LEMMA DeclaredCosts == DeclaredIsMade /\ ReviewIsComputed /\ ReviewOK => CostsAddUp
<1> SUFFICES ASSUME DeclaredIsMade, ReviewIsComputed, ReviewOK, declared # None
             PROVE  Costed(declared, review.context.candidates, review.context.inv.currency,
                           review.values.values["freight"])
  BY Zenon DEF CostsAddUp, Costed, Foreign, HighestOwn, OwnAmounts
<1>1. review # NoReview /\ DeclaredOf(review, declared)
  BY DEF DeclaredIsMade, NoDeclaration
<1>2. PICK c, d : c = review.context /\ d = declared
  OBVIOUS
<1>3. review = ReviewOf(c) /\ ContextOK(c) /\ \E files, ov, hist : c = Context(files, ov, hist)
  BY <1>1, <1>2, ReviewOfItsContext DEF ReviewOK
<1>4. PICK files, ov, hist : c = Context(files, ov, hist)
  BY <1>3
<1>5. PICK conf \in Confirmations, rate \in Rates : \E ticked, override :
          Makes(review.context, review.values, conf, ticked, override, rate, declared)
  BY <1>1 DEF DeclaredOf
<1>6. PICK ticked, override :
          Makes(review.context, review.values, conf, ticked, override, rate, declared)
  BY <1>5
<1>7. Makes(c, ReviewOf(c).values, conf, ticked, override, rate, d)
  BY <1>2, <1>3, <1>6
<1>8. Costed(d, c.candidates, c.inv.currency, c.freight)
  BY <1>3, <1>4, <1>7, MadeCosts
<1>9. review.values.values["freight"] = c.freight
  <2>1. review.values = ReviewOf(c).values
    BY <1>3
  <2> QED BY <2>1, ProposedCosts
<1> QED BY <1>2, <1>8, <1>9

-----------------------------------------------------------------------------
(* Every step keeps what a job holds, and the review the one of it.          *)

\* The review on record is the one of the documents and entries there are.
ReviewIsCurrent == review # NoReview => review = BuiltReview(uploads, overlay, history)

\* Such a review is made of figures.
LEMMA BuiltTyped ==
    ASSUME NEW files \in Seq(DOMAIN Document), NEW ov \in Overlay, NEW hist,
           NEW r, r = BuiltReview(files, ov, hist)
    PROVE  ContextOK(r.context)
<1>1. PICK c : c = Context(files, ov, hist)
  OBVIOUS
<1>2. r = ReviewOf(c)
  BY <1>1 DEF BuiltReview
<1>3. r.context = c
  <2>1. ReviewOf(c).context = c
    BY DEF ReviewOf
  <2> QED BY <1>2, <2>1
<1>4. ContextOK(c)
  BY <1>1, OverlayEntries, ContextTyped
<1> QED BY <1>3, <1>4

\* What a job keeps, but for its review.
Kept ==
    /\ family \in Families
    /\ uploads \in Seq(DOMAIN Document)
    /\ Range(uploads) \subseteq family.files /\ IsInjective(uploads)
    /\ overlay \in Overlay
    /\ history \in [DOMAIN history -> DOMAIN Official]
    /\ review = NoReview => declared = NoDeclaration

LEMMA EmptyTyped == EmptyOverlay \in Overlay
<1>1. << >> \in Seq([row : Rows, code : DOMAIN Official, key : Texts])
  OBVIOUS
<1>2. 0 \in 0..MaxEntries
  BY EntriesAssumption
<1>3. [k \in Rows |-> NoPin] \in [Rows -> [gross : Nat, net : Nat, ctn : Nat]]
  BY DEF NoPin
<1>4. NoTotals \in [gross : Nat, ctn : Nat]
  BY DEF NoTotals
<1> QED BY <1>1, <1>2, <1>3, <1>4 DEF EmptyOverlay, Overlay

\* What an upload keeps of the entries are entries.
LEMMA ResetTyped == ASSUME overlay \in Overlay, NEW role PROVE Reset(role) \in Overlay
<1>1. /\ overlay.pins \in [Rows -> [gross : Nat, net : Nat, ctn : Nat]]
      /\ overlay.totals \in [gross : Nat, ctn : Nat]
      /\ overlay.hs \in Seq([row : Rows, code : DOMAIN Official, key : Texts])
      /\ overlay.entries \in 0..MaxEntries
  BY DEF Overlay
<1>2. [EmptyOverlay EXCEPT !.totals = overlay.totals, !.entries = overlay.entries] \in Overlay
  BY <1>1, EmptyTyped DEF Overlay
<1>3. [EmptyOverlay EXCEPT !.hs = overlay.hs, !.entries = overlay.entries] \in Overlay
  BY <1>1, EmptyTyped DEF Overlay
<1>4. CASE role = "INVOICE"
  BY <1>2, <1>4 DEF Reset
<1>5. CASE role \in {"AIR_WAYBILL", "PACKING_LIST"}
  BY <1>3, <1>5 DEF Reset
<1>6. CASE role # "INVOICE" /\ role \notin {"AIR_WAYBILL", "PACKING_LIST"}
  BY <1>6 DEF Reset
<1> QED BY <1>4, <1>5, <1>6

\* What is folded into the history are official codes.
LEMMA FoldTyped ==
    ASSUME overlay \in Overlay, history \in [DOMAIN history -> DOMAIN Official]
    PROVE  Fold \in [DOMAIN Fold -> DOMAIN Official]
<1> DEFINE chosen == overlay.hs
           keys == {chosen[n].key : n \in DOMAIN chosen}
           with(x) == {n \in DOMAIN chosen : chosen[n].key = x}
           of(x) == IF x \in keys THEN chosen[Max(with(x))].code ELSE history[x]
<1>1. Fold = [x \in DOMAIN history \cup keys |-> of(x)]
  BY Zenon DEF Fold
<1>2. chosen \in Seq([row : Rows, code : DOMAIN Official, key : Texts])
  BY DEF Overlay
<1>3. PICK N \in Nat : /\ DOMAIN chosen = 1..N
                       /\ \A n \in 1..N : chosen[n] \in [row : Rows, code : DOMAIN Official, key : Texts]
  <2> HIDE DEF chosen
  <2> QED BY <1>2, LenProperties, ElementOfSeq
<1> HIDE DEF chosen
<1>4. ASSUME NEW x \in DOMAIN history \cup keys PROVE of(x) \in DOMAIN Official
  <2>1. CASE x \in keys
    <3>1. with(x) # {} /\ with(x) \in SUBSET (1..N)
      BY <1>3, <2>1
    <3>2. IsFiniteSet(1..N)
      BY FS_Interval
    <3> HIDE DEF with, keys
    <3>3. IsFiniteSet(with(x))
      BY <3>1, <3>2, FS_Subset
    <3>4. with(x) \in SUBSET Int
      BY <3>1
    <3>5. Max(with(x)) \in 1..N
      BY <3>1, <3>3, <3>4, ExtremesOf
    <3>6. chosen[Max(with(x))] \in [row : Rows, code : DOMAIN Official, key : Texts]
      BY <1>3, <3>5
    <3>7. chosen[Max(with(x))].code \in DOMAIN Official
      BY <3>6
    <3> QED BY <2>1, <3>7
  <2>2. CASE x \notin keys
    <3> HIDE DEF keys
    <3> QED BY <2>2
  <2> QED BY <2>1, <2>2
<1> HIDE DEF of, keys
<1> QED BY <1>1, <1>4

\* One entry more.
LEMMA CountedTyped ==
    ASSUME NEW ov \in Overlay, ov.entries < MaxEntries
    PROVE  [ov EXCEPT !.entries = @ + 1] \in Overlay
<1>1. ov.entries + 1 \in 0..MaxEntries
  BY EntriesAssumption DEF Overlay
<1> QED BY <1>1 DEF Overlay

LEMMA EnteredKeeps ==
    ASSUME Kept, NEW ov \in Overlay, ov.entries = overlay.entries, Entered(ov)
    PROVE  Kept' /\ ReviewIsCurrent'
<1>1. /\ UNCHANGED <<family, uploads, history>> /\ overlay.entries < MaxEntries
      /\ overlay' = [ov EXCEPT !.entries = @ + 1]
      /\ review' = BuiltReview(uploads, overlay', history)
      /\ declared' = NoDeclaration
  BY DEF Entered
<1>2. overlay' \in Overlay
  BY <1>1, CountedTyped
<1>3. ReviewIsCurrent'
  BY <1>1 DEF ReviewIsCurrent
<1>4. Kept'
  BY <1>1, <1>2 DEF Kept
<1> QED BY <1>3, <1>4

LEMMA AttachKeeps ==
    ASSUME Kept, NEW f \in DOMAIN Document, Attach(f)
    PROVE  Kept' /\ ReviewIsCurrent'
<1>1. /\ f \in family.files /\ \A k \in DOMAIN uploads : uploads[k] # f
      /\ uploads' = Append(uploads, f)
      /\ overlay' = Reset(Document[f].role)
      /\ history' = IF Document[f].role = "INVOICE" THEN Fold ELSE history
      /\ review' = NoReview /\ declared' = NoDeclaration /\ family' = family
  BY DEF Attach
<1>2. overlay' \in Overlay
  BY <1>1, ResetTyped DEF Kept
<1>3. history' \in [DOMAIN history' -> DOMAIN Official]
  BY <1>1, FoldTyped DEF Kept
<1>4. PICK us : us = uploads /\ us \in Seq(DOMAIN Document)
  BY DEF Kept
<1>5. /\ Len(us) \in Nat /\ DOMAIN us = 1..Len(us)
      /\ Append(us, f) \in Seq(DOMAIN Document)
      /\ DOMAIN Append(us, f) = 1..(Len(us) + 1)
      /\ \A k \in 1..Len(us) : Append(us, f)[k] = us[k]
      /\ Append(us, f)[Len(us) + 1] = f
  BY <1>4, AppendProperties, LenProperties
<1>6. PICK n \in Nat : n = Len(us)
  BY <1>5
<1> DEFINE more == Append(us, f)
<1> HIDE DEF more
<1>7. Range(more) \subseteq family.files
  BY <1>1, <1>4, <1>5, <1>6 DEF Kept, Range, more
<1>8. IsInjective(more)
  <2>1. \A a, b \in 1..n : us[a] = us[b] => a = b
    BY <1>4, <1>5, <1>6 DEF Kept, IsInjective
  <2>2. \A a \in 1..n : more[a] = us[a] /\ us[a] # f
    BY <1>1, <1>4, <1>5, <1>6 DEF more
  <2>3. DOMAIN more = 1..(n + 1) /\ more[n + 1] = f
    BY <1>5, <1>6 DEF more
  <2>4. \A a \in 1..(n + 1) : a \in 1..n \/ a = n + 1
    OBVIOUS
  <2> QED BY <2>1, <2>2, <2>3, <2>4 DEF IsInjective
<1>9. Kept'
  BY <1>1, <1>2, <1>3, <1>4, <1>5, <1>6, <1>7, <1>8 DEF Kept, more
<1> QED BY <1>1, <1>9 DEF ReviewIsCurrent

\* The remedy a blocked table offers is a pair of positive totals.
LEMMA RemedyIsTotals ==
    ASSUME ReviewIsComputed, ReviewOK, ApplyRemedy
    PROVE  \E gross, ctn \in Nat :
               /\ SetShipmentTotals(gross, ctn)
               /\ review.table.grossNeed > 0 => gross = review.table.grossNeed
               /\ review.table.ctnNeed > 0 => ctn = review.table.ctnNeed
<1>1. PICK t, c : t = review.table /\ c = review.context
  OBVIOUS
<1>2. Allocated
  BY DEF ApplyRemedy, Allocated, NoReview
<1>3. PICK items, ev, packing, gross, packages :
        /\ items = c.items /\ ev = c.evidence /\ packing = c.packing
        /\ gross = c.ship.gross /\ packages = c.ship.packages
  OBVIOUS
<1>4. /\ FiguresOK(items, ev) /\ items # << >> /\ gross \in Nat /\ gross > 0 /\ packages \in Nat
      /\ t = Allocate(items, ev, packing, gross, packages)
  BY <1>1, <1>2, <1>3, TableIsAllocated
<1> DEFINE g == IF t.grossNeed > 0 THEN t.grossNeed ELSE gross
           p == IF t.ctnNeed > 0 THEN t.ctnNeed ELSE packages
<1>5. g \in Nat
  <2>1. t.grossNeed > 0 => t.grossNeed \in Nat
    BY <1>4, GrossRemedied
  <2> QED BY <1>4, <2>1
<1>6. p \in Nat
  <2>1. t.ctnNeed > 0 => t.ctnNeed \in Nat
    BY <1>4, CartonsRemedied
  <2> QED BY <1>4, <2>1
<1>7. SetShipmentTotals(g, p)
  BY <1>1, <1>3, Zenon DEF ApplyRemedy
<1>8. /\ review.table.grossNeed > 0 => g = review.table.grossNeed
      /\ review.table.ctnNeed > 0 => p = review.table.ctnNeed
  BY <1>1
<1> HIDE DEF g, p
<1> QED BY <1>5, <1>6, <1>7, <1>8

LEMMA TotalsKeep ==
    ASSUME Kept, NEW gross \in Nat, NEW ctn \in Nat, SetShipmentTotals(gross, ctn)
    PROVE  Kept' /\ ReviewIsCurrent'
<1>1. PICK ov : ov = [overlay EXCEPT !.totals = [gross |-> gross, ctn |-> ctn]]
  OBVIOUS
<1>2. overlay \in Overlay
  BY DEF Kept
<1>3. ov \in Overlay /\ ov.entries = overlay.entries
  BY <1>1, <1>2 DEF Overlay
<1>4. Entered(ov)
  BY <1>1 DEF SetShipmentTotals
<1> QED BY <1>3, <1>4, EnteredKeeps

LEMMA CurrentReview ==
    ASSUME Kept, ReviewIsCurrent
    PROVE  ReviewIsComputed /\ ReviewOK
<1>1. ReviewIsComputed
  BY DEF ReviewIsComputed, ReviewIsCurrent
<1>2. ASSUME review # NoReview PROVE ContextOK(review.context)
  <2>1. review = BuiltReview(uploads, overlay, history)
    BY <1>2 DEF ReviewIsCurrent
  <2>2. uploads \in Seq(DOMAIN Document) /\ overlay \in Overlay
    BY DEF Kept
  <2> QED BY <2>1, <2>2, BuiltTyped
<1> QED BY <1>1, <1>2 DEF ReviewOK

LEMMA PinWeightsKeeps ==
    ASSUME Kept, NEW k \in Rows, NEW gross \in Nat, NEW net \in Nat, PinWeights(k, gross, net)
    PROVE  Kept' /\ ReviewIsCurrent'
<1>1. PICK ov : ov = [overlay EXCEPT !.pins[k].gross = gross, !.pins[k].net = net]
  OBVIOUS
<1>2. overlay \in Overlay
  BY DEF Kept
<1>3. ov \in Overlay /\ ov.entries = overlay.entries
  BY <1>1, <1>2 DEF Overlay
<1>4. Entered(ov)
  BY <1>1 DEF PinWeights
<1> QED BY <1>3, <1>4, EnteredKeeps

LEMMA PinCartonsKeeps ==
    ASSUME Kept, NEW k \in Rows, NEW ctn \in Nat, PinCartons(k, ctn)
    PROVE  Kept' /\ ReviewIsCurrent'
<1>1. PICK ov : ov = [overlay EXCEPT !.pins[k].ctn = ctn]
  OBVIOUS
<1>2. overlay \in Overlay
  BY DEF Kept
<1>3. ov \in Overlay /\ ov.entries = overlay.entries
  BY <1>1, <1>2 DEF Overlay
<1>4. Entered(ov)
  BY <1>1 DEF PinCartons
<1> QED BY <1>3, <1>4, EnteredKeeps

LEMMA SelectHsKeeps ==
    ASSUME Kept, ReviewOK, NEW k \in Rows, NEW code, SelectHs(k, code)
    PROVE  Kept' /\ ReviewIsCurrent'
<1> DEFINE Entry == [row : Rows, code : DOMAIN Official, key : Texts]
           entry == [row |-> k, code |-> code, key |-> review.context.items[k].text]
           at == {n \in DOMAIN overlay.hs : overlay.hs[n].row = k}
           first == [overlay EXCEPT !.hs = Append(@, entry)]
           again == [overlay EXCEPT !.hs[Max(at)] = entry]
<1>1. entry \in Entry
  <2>1. k \in DOMAIN review.context.items /\ code \in DOMAIN Official /\ review # NoReview
    BY DEF SelectHs
  <2>2. review.context.items[k].text \in Texts
    BY <2>1 DEF ReviewOK, ContextOK
  <2> QED BY <2>1, <2>2
<1>2. Entered(IF at = {} THEN first ELSE again)
  BY DEF SelectHs
<1>3. overlay \in Overlay /\ overlay.hs \in Seq(Entry)
  BY DEF Kept, Overlay
<1> HIDE DEF entry
<1>4. first \in Overlay /\ first.entries = overlay.entries
  <2>1. Append(overlay.hs, entry) \in Seq(Entry)
    BY <1>1, <1>3, AppendProperties
  <2> QED BY <1>3, <2>1 DEF Overlay
<1>5. ASSUME at # {} PROVE again \in Overlay /\ again.entries = overlay.entries
  <2>1. PICK hs : hs = overlay.hs
    OBVIOUS
  <2>2. hs \in Seq(Entry)
    BY <1>3, <2>1
  <2>3. PICK N \in Nat : DOMAIN hs = 1..N /\ N = Len(hs)
    <3> HIDE DEF Entry
    <3> QED BY <2>2, LenProperties
  <2>4. Max(at) \in 1..N
    <3>1. at \in SUBSET (1..N)
      BY <2>1, <2>3
    <3>2. IsFiniteSet(1..N)
      BY FS_Interval
    <3> HIDE DEF at
    <3>3. IsFiniteSet(at)
      BY <3>1, <3>2, FS_Subset
    <3>4. at \in SUBSET Int
      BY <3>1
    <3> QED BY <1>5, <3>1, <3>3, <3>4, ExtremesOf
  <2>5. PICK m : m = Max(at)
    OBVIOUS
  <2>6. [hs EXCEPT ![m] = entry] \in Seq(Entry)
    <3> HIDE DEF Entry, at
    <3>1. m \in 1..Len(hs)
      BY <2>3, <2>4, <2>5
    <3> QED BY <1>1, <2>2, <3>1, ExceptSeq
  <2>7. again = [overlay EXCEPT !.hs = [hs EXCEPT ![m] = entry]]
    <3>1. again = [overlay EXCEPT !.hs[m] = entry]
      BY <2>5
    <3> HIDE DEF again
    <3> QED BY <2>1, <3>1
  <2> HIDE DEF again
  <2> QED BY <1>3, <2>6, <2>7 DEF Overlay
<1> HIDE DEF first, again, at
<1>6. PICK ov \in Overlay : ov.entries = overlay.entries /\ Entered(ov)
  BY <1>2, <1>4, <1>5
<1> QED BY <1>6, EnteredKeeps

\* Every step keeps what a job holds, and the review that of the documents and entries.
LEMMA KeptStays == Kept /\ ReviewIsCurrent /\ [Next]_vars => Kept' /\ ReviewIsCurrent'
<1> SUFFICES ASSUME Kept, ReviewIsCurrent, [Next]_vars PROVE Kept' /\ ReviewIsCurrent'
  OBVIOUS
<1>0. ReviewIsComputed /\ ReviewOK
  BY CurrentReview
<1>1. ASSUME NEW f \in DOMAIN Document, Attach(f) PROVE Kept' /\ ReviewIsCurrent'
  BY <1>1, AttachKeeps
<1>2. CASE CriticalReview
  <2>1. /\ UNCHANGED <<family, uploads, overlay, history, declared>> /\ review = NoReview
        /\ review' = BuiltReview(uploads, overlay, history)
    BY <1>2 DEF CriticalReview
  <2>2. Kept'
    BY <2>1 DEF Kept
  <2> QED BY <2>1, <2>2 DEF ReviewIsCurrent
<1>3. ASSUME NEW k \in Rows, NEW g \in GrossPins, NEW n \in NetPins, PinWeights(k, g, n)
      PROVE  Kept' /\ ReviewIsCurrent'
  <2>1. g \in Nat /\ n \in Nat
    BY EntriesAssumption
  <2> QED BY <1>3, <2>1, PinWeightsKeeps
<1>4. ASSUME NEW k \in Rows, NEW c \in CtnPins, PinCartons(k, c)
      PROVE  Kept' /\ ReviewIsCurrent'
  <2>1. c \in Nat
    BY EntriesAssumption
  <2> QED BY <1>4, <2>1, PinCartonsKeeps
<1>5. ASSUME NEW t \in TotalsEntered, SetShipmentTotals(t[1], t[2])
      PROVE  Kept' /\ ReviewIsCurrent'
  <2>1. t[1] \in Nat /\ t[2] \in Nat
    BY EntriesAssumption
  <2> QED BY <1>5, <2>1, TotalsKeep
<1>6. CASE ApplyRemedy
  BY <1>0, <1>6, RemedyIsTotals, TotalsKeep
<1>7. ASSUME NEW k \in Rows, NEW code, SelectHs(k, code) PROVE Kept' /\ ReviewIsCurrent'
  BY <1>0, <1>7, SelectHsKeeps
<1>8. ASSUME NEW conf, NEW ticked, NEW override, NEW rate, Finalize(conf, ticked, override, rate)
      PROVE  Kept' /\ ReviewIsCurrent'
  <2>1. UNCHANGED <<family, uploads, overlay, history, review>> /\ review # NoReview
    BY <1>8 DEF Finalize
  <2> QED BY <2>1 DEF Kept, ReviewIsCurrent
<1>9. CASE UNCHANGED vars
  BY <1>9 DEF vars, Kept, ReviewIsCurrent
<1> QED BY <1>1, <1>2, <1>3, <1>4, <1>5, <1>6, <1>7, <1>8, <1>9 DEF Next

LEMMA KeptAtFirst == Init => Kept /\ ReviewIsCurrent
<1> SUFFICES ASSUME Init PROVE Kept /\ ReviewIsCurrent
  OBVIOUS
<1>1. /\ family \in Families /\ uploads = << >> /\ overlay = EmptyOverlay /\ history = << >>
      /\ review = NoReview /\ declared = NoDeclaration
  BY DEF Init
<1>2. uploads \in Seq(DOMAIN Document) /\ DOMAIN uploads = {}
  BY <1>1
<1>3. Range(uploads) \subseteq family.files /\ IsInjective(uploads)
  BY <1>2 DEF Range, IsInjective
<1>4. history \in [DOMAIN history -> DOMAIN Official]
  BY <1>1
<1> QED BY <1>1, <1>2, <1>3, <1>4, EmptyTyped DEF Kept, ReviewIsCurrent

LEMMA KeptAlways == Spec => [](Kept /\ ReviewIsCurrent)
BY KeptAtFirst, KeptStays, PTL DEF Spec

\* The table of the review there is after the remedy.
LEMMA RemedyIsEnough ==
    ASSUME Kept, ReviewIsCurrent, ApplyRemedy
    PROVE  /\ review.table.grossNeed > 0 => review'.table.codes \cap GrossCodes = {}
           /\ review.table.ctnNeed > 0 => review'.table.codes \cap CartonCodes = {}
<1>1. ReviewIsComputed /\ ReviewOK
  BY CurrentReview
<1>2. PICK g \in Nat, p \in Nat :
          /\ SetShipmentTotals(g, p)
          /\ review.table.grossNeed > 0 => g = review.table.grossNeed
          /\ review.table.ctnNeed > 0 => p = review.table.ctnNeed
  BY <1>1, RemedyIsTotals
<1>3. PICK ov : /\ g > 0 /\ p > 0 /\ overlay' = ov
                /\ ov = [[overlay EXCEPT !.totals = [gross |-> g, ctn |-> p]]
                            EXCEPT !.entries = @ + 1]
                /\ review' = BuiltReview(uploads, ov, history)
  BY <1>2 DEF SetShipmentTotals, Entered
<1>4. overlay \in Overlay
  BY DEF Kept
<1>5. ov.pins = overlay.pins /\ ov.hs = overlay.hs /\ ov.totals = [gross |-> g, ctn |-> p]
  BY <1>3, <1>4 DEF Overlay
<1>6. Allocated
  BY DEF ApplyRemedy, Allocated, NoReview
<1>7. PICK c, next : c = Context(uploads, overlay, history) /\ next = Context(uploads, ov, history)
  OBVIOUS
<1>8. review.context = c
  <2>1. review # NoReview
    BY DEF ApplyRemedy
  <2>2. review = ReviewOf(c)
    BY <1>7, <2>1 DEF ReviewIsCurrent, BuiltReview
  <2>3. ReviewOf(c).context = c
    BY DEF ReviewOf
  <2> QED BY <2>2, <2>3
<1>9. PICK items, ev, packing, gross, packages :
        /\ items = c.items /\ ev = c.evidence /\ packing = c.packing
        /\ gross = c.ship.gross /\ packages = c.ship.packages
  OBVIOUS
<1>10. PICK t : t = review.table
  OBVIOUS
<1>11. /\ FiguresOK(items, ev) /\ items # << >> /\ gross \in Nat /\ gross > 0 /\ packages \in Nat
       /\ t = Allocate(items, ev, packing, gross, packages)
  BY <1>1, <1>6, <1>8, <1>9, <1>10, TableIsAllocated
<1>12. next.items = items /\ next.evidence = ev /\ next.packing = packing
  <2>1. ItemsFrom(uploads, ov, history) = ItemsFrom(uploads, overlay, history)
    BY <1>5 DEF ItemsFrom, ItemOf, PinOf, CodeOf
  <2>2. /\ next.items = ItemsFrom(uploads, ov, history)
        /\ next.packing = PackingState(ListsOf(uploads))
        /\ next.evidence = P!MatchPacking(next.items, TrustedRows(ListsOf(uploads)))
    BY <1>7, ContextIs
  <2>3. /\ c.items = ItemsFrom(uploads, overlay, history)
        /\ c.packing = PackingState(ListsOf(uploads))
        /\ c.evidence = P!MatchPacking(c.items, TrustedRows(ListsOf(uploads)))
    BY <1>7, ContextIs
  <2> QED BY <1>9, <2>1, <2>2, <2>3
<1>13. next.ship.gross = g /\ next.ship.packages = p
  <2>1. next.ship = Overridden(StatedOf(uploads), ov.totals)
    BY <1>7, ContextIs
  <2>2. ov.totals # NoTotals
    BY <1>3, <1>5 DEF NoTotals
  <2>3. PICK s : s = StatedOf(uploads) /\ {"gross", "printed", "unit", "packages", "type"} \subseteq DOMAIN s
    <3>1. PICK ship : StatedOf(uploads) = Stated(ship)
      BY DEF StatedOf
    <3>2. DOMAIN Stated(ship)
            = {"type", "gross", "printed", "unit", "packages", "hawb", "mawb", "bl", "field40"}
      BY DEF Stated
    <3> QED BY <3>1, <3>2
  <2>4. next.ship = [s EXCEPT !.gross = ov.totals.gross, !.printed = ov.totals.gross,
                             !.unit = "KGM", !.packages = ov.totals.ctn,
                             !.type = "REVIEWER_OVERRIDE"]
    BY <2>1, <2>2, <2>3 DEF Overridden
  <2> QED BY <1>5, <2>3, <2>4
<1>14. review'.table = Allocate(items, ev, packing, g, p)
  <2>1. review' = ReviewOf(next)
    BY <1>3, <1>7 DEF BuiltReview
  <2>2. ReviewOf(next).table = Preview(next)
    BY DEF ReviewOf
  <2>3. Preview(next) = Allocate(items, ev, packing, g, p)
    BY <1>3, <1>11, <1>12, <1>13 DEF Preview
  <2> QED BY <2>1, <2>2, <2>3
<1>15. t.grossNeed > 0 => Allocate(items, ev, packing, g, p).codes \cap GrossCodes = {}
  <2> SUFFICES ASSUME t.grossNeed > 0
               PROVE  Allocate(items, ev, packing, g, p).codes \cap GrossCodes = {}
    OBVIOUS
  <2>1. g = t.grossNeed
    BY <1>2, <1>10
  <2> QED BY <1>11, <2>1, GrossRemedied
<1>16. t.ctnNeed > 0 => Allocate(items, ev, packing, g, p).codes \cap CartonCodes = {}
  <2> SUFFICES ASSUME t.ctnNeed > 0
               PROVE  Allocate(items, ev, packing, g, p).codes \cap CartonCodes = {}
    OBVIOUS
  <2>1. p = t.ctnNeed
    BY <1>2, <1>10
  <2> QED BY <1>3, <1>11, <2>1, CartonsRemedied
<1> QED BY <1>10, <1>14, <1>15, <1>16

-----------------------------------------------------------------------------
(* What is picked of a list.                                                *)

\* The entries of s at the positions in A, in their order.
Picked(t, s, A, p) ==
    /\ p \in [1..Len(t) -> A]
    /\ \A i \in 1..Len(t) : t[i] = s[p[i]]
    /\ \A k \in A : \E i \in 1..Len(t) : p[i] = k
    /\ \A i, j \in 1..Len(t) : i < j => p[i] < p[j]

\* EntriesAt picks them.
LEMMA EntriesPicked ==
    ASSUME NEW S, NEW s, NEW N \in Nat, DOMAIN s = 1..N, NEW A \in SUBSET (1..N),
           \A k \in A : s[k] \in S
    PROVE  \E p : Picked(I!EntriesAt(s, A), s, A, p)
<1> DEFINE ss == [k \in DOMAIN s |-> IF k \in A THEN << s[k] >> ELSE << >>]
<1>1. \A k \in 1..N : ss[k] \in Seq(S)
  OBVIOUS
<1>2. DOMAIN ss = 1..N /\ ss = [k \in 1..N |-> ss[k]]
  OBVIOUS
<1>3. I!EntriesAt(s, A) = FlattenSeq(ss)
  BY SameFlattening DEF I!EntriesAt
<1>4. \A k \in 1..N : /\ k \in A => Len(ss[k]) = 1 /\ ss[k][1] = s[k]
                      /\ k \notin A => Len(ss[k]) = 0
  OBVIOUS
<1> HIDE DEF ss
<1>5. PICK t, p, b : t = FlattenSeq(ss) /\ Joins(t, ss, N, p, b)
  BY <1>1, <1>2, FlattenPlaces
<1>6. PICK L \in Nat : L = Len(t)
  <2>1. t \in Seq(S)
    BY <1>1, <1>2, <1>5, FlattenTyped
  <2> QED BY <2>1, LenProperties
<1>7. /\ p \in [1..L -> 1..N] /\ b \in [1..L -> Nat]
      /\ \A i \in 1..L : b[i] \in 1..Len(ss[p[i]]) /\ t[i] = ss[p[i]][b[i]]
      /\ \A k \in 1..N : \A j \in 1..Len(ss[k]) : \E i \in 1..L : p[i] = k /\ b[i] = j
      /\ \A i, j \in 1..L : i < j => p[i] < p[j] \/ (p[i] = p[j] /\ b[i] < b[j])
  <2>1. /\ p \in [1..Len(t) -> 1..N] /\ b \in [1..Len(t) -> Nat]
        /\ \A i \in 1..Len(t) : b[i] \in 1..Len(ss[p[i]]) /\ t[i] = ss[p[i]][b[i]]
        /\ \A k \in 1..N : \A j \in 1..Len(ss[k]) :
               \E i \in 1..Len(t) : p[i] = k /\ b[i] = j
        /\ \A i, j \in 1..Len(t) : i < j => p[i] < p[j] \/ (p[i] = p[j] /\ b[i] < b[j])
    BY <1>5, Zenon DEF Joins
  <2> QED BY <1>6, <2>1
<1>8. ASSUME NEW i \in 1..L PROVE p[i] \in A /\ b[i] = 1 /\ t[i] = s[p[i]]
  <2>1. p[i] \in 1..N /\ b[i] \in 1..Len(ss[p[i]])
    BY <1>7
  <2>2. p[i] \in A
    BY <1>4, <2>1
  <2>3. b[i] = 1
    <3>1. PICK k \in A : k = p[i]
      BY <2>2
    <3>2. Len(ss[k]) = 1 /\ b[i] \in 1..Len(ss[k])
      BY <1>4, <2>1, <3>1
    <3> QED BY <3>2
  <2> QED BY <1>4, <1>7, <2>1, <2>2, <2>3
<1>9. \A k \in A : \E i \in 1..L : p[i] = k
  BY <1>4, <1>7
<1>10. \A i, j \in 1..L : i < j => p[i] < p[j]
  BY <1>7, <1>8
<1>11. p \in [1..L -> A]
  BY <1>7, <1>8
<1>12. Picked(t, s, A, p)
  BY <1>6, <1>8, <1>9, <1>10, <1>11 DEF Picked
<1> QED BY <1>3, <1>5, <1>12

-----------------------------------------------------------------------------
(* The invoices inside a file, in the order they start.                     *)

\* The operators of the instance are the library's.
LEMMA SameNumbers == ASSUME NEW S PROVE I!Cardinality(S) = Cardinality(S) /\ I!Max(S) = Max(S)
BY DEF I!Cardinality, Cardinality, I!Max, Max

\* What a file says of its invoices.
LEMMA SubsTyped ==
    ASSUME NEW chunk \in Doc!InvoiceChunk
    PROVE  \E n \in Nat : /\ DOMAIN chunk.subs = 1..n
                          /\ \A j \in 1..n : /\ chunk.subs[j] \in Doc!SubInvoice
                                             /\ chunk.subs[j].page \in Int
<1>1. chunk.subs \in Seq(Doc!SubInvoice)
  BY DEF Doc!InvoiceChunk
<1>2. PICK n \in Nat : DOMAIN chunk.subs = 1..n /\ \A j \in 1..n : chunk.subs[j] \in Doc!SubInvoice
  BY <1>1, LenProperties, ElementOfSeq
<1> QED BY <1>2 DEF Doc!SubInvoice

\* The invoices that start before another one.
Earlier(chunk) ==
    [k \in Starting(chunk) |-> {j \in Starting(chunk) : StartsBefore(chunk, j, k)}]

\* Any two of them start one before the other.
LEMMA StartsInLine ==
    ASSUME NEW chunk \in Doc!InvoiceChunk
    PROVE  IsFiniteSet(Starting(chunk)) /\ Linear(Starting(chunk), Earlier(chunk))
<1>1. PICK n \in Nat : /\ DOMAIN chunk.subs = 1..n
                       /\ \A j \in 1..n : chunk.subs[j].page \in Int
  BY SubsTyped
<1>2. PICK page, S, ahead :
          /\ page = [k \in 1..n |-> chunk.subs[k].page] /\ S = Starting(chunk)
          /\ ahead = [k \in S |-> {j \in S : page[j] < page[k] \/ (page[j] = page[k] /\ j < k)}]
  OBVIOUS
<1>3. S \in SUBSET (1..n) /\ \A k \in S : page[k] \in Int /\ k \in Int
  BY <1>1, <1>2 DEF Starting
<1>4. IsFiniteSet(S)
  <2>1. 1 \in Int /\ n \in Int
    BY <1>1
  <2>2. IsFiniteSet(1..n)
    BY <2>1, FS_Interval
  <2> QED BY <1>3, <2>2, FS_Subset
<1>5. Earlier(chunk) = ahead
  BY <1>1, <1>2, <1>3 DEF Earlier, StartsBefore
<1>6. \A k \in S : ahead[k] = {j \in S : page[j] < page[k] \/ (page[j] = page[k] /\ j < k)}
  BY <1>2
<1>7. ahead \in [S -> SUBSET S]
  BY <1>2
<1>8. /\ \A i \in S : i \notin ahead[i]
      /\ \A i, j \in S : i # j => i \in ahead[j] \/ j \in ahead[i]
      /\ \A i, j, k \in S : k \in ahead[j] /\ j \in ahead[i] => k \in ahead[i]
  <2>1. \A j, k \in S :
            j \in ahead[k] <=> page[j] < page[k] \/ (page[j] = page[k] /\ j < k)
    BY <1>6
  <2>2. ASSUME NEW i \in S PROVE i \notin ahead[i]
    <3>1. PICK a \in Int, x \in Int : a = page[i] /\ x = i
      BY <1>3
    <3>2. ~(a < a) /\ ~(x < x)
      OBVIOUS
    <3> QED BY <2>1, <3>1, <3>2
  <2>3. ASSUME NEW i \in S, NEW j \in S, i # j PROVE i \in ahead[j] \/ j \in ahead[i]
    <3>1. PICK a \in Int, x \in Int, b \in Int, y \in Int :
              a = page[i] /\ x = i /\ b = page[j] /\ y = j
      BY <1>3
    <3>2. a < b \/ b < a \/ (a = b /\ (x < y \/ y < x))
      BY <2>3, <3>1
    <3> QED BY <2>1, <3>1, <3>2
  <2>4. ASSUME NEW i \in S, NEW j \in S, NEW k \in S, k \in ahead[j], j \in ahead[i]
        PROVE  k \in ahead[i]
    <3>1. PICK a \in Int, x \in Int, b \in Int, y \in Int, d \in Int, z \in Int :
              a = page[i] /\ x = i /\ b = page[j] /\ y = j /\ d = page[k] /\ z = k
      BY <1>3
    <3>2. /\ d < b \/ (d = b /\ z < y)
          /\ b < a \/ (b = a /\ y < x)
      BY <2>1, <2>4, <3>1
    <3>3. d < a \/ (d = a /\ z < x)
      BY <3>2
    <3> QED BY <2>1, <3>1, <3>3
  <2> QED BY <2>2, <2>3, <2>4
<1> QED BY <1>2, <1>4, <1>5, <1>7, <1>8 DEF Linear

\* subs are the invoices of a file in the order they start; s says which is which.
Sorted(chunk, subs, M, s) ==
    /\ M \in Nat /\ DOMAIN subs = 1..M /\ subs \in Seq(Doc!SubInvoice) /\ Len(subs) = M
    /\ s \in [1..M -> Starting(chunk)]
    /\ \A n \in 1..M : subs[n] = chunk.subs[s[n]]
    /\ \A k \in Starting(chunk) : \E n \in 1..M : s[n] = k
    /\ \A i, j \in 1..M : i < j => StartsBefore(chunk, s[i], s[j])

\* Anchored sorts them: how many start before an invoice is where it comes.
LEMMA AnchoredSorted ==
    ASSUME NEW chunk \in Doc!InvoiceChunk
    PROVE  \E M, s : Sorted(chunk, I!Anchored(chunk), M, s)
<1>1. PICK S, ahead : S = Starting(chunk) /\ ahead = Earlier(chunk)
  OBVIOUS
<1>2. IsFiniteSet(S) /\ Linear(S, ahead)
  BY <1>1, StartsInLine
<1>3. PICK rank : rank = [k \in S |-> Cardinality(ahead[k])]
  OBVIOUS
<1>4. PICK M \in Nat : M = Cardinality(S)
  BY <1>2, FS_CardinalityType
<1>5. /\ rank \in Injection(S, 0..M-1) /\ rank \in Surjection(S, 0..M-1)
      /\ \A i \in S : \A j \in ahead[i] : rank[j] < rank[i]
  BY <1>2, <1>3, <1>4, Ranks
<1>6. /\ rank \in [S -> 0..M-1]
      /\ \A i, j \in S : rank[i] = rank[j] => i = j
      /\ \A r \in 0..M-1 : \E k \in S : rank[k] = r
  BY <1>5 DEF Injection, Surjection, IsInjective
<1>7. PICK s : s = [n \in 1..M |-> CHOOSE k \in S : rank[k] = n - 1]
  OBVIOUS
<1>8. \A n \in 1..M : s[n] \in S /\ rank[s[n]] = n - 1
  <2> SUFFICES ASSUME NEW n \in 1..M PROVE s[n] \in S /\ rank[s[n]] = n - 1
    OBVIOUS
  <2>1. n - 1 \in 0..M-1
    OBVIOUS
  <2>2. \E k \in S : rank[k] = n - 1
    BY <1>6, <2>1
  <2> QED BY <1>7, <2>2
<1>9. I!Anchored(chunk) = [n \in 1..M |-> chunk.subs[s[n]]]
  <2> DEFINE page(k) == chunk.subs[k].page
             anchored == {k \in DOMAIN chunk.subs : page(k) > 0}
             before(k) == {j \in anchored : page(j) < page(k) \/ (page(j) = page(k) /\ j < k)}
  <2>1. I!Anchored(chunk)
          = [n \in 1..I!Cardinality(anchored) |->
                chunk.subs[CHOOSE k \in anchored : I!Cardinality(before(k)) = n - 1]]
    BY Zenon DEF I!Anchored
  <2>2. anchored = S
    BY <1>1 DEF Starting
  <2>3. I!Cardinality(anchored) = M
    BY <1>4, <2>2, SameNumbers
  <2>4. \A k \in S : I!Cardinality(before(k)) = rank[k]
    <3>1. \A k \in S : ahead[k] = {j \in S : StartsBefore(chunk, j, k)}
      BY <1>1 DEF Earlier
    <3>2. \A j, k : StartsBefore(chunk, j, k) <=> page(j) < page(k) \/ (page(j) = page(k) /\ j < k)
      BY DEF StartsBefore
    <3>3. \A k \in S : before(k) = ahead[k]
      <4> HIDE DEF page
      <4> QED BY <2>2, <3>1, <3>2
    <3>4. \A k \in S : I!Cardinality(before(k)) = Cardinality(ahead[k])
      <4> HIDE DEF before
      <4> QED BY <3>3, SameNumbers
    <3> HIDE DEF before
    <3> QED BY <1>3, <3>4
  <2> HIDE DEF anchored, before
  <2>5. \A n : (CHOOSE k \in anchored : I!Cardinality(before(k)) = n - 1)
                 = (CHOOSE k \in S : rank[k] = n - 1)
    <3> TAKE n
    <3>1. \A k : k \in anchored /\ I!Cardinality(before(k)) = n - 1 <=> k \in S /\ rank[k] = n - 1
      BY <2>2, <2>4
    <3> QED BY <3>1, Zenon
  <2> DEFINE at(n) == CHOOSE k \in anchored : I!Cardinality(before(k)) = n - 1
             named(n) == CHOOSE k \in S : rank[k] = n - 1
  <2>6. I!Anchored(chunk) = [n \in 1..M |-> chunk.subs[at(n)]]
    BY <2>1, <2>3, Zenon
  <2>7. \A n \in 1..M : s[n] = at(n)
    <3>1. \A n \in 1..M : s[n] = named(n)
      BY <1>7
    <3>2. \A n : at(n) = named(n)
      BY <2>5, Zenon
    <3> HIDE DEF at, named
    <3> QED BY <3>1, <3>2
  <2> HIDE DEF at
  <2> QED BY <2>6, <2>7
<1>10. PICK subs : subs = I!Anchored(chunk)
  OBVIOUS
<1>11. DOMAIN subs = 1..M /\ \A n \in 1..M : subs[n] = chunk.subs[s[n]]
  BY <1>9, <1>10
<1>12. subs \in Seq(Doc!SubInvoice) /\ Len(subs) = M
  <2>1. \A n \in 1..M : subs[n] \in Doc!SubInvoice
    BY <1>1, <1>8, <1>11, SubsTyped DEF Starting
  <2>2. subs \in [1..M -> Doc!SubInvoice]
    BY <1>9, <1>10, <2>1
  <2> QED BY <2>2
<1>13. \A k \in S : \E n \in 1..M : s[n] = k
  <2> SUFFICES ASSUME NEW k \in S PROVE \E n \in 1..M : s[n] = k
    OBVIOUS
  <2>1. PICK n \in 1..M : n = rank[k] + 1
    BY <1>6
  <2>2. rank[s[n]] = rank[k] /\ s[n] \in S
    BY <1>6, <1>8, <2>1
  <2> QED BY <1>6, <2>2
<1>14. ASSUME NEW i \in 1..M, NEW j \in 1..M, i < j PROVE StartsBefore(chunk, s[i], s[j])
  <2>1. s[i] \in S /\ s[j] \in S /\ rank[s[i]] < rank[s[j]]
    BY <1>8, <1>14
  <2>2. s[j] \notin ahead[s[i]] /\ s[i] # s[j]
    BY <1>5, <1>6, <2>1
  <2>3. s[i] \in ahead[s[j]]
    BY <1>2, <2>1, <2>2 DEF Linear
  <2> QED BY <1>1, <2>1, <2>3 DEF Earlier
<1>15. s \in [1..M -> S]
  BY <1>7, <1>8
<1> QED BY <1>1, <1>10, <1>11, <1>12, <1>13, <1>14, <1>15 DEF Sorted

\* The invoice that starts before all the others, and the one that starts after them, is one.
LEMMA FirstIsOne ==
    ASSUME NEW chunk \in Doc!InvoiceChunk, NEW A \in SUBSET Starting(chunk), NEW a \in A,
           \A i \in A \ {a} : StartsBefore(chunk, a, i)
    PROVE  (CHOOSE j \in A : \A i \in A \ {j} : StartsBefore(chunk, j, i)) = a
<1>1. PICK b : b = CHOOSE j \in A : \A i \in A \ {j} : StartsBefore(chunk, j, i)
  OBVIOUS
<1>2. b \in A /\ \A i \in A \ {b} : StartsBefore(chunk, b, i)
  BY <1>1
<1>3. ASSUME a # b PROVE FALSE
  <2>1. StartsBefore(chunk, a, b) /\ StartsBefore(chunk, b, a)
    BY <1>2, <1>3
  <2>2. PICK S, ahead : S = Starting(chunk) /\ ahead = Earlier(chunk)
    OBVIOUS
  <2>3. Linear(S, ahead) /\ a \in S /\ b \in S
    BY <1>2, <2>2, StartsInLine
  <2>4. a \in ahead[b] /\ b \in ahead[a]
    BY <2>1, <2>2, <2>3 DEF Earlier
  <2> QED BY <2>3, <2>4 DEF Linear
<1> QED BY <1>1, <1>3

LEMMA LastIsOne ==
    ASSUME NEW chunk \in Doc!InvoiceChunk, NEW A \in SUBSET Starting(chunk), NEW a \in A,
           \A i \in A \ {a} : StartsBefore(chunk, i, a)
    PROVE  (CHOOSE j \in A : \A i \in A \ {j} : StartsBefore(chunk, i, j)) = a
<1>1. PICK b : b = CHOOSE j \in A : \A i \in A \ {j} : StartsBefore(chunk, i, j)
  OBVIOUS
<1>2. b \in A /\ \A i \in A \ {b} : StartsBefore(chunk, i, b)
  BY <1>1
<1>3. ASSUME a # b PROVE FALSE
  <2>1. StartsBefore(chunk, a, b) /\ StartsBefore(chunk, b, a)
    BY <1>2, <1>3
  <2>2. PICK S, ahead : S = Starting(chunk) /\ ahead = Earlier(chunk)
    OBVIOUS
  <2>3. Linear(S, ahead) /\ a \in S /\ b \in S
    BY <1>2, <2>2, StartsInLine
  <2>4. a \in ahead[b] /\ b \in ahead[a]
    BY <2>1, <2>2, <2>3 DEF Earlier
  <2> QED BY <2>3, <2>4 DEF Linear
<1> QED BY <1>1, <1>3

\* The bucket a page falls into is the invoice the page belongs to.
LEMMA BucketIs ==
    ASSUME NEW chunk \in Doc!InvoiceChunk, NEW subs, NEW M, NEW s, Sorted(chunk, subs, M, s),
           M # 0, NEW page \in Int
    PROVE  /\ I!BucketOf(subs, page) \in 1..M
           /\ s[I!BucketOf(subs, page)] = InvoiceAt(chunk, page)
<1> DEFINE all == Starting(chunk)
           begun == {j \in all : chunk.subs[j].page <= page}
           started == {k \in DOMAIN subs : subs[k].page <= page}
           first == CHOOSE j \in all : \A i \in all \ {j} : StartsBefore(chunk, j, i)
           last == CHOOSE j \in begun : \A i \in begun \ {j} : StartsBefore(chunk, i, j)
<1>1. /\ M \in Nat /\ DOMAIN subs = 1..M /\ s \in [1..M -> all]
      /\ \A n \in 1..M : subs[n] = chunk.subs[s[n]]
      /\ \A k \in all : \E n \in 1..M : s[n] = k
      /\ \A i, j \in 1..M : i < j => StartsBefore(chunk, s[i], s[j])
  BY DEF Sorted
<1>2. PICK bucket : bucket = I!BucketOf(subs, page)
  OBVIOUS
<1>3. InvoiceAt(chunk, page) = IF all = {} THEN 0 ELSE IF begun = {} THEN first ELSE last
  BY DEF InvoiceAt
<1>4. bucket = IF started = {} THEN 1 ELSE Max(started)
  BY <1>2, SameNumbers DEF I!BucketOf
<1>5. /\ \A n : n \in started <=> n \in 1..M /\ subs[n].page <= page
      /\ \A j : j \in begun <=> j \in all /\ chunk.subs[j].page <= page
  BY <1>1
<1> HIDE DEF all, begun, started, first, last
<1>6. \A n \in started : n \in 1..M /\ s[n] \in begun
  BY <1>1, <1>5
<1>7. \A j \in begun : \E n \in started : s[n] = j
  BY <1>1, <1>5
<1>8. CASE started = {}
  <2>1. begun = {}
    BY <1>7, <1>8
  <2>2. bucket = 1 /\ 1 \in 1..M
    BY <1>1, <1>4, <1>8
  <2>3. s[1] \in all
    BY <1>1, <2>2
  <2>4. ASSUME NEW i \in all \ {s[1]} PROVE StartsBefore(chunk, s[1], i)
    <3>1. PICK n \in 1..M : s[n] = i
      BY <1>1
    <3>2. n # 1 /\ 1 < n
      BY <1>1, <3>1, <2>4
    <3> QED BY <1>1, <2>2, <3>1, <3>2
  <2>5. first = s[1]
    <3>1. all \in SUBSET Starting(chunk)
      BY DEF all
    <3>2. (CHOOSE j \in all : \A i \in all \ {j} : StartsBefore(chunk, j, i)) = s[1]
      BY <2>3, <2>4, <3>1, FirstIsOne
    <3> QED BY <3>2 DEF first
  <2> QED BY <1>2, <1>3, <2>1, <2>2, <2>3, <2>5
<1>9. CASE started # {}
  <2>1. started \in SUBSET Int /\ IsFiniteSet(started)
    <3>1. 1 \in Int /\ M \in Int
      BY <1>1
    <3>2. IsFiniteSet(1..M)
      BY <3>1, FS_Interval
    <3>3. started \subseteq 1..M
      BY <1>6
    <3>4. IsFiniteSet(started)
      BY <3>2, <3>3, FS_Subset
    <3>5. started \subseteq Int
      BY <3>1, <3>3
    <3> QED BY <3>4, <3>5
  <2>2. bucket \in started /\ \A n \in started : n <= bucket
    BY <1>4, <1>9, <2>1, ExtremesOf
  <2>3. bucket \in 1..M /\ s[bucket] \in begun
    BY <1>6, <2>2
  <2>4. ASSUME NEW i \in begun \ {s[bucket]} PROVE StartsBefore(chunk, i, s[bucket])
    <3>1. PICK n \in started : s[n] = i
      BY <1>7
    <3>2. n \in 1..M /\ n # bucket /\ n <= bucket
      BY <1>6, <2>2, <3>1, <2>4
    <3>3. n < bucket
      BY <1>1, <2>3, <3>2
    <3> QED BY <1>1, <2>3, <3>1, <3>2, <3>3
  <2>5. last = s[bucket]
    <3>1. begun \in SUBSET Starting(chunk)
      BY DEF begun, all
    <3>2. (CHOOSE j \in begun : \A i \in begun \ {j} : StartsBefore(chunk, i, j)) = s[bucket]
      BY <2>3, <2>4, <3>1, LastIsOne
    <3> QED BY <3>2 DEF last
  <2>6. begun # {} /\ all # {}
    BY <1>1, <2>3
  <2> QED BY <1>2, <1>3, <2>3, <2>5, <2>6
<1> QED BY <1>8, <1>9

-----------------------------------------------------------------------------
(* The goods rows of a file, invoice by invoice.                            *)

\* The goods rows of a file that belong to its invoice j, and its invoices that count.
LinesOf(chunk, j) ==
    {n \in DOMAIN chunk.rows :
        I!Goods(chunk.rows[n]) /\ InvoiceAt(chunk, chunk.rows[n].page) = j}

Valid(chunk) == {j \in Starting(chunk) : I!GoodsKind(chunk.subs[j].kind)}

\* The rows that are to be declared are the goods rows of those.
LEMMA GoodsAre ==
    ASSUME NEW chunk
    PROVE  \A n : n \in GoodsPrinted(chunk) <=>
               /\ n \in DOMAIN chunk.rows /\ I!Goods(chunk.rows[n])
               /\ Valid(chunk) # {} => InvoiceAt(chunk, chunk.rows[n].page) \in Valid(chunk)
<1> TAKE n
<1>1. \A a, b, c : {a, b} # {c} <=> ~(b = c /\ a = c)
  OBVIOUS
<1>2. PICK total, unit : total = chunk.rows[n].total /\ unit = chunk.rows[n].unit
  OBVIOUS
<1>3. PICK own, valid : own = InvoiceAt(chunk, chunk.rows[n].page) /\ valid = Valid(chunk)
  OBVIOUS
<1>4. I!Goods(chunk.rows[n]) <=> chunk.rows[n].goods /\ {total, unit} # {I!NotPrinted}
  BY <1>1, <1>2 DEF I!Goods
<1>5. n \in GoodsPrinted(chunk) <=> /\ n \in DOMAIN chunk.rows /\ chunk.rows[n].goods
                                    /\ {total, unit} # {I!NotPrinted}
                                    /\ valid # {} => own \in valid
  BY <1>2, <1>3 DEF GoodsPrinted, Valid
<1> QED BY <1>3, <1>4, <1>5

\* A selection of a selection is one.
Chosen(p, B) == {p[i] : i \in B}

LEMMA PickedTwice ==
    ASSUME NEW s, NEW A, NEW t, NEW p, Picked(t, s, A, p),
           NEW B, B \subseteq 1..Len(t), NEW u, NEW q, Picked(u, t, B, q)
    PROVE  \E r : Picked(u, s, Chosen(p, B), r)
<1>1. PICK C : C = Chosen(p, B) /\ C = {p[i] : i \in B}
  BY DEF Chosen
<1>2. PICK L, K : L = Len(t) /\ K = Len(u)
  OBVIOUS
<1>3. /\ p \in [1..L -> A] /\ \A i \in 1..L : t[i] = s[p[i]]
      /\ \A i, j \in 1..L : i < j => p[i] < p[j]
  BY <1>2 DEF Picked
<1>4. /\ q \in [1..K -> B] /\ \A i \in 1..K : u[i] = t[q[i]]
      /\ \A k \in B : \E i \in 1..K : q[i] = k
      /\ \A i, j \in 1..K : i < j => q[i] < q[j]
  BY <1>2 DEF Picked
<1>5. PICK r : r = [i \in 1..K |-> p[q[i]]]
  OBVIOUS
<1>6. \A i \in 1..K : q[i] \in B /\ q[i] \in 1..L /\ r[i] = p[q[i]]
  BY <1>2, <1>4, <1>5
<1>7. r \in [1..K -> C]
  BY <1>5, <1>1, <1>6
<1>8. \A i \in 1..K : u[i] = s[r[i]]
  BY <1>3, <1>4, <1>6
<1>9. \A k \in C : \E i \in 1..K : r[i] = k
  BY <1>4, <1>1, <1>6
<1>10. \A i, j \in 1..K : i < j => r[i] < r[j]
  BY <1>3, <1>4, <1>6
<1>11. Picked(u, s, C, r)
  BY <1>2, <1>7, <1>8, <1>9, <1>10 DEF Picked
<1> QED BY <1>1, <1>11

\* The goods rows of the rows that are picked of a file.
LEMMA GoodsPicked ==
    ASSUME NEW chunk \in Doc!InvoiceChunk, NEW A \in SUBSET (DOMAIN chunk.rows), NEW v, NEW p,
           Picked(v.rows, chunk.rows, A, p), v.rows \in Seq(Line)
    PROVE  \E r : Picked(I!GoodsRows(v), chunk.rows, {n \in A : I!Goods(chunk.rows[n])}, r)
<1>1. PICK t, s, L : t = v.rows /\ s = chunk.rows /\ L = Len(t)
  OBVIOUS
<1>2. L \in Nat /\ DOMAIN t = 1..L /\ \A k \in 1..L : t[k] \in Line
  BY <1>1, LenProperties, ElementOfSeq
<1>3. PICK B : B = {k \in 1..L : I!Goods(t[k])}
  OBVIOUS
<1>4. I!GoodsRows(v) = I!EntriesAt(t, B)
  BY <1>1, <1>2, <1>3 DEF I!GoodsRows
<1>5. PICK q : Picked(I!GoodsRows(v), t, B, q)
  <2>1. B \in SUBSET (1..L) /\ \A k \in B : t[k] \in Line
    BY <1>2, <1>3
  <2>2. \E q : Picked(I!EntriesAt(t, B), t, B, q)
    BY <1>2, <2>1, EntriesPicked
  <2> QED BY <1>4, <2>2
<1>6. PICK r : Picked(I!GoodsRows(v), s, {p[i] : i \in B}, r)
  <2>1. B \subseteq 1..Len(t) /\ Picked(t, s, A, p)
    BY <1>1, <1>3
  <2>2. PICK u : u = I!GoodsRows(v)
    OBVIOUS
  <2>3. Picked(u, t, B, q)
    BY <1>5, <2>2
  <2>4. \E r : Picked(u, s, Chosen(p, B), r)
    BY <2>1, <2>3, PickedTwice
  <2> QED BY <2>2, <2>4 DEF Chosen
<1>7. {p[i] : i \in B} = {n \in A : I!Goods(s[n])}
  <2>1. /\ p \in [1..L -> A] /\ \A i \in 1..L : t[i] = s[p[i]]
        /\ \A k \in A : \E i \in 1..L : p[i] = k
    BY <1>1 DEF Picked
  <2>2. ASSUME NEW i \in B PROVE p[i] \in A /\ I!Goods(s[p[i]])
    <3>1. i \in 1..L /\ I!Goods(t[i])
      BY <1>3
    <3> QED BY <2>1, <3>1
  <2>3. ASSUME NEW n \in A, I!Goods(s[n]) PROVE n \in {p[i] : i \in B}
    <3>1. PICK i \in 1..L : p[i] = n
      BY <2>1
    <3>2. I!Goods(t[i])
      BY <2>1, <2>3, <3>1
    <3> QED BY <1>3, <3>1, <3>2
  <2> QED BY <2>2, <2>3
<1> QED BY <1>1, <1>6, <1>7

\* vs are the invoices w of a file, each with its goods rows.
Holds(chunk, vs, K, w) ==
    /\ K \in Nat /\ DOMAIN vs = 1..K /\ w \in [1..K -> Nat]
    /\ \A i, j \in 1..K : i < j => StartsBefore(chunk, w[i], w[j]) /\ w[i] # w[j]
    /\ \A k \in 1..K : \E p : Picked(I!GoodsRows(vs[k]), chunk.rows, LinesOf(chunk, w[k]), p)

\* The invoices of a bundle, before proformas are left out.
LEMMA BundleHolds ==
    ASSUME NEW chunk \in Doc!InvoiceChunk, NEW subs, subs = I!Anchored(chunk),
           NEW M, NEW s, Sorted(chunk, subs, M, s), M # 0
    PROVE  /\ Holds(chunk, I!VirtualInvoices(chunk), M, s)
           /\ Len(I!VirtualInvoices(chunk)) = M
           /\ \A k \in 1..M : I!VirtualInvoices(chunk)[k].kind = chunk.subs[s[k]].kind
<1> DEFINE mine(k) == {n \in DOMAIN chunk.rows : I!BucketOf(subs, chunk.rows[n].page) = k}
<1>1. /\ M \in Nat /\ DOMAIN subs = 1..M /\ s \in [1..M -> Starting(chunk)] /\ Len(subs) = M
      /\ \A n \in 1..M : subs[n] = chunk.subs[s[n]]
      /\ \A i, j \in 1..M : i < j => StartsBefore(chunk, s[i], s[j])
  BY DEF Sorted
<1>2. PICK vs : vs = I!VirtualInvoices(chunk)
  OBVIOUS
<1>3. subs # << >>
  BY <1>1
<1>4. /\ DOMAIN vs = 1..M
      /\ \A k \in 1..M : vs[k].kind = subs[k].kind
      /\ \A k \in 1..M : vs[k].rows = I!EntriesAt(chunk.rows, mine(k))
  BY <1>1, <1>2, <1>3 DEF I!VirtualInvoices
<1>5. Len(vs) = M
  <2>1. vs = [k \in 1..M |-> vs[k]]
    BY <1>1, <1>2, <1>3 DEF I!VirtualInvoices
  <2> QED BY <1>1, <2>1
<1>6. PICK Q \in Nat : /\ DOMAIN chunk.rows = 1..Q
                       /\ \A n \in 1..Q : chunk.rows[n] \in Line /\ chunk.rows[n].page \in Int
  <2>1. chunk.rows \in Seq(Line)
    BY DEF Doc!InvoiceChunk, Line
  <2>2. PICK Q \in Nat : DOMAIN chunk.rows = 1..Q /\ \A n \in 1..Q : chunk.rows[n] \in Line
    BY <2>1, LenProperties, ElementOfSeq
  <2> QED BY <2>2 DEF Line, Doc!InvoiceLine
<1>7. \A b, k \in 1..M : s[b] = s[k] => b = k
  <2> SUFFICES ASSUME NEW b \in 1..M, NEW k \in 1..M, s[b] = s[k] PROVE b = k
    OBVIOUS
  <2>1. b \in Int /\ k \in Int
    BY <1>1
  <2>2. b < k => StartsBefore(chunk, s[b], s[k])
    BY <1>1
  <2>3. k < b => StartsBefore(chunk, s[k], s[b])
    BY <1>1
  <2>4. ~StartsBefore(chunk, s[k], s[k])
    <3>1. s[k] \in Starting(chunk)
      BY <1>1
    <3>2. PICK j, S, ahead : j = s[k] /\ S = Starting(chunk) /\ ahead = Earlier(chunk)
      OBVIOUS
    <3>3. Linear(S, ahead) /\ j \in S
      BY <3>1, <3>2, StartsInLine
    <3>4. j \notin ahead[j]
      BY <3>3 DEF Linear
    <3> QED BY <3>2, <3>3, <3>4 DEF Earlier
  <2> QED BY <2>1, <2>2, <2>3, <2>4
<1>8. ASSUME NEW k \in 1..M
      PROVE  \E p : Picked(I!GoodsRows(vs[k]), chunk.rows, LinesOf(chunk, s[k]), p)
  <2>1. PICK A : A = mine(k)
    OBVIOUS
  <2>2. A \in SUBSET (DOMAIN chunk.rows) /\ \A n \in A : chunk.rows[n] \in Line
    BY <1>6, <2>1
  <2>3. vs[k].rows = I!EntriesAt(chunk.rows, A)
    BY <1>4, <2>1
  <2>4. PICK p : Picked(vs[k].rows, chunk.rows, A, p)
    <3>1. PICK t : t = chunk.rows
      OBVIOUS
    <3>2. DOMAIN t = 1..Q /\ A \in SUBSET (1..Q) /\ \A n \in A : t[n] \in Line
      BY <1>6, <2>2, <3>1
    <3>3. \E p : Picked(I!EntriesAt(t, A), t, A, p)
      BY <3>2, EntriesPicked
    <3> QED BY <2>3, <3>1, <3>3
  <2>5. vs[k].rows \in Seq(Line)
    BY <1>6, <2>2, <2>3, SelectedTyped
  <2>6. PICK v : v = vs[k]
    OBVIOUS
  <2>7. PICK r : Picked(I!GoodsRows(v), chunk.rows, {n \in A : I!Goods(chunk.rows[n])}, r)
    BY <2>2, <2>4, <2>5, <2>6, GoodsPicked
  <2>8. \A n \in DOMAIN chunk.rows : n \in A <=> InvoiceAt(chunk, chunk.rows[n].page) = s[k]
    <3> SUFFICES ASSUME NEW n \in DOMAIN chunk.rows
                 PROVE  n \in A <=> InvoiceAt(chunk, chunk.rows[n].page) = s[k]
      OBVIOUS
    <3>1. PICK page \in Int : page = chunk.rows[n].page
      BY <1>6
    <3>2. PICK b \in 1..M : b = I!BucketOf(subs, page) /\ s[b] = InvoiceAt(chunk, page)
      BY BucketIs
    <3>3. n \in A <=> b = k
      BY <2>1, <3>1, <3>2
    <3> QED BY <1>7, <3>1, <3>2, <3>3
  <2>9. {n \in A : I!Goods(chunk.rows[n])} = LinesOf(chunk, s[k])
    BY <2>2, <2>8 DEF LinesOf
  <2> QED BY <2>6, <2>7, <2>9
<1>9. s \in [1..M -> Nat]
  <2>1. Starting(chunk) \subseteq Nat
    <3>1. PICK n \in Nat : DOMAIN chunk.subs = 1..n
      BY SubsTyped
    <3>2. 1..n \subseteq Nat
      BY <3>1
    <3> QED BY <3>1, <3>2 DEF Starting
  <2> QED BY <1>1, <2>1
<1> HIDE DEF mine
<1>10. Holds(chunk, vs, M, s)
  <2>1. \A i, j \in 1..M : i < j => StartsBefore(chunk, s[i], s[j]) /\ s[i] # s[j]
    BY <1>1, <1>7
  <2> QED BY <1>1, <1>4, <1>8, <1>9, <2>1 DEF Holds
<1> QED BY <1>1, <1>2, <1>4, <1>10, <1>5

\* What is kept of a file has its goods rows, invoice by invoice.
FileHolds(chunk, vs, K, w) ==
    /\ Holds(chunk, vs, K, w)
    /\ \A k \in 1..K : LinesOf(chunk, w[k]) \subseteq GoodsPrinted(chunk)
    /\ \A n \in GoodsPrinted(chunk) : \E k \in 1..K : n \in LinesOf(chunk, w[k])

\* So it is for a file that is one invoice.
LEMMA PlainHolds ==
    ASSUME NEW chunk \in Doc!InvoiceChunk, Starting(chunk) = {}
    PROVE  \E w : FileHolds(chunk, I!KeptVirtuals(I!VirtualInvoices(chunk)), 1, w)
<1>1. PICK vs : vs = I!VirtualInvoices(chunk)
  OBVIOUS
<1>2. I!Anchored(chunk) = << >>
  <2>1. PICK M, s : Sorted(chunk, I!Anchored(chunk), M, s)
    BY AnchoredSorted
  <2>2. M \in Nat /\ DOMAIN I!Anchored(chunk) = 1..M /\ s \in [1..M -> {}]
        /\ I!Anchored(chunk) \in Seq(Doc!SubInvoice) /\ Len(I!Anchored(chunk)) = M
    BY <2>1 DEF Sorted
  <2>3. M = 0
    <3>1. M # 0 => 1 \in 1..M
      BY <2>2
    <3> QED BY <2>2, <3>1
  <2> QED BY <2>2, <2>3
<1>3. DOMAIN vs = 1..1 /\ Len(vs) = 1 /\ vs[1].rows = chunk.rows
  <2>1. vs = << [number |-> chunk.doc.number, kind |-> chunk.doc.kind,
                 currency |-> chunk.doc.currency, totals |-> chunk.doc.totals,
                 rows |-> chunk.rows] >>
    BY <1>1, <1>2 DEF I!VirtualInvoices
  <2> QED BY <2>1
<1>4. I!KeptVirtuals(vs) = vs
  BY <1>3 DEF I!KeptVirtuals
<1>5. PICK w : w = [k \in 1..1 |-> 0]
  OBVIOUS
<1>6. \A page : InvoiceAt(chunk, page) = 0
  BY DEF InvoiceAt
<1>7. PICK A : A = LinesOf(chunk, 0)
  OBVIOUS
<1>8. A = {n \in DOMAIN chunk.rows : I!Goods(chunk.rows[n])}
  BY <1>6, <1>7 DEF LinesOf
<1>9. \A n : n \in GoodsPrinted(chunk) <=> n \in A
  <2>1. Valid(chunk) = {}
    BY DEF Valid
  <2> QED BY <1>8, <2>1, GoodsAre
<1>10. PICK p : Picked(I!GoodsRows(vs[1]), chunk.rows, A, p)
  <2>1. chunk.rows \in Seq(Line)
    BY DEF Doc!InvoiceChunk, Line
  <2>2. PICK Q \in Nat : DOMAIN chunk.rows = 1..Q /\ \A n \in 1..Q : chunk.rows[n] \in Line
    BY <2>1, LenProperties, ElementOfSeq
  <2>3. A \in SUBSET (1..Q) /\ \A n \in A : chunk.rows[n] \in Line
    BY <1>8, <2>2
  <2>4. I!GoodsRows(vs[1]) = I!EntriesAt(chunk.rows, A)
    BY <1>3, <1>8 DEF I!GoodsRows
  <2>5. PICK t : t = chunk.rows
    OBVIOUS
  <2>6. \E p : Picked(I!EntriesAt(t, A), t, A, p)
    BY <2>2, <2>3, <2>5, EntriesPicked
  <2> QED BY <2>4, <2>5, <2>6
<1>11. Holds(chunk, vs, 1, w)
  <2>1. w \in [1..1 -> Nat]
    BY <1>5
  <2>2. \A k \in 1..1 : k = 1 /\ w[k] = 0
    BY <1>5
  <2>3. \A i, j \in 1..1 : ~(i < j)
    OBVIOUS
  <2> QED BY <1>3, <1>7, <1>10, <2>1, <2>2, <2>3 DEF Holds
<1>12. FileHolds(chunk, vs, 1, w)
  <2>1. \A k \in 1..1 : w[k] = 0
    BY <1>5
  <2>2. 1 \in 1..1
    OBVIOUS
  <2> QED BY <1>7, <1>9, <1>11, <2>1, <2>2 DEF FileHolds
<1> QED BY <1>1, <1>4, <1>12

\* Of a bundle the proformas are left out when there is anything else.
LEMMA BundleKept ==
    ASSUME NEW chunk \in Doc!InvoiceChunk, NEW M, NEW s, Sorted(chunk, I!Anchored(chunk), M, s),
           M # 0
    PROVE  \E K, w : FileHolds(chunk, I!KeptVirtuals(I!VirtualInvoices(chunk)), K, w)
<1>1. PICK subs, vs : subs = I!Anchored(chunk) /\ vs = I!VirtualInvoices(chunk)
  OBVIOUS
<1>2. /\ M \in Nat /\ s \in [1..M -> Starting(chunk)]
      /\ \A k \in Starting(chunk) : \E n \in 1..M : s[n] = k
      /\ \A i, j \in 1..M : i < j => StartsBefore(chunk, s[i], s[j])
  BY DEF Sorted
<1>3. Holds(chunk, vs, M, s) /\ \A k \in 1..M : vs[k].kind = chunk.subs[s[k]].kind
  BY <1>1, BundleHolds
<1>4. /\ DOMAIN vs = 1..M /\ s \in [1..M -> Nat]
      /\ \A i, j \in 1..M : i < j => s[i] # s[j]
      /\ \A k \in 1..M : \E p : Picked(I!GoodsRows(vs[k]), chunk.rows, LinesOf(chunk, s[k]), p)
  BY <1>3 DEF Holds
<1>5. PICK G : G = {k \in 1..M : I!GoodsKind(vs[k].kind)}
  OBVIOUS
<1>6. PICK keep : keep = I!EntriesAt(vs, G)
  OBVIOUS
<1>7. I!KeptVirtuals(vs) = IF Len(vs) > 1 /\ keep # << >> THEN keep ELSE vs
  BY <1>4, <1>5, <1>6 DEF I!KeptVirtuals
<1>8. PICK valid : /\ valid = Valid(chunk)
                   /\ \A k \in 1..M : k \in G <=> s[k] \in valid
  <2>1. PICK valid : valid = {j \in Starting(chunk) : I!GoodsKind(chunk.subs[j].kind)}
    OBVIOUS
  <2>2. ASSUME NEW k \in 1..M PROVE k \in G <=> s[k] \in valid
    <3>1. s[k] \in Starting(chunk) /\ vs[k].kind = chunk.subs[s[k]].kind
      BY <1>2, <1>3
    <3> QED BY <1>5, <2>1, <3>1
  <2> QED BY <2>1, <2>2 DEF Valid
<1>9. PICK own : own = [n \in DOMAIN chunk.rows |-> InvoiceAt(chunk, chunk.rows[n].page)]
  OBVIOUS
<1>10. \A n : n \in GoodsPrinted(chunk) <=>
                  /\ n \in DOMAIN chunk.rows /\ I!Goods(chunk.rows[n])
                  /\ valid # {} => own[n] \in valid
  BY <1>8, <1>9, GoodsAre
<1>11. \A n, j : n \in LinesOf(chunk, j) <=>
                  n \in DOMAIN chunk.rows /\ I!Goods(chunk.rows[n]) /\ own[n] = j
  BY <1>9 DEF LinesOf
<1>12. ASSUME NEW n \in DOMAIN chunk.rows PROVE \E k \in 1..M : own[n] = s[k]
  <2>1. PICK page \in Int : page = chunk.rows[n].page
    <3>1. chunk.rows \in Seq(Line)
      BY DEF Doc!InvoiceChunk, Line
    <3>2. chunk.rows[n] \in Line
      BY <3>1, LenProperties, ElementOfSeq
    <3> QED BY <3>2 DEF Line, Doc!InvoiceLine
  <2>2. PICK b \in 1..M : s[b] = InvoiceAt(chunk, page)
    BY <1>1, BucketIs
  <2> QED BY <1>9, <2>1, <2>2
<1>13. CASE Len(vs) > 1 /\ keep # << >>
  <2>1. PICK q : Picked(keep, vs, G, q)
    <3>1. PICK S : S = {vs[k] : k \in 1..M}
      OBVIOUS
    <3>2. G \in SUBSET (1..M) /\ \A k \in G : vs[k] \in S
      BY <1>5, <3>1
    <3>3. \E q : Picked(I!EntriesAt(vs, G), vs, G, q)
      BY <1>2, <1>4, <3>2, EntriesPicked
    <3> QED BY <1>6, <3>3
  <2>2. PICK K \in Nat : K = Len(keep) /\ DOMAIN keep = 1..K
    <3>1. PICK S : S = {vs[k] : k \in 1..M}
      OBVIOUS
    <3>2. \A k \in 1..M : k \in G => vs[k] \in S
      BY <3>1
    <3>3. keep \in Seq(S)
      BY <1>2, <1>4, <1>6, <3>2, SelectedTyped
    <3> QED BY <3>3, LenProperties
  <2>3. /\ q \in [1..K -> G] /\ \A i \in 1..K : keep[i] = vs[q[i]]
        /\ \A k \in G : \E i \in 1..K : q[i] = k
        /\ \A i, j \in 1..K : i < j => q[i] < q[j]
    BY <2>1, <2>2 DEF Picked
  <2>4. PICK w : w = [i \in 1..K |-> s[q[i]]]
    OBVIOUS
  <2>5. \A i \in 1..K : q[i] \in G /\ q[i] \in 1..M /\ w[i] = s[q[i]] /\ w[i] \in valid
    BY <1>5, <1>8, <2>3, <2>4
  <2>6. w \in [1..K -> Nat]
    BY <1>4, <2>4, <2>5
  <2>7. \A i, j \in 1..K : i < j => StartsBefore(chunk, w[i], w[j]) /\ w[i] # w[j]
    <3> SUFFICES ASSUME NEW i \in 1..K, NEW j \in 1..K, i < j
                 PROVE  StartsBefore(chunk, w[i], w[j]) /\ w[i] # w[j]
      OBVIOUS
    <3>1. PICK a \in 1..M, b \in 1..M : a = q[i] /\ b = q[j] /\ a < b
      BY <2>3, <2>5
    <3>2. StartsBefore(chunk, s[a], s[b]) /\ s[a] # s[b]
      BY <1>2, <1>4, <3>1
    <3> QED BY <2>5, <3>1, <3>2
  <2>8. \A i \in 1..K :
            \E p : Picked(I!GoodsRows(keep[i]), chunk.rows, LinesOf(chunk, w[i]), p)
    BY <1>4, <2>3, <2>5
  <2>9. \A i \in 1..K : LinesOf(chunk, w[i]) \subseteq GoodsPrinted(chunk)
    BY <1>10, <1>11, <2>5
  <2>10. valid # {}
    <3>1. K # 0
      <4>1. PICK S : keep \in Seq(S)
        <5>1. PICK S : S = {vs[k] : k \in 1..M}
          OBVIOUS
        <5>2. \A k \in 1..M : k \in G => vs[k] \in S
          BY <5>1
        <5>3. keep \in Seq(S)
          BY <1>2, <1>4, <1>6, <5>2, SelectedTyped
        <5> QED BY <5>3
      <4> QED BY <1>13, <2>2, <4>1
    <3>2. 1 \in 1..K
      BY <2>2, <3>1
    <3> QED BY <2>5, <3>2
  <2>11. ASSUME NEW n \in GoodsPrinted(chunk) PROVE \E i \in 1..K : n \in LinesOf(chunk, w[i])
    <3>1. n \in DOMAIN chunk.rows /\ I!Goods(chunk.rows[n]) /\ own[n] \in valid
      BY <1>10, <2>10
    <3>2. PICK k \in 1..M : own[n] = s[k]
      BY <1>12, <3>1
    <3>3. k \in G
      BY <1>8, <3>1, <3>2
    <3>4. PICK i \in 1..K : q[i] = k
      BY <2>3, <3>3
    <3> QED BY <1>11, <2>5, <3>1, <3>2, <3>4
  <2>12. Holds(chunk, keep, K, w)
    BY <2>2, <2>6, <2>7, <2>8 DEF Holds
  <2>13. FileHolds(chunk, keep, K, w)
    BY <2>9, <2>11, <2>12 DEF FileHolds
  <2> QED BY <1>1, <1>7, <1>13, <2>13
<1>14. CASE ~(Len(vs) > 1 /\ keep # << >>)
  <2>1. valid = {} \/ \A k \in 1..M : s[k] \in valid
    <3>1. CASE keep = << >>
      <4>1. PICK q : Picked(keep, vs, G, q)
        <5>1. PICK S : S = {vs[k] : k \in 1..M}
          OBVIOUS
        <5>2. G \in SUBSET (1..M) /\ \A k \in G : vs[k] \in S
          BY <1>5, <5>1
        <5>3. \E q : Picked(I!EntriesAt(vs, G), vs, G, q)
          BY <1>2, <1>4, <5>2, EntriesPicked
        <5> QED BY <1>6, <5>3
      <4>2. Len(keep) = 0
        BY <3>1
      <4>3. G = {}
        BY <4>1, <4>2 DEF Picked
      <4>4. \A j \in valid : j \in Starting(chunk)
        BY <1>8 DEF Valid
      <4> QED BY <1>2, <1>8, <4>3, <4>4
    <3>2. CASE keep # << >>
      <4>1. ~(Len(vs) > 1)
        BY <1>14, <3>2
      <4>2. Len(vs) = M
        BY <1>1, BundleHolds
      <4>3. M = 1
        BY <1>2, <4>1, <4>2
      <4>4. \A j \in valid : \E k \in 1..M : s[k] = j
        BY <1>2, <1>8 DEF Valid
      <4> QED BY <4>3, <4>4
    <3> QED BY <3>1, <3>2
  <2>2. \A k \in 1..M : LinesOf(chunk, s[k]) \subseteq GoodsPrinted(chunk)
    BY <1>10, <1>11, <2>1
  <2>3. \A n \in GoodsPrinted(chunk) : \E k \in 1..M : n \in LinesOf(chunk, s[k])
    BY <1>10, <1>11, <1>12
  <2>4. FileHolds(chunk, vs, M, s)
    BY <1>3, <2>2, <2>3 DEF FileHolds
  <2> QED BY <1>1, <1>7, <1>14, <2>4
<1> QED BY <1>13, <1>14

\* What a file yields is its goods rows, invoice by invoice.
LEMMA FileKept ==
    ASSUME NEW chunk \in Doc!InvoiceChunk
    PROVE  \E K, w : FileHolds(chunk, I!KeptVirtuals(I!VirtualInvoices(chunk)), K, w)
<1>1. PICK M, s : Sorted(chunk, I!Anchored(chunk), M, s)
  BY AnchoredSorted
<1>2. CASE M = 0
  <2>1. Starting(chunk) = {}
    BY <1>1, <1>2 DEF Sorted
  <2> QED BY <2>1, PlainHolds
<1> QED BY <1>1, <1>2, BundleKept

-----------------------------------------------------------------------------
(* The goods rows of a job, file by file.                                   *)

\* The files whose invoices count, as they were uploaded.
LEMMA FilesPicked ==
    ASSUME NEW files \in Seq(DOMAIN Document), NEW bodies,
           bodies = [k \in DOMAIN files |-> Document[files[k]].body]
    PROVE  \E p : Picked(I!FinalChunks(Payloads(files, "INVOICE")), bodies,
                         InvoiceFiles(files), p)
<1> DEFINE role == "INVOICE"
           all == {k \in DOMAIN files : Document[files[k]].role = role}
           chunks == Payloads(files, role)
           B == {k \in DOMAIN chunks : I!GoodsKind(chunks[k].doc.kind)}
           final == I!EntriesAt(chunks, B)
           wanted == {k \in all : I!GoodsKind(InvoiceFile(files, k).doc.kind)}
<1>1. PICK N \in Nat : DOMAIN files = 1..N /\ \A k \in 1..N : files[k] \in DOMAIN Document
  BY LenProperties, ElementOfSeq
<1>2. /\ DOMAIN bodies = 1..N /\ all \in SUBSET (1..N)
      /\ \A k \in all : bodies[k] \in Doc!InvoiceChunk
      /\ \A k \in 1..N : bodies[k] = InvoiceFile(files, k)
  BY <1>1, DocumentsAssumption DEF InvoiceFile
<1>3. chunks \in Seq(Doc!InvoiceChunk)
  BY PayloadsTyped, DocumentsAssumption
<1>4. chunks = I!EntriesAt(bodies, all)
  BY DEF Payloads
<1>5. I!FinalChunks(chunks) = IF final = << >> THEN chunks ELSE final
  BY DEF I!FinalChunks
<1>6. InvoiceFiles(files) = IF wanted = {} THEN all ELSE wanted
  BY DEF InvoiceFiles
<1>7. \A k : k \in B <=> k \in DOMAIN chunks /\ I!GoodsKind(chunks[k].doc.kind)
  OBVIOUS
<1>8. \A k : k \in wanted <=> k \in all /\ I!GoodsKind(InvoiceFile(files, k).doc.kind)
  OBVIOUS
<1> HIDE DEF role, all, chunks, B, final, wanted
<1>9. PICK L \in Nat : L = Len(chunks) /\ DOMAIN chunks = 1..L
                       /\ \A k \in 1..L : chunks[k] \in Doc!InvoiceChunk
  BY <1>3, LenProperties, ElementOfSeq
<1>10. PICK p : Picked(chunks, bodies, all, p)
  BY <1>2, <1>4, EntriesPicked
<1>11. PICK q : Picked(final, chunks, B, q)
  <2>1. B \in SUBSET (1..L) /\ \A k \in B : chunks[k] \in Doc!InvoiceChunk
    BY <1>7, <1>9
  <2> QED BY <1>9, <2>1, EntriesPicked DEF final
<1>12. /\ p \in [1..L -> all] /\ \A i \in 1..L : chunks[i] = bodies[p[i]]
       /\ \A k \in all : \E i \in 1..L : p[i] = k
  BY <1>9, <1>10 DEF Picked
<1>13. Chosen(p, B) = wanted
  <2>1. ASSUME NEW i \in B PROVE p[i] \in wanted
    <3>1. i \in 1..L /\ I!GoodsKind(chunks[i].doc.kind)
      BY <1>7, <1>9
    <3>2. PICK k \in all : k = p[i]
      BY <1>12, <3>1
    <3>3. chunks[i] = InvoiceFile(files, k)
      BY <1>2, <1>12, <3>1, <3>2
    <3> QED BY <1>8, <3>1, <3>2, <3>3
  <2>2. ASSUME NEW k \in wanted PROVE \E i \in B : p[i] = k
    <3>1. k \in all /\ I!GoodsKind(InvoiceFile(files, k).doc.kind)
      BY <1>8
    <3>2. PICK i \in 1..L : p[i] = k
      BY <1>12, <3>1
    <3>3. chunks[i] = InvoiceFile(files, k)
      BY <1>2, <1>12, <3>1, <3>2
    <3> QED BY <1>7, <1>9, <3>1, <3>2, <3>3
  <2> QED BY <2>1, <2>2 DEF Chosen
<1>14. CASE final = << >>
  <2>1. B = {}
    <3>1. Len(final) = 0
      BY <1>14
    <3> QED BY <1>11, <3>1 DEF Picked
  <2>2. wanted = {}
    BY <1>13, <2>1 DEF Chosen
  <2> QED BY <1>5, <1>6, <1>10, <1>14, <2>2 DEF chunks, role
<1>15. CASE final # << >>
  <2>1. B # {}
    <3>1. ASSUME B = {} PROVE FALSE
      <4>1. final \in Seq(Doc!InvoiceChunk)
        <5>1. \A k \in 1..L : k \in B => chunks[k] \in Doc!InvoiceChunk
          BY <1>9
        <5> QED BY <1>9, <5>1, SelectedTyped DEF final
      <4>2. PICK K \in Nat : K = Len(final)
        BY <4>1, LenProperties
      <4>3. K # 0
        BY <1>15, <4>1, <4>2
      <4>4. 1 \in 1..K
        BY <4>3
      <4>5. q \in [1..K -> B]
        BY <1>11, <4>2 DEF Picked
      <4> QED BY <3>1, <4>4, <4>5
    <3> QED BY <3>1
  <2>2. wanted # {}
    BY <1>13, <2>1 DEF Chosen
  <2>3. B \subseteq 1..Len(chunks)
    BY <1>7, <1>9
  <2>4. PICK r : Picked(final, bodies, Chosen(p, B), r)
    BY <1>10, <1>11, <2>3, PickedTwice
  <2> QED BY <1>5, <1>6, <1>13, <1>15, <2>2, <2>4 DEF chunks, role
<1> QED BY <1>14, <1>15

\* vs are the invoices of a job: inv of the file fl, with its goods rows.
Bundled(files, vs, M, fl, inv) ==
    /\ M \in Nat /\ DOMAIN vs = 1..M
    /\ fl \in [1..M -> InvoiceFiles(files)] /\ inv \in [1..M -> Nat]
    /\ \A i, j \in 1..M : i < j =>
           \/ fl[i] < fl[j]
           \/ /\ fl[i] = fl[j] /\ inv[i] # inv[j]
              /\ StartsBefore(InvoiceFile(files, fl[i]), inv[i], inv[j])
    /\ \A m \in 1..M :
           /\ LinesOf(InvoiceFile(files, fl[m]), inv[m])
                  \subseteq GoodsPrinted(InvoiceFile(files, fl[m]))
           /\ \E g : Picked(I!GoodsRows(vs[m].inv), InvoiceFile(files, fl[m]).rows,
                            LinesOf(InvoiceFile(files, fl[m]), inv[m]), g)
    /\ \A f \in InvoiceFiles(files) : \A n \in GoodsPrinted(InvoiceFile(files, f)) :
           \E m \in 1..M : fl[m] = f /\ n \in LinesOf(InvoiceFile(files, f), inv[m])

\* vs has the K invoices of each of the documents fc, document by document.
Listed(fc, L, K, vs, a, b, M) ==
    /\ M \in Nat /\ DOMAIN vs = 1..M /\ Len(vs) = M
    /\ a \in [1..M -> 1..L]
    /\ \A m \in 1..M :
           /\ b[m] \in 1..K[a[m]]
           /\ vs[m] = [doc |-> a[m],
                       inv |-> I!KeptVirtuals(I!VirtualInvoices(fc[a[m]]))[b[m]]]
    /\ \A c \in 1..L : \A j \in 1..K[c] : \E m \in 1..M : a[m] = c /\ b[m] = j
    /\ \A i, j \in 1..M : i < j => a[i] < a[j] \/ (a[i] = a[j] /\ b[i] < b[j])

\* VirtualsOf lists them so.
LEMMA VirtualsPlaces ==
    ASSUME NEW L \in Nat, NEW fc, DOMAIN fc = 1..L, NEW K,
           \A c \in 1..L : K[c] \in Nat
                           /\ DOMAIN I!KeptVirtuals(I!VirtualInvoices(fc[c])) = 1..K[c]
    PROVE  \E a, b, M : Listed(fc, L, K, I!VirtualsOf(fc), a, b, M)
<1> DEFINE kept(c) == I!KeptVirtuals(I!VirtualInvoices(fc[c]))
           of(c) == [j \in DOMAIN kept(c) |-> [doc |-> c, inv |-> kept(c)[j]]]
           ss == [c \in DOMAIN fc |-> of(c)]
           S == UNION {{of(c)[j] : j \in DOMAIN kept(c)} : c \in DOMAIN fc}
<1>1. ASSUME NEW c \in 1..L PROVE of(c) \in Seq(S) /\ Len(of(c)) = K[c]
  <2>1. DOMAIN kept(c) = 1..K[c] /\ K[c] \in Nat
    OBVIOUS
  <2>2. \A j \in DOMAIN kept(c) : of(c)[j] \in S
    <3> HIDE DEF of, kept
    <3> QED OBVIOUS
  <2>3. of(c) = [j \in 1..K[c] |-> of(c)[j]]
    <3> HIDE DEF kept
    <3> QED BY <2>1
  <2> HIDE DEF of, S, kept
  <2>4. of(c) \in [1..K[c] -> S]
    BY <2>1, <2>2, <2>3
  <2> QED BY <2>1, <2>4
<1>2. I!VirtualsOf(fc) = FlattenSeq(ss)
  BY SameFlattening DEF I!VirtualsOf
<1>3. /\ DOMAIN ss = 1..L /\ ss = [c \in 1..L |-> ss[c]]
      /\ \A c \in 1..L : ss[c] \in Seq(S) /\ Len(ss[c]) = K[c]
  <2> HIDE DEF of, S
  <2> QED BY <1>1
<1>4. \A c \in 1..L : \A j \in 1..K[c] : ss[c][j] = [doc |-> c, inv |-> kept(c)[j]]
  <2> HIDE DEF kept
  <2>1. \A c \in 1..L : DOMAIN kept(c) = 1..K[c]
    BY DEF kept
  <2> QED BY <2>1
<1> HIDE DEF ss, S, of
<1>5. PICK vs : vs = FlattenSeq(ss)
  OBVIOUS
<1>6. PICK a, b : Joins(vs, ss, L, a, b)
  BY <1>3, <1>5, FlattenPlaces
<1>7. PICK M \in Nat : Len(vs) = M /\ DOMAIN vs = 1..M
  <2>1. vs \in Seq(S)
    BY <1>3, <1>5, FlattenTyped
  <2> QED BY <2>1, LenProperties
<1>8. /\ a \in [1..M -> 1..L]
      /\ \A i \in 1..M : b[i] \in 1..Len(ss[a[i]]) /\ vs[i] = ss[a[i]][b[i]]
      /\ \A k \in 1..L : \A j \in 1..Len(ss[k]) : \E i \in 1..M : a[i] = k /\ b[i] = j
      /\ \A i, j \in 1..M : i < j => a[i] < a[j] \/ (a[i] = a[j] /\ b[i] < b[j])
  BY <1>6, <1>7 DEF Joins
<1>9. \A m \in 1..M : /\ a[m] \in 1..L /\ b[m] \in 1..K[a[m]]
                      /\ vs[m] = [doc |-> a[m], inv |-> kept(a[m])[b[m]]]
  <2> HIDE DEF kept
  <2> SUFFICES ASSUME NEW m \in 1..M
               PROVE  /\ a[m] \in 1..L /\ b[m] \in 1..K[a[m]]
                      /\ vs[m] = [doc |-> a[m], inv |-> kept(a[m])[b[m]]]
    OBVIOUS
  <2>1. PICK c \in 1..L : c = a[m]
    BY <1>8
  <2>2. PICK j \in 1..K[c] : j = b[m]
    BY <1>3, <1>8, <2>1
  <2>3. vs[m] = [doc |-> c, inv |-> kept(c)[j]]
    BY <1>4, <1>8, <2>1, <2>2
  <2> QED BY <2>1, <2>2, <2>3
<1>10. \A c \in 1..L : \A j \in 1..K[c] : \E m \in 1..M : a[m] = c /\ b[m] = j
  BY <1>3, <1>8
<1>11. \A i, j \in 1..M : i < j => a[i] < a[j] \/ (a[i] = a[j] /\ b[i] < b[j])
  BY <1>8
<1>12. a \in [1..M -> 1..L]
  BY <1>8
<1>13. Listed(fc, L, K, vs, a, b, M)
  BY <1>7, <1>9, <1>10, <1>11, <1>12, Zenon DEF Listed
<1> QED BY <1>2, <1>5, <1>13

\* The invoices of a job are those of the files that count.
LEMMA BundledExists ==
    ASSUME NEW files \in Seq(DOMAIN Document), NEW fc,
           fc = I!FinalChunks(Payloads(files, "INVOICE"))
    PROVE  \E M, fl, inv : Bundled(files, I!VirtualsOf(fc), M, fl, inv)
<1>1. PICK bodies, p : /\ bodies = [k \in DOMAIN files |-> Document[files[k]].body]
                       /\ Picked(fc, bodies, InvoiceFiles(files), p)
  BY FilesPicked
<1>2. PICK L \in Nat : /\ L = Len(fc) /\ DOMAIN fc = 1..L
                       /\ \A c \in 1..L : fc[c] \in Doc!InvoiceChunk
  <2>1. fc \in Seq(Doc!InvoiceChunk)
    BY PayloadsTyped, DocumentsAssumption, FinalTyped
  <2> QED BY <2>1, LenProperties, ElementOfSeq
<1>3. /\ p \in [1..L -> InvoiceFiles(files)] /\ \A i \in 1..L : fc[i] = bodies[p[i]]
      /\ \A k \in InvoiceFiles(files) : \E i \in 1..L : p[i] = k
      /\ \A i, j \in 1..L : i < j => p[i] < p[j]
  BY <1>1, <1>2 DEF Picked
<1>4. \A k \in InvoiceFiles(files) : k \in DOMAIN files
  BY DEF InvoiceFiles
<1>5. \A c \in 1..L : fc[c] = InvoiceFile(files, p[c])
  BY <1>1, <1>3, <1>4 DEF InvoiceFile
<1> DEFINE kept(c) == I!KeptVirtuals(I!VirtualInvoices(fc[c]))
<1>6. PICK K, W : \A c \in 1..L : FileHolds(fc[c], kept(c), K[c], W[c])
  <2> DEFINE k(c) == CHOOSE k : \E w : FileHolds(fc[c], kept(c), k, w)
             w(c) == CHOOSE w : FileHolds(fc[c], kept(c), k(c), w)
  <2>1. ASSUME NEW c \in 1..L PROVE FileHolds(fc[c], kept(c), k(c), w(c))
    <3>1. \E k0 : \E w0 : FileHolds(fc[c], kept(c), k0, w0)
      BY <1>2, FileKept
    <3>2. \E w0 : FileHolds(fc[c], kept(c), k(c), w0)
      <4> HIDE DEF kept
      <4> QED BY <3>1, Zenon
    <3> HIDE DEF kept, k
    <3> QED BY <3>2, Zenon
  <2> HIDE DEF kept, k, w
  <2>2. PICK K, W : K = [c \in 1..L |-> k(c)] /\ W = [c \in 1..L |-> w(c)]
    OBVIOUS
  <2>3. \A c \in 1..L : FileHolds(fc[c], kept(c), K[c], W[c])
    BY <2>1, <2>2
  <2> QED BY <2>3
<1>7. ASSUME NEW c \in 1..L
      PROVE  /\ K[c] \in Nat /\ DOMAIN kept(c) = 1..K[c] /\ W[c] \in [1..K[c] -> Nat]
             /\ \A i, j \in 1..K[c] : i < j =>
                    StartsBefore(fc[c], W[c][i], W[c][j]) /\ W[c][i] # W[c][j]
             /\ \A j \in 1..K[c] : \E g : Picked(I!GoodsRows(kept(c)[j]), fc[c].rows,
                                               LinesOf(fc[c], W[c][j]), g)
             /\ \A j \in 1..K[c] : LinesOf(fc[c], W[c][j]) \subseteq GoodsPrinted(fc[c])
             /\ \A n \in GoodsPrinted(fc[c]) :
                    \E j \in 1..K[c] : n \in LinesOf(fc[c], W[c][j])
  <2> HIDE DEF kept
  <2> QED BY <1>6 DEF FileHolds, Holds
<1>8. PICK vs : vs = I!VirtualsOf(fc)
  OBVIOUS
<1>9. PICK a, b, M : Listed(fc, L, K, vs, a, b, M)
  BY <1>2, <1>7, <1>8, VirtualsPlaces
<1>10. /\ M \in Nat /\ DOMAIN vs = 1..M /\ a \in [1..M -> 1..L]
       /\ \A m \in 1..M : b[m] \in 1..K[a[m]] /\ vs[m] = [doc |-> a[m], inv |-> kept(a[m])[b[m]]]
       /\ \A c \in 1..L : \A j \in 1..K[c] : \E m \in 1..M : a[m] = c /\ b[m] = j
       /\ \A i, j \in 1..M : i < j => a[i] < a[j] \/ (a[i] = a[j] /\ b[i] < b[j])
  BY <1>9, Zenon DEF Listed
<1> HIDE DEF kept
<1>11. PICK fl, inv : fl = [m \in 1..M |-> p[a[m]]] /\ inv = [m \in 1..M |-> W[a[m]][b[m]]]
  OBVIOUS
<1>12. ASSUME NEW m \in 1..M
       PROVE  /\ a[m] \in 1..L /\ b[m] \in 1..K[a[m]]
              /\ fl[m] = p[a[m]] /\ inv[m] = W[a[m]][b[m]] /\ vs[m].inv = kept(a[m])[b[m]]
              /\ fl[m] \in InvoiceFiles(files) /\ inv[m] \in Nat
              /\ InvoiceFile(files, fl[m]) = fc[a[m]]
  <2>1. PICK c, j : c \in 1..L /\ j \in 1..K[c] /\ c = a[m] /\ j = b[m]
    BY <1>10
  <2>2. vs[m].inv = kept(c)[j]
    BY <1>10, <2>1
  <2>3. fl[m] = p[c] /\ inv[m] = W[c][j] /\ W[c] \in [1..K[c] -> Nat]
    BY <1>7, <1>11, <2>1
  <2> QED BY <1>3, <1>5, <2>1, <2>2, <2>3
<1>13. ASSUME NEW i \in 1..M, NEW j \in 1..M, i < j
       PROVE  \/ fl[i] < fl[j]
              \/ /\ fl[i] = fl[j] /\ inv[i] # inv[j]
                 /\ StartsBefore(InvoiceFile(files, fl[i]), inv[i], inv[j])
  <2>1. CASE a[i] < a[j]
    BY <1>3, <1>12, <2>1
  <2>2. CASE a[i] = a[j] /\ b[i] < b[j]
    <3>1. PICK c, x, y : c \in 1..L /\ x \in 1..K[c] /\ y \in 1..K[c] /\
              c = a[i] /\ c = a[j] /\ x = b[i] /\ y = b[j] /\ x < y
      BY <1>12, <2>2
    <3>2. StartsBefore(fc[c], W[c][x], W[c][y]) /\ W[c][x] # W[c][y]
      BY <1>7, <3>1
    <3>3. /\ fl[i] = p[c] /\ fl[j] = p[c] /\ InvoiceFile(files, fl[i]) = fc[c]
          /\ inv[i] = W[c][x] /\ inv[j] = W[c][y]
      BY <1>12, <3>1
    <3> QED BY <3>2, <3>3
  <2> QED BY <1>10, <1>13, <2>1, <2>2
<1>14. ASSUME NEW m \in 1..M
       PROVE  /\ LinesOf(InvoiceFile(files, fl[m]), inv[m])
                      \subseteq GoodsPrinted(InvoiceFile(files, fl[m]))
              /\ \E g : Picked(I!GoodsRows(vs[m].inv), InvoiceFile(files, fl[m]).rows,
                               LinesOf(InvoiceFile(files, fl[m]), inv[m]), g)
  <2>1. PICK c, j : c \in 1..L /\ j \in 1..K[c] /\ c = a[m] /\ j = b[m]
    BY <1>12
  <2>2. /\ LinesOf(fc[c], W[c][j]) \subseteq GoodsPrinted(fc[c])
        /\ \E g : Picked(I!GoodsRows(kept(c)[j]), fc[c].rows, LinesOf(fc[c], W[c][j]), g)
    BY <1>7, <2>1
  <2> QED BY <1>12, <2>1, <2>2
<1>15. ASSUME NEW f \in InvoiceFiles(files), NEW n \in GoodsPrinted(InvoiceFile(files, f))
       PROVE  \E m \in 1..M : fl[m] = f /\ n \in LinesOf(InvoiceFile(files, f), inv[m])
  <2>1. PICK c \in 1..L : p[c] = f
    BY <1>3
  <2>2. n \in GoodsPrinted(fc[c])
    BY <1>5, <2>1
  <2>3. PICK j \in 1..K[c] : n \in LinesOf(fc[c], W[c][j])
    BY <1>7, <2>2
  <2>4. PICK m \in 1..M : a[m] = c /\ b[m] = j
    BY <1>10
  <2> QED BY <1>5, <1>12, <2>1, <2>3, <2>4
<1>16. fl \in [1..M -> InvoiceFiles(files)] /\ inv \in [1..M -> Nat]
  BY <1>11, <1>12
<1>17. Bundled(files, vs, M, fl, inv)
  BY <1>10, <1>13, <1>14, <1>15, <1>16, Zenon DEF Bundled
<1> QED BY <1>8, <1>17

\* An invoice does not start before itself nor two before one another.
LEMMA StartsOneWay ==
    ASSUME NEW chunk \in Doc!InvoiceChunk, NEW i \in Starting(chunk), NEW j \in Starting(chunk),
           StartsBefore(chunk, i, j)
    PROVE  ~StartsBefore(chunk, j, i)
<1>1. PICK S, ahead : S = Starting(chunk) /\ ahead = Earlier(chunk)
  OBVIOUS
<1>2. Linear(S, ahead) /\ i \in S /\ j \in S
  BY <1>1, StartsInLine
<1>3. i \in ahead[j] /\ (StartsBefore(chunk, j, i) => j \in ahead[i])
  BY <1>1, <1>2 DEF Earlier
<1> QED BY <1>2, <1>3 DEF Linear

\* The invoice of a page is one of those that start.
LEMMA InvoiceAtStarts ==
    ASSUME NEW chunk \in Doc!InvoiceChunk, NEW page \in Int, Starting(chunk) # {}
    PROVE  InvoiceAt(chunk, page) \in Starting(chunk)
<1>1. PICK subs, M, s : Sorted(chunk, subs, M, s)
  BY AnchoredSorted
<1>2. M # 0 /\ s \in [1..M -> Starting(chunk)]
  <2>1. /\ M \in Nat /\ s \in [1..M -> Starting(chunk)]
        /\ \A k \in Starting(chunk) : \E n \in 1..M : s[n] = k
    BY <1>1 DEF Sorted
  <2> QED BY <2>1
<1>3. PICK b : b \in 1..M /\ s[b] = InvoiceAt(chunk, page)
  <2>1. Sorted(chunk, subs, M, s) /\ M # 0
    BY <1>1, <1>2
  <2> QED BY <2>1, BucketIs
<1> QED BY <1>2, <1>3

\* The rows that are printed ahead of each row.
Ahead(files) ==
    [x \in RowsPrinted(files) |-> {y \in RowsPrinted(files) : PrintedBefore(files, y, x)}]

\* A row that is printed is a goods row of a file that counts.
LEMMA PrintedIs ==
    ASSUME NEW files \in Seq(DOMAIN Document)
    PROVE  \A x : x \in RowsPrinted(files) <=>
               \E f \in InvoiceFiles(files) : \E n \in GoodsPrinted(InvoiceFile(files, f)) :
                   x = << f, n >>
BY DEF RowsPrinted

\* No two rows are printed before one another.
LEMMA PrintedOneWay ==
    ASSUME NEW files \in Seq(DOMAIN Document),
           NEW x \in RowsPrinted(files), NEW y \in RowsPrinted(files), PrintedBefore(files, x, y)
    PROVE  ~PrintedBefore(files, y, x)
<1>1. PICK f, n : /\ f \in InvoiceFiles(files) /\ n \in GoodsPrinted(InvoiceFile(files, f))
                  /\ x = << f, n >>
  BY PrintedIs
<1>2. PICK g, m : /\ g \in InvoiceFiles(files) /\ m \in GoodsPrinted(InvoiceFile(files, g))
                  /\ y = << g, m >>
  BY PrintedIs
<1>3. /\ \A k \in InvoiceFiles(files) : k \in Int /\ InvoiceFile(files, k) \in Doc!InvoiceChunk
  <2>1. PICK N \in Nat : DOMAIN files = 1..N /\ \A k \in 1..N : files[k] \in DOMAIN Document
    BY LenProperties, ElementOfSeq
  <2>2. \A k \in InvoiceFiles(files) : k \in DOMAIN files /\ Document[files[k]].role = "INVOICE"
    BY DEF InvoiceFiles
  <2> QED BY <2>1, <2>2, DocumentsAssumption DEF InvoiceFile
<1>4. x[1] = f /\ x[2] = n /\ y[1] = g /\ y[2] = m
  BY <1>1, <1>2
<1>5. PICK a \in Int, b \in Int : a = f /\ b = g
  BY <1>1, <1>2, <1>3
<1>6. PICK cx, cy : cx = InvoiceFile(files, f) /\ cy = InvoiceFile(files, g)
  OBVIOUS
<1>7. PICK i, j, k, l : /\ i = InvoiceAt(cx, cx.rows[n].page) /\ j = InvoiceAt(cx, cx.rows[m].page)
                        /\ k = InvoiceAt(cy, cy.rows[m].page) /\ l = InvoiceAt(cy, cy.rows[n].page)
  OBVIOUS
<1>8. PrintedBefore(files, x, y) <=>
          a < b \/ (a = b /\ IF i = j THEN n < m ELSE StartsBefore(cx, i, j))
  BY <1>4, <1>5, <1>6, <1>7 DEF PrintedBefore
<1>9. PrintedBefore(files, y, x) <=>
          b < a \/ (b = a /\ IF k = l THEN m < n ELSE StartsBefore(cy, k, l))
  BY <1>4, <1>5, <1>6, <1>7 DEF PrintedBefore
<1>10. CASE a # b
  BY <1>8, <1>9, <1>10
<1>11. CASE a = b
  <2>1. cx = cy /\ k = j /\ l = i /\ cx \in Doc!InvoiceChunk
    BY <1>1, <1>3, <1>5, <1>6, <1>7, <1>11
  <2>2. /\ n \in DOMAIN cx.rows /\ m \in DOMAIN cx.rows
    BY <1>1, <1>2, <1>6, <2>1, GoodsAre
  <2>3. cx.rows[n].page \in Int /\ cx.rows[m].page \in Int /\ n \in Int /\ m \in Int
    <3>1. cx.rows \in Seq(Line)
      BY <2>1 DEF Doc!InvoiceChunk, Line
    <3>2. cx.rows[n] \in Line /\ cx.rows[m] \in Line /\ DOMAIN cx.rows = 1..Len(cx.rows)
      BY <2>2, <3>1, LenProperties, ElementOfSeq
    <3> QED BY <2>2, <3>2 DEF Line, Doc!InvoiceLine
  <2>4. CASE i = j
    BY <1>8, <1>9, <2>1, <2>3, <2>4, <1>11
  <2>5. CASE i # j
    <3>1. Starting(cx) # {}
      BY <1>7, <2>5 DEF InvoiceAt
    <3>2. i \in Starting(cx) /\ j \in Starting(cx)
      BY <1>7, <2>1, <2>3, <3>1, InvoiceAtStarts
    <3>3. StartsBefore(cx, i, j)
      BY <1>8, <1>11, <2>5
    <3>4. ~StartsBefore(cx, j, i)
      BY <2>1, <3>2, <3>3, StartsOneWay
    <3> QED BY <1>9, <1>11, <2>1, <2>5, <3>4
  <2> QED BY <2>4, <2>5
<1> QED BY <1>10, <1>11

\* items are the rows printed in files, e says which is which.
Declared(files, items, N, e) ==
    /\ Len(items) = N /\ DOMAIN items = 1..N
    /\ Lists(e, N, RowsPrinted(files), Ahead(files))
    /\ \A i \in 1..N : items[i].row = InvoiceFile(files, e[i][1]).rows[e[i][2]]

\* The items are the goods rows of the invoices, invoice by invoice.
FromInvoices(vs, M, items, N, a, b) ==
    /\ N \in Nat /\ Len(items) = N /\ DOMAIN items = 1..N /\ a \in [1..N -> 1..M]
    /\ \A i \in 1..N :
           /\ b[i] \in 1..Len(I!GoodsRows(vs[a[i]].inv))
           /\ items[i] = [number |-> vs[a[i]].inv.number, doc |-> vs[a[i]].doc,
                          row |-> I!GoodsRows(vs[a[i]].inv)[b[i]]]
    /\ \A m \in 1..M : \A k \in 1..Len(I!GoodsRows(vs[m].inv)) :
           \E i \in 1..N : a[i] = m /\ b[i] = k
    /\ \A i, j \in 1..N : i < j => a[i] < a[j] \/ (a[i] = a[j] /\ b[i] < b[j])

\* ItemsOf lists them so.
LEMMA ItemsPlaces ==
    ASSUME NEW vs, Numbered(vs)
    PROVE  \E M, N, a, b : /\ M \in Nat /\ DOMAIN vs = 1..M
                           /\ FromInvoices(vs, M, I!ItemsOf(vs), N, a, b)
<1> DEFINE goods(k) == I!GoodsRows(vs[k].inv)
           of(k) == [j \in DOMAIN goods(k) |->
                        [number |-> vs[k].inv.number, doc |-> vs[k].doc, row |-> goods(k)[j]]]
           ss == [k \in DOMAIN vs |-> of(k)]
           S == UNION {{of(k)[j] : j \in DOMAIN goods(k)} : k \in DOMAIN vs}
<1>1. PICK M \in Nat : DOMAIN vs = 1..M /\ \A k \in 1..M : vs[k].inv.rows \in Seq(Line)
  BY DEF Numbered
<1>2. \A k \in 1..M : goods(k) \in Seq(Line)
  BY <1>1, GoodsTyped
<1>3. ASSUME NEW k \in 1..M PROVE of(k) \in Seq(S) /\ Len(of(k)) = Len(goods(k))
  <2>1. PICK K \in Nat : K = Len(goods(k)) /\ DOMAIN goods(k) = 1..K
    <3> HIDE DEF goods
    <3> QED BY <1>2, LenProperties
  <2>2. k \in DOMAIN vs
    BY <1>1
  <2>3. \A j \in DOMAIN goods(k) : of(k)[j] \in S
    <3> HIDE DEF of, goods
    <3> QED BY <2>2
  <2>4. DOMAIN of(k) = 1..K /\ of(k) = [j \in 1..K |-> of(k)[j]]
    <3> HIDE DEF goods
    <3> QED BY <2>1
  <2> HIDE DEF of, S, goods
  <2>5. of(k) \in [1..K -> S]
    BY <2>1, <2>3, <2>4
  <2> QED BY <2>1, <2>5
<1>4. I!ItemsOf(vs) = FlattenSeq(ss)
  BY SameFlattening DEF I!ItemsOf
<1>5. /\ DOMAIN ss = 1..M /\ ss = [k \in 1..M |-> ss[k]]
      /\ \A k \in 1..M : ss[k] \in Seq(S) /\ Len(ss[k]) = Len(goods(k))
  <2> HIDE DEF of, S, goods
  <2> QED BY <1>1, <1>3
<1>6. ASSUME NEW k \in 1..M, NEW j \in 1..Len(goods(k))
      PROVE  ss[k][j] = [number |-> vs[k].inv.number, doc |-> vs[k].doc, row |-> goods(k)[j]]
  <2>1. j \in DOMAIN goods(k) /\ k \in DOMAIN vs
    <3>1. goods(k) \in Seq(Line)
      BY <1>2
    <3> HIDE DEF goods
    <3> QED BY <1>1, <3>1, LenProperties
  <2> HIDE DEF goods
  <2> QED BY <2>1
<1> HIDE DEF ss, S, of
<1>7. PICK items, a, b : items = FlattenSeq(ss) /\ Joins(items, ss, M, a, b)
  BY <1>5, FlattenPlaces
<1>8. PICK N \in Nat : Len(items) = N /\ DOMAIN items = 1..N
  <2>1. items \in Seq(S)
    BY <1>5, <1>7, FlattenTyped
  <2> QED BY <2>1, LenProperties
<1>9. /\ a \in [1..N -> 1..M]
      /\ \A i \in 1..N : b[i] \in 1..Len(ss[a[i]]) /\ items[i] = ss[a[i]][b[i]]
      /\ \A k \in 1..M : \A j \in 1..Len(ss[k]) : \E i \in 1..N : a[i] = k /\ b[i] = j
      /\ \A i, j \in 1..N : i < j => a[i] < a[j] \/ (a[i] = a[j] /\ b[i] < b[j])
  BY <1>7, <1>8 DEF Joins
<1>10. ASSUME NEW i \in 1..N
       PROVE  /\ b[i] \in 1..Len(goods(a[i]))
              /\ items[i] = [number |-> vs[a[i]].inv.number, doc |-> vs[a[i]].doc,
                             row |-> goods(a[i])[b[i]]]
  <2> HIDE DEF goods
  <2>1. PICK k \in 1..M : k = a[i]
    BY <1>9
  <2>2. PICK j \in 1..Len(goods(k)) : j = b[i]
    BY <1>5, <1>9, <2>1
  <2>3. items[i] = [number |-> vs[k].inv.number, doc |-> vs[k].doc, row |-> goods(k)[j]]
    BY <1>6, <1>9, <2>1, <2>2
  <2> QED BY <2>1, <2>2, <2>3
<1>11. \A m \in 1..M : \A k \in 1..Len(goods(m)) : \E i \in 1..N : a[i] = m /\ b[i] = k
  <2> HIDE DEF goods
  <2> QED BY <1>5, <1>9
<1>12. \A i, j \in 1..N : i < j => a[i] < a[j] \/ (a[i] = a[j] /\ b[i] < b[j])
  BY <1>9
<1>13. a \in [1..N -> 1..M]
  BY <1>9
<1>14. FromInvoices(vs, M, items, N, a, b)
  BY <1>8, <1>10, <1>11, <1>12, <1>13, Zenon DEF FromInvoices
<1> QED BY <1>1, <1>4, <1>7, <1>14

\* The items of a job are the rows its invoices print.
LEMMA ItemsDeclared ==
    ASSUME NEW files \in Seq(DOMAIN Document), NEW vs, Numbered(vs),
           NEW M, NEW fl, NEW inv, Bundled(files, vs, M, fl, inv)
    PROVE  \E N, e : Declared(files, I!ItemsOf(vs), N, e)
<1> DEFINE file(m) == InvoiceFile(files, fl[m])
           lines(m) == LinesOf(file(m), inv[m])
<1>1. /\ M \in Nat /\ DOMAIN vs = 1..M
      /\ fl \in [1..M -> InvoiceFiles(files)] /\ inv \in [1..M -> Nat]
      /\ \A i, j \in 1..M : i < j =>
             \/ fl[i] < fl[j]
             \/ /\ fl[i] = fl[j] /\ inv[i] # inv[j]
                /\ StartsBefore(file(i), inv[i], inv[j])
      /\ \A m \in 1..M :
             /\ lines(m) \subseteq GoodsPrinted(file(m))
             /\ \E g : Picked(I!GoodsRows(vs[m].inv), file(m).rows, lines(m), g)
      /\ \A f \in InvoiceFiles(files) : \A n \in GoodsPrinted(InvoiceFile(files, f)) :
             \E m \in 1..M : fl[m] = f /\ n \in LinesOf(InvoiceFile(files, f), inv[m])
  BY Zenon DEF Bundled
<1>2. PICK items, N, a, b : items = I!ItemsOf(vs) /\ FromInvoices(vs, M, items, N, a, b)
  <2>1. PICK M1, N, a, b : /\ M1 \in Nat /\ DOMAIN vs = 1..M1
                           /\ FromInvoices(vs, M1, I!ItemsOf(vs), N, a, b)
    BY ItemsPlaces
  <2>2. M1 = M
    <3>1. 1..M1 = 1..M
      BY <1>1, <2>1
    <3>2. M1 \in Nat /\ M \in Nat
      BY <1>1, <2>1
    <3>3. (M1 # 0 => M1 \in 1..M1) /\ (M # 0 => M \in 1..M)
      BY <3>2
    <3>4. (M1 # 0 => M1 <= M) /\ (M # 0 => M <= M1)
      BY <3>1, <3>2, <3>3
    <3> QED BY <3>2, <3>4
  <2> QED BY <2>1, <2>2
<1>3. /\ N \in Nat /\ Len(items) = N /\ DOMAIN items = 1..N /\ a \in [1..N -> 1..M]
      /\ \A i \in 1..N :
             /\ b[i] \in 1..Len(I!GoodsRows(vs[a[i]].inv))
             /\ items[i].row = I!GoodsRows(vs[a[i]].inv)[b[i]]
      /\ \A m \in 1..M : \A k \in 1..Len(I!GoodsRows(vs[m].inv)) :
             \E i \in 1..N : a[i] = m /\ b[i] = k
      /\ \A i, j \in 1..N : i < j => a[i] < a[j] \/ (a[i] = a[j] /\ b[i] < b[j])
  <2>1. /\ N \in Nat /\ Len(items) = N /\ DOMAIN items = 1..N /\ a \in [1..N -> 1..M]
        /\ \A i \in 1..N :
               /\ b[i] \in 1..Len(I!GoodsRows(vs[a[i]].inv))
               /\ items[i] = [number |-> vs[a[i]].inv.number, doc |-> vs[a[i]].doc,
                              row |-> I!GoodsRows(vs[a[i]].inv)[b[i]]]
        /\ \A m \in 1..M : \A k \in 1..Len(I!GoodsRows(vs[m].inv)) :
               \E i \in 1..N : a[i] = m /\ b[i] = k
        /\ \A i, j \in 1..N : i < j => a[i] < a[j] \/ (a[i] = a[j] /\ b[i] < b[j])
    BY <1>2, Zenon DEF FromInvoices
  <2>2. \A i \in 1..N : items[i].row = I!GoodsRows(vs[a[i]].inv)[b[i]]
    BY <2>1
  <2> QED BY <2>1, <2>2, Zenon
<1>4. PICK g : \A m \in 1..M : Picked(I!GoodsRows(vs[m].inv), file(m).rows, lines(m), g[m])
  <2> DEFINE at(m) == CHOOSE h : Picked(I!GoodsRows(vs[m].inv), file(m).rows, lines(m), h)
  <2>1. ASSUME NEW m \in 1..M
        PROVE  Picked(I!GoodsRows(vs[m].inv), file(m).rows, lines(m), at(m))
    <3>1. \E h : Picked(I!GoodsRows(vs[m].inv), file(m).rows, lines(m), h)
      BY <1>1
    <3> HIDE DEF file, lines
    <3> QED BY <3>1, Zenon
  <2> HIDE DEF at, file, lines
  <2>2. PICK g : g = [m \in 1..M |-> at(m)]
    OBVIOUS
  <2>3. \A m \in 1..M : g[m] = at(m)
    BY <2>2
  <2>4. \A m \in 1..M : Picked(I!GoodsRows(vs[m].inv), file(m).rows, lines(m), g[m])
    BY <2>1, <2>3
  <2> QED BY <2>4
<1> HIDE DEF file, lines
<1>5. ASSUME NEW m \in 1..M
      PROVE  /\ \A k \in 1..Len(I!GoodsRows(vs[m].inv)) :
                    g[m][k] \in lines(m) /\ I!GoodsRows(vs[m].inv)[k] = file(m).rows[g[m][k]]
             /\ \A n \in lines(m) : \E k \in 1..Len(I!GoodsRows(vs[m].inv)) : g[m][k] = n
             /\ \A k, l \in 1..Len(I!GoodsRows(vs[m].inv)) : k < l => g[m][k] < g[m][l]
  BY <1>4 DEF Picked
<1>6. PICK e : e = [i \in 1..N |-> << fl[a[i]], g[a[i]][b[i]] >>]
  OBVIOUS
<1>7. ASSUME NEW i \in 1..N
      PROVE  /\ a[i] \in 1..M /\ fl[a[i]] \in InvoiceFiles(files)
             /\ e[i] = << fl[a[i]], g[a[i]][b[i]] >>
             /\ e[i][1] = fl[a[i]] /\ e[i][2] = g[a[i]][b[i]] /\ g[a[i]][b[i]] \in lines(a[i])
             /\ items[i].row = file(a[i]).rows[g[a[i]][b[i]]]
  <2>1. PICK m \in 1..M : m = a[i]
    BY <1>3
  <2>2. b[i] \in 1..Len(I!GoodsRows(vs[m].inv)) /\ items[i].row = I!GoodsRows(vs[m].inv)[b[i]]
    BY <1>3, <2>1
  <2>3. g[m][b[i]] \in lines(m) /\ I!GoodsRows(vs[m].inv)[b[i]] = file(m).rows[g[m][b[i]]]
    BY <1>5, <2>2
  <2>4. e[i] = << fl[m], g[m][b[i]] >>
    BY <1>6, <2>1
  <2> QED BY <1>1, <2>1, <2>2, <2>3, <2>4
<1>8. ASSUME NEW i \in 1..N PROVE e[i] \in RowsPrinted(files)
  <2>1. /\ fl[a[i]] \in InvoiceFiles(files)
        /\ g[a[i]][b[i]] \in GoodsPrinted(InvoiceFile(files, fl[a[i]]))
    BY <1>1, <1>7 DEF file
  <2> QED BY <1>7, <2>1, PrintedIs
<1>9. ASSUME NEW x \in RowsPrinted(files) PROVE \E i \in 1..N : e[i] = x
  <2>1. PICK f, n : /\ f \in InvoiceFiles(files) /\ n \in GoodsPrinted(InvoiceFile(files, f))
                    /\ x = << f, n >>
    BY PrintedIs
  <2>2. PICK m \in 1..M : fl[m] = f /\ n \in lines(m)
    BY <1>1, <2>1 DEF lines, file
  <2>3. PICK k \in 1..Len(I!GoodsRows(vs[m].inv)) : g[m][k] = n
    BY <1>5, <2>2
  <2>4. PICK i \in 1..N : a[i] = m /\ b[i] = k
    BY <1>3
  <2> QED BY <1>7, <2>1, <2>2, <2>3, <2>4
<1>10. ASSUME NEW i \in 1..N, NEW j \in 1..N, i < j PROVE PrintedBefore(files, e[i], e[j])
  <2>1. PICK m, n, y, z : /\ m \in 1..M /\ n \in 1..M /\ m = a[i] /\ n = a[j]
                          /\ y = g[m][b[i]] /\ z = g[n][b[j]]
    BY <1>7
  <2>2. /\ e[i][1] = fl[m] /\ e[i][2] = y /\ e[j][1] = fl[n] /\ e[j][2] = z
        /\ y \in lines(m) /\ z \in lines(n)
    BY <1>7, <2>1
  <2>3. PICK c : c = file(m) /\ c = InvoiceFile(files, fl[m])
    BY DEF file
  <2>4. PrintedBefore(files, e[i], e[j]) <=>
           \/ fl[m] < fl[n]
           \/ fl[m] = fl[n] /\ IF InvoiceAt(c, c.rows[y].page) = InvoiceAt(c, c.rows[z].page)
                               THEN y < z
                               ELSE StartsBefore(c, InvoiceAt(c, c.rows[y].page),
                                                    InvoiceAt(c, c.rows[z].page))
    BY <2>2, <2>3 DEF PrintedBefore
  <2>5. InvoiceAt(c, c.rows[y].page) = inv[m]
    BY <2>2, <2>3 DEF lines, LinesOf, file
  <2>6. fl[m] = fl[n] => InvoiceAt(c, c.rows[z].page) = inv[n]
    BY <2>2, <2>3 DEF lines, LinesOf, file
  <2>7. CASE m < n
    <3>1. \/ fl[m] < fl[n]
          \/ fl[m] = fl[n] /\ inv[m] # inv[n] /\ StartsBefore(c, inv[m], inv[n])
      <4>1. \/ fl[m] < fl[n]
            \/ fl[m] = fl[n] /\ inv[m] # inv[n] /\ StartsBefore(file(m), inv[m], inv[n])
        <5>1. m \in 1..M /\ n \in 1..M
          BY <2>1
        <5> QED BY <1>1, <2>7, <5>1
      <4> QED BY <2>3, <4>1
    <3> QED BY <2>4, <2>5, <2>6, <3>1
  <2>8. CASE m = n /\ b[i] < b[j]
    <3>1. /\ b[i] \in 1..Len(I!GoodsRows(vs[m].inv))
          /\ b[j] \in 1..Len(I!GoodsRows(vs[m].inv))
      BY <1>3, <2>1, <2>8
    <3>2. y < z
      BY <1>5, <2>1, <2>8, <3>1
    <3> QED BY <2>4, <2>5, <2>6, <2>8, <3>2
  <2>9. m < n \/ (m = n /\ b[i] < b[j])
    BY <1>3, <1>10, <2>1
  <2> QED BY <2>7, <2>8, <2>9
<1>11. Lists(e, N, RowsPrinted(files), Ahead(files))
  <2>1. e \in [1..N -> RowsPrinted(files)]
    BY <1>6, <1>8
  <2>2. \A i, j \in 1..N : i < j => e[i] \in Ahead(files)[e[j]]
    BY <1>8, <1>10 DEF Ahead
  <2> QED BY <1>3, <1>9, <2>1, <2>2 DEF Lists
<1>12. \A i \in 1..N : items[i].row = InvoiceFile(files, e[i][1]).rows[e[i][2]]
  BY <1>7 DEF file
<1>13. Declared(files, items, N, e)
  BY <1>3, <1>11, <1>12 DEF Declared
<1> QED BY <1>2, <1>13

\* What RowsOnce asks of the list of the items.
RowsInPlace(files, list) ==
    LET printed == RowsPrinted(files)
        place(x) == 1 + Cardinality({y \in printed : PrintedBefore(files, y, x)})
    IN  /\ Len(list) = Cardinality(printed)
        /\ \A x \in printed : list[place(x)].row = InvoiceFile(files, x[1]).rows[x[2]]

\* The list of the printed rows has each in its place.
LEMMA DeclaredInPlace ==
    ASSUME NEW files \in Seq(DOMAIN Document), NEW list, NEW N, NEW e,
           Declared(files, list, N, e)
    PROVE  RowsInPlace(files, list)
<1>1. PICK K, ahead : K = RowsPrinted(files) /\ ahead = Ahead(files)
  OBVIOUS
<1>2. /\ Len(list) = N /\ Lists(e, N, K, ahead)
      /\ \A i \in 1..N : list[i].row = InvoiceFile(files, e[i][1]).rows[e[i][2]]
  BY <1>1 DEF Declared
<1>3. /\ ahead \in [K -> SUBSET K]
      /\ \A x \in K : ahead[x] = {y \in K : PrintedBefore(files, y, x)}
  BY <1>1 DEF Ahead
<1>4. \A x, y \in K : x \in ahead[y] => y \notin ahead[x]
  BY <1>1, <1>3, PrintedOneWay
<1>5. Cardinality(K) = N /\ \A i \in 1..N : 1 + Cardinality(ahead[e[i]]) = i
  BY <1>2, <1>3, <1>4, ListPlaces
<1>6. ASSUME NEW x \in K
      PROVE  list[1 + Cardinality({y \in K : PrintedBefore(files, y, x)})].row
                 = InvoiceFile(files, x[1]).rows[x[2]]
  <2>1. PICK i \in 1..N : e[i] = x
    BY <1>2 DEF Lists
  <2>2. 1 + Cardinality(ahead[x]) = i
    BY <1>5, <2>1
  <2>3. 1 + Cardinality({y \in K : PrintedBefore(files, y, x)}) = i
    BY <1>3, <2>2
  <2> QED BY <1>2, <2>1, <2>3
<1> QED BY <1>1, <1>2, <1>5, <1>6 DEF RowsInPlace

\* The items of a job are the printed rows, each where those before it leave it.
LEMMA RowsFollow ==
    ASSUME NEW files \in Seq(DOMAIN Document)
    PROVE  RowsInPlace(files, InvoicesOf(files).items)
<1>1. PICK fc, vs, list : /\ fc = I!FinalChunks(Payloads(files, "INVOICE"))
                          /\ vs = I!VirtualsOf(fc) /\ list = I!ItemsOf(vs)
  OBVIOUS
<1>2. Numbered(vs)
  <2>1. fc \in Seq(Doc!InvoiceChunk)
    BY <1>1, PayloadsTyped, DocumentsAssumption, FinalTyped
  <2> QED BY <1>1, <2>1, NumberedTyped
<1>3. PICK M, fl, inv : Bundled(files, vs, M, fl, inv)
  BY <1>1, BundledExists
<1>4. PICK N, e : Declared(files, list, N, e)
  BY <1>1, <1>2, <1>3, ItemsDeclared
<1>5. InvoicesOf(files).items = list
  <2>1. InvoicesOf(files) = I!InvoiceResult(vs, list)
    BY <1>1 DEF InvoicesOf, I!FinalizeInvoices
  <2>2. I!InvoiceResult(vs, list).items = list
    BY DEF I!InvoiceResult
  <2> QED BY <2>1, <2>2
<1>6. RowsInPlace(files, list)
  BY <1>4, DeclaredInPlace
<1> QED BY <1>5, <1>6

\* No two items have one number and come from different documents.
OfOneDocument(list) ==
    \A j, k \in DOMAIN list :
        list[j].number = list[k].number /\ list[j].number # "" => list[j].doc = list[k].doc

\* Otherwise the invoices carry the code of a document that was uploaded twice.
LEMMA TwiceIsTold ==
    ASSUME NEW files \in Seq(DOMAIN Document),
           "INVOICE_DUPLICATE_DOCUMENT" \notin InvoicesOf(files).codes
    PROVE  OfOneDocument(InvoicesOf(files).items)
<1>1. PICK fc, vs, list, nameless, code :
          /\ fc = I!FinalChunks(Payloads(files, "INVOICE"))
          /\ vs = I!VirtualsOf(fc) /\ list = I!ItemsOf(vs)
          /\ nameless = "" /\ code = "INVOICE_DUPLICATE_DOCUMENT"
  OBVIOUS
<1>2. Numbered(vs)
  <2>1. fc \in Seq(Doc!InvoiceChunk)
    BY <1>1, PayloadsTyped, DocumentsAssumption, FinalTyped
  <2> QED BY <1>1, <2>1, NumberedTyped
<1>3. InvoicesOf(files) = I!InvoiceResult(vs, list)
  BY <1>1 DEF InvoicesOf, I!FinalizeInvoices
<1>4. InvoicesOf(files).items = list
  <2>1. I!InvoiceResult(vs, list).items = list
    BY DEF I!InvoiceResult
  <2> QED BY <1>3, <2>1
<1> DEFINE names == {vs[k].inv.number : k \in DOMAIN vs} \ {""}
           docsOf(n) == {vs[k].doc : k \in {k \in DOMAIN vs : vs[k].inv.number = n}}
<1>5. \A n \in names : ~(I!Cardinality(docsOf(n)) > 1)
  <2>1. (\E n \in names : I!Cardinality(docsOf(n)) > 1)
            => "INVOICE_DUPLICATE_DOCUMENT" \in I!InvoiceResult(vs, list).codes
    BY DEF I!InvoiceResult
  <2> HIDE DEF names, docsOf
  <2> QED BY <1>3, <2>1
<1>6. PICK M, N, a, b : M \in Nat /\ DOMAIN vs = 1..M /\ FromInvoices(vs, M, list, N, a, b)
  BY <1>1, <1>2, ItemsPlaces
<1>7. /\ DOMAIN list = 1..N
      /\ \A i \in 1..N : /\ a[i] \in 1..M /\ list[i].number = vs[a[i]].inv.number
                         /\ list[i].doc = vs[a[i]].doc
  BY <1>6 DEF FromInvoices
<1>8. \A n : IsFiniteSet(docsOf(n))
  <2> TAKE n
  <2>1. PICK at : at = {k \in 1..M : vs[k].inv.number = n}
    OBVIOUS
  <2>2. IsFiniteSet(at)
    <3>1. 1 \in Int /\ M \in Int
      BY <1>6
    <3>2. IsFiniteSet(1..M) /\ at \subseteq 1..M
      BY <2>1, <3>1, FS_Interval
    <3> QED BY <3>2, FS_Subset
  <2>3. docsOf(n) = {vs[k].doc : k \in at}
    BY <1>6, <2>1
  <2>4. PICK f, S : f = [k \in at |-> vs[k].doc] /\ S = docsOf(n)
    OBVIOUS
  <2>5. f \in Surjection(at, S)
    BY <2>3, <2>4 DEF Surjection
  <2> HIDE DEF docsOf
  <2> QED BY <2>2, <2>4, <2>5, FS_Surjection
<1>9. ASSUME NEW j \in 1..N, NEW k \in 1..N, list[j].number = list[k].number,
             list[j].number # nameless
      PROVE  list[j].doc = list[k].doc
  <2>1. PICK n, x, y : n = list[j].number /\ x = a[j] /\ y = a[k]
    OBVIOUS
  <2>2. /\ x \in DOMAIN vs /\ y \in DOMAIN vs /\ vs[x].inv.number = n /\ vs[y].inv.number = n
        /\ list[j].doc = vs[x].doc /\ list[k].doc = vs[y].doc
    BY <1>6, <1>7, <1>9, <2>1
  <2>3. n \in names
    BY <1>1, <1>9, <2>1, <2>2
  <2>4. vs[x].doc \in docsOf(n) /\ vs[y].doc \in docsOf(n)
    BY <2>2
  <2>5. PICK S : S = docsOf(n)
    OBVIOUS
  <2>6. IsFiniteSet(S) /\ ~(Cardinality(S) > 1)
    <3>1. I!Cardinality(S) = Cardinality(S)
      BY SameNumbers
    <3> HIDE DEF names, docsOf
    <3> QED BY <1>5, <1>8, <2>3, <2>5, <3>1
  <2>7. \A p, q \in S : p = q
    <3>1. PICK m \in Nat : m = Cardinality(S)
      BY <2>6, FS_CardinalityType
    <3>2. m < 2
      BY <2>6, <3>1
    <3>3. T!Cardinality(S) < 2
      BY <3>1, <3>2, SameCount
    <3> QED BY <2>6, <3>3, TwoOrMore
  <2> HIDE DEF names, docsOf
  <2> QED BY <2>2, <2>4, <2>5, <2>7
<1> HIDE DEF names, docsOf
<1>10. OfOneDocument(list)
  <2> SUFFICES ASSUME NEW j \in DOMAIN list, NEW k \in DOMAIN list,
                      list[j].number = list[k].number, list[j].number # ""
               PROVE  list[j].doc = list[k].doc
    BY Zenon DEF OfOneDocument
  <2>1. j \in 1..N /\ k \in 1..N
    BY <1>7
  <2>2. list[j].number # nameless
    BY <1>1
  <2> QED BY <1>9, <2>1, <2>2
<1> QED BY <1>4, <1>10

\* An invoice that was uploaded twice blocks, in warn mode too: an XML has none.
LEMMA NoneTwice ==
    ASSUME DeclaredIsMade, declared # None, declared.xml
    PROVE  /\ review # None
           /\ "INVOICE_DUPLICATE_DOCUMENT" \notin review.context.inv.codes
<1>1. review # NoReview /\ DeclaredOf(review, declared)
  BY DEF DeclaredIsMade, NoDeclaration
<1>2. PICK c, d : c = review.context /\ d = declared
  OBVIOUS
<1>3. PICK conf \in Confirmations, rate \in Rates : \E ticked, override :
          Makes(review.context, review.values, conf, ticked, override, rate, declared)
  BY <1>1 DEF DeclaredOf
<1>4. PICK ticked, override :
          Makes(review.context, review.values, conf, ticked, override, rate, declared)
  BY <1>3
<1>5. PICK reviewed, items : d = ConfirmStep(c, reviewed, items, override, rate)
  BY <1>2, <1>4 DEF Makes
<1>6. PICK t, lines, freights, insurances :
          PartsOf(d, c, reviewed, items, override, t, lines, freights, insurances)
  BY <1>5, DeclarationParts
<1>7. /\ d.blocking = Blocking(c, reviewed, lines, t, override)
      /\ D!BuildXmlNow(lines, d.blocking)
  BY <1>2, <1>6 DEF PartsOf
<1>8. D!Escalated(c.inv.codes) \subseteq d.blocking
  BY <1>7, Zenon DEF Blocking
<1>9. d.blocking \cap D!WarnModeHardCodes = {}
  BY <1>7 DEF D!BuildXmlNow, D!Ready
<1>10. "INVOICE_DUPLICATE_DOCUMENT" \in D!WarnModeHardCodes
  BY DEF D!WarnModeHardCodes
<1>11. "INVOICE_DUPLICATE_DOCUMENT" \in c.inv.codes
           => "INVOICE_DUPLICATE_DOCUMENT" \in D!Escalated(c.inv.codes)
  BY DEF D!Escalated
<1>12. "INVOICE_DUPLICATE_DOCUMENT" \notin c.inv.codes
  BY <1>8, <1>9, <1>10, <1>11
<1> QED BY <1>1, <1>2, <1>12 DEF NoReview

-----------------------------------------------------------------------------
(* What every job promises.                                                 *)

\* What a job holds is typed whatever its documents say and its reviewer enters: a review is
\* computed of whole figures and official codes.
THEOREM JobsAreTyped == Spec => []TypeOK
<1>1. Kept /\ ReviewIsCurrent => TypeOK
  BY CurrentReview DEF Kept, TypeOK
<1> QED BY <1>1, KeptAlways, PTL

\* The total a blocked table proposes is enough: the codes that it is the remedy of are gone
\* from the table that is computed next.
THEOREM RemediesUnblock == Spec => RemedyUnblocks
<1> DEFINE Unblocks ==
              /\ review.table.grossNeed > 0 => review'.table.codes \cap GrossCodes = {}
              /\ review.table.ctnNeed > 0 => review'.table.codes \cap CartonCodes = {}
<1>1. Kept /\ ReviewIsCurrent /\ [Next]_vars => [ApplyRemedy => Unblocks]_vars
  BY RemedyIsEnough
<1> QED BY <1>1, KeptAlways, PTL DEF Spec, RemedyUnblocks

\* Every table a reviewer is shown is exact or carries a blocking code, after any uploads and
\* entries in any order.
THEOREM TablesReconcile == Spec => []ReconcilesOrBlocks
<1>1. Kept /\ ReviewIsCurrent => ReconcilesOrBlocks
  BY CurrentReview, ComputedReconciles
<1> QED BY <1>1, KeptAlways, PTL

\* What somebody printed is the last to move, in every table: a net that an invoice or a
\* packing list states stands, and the cartons a list states follow the others (3b,
\* _allocate_cartons).
THEOREM PrintedFiguresLast == Spec => []PrintedFiguresMoveLast
<1>1. Kept /\ ReviewIsCurrent => PrintedFiguresMoveLast
  BY CurrentReview, ComputedPrintedLast
<1> QED BY <1>1, KeptAlways, PTL

LEMMA MadeAlways == Spec => []DeclaredIsMade
<1>1. Init => DeclaredIsMade
  BY DEF Init, DeclaredIsMade
<1> QED BY <1>1, DeclaredStaysMade, PTL DEF Spec

\* Every declaration an XML is built of adds up, in warn mode too: gross weights exactly, cartons
\* exactly or, with CARTON_ALLOCATION_IMPOSSIBLE, within the validator's tolerance; and one that
\* is ready has only confirmed codes, a confirmed transport reference and totals.
THEOREM XmlsReconcile == Spec => []XmlReconciles
<1>1. Kept /\ ReviewIsCurrent /\ DeclaredIsMade => XmlReconciles
  BY CurrentReview, DeclaredReconciles
<1> QED BY <1>1, KeptAlways, MadeAlways, PTL

\* Every declaration carries the costs of its shipment: the lines' freight and insurance add up to
\* the declared ones; the freight is what the reviewer entered, else the highest amount the
\* documents state in no other currency; and the lines' CIF values add up to the declaration's
\* within a cent a line.
THEOREM CostsStayWhole == Spec => []CostsAddUp
<1>1. Kept /\ ReviewIsCurrent /\ DeclaredIsMade => CostsAddUp
  BY CurrentReview, DeclaredCosts
<1> QED BY <1>1, KeptAlways, MadeAlways, PTL

\* An air waybill that states the gross of a shipment is the lightest that prints a weight, and
\* does so in whatever order distinct weights were uploaded; the own house number of the one that
\* is lighter than all others is what Field 40 prints (_prefer_lower_awb, derive_field40).
THEOREM LightestDecides == Spec => []LowestAwbDecides
<1>1. Kept /\ ReviewIsCurrent => LowestAwbDecides
  <2> SUFFICES ASSUME Kept, ReviewIsCurrent, review # None PROVE LowestAwbDecides
    BY DEF LowestAwbDecides
  <2>1. PICK c : c = Context(uploads, overlay, history)
    OBVIOUS
  <2>2. review.context = c
    <3>1. review = ReviewOf(c)
      BY <2>1 DEF ReviewIsCurrent, BuiltReview, NoReview
    <3> QED BY <3>1 DEF ReviewOf
  <2>3. uploads \in Seq(DOMAIN Document)
    BY DEF Kept
  <2>4. LowestStates(c) /\ LowestPrints(c)
    BY <2>1, <2>3, LowestDecides
  <2> QED BY <2>2, <2>4, Zenon DEF LowestAwbDecides, LowestStates, LowestPrints
<1> QED BY <1>1, KeptAlways, PTL

\* What the packing lists print is neither lost nor counted twice: the items have the weights of
\* the matched rows, and their cartons when every row is matched, up to half a step an item; a
\* carton that rows share counts once (packing_match, passes 2 to 5).
THEOREM EvidenceStays == Spec => []EvidenceConserved
<1>1. Kept /\ ReviewIsCurrent => EvidenceConserved
  <2> SUFFICES ASSUME Kept, ReviewIsCurrent, review # None PROVE EvidenceConserved
    BY DEF EvidenceConserved
  <2>1. PICK c : c = Context(uploads, overlay, history)
    OBVIOUS
  <2>2. review.context = c
    <3>1. review = ReviewOf(c)
      BY <2>1 DEF ReviewIsCurrent, BuiltReview, NoReview
    <3> QED BY <3>1 DEF ReviewOf
  <2>3. uploads \in Seq(DOMAIN Document) /\ EntriesOK(overlay)
    BY OverlayEntries DEF Kept
  <2>4. Conserved(c, Trusted(ListsOf(uploads)))
    BY <2>1, <2>3, ContextConserves
  <2>5. ListsOf(uploads) = Payloads(uploads, "PACKING_LIST")
    BY DEF ListsOf
  <2> QED BY <2>2, <2>4, <2>5 DEF EvidenceConserved
<1> QED BY <1>1, KeptAlways, PTL

\* Every goods row that the invoices print is declared once, in the place that the rows printed
\* before it leave it, whatever pages their lines come from and whatever invoices they bundle; and
\* no XML is built of an invoice that was uploaded twice (finalize_invoices, _virtual_invoices).
THEOREM RowsStayOnce == Spec => []RowsOnce
<1>1. Kept /\ ReviewIsCurrent /\ DeclaredIsMade => RowsOnce
  <2> SUFFICES ASSUME Kept, ReviewIsCurrent, DeclaredIsMade PROVE RowsOnce
    OBVIOUS
  <2>1. ASSUME review # None
        PROVE  review.context.inv = InvoicesOf(uploads)
    <3>1. PICK c : c = Context(uploads, overlay, history)
      OBVIOUS
    <3>2. review.context = c
      <4>1. review = ReviewOf(c)
        BY <2>1, <3>1 DEF ReviewIsCurrent, BuiltReview, NoReview
      <4> QED BY <4>1 DEF ReviewOf
    <3>3. c.inv = InvoicesOf(uploads)
      BY <3>1, ContextIs
    <3> QED BY <3>2, <3>3
  <2>2. uploads \in Seq(DOMAIN Document)
    BY DEF Kept
  <2>3. RowsInPlace(uploads, InvoicesOf(uploads).items)
    BY <2>2, RowsFollow
  <2>4. ASSUME declared # None, declared.xml
        PROVE  OfOneDocument(InvoicesOf(uploads).items) /\ review # None
    <3>1. /\ review # None
          /\ "INVOICE_DUPLICATE_DOCUMENT" \notin review.context.inv.codes
      BY <2>4, NoneTwice
    <3> QED BY <2>1, <2>2, <3>1, TwiceIsTold
  <2>5. ASSUME review # None
        PROVE  RowsInPlace(uploads, review.context.inv.items)
    BY <2>1, <2>3, <2>5
  <2>6. ASSUME declared # None, declared.xml
        PROVE  OfOneDocument(review.context.inv.items)
    BY <2>1, <2>4, <2>6
  <2> QED BY <2>5, <2>6, Zenon DEF RowsOnce, RowsInPlace, OfOneDocument
<1> QED BY <1>1, KeptAlways, MadeAlways, PTL
===============================================================================
