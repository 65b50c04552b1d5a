------------------------------ MODULE Allocation ------------------------------
(***************************************************************************)
(* app/rules/weight_carton.py: how the authorised gross weight and cartons *)
(* of a shipment are divided over the items of its invoices.               *)
(*                                                                         *)
(* Numbers are whole steps of the lattice they are declared on: weights,   *)
(* values and quantities in steps of 0.001 (q3), cartons of 0.01 (q2).     *)
(* Zero stands for a figure that nobody stated, as it does in the code's   *)
(* `if x and x > 0'.  A basis is a fraction <<numerator, denominator>>.    *)
(*                                                                         *)
(* An item has value, qty, uom, invWeight (0 or the printed weight), perUnit *)
(* (its scope), desc (0 or the weight its description is read as) and the  *)
(* reviewer's pinGross, pinNet and pinCtn.  Its evidence, matched on the   *)
(* packing list, has gross, net and ctn.                                   *)
(***************************************************************************)
EXTENDS Integers, FiniteSets, FiniteSetsExt, Functions

CONSTANTS
    One, CtnOne,    \* the steps in 1 (of weight, value, quantity) and in 1 CTN
    UnitMass,       \* printed units of mass -> kilograms per unit, a fraction; a
                    \* cell with digits ("25 KG") or no unit of mass is not in it
    CtnDonorMax     \* how many estimated rows absorb a carton pin

Fraction == Nat \X (Nat \ {0})

ASSUME StepsAssumption == One \in Nat \ {0} /\ CtnOne \in Nat \ {0}
ASSUME UnitMassAssumption == UnitMass \in [DOMAIN UnitMass -> Fraction]
ASSUME CtnDonorMaxAssumption == CtnDonorMax \in Nat \ {0}

Eps == 1            \* _EPS: one step of 0.001 kg
MinCtn == 1         \* _MIN_CTN: one step of 0.01 CTN

Impossible == << >> \* the None of apportion

-----------------------------------------------------------------------------
(* Apportionment.                                                          *)

HalfUp(num, den) == (2 * num + den) \div (2 * den)     \* q2, q3

CommonDenominator(basis) ==
    FoldFunction(LAMBDA a, b : a * b, 1, [i \in DOMAIN basis |-> basis[i][2]])

OverCommon(basis, common) == [i \in DOMAIN basis |-> basis[i][1] * (common \div basis[i][2])]

Scaled(basis) == OverCommon(basis, CommonDenominator(basis))

(* Whole units handed to the largest remainders; of equal ones, first[i] is *)
(* served before i.                                                         *)
HandOut(down, rest, units, first) ==
    LET ahead(i) == {j \in DOMAIN down : \/ rest[j] > rest[i]
                                         \/ rest[j] = rest[i] /\ j \in first[i]}
    IN  [i \in DOMAIN down |-> down[i] + (IF Cardinality(ahead(i)) < units THEN 1 ELSE 0)]

Quotas(total, w, whole, first) ==
    HandOut([i \in DOMAIN w |-> (total * w[i]) \div whole],
            [i \in DOMAIN w |-> (total * w[i]) % whole],
            total - SumFunction([i \in DOMAIN w |-> (total * w[i]) \div whole]), first)

Hamilton(total, weight, first) ==
    IF SumFunction(weight) > 0 THEN Quotas(total, weight, SumFunction(weight), first)
    ELSE Quotas(total, [i \in DOMAIN weight |-> 1], Cardinality(DOMAIN weight), first)

\* Mutant: every share rounded on its own.
RoundedShares(total, weight) ==
    [i \in DOMAIN weight |-> HalfUp(total * weight[i], Max({1, SumFunction(weight)}))]

LargestRemainder(total, weight) ==
    Hamilton(total, weight, [i \in DOMAIN weight |-> {j \in DOMAIN weight : j < i}])

(* _spread_units over rows that are ordered by their weight, highest first. *)
SpreadUnits(total, weight) ==
    Hamilton(total, weight, [i \in DOMAIN weight |->
        {j \in DOMAIN weight : weight[j] > weight[i] \/ (weight[j] = weight[i] /\ j < i)}])

(* The plain shares, unless one is below its floor.                         *)
FloorsFirst(floor, plain, above) ==
    IF \A i \in DOMAIN floor : plain[i] >= floor[i]
    THEN plain ELSE [i \in DOMAIN floor |-> floor[i] + above[i]]

Split(total, weight, floor) ==
    FloorsFirst(floor, LargestRemainder(total, weight),
                LargestRemainder(total - SumFunction(floor), weight))

(* A ceiling of 0 is no ceiling.  settled: the items held at their ceiling. *)
Apportion(total, weight, floor, ceiling) ==
    LET Items == DOMAIN weight
        over(shares) == {i \in DOMAIN shares : ceiling[i] > 0 /\ shares[i] > ceiling[i]}
        cap[settled \in SUBSET Items] ==
            LET free == Items \ settled
                settle(shares) ==
                    IF over(shares) = {}
                    THEN [i \in Items |-> IF i \in free THEN shares[i] ELSE ceiling[i]]
                    ELSE IF \E i \in over(shares) : ceiling[i] < floor[i]
                    THEN Impossible
                    ELSE cap[settled \cup over(shares)]
            IN  IF \/ free = {}
                   \/ SumFunctionOnSet(ceiling, settled) > total
                THEN Impossible
                ELSE settle(Split(total - SumFunctionOnSet(ceiling, settled),
                                  Restrict(weight, free), Restrict(floor, free)))
    IN  IF SumFunction(floor) > total THEN Impossible ELSE cap[{}]

-----------------------------------------------------------------------------
(* 1. The basis: what the shipment would be divided by.                    *)

BasisWithEstimates(evidence, fallback, group) ==
    LET matched == {i \in DOMAIN evidence : evidence[i] > 0}
        Ev(S) == SumFunctionOnSet(evidence, S)
        Fb(S) == SumFunctionOnSet(fallback, S)
        kin(i) == {j \in matched : group[j] = group[i]}
        estimate(i) ==
            IF Fb(kin(i)) > 0 /\ fallback[i] > 0
            THEN <<Ev(kin(i)) * fallback[i], Fb(kin(i))>>
            ELSE IF Fb(matched) > 0
            THEN <<Ev(matched) * fallback[i], Fb(matched)>>
            ELSE <<Ev(matched), Cardinality(matched)>>
    IN  [i \in DOMAIN evidence |->
            IF i \in matched THEN <<evidence[i], 1>>
            ELSE IF estimate(i)[1] > 0 THEN estimate(i) ELSE <<One, 1>>]

OrOne(x) == IF x > 0 THEN x ELSE One

HaveGross(ev) == \E i \in DOMAIN ev : ev[i].gross > 0
HaveCarton(ev) == \E i \in DOMAIN ev : ev[i].ctn > 0
PackingValue(ev, i) == IF HaveGross(ev) THEN ev[i].gross ELSE ev[i].ctn

(* packing: "none" uploaded, "partial"ly extracted, or read in "full". *)
ProvisionalBasis(items, ev, packing) ==
    LET share(i) == OrOne(IF packing = "full" THEN items[i].value ELSE items[i].qty)
    IN  IF HaveGross(ev) \/ HaveCarton(ev)
        THEN BasisWithEstimates([i \in DOMAIN items |-> PackingValue(ev, i)],
                                [i \in DOMAIN items |-> share(i)],
                                [i \in DOMAIN items |-> items[i].uom])
        ELSE [i \in DOMAIN items |-> <<share(i), 1>>]

-----------------------------------------------------------------------------
(* 3. The net ladder.  A source is the rung a net was taken from.           *)

Reviewer == "reviewer"
Invoice == "invoice"
SoldByMass == "uom"
PackingNet == "packing"
Description == "description"
Ratio == "ratio"

(* A mass that rounds to nothing is no statement: it is rounded first. *)
NetFromUomQuantity(it) ==
    IF it.uom \in DOMAIN UnitMass
    THEN HalfUp(UnitMass[it.uom][1] * it.qty, UnitMass[it.uom][2]) ELSE 0

InvoiceStates(it) == it.invWeight > 0 /\ (it.perUnit => it.qty > 0)
InvoiceNet(it) ==       \* this one is rounded after it was found positive
    IF it.perUnit THEN HalfUp(it.invWeight * it.qty, One) ELSE it.invWeight

(* The first rung that states something. *)
NetLadder(it, ev) ==
    LET rung(src, net) == [src |-> src, net |-> net]
    IN  IF it.pinNet > 0 THEN rung(Reviewer, it.pinNet)
        ELSE IF InvoiceStates(it) THEN rung(Invoice, InvoiceNet(it))
        ELSE IF NetFromUomQuantity(it) > 0 THEN rung(SoldByMass, NetFromUomQuantity(it))
        ELSE IF ev.net > 0 THEN rung(PackingNet, ev.net)
        ELSE IF it.desc > 0 THEN rung(Description, it.desc)
        ELSE rung(Ratio, 0)

SourcesDisagree(it, chosen) ==
    /\ chosen.src \notin {Reviewer, Ratio}
    /\ \E other \in {InvoiceNet(it), NetFromUomQuantity(it), it.desc} \ {0, chosen.net} :
           Max({other, chosen.net}) > 10 * Min({other, chosen.net})

TimesTwelveTenths(net) == HalfUp(12 * net, 10)
RatioNet(gross) == (7 * gross) \div 10              \* q3_down(0.7 * gross)

InvoiceGrossCap(rung) ==
    IF rung.src \in {Invoice, SoldByMass} THEN TimesTwelveTenths(rung.net) ELSE 0

FloorOf(rung) == rung.net + Eps     \* a ratio net is 0 until the gross is known

-----------------------------------------------------------------------------
(* 3b. Descriptions that cannot be true yield, heaviest first, until the    *)
(* floors of the unpinned items fit.                                        *)

\* Mutant: a printed net yields as well.
RejectedFigures(rungs, unpinned, room) ==
    IF room < SumFunction([j \in unpinned |-> FloorOf(rungs[j])])
    THEN {i \in unpinned : rungs[i].src \in {Description, PackingNet, Invoice}} ELSE {}

RejectedDescriptions(rungs, unpinned, room) ==
    LET read == {i \in unpinned : rungs[i].src = Description}
        before(i) == {j \in read : \/ rungs[j].net > rungs[i].net
                                   \/ rungs[j].net = rungs[i].net /\ j < i}
        floors(out) == SumFunction([j \in unpinned |-> IF j \in out THEN Eps
                                                       ELSE FloorOf(rungs[j])])
    IN  IF room < 0 THEN {} ELSE {i \in read : floors(before(i)) > room}

(* The basis every unpinned item is apportioned by. *)
FinalBasis(items, ev, prov, rungs, unpinned, rejected) ==
    LET own(i) == IF i \in rejected \/ rungs[i].src \in {PackingNet, Ratio}
                     \/ i \notin unpinned
                  THEN prov[i] ELSE <<TimesTwelveTenths(rungs[i].net), 1>>
        packed(i) == (HaveGross(ev) \/ HaveCarton(ev)) /\ PackingValue(ev, i) > 0
        onQty == {i \in rejected : ~packed(i)}
        ref == unpinned \ onQty
        basis == [i \in DOMAIN items |-> own(i)]
        common == CommonDenominator(basis)
        refBasis == SumFunctionOnSet(OverCommon(basis, common), ref)
        refQty == SumFunction([i \in ref |-> OrOne(items[i].qty)])
    IN  [i \in DOMAIN items |->
            IF i \notin onQty THEN own(i)
            ELSE IF refBasis > 0 /\ refQty > 0
                 THEN <<OrOne(items[i].qty) * refBasis, refQty * common>>
                 ELSE <<OrOne(items[i].qty), 1>>]

-----------------------------------------------------------------------------
(* 5b. Cartons.                                                             *)

CartonBasis(items, ev, gross, basis) ==     \* gross[i] = 0: not allocated
    LET known == {i \in DOMAIN items : gross[i] > 0}
        weight == [i \in DOMAIN items |-> IF i \in known THEN <<gross[i], 1>> ELSE basis[i]]
        refQty == SumFunction([i \in known |-> OrOne(items[i].qty)])
        refGross == SumFunctionOnSet(gross, known)
    IN  IF HaveCarton(ev)
        THEN BasisWithEstimates([i \in DOMAIN items |-> ev[i].ctn], Scaled(weight),
                                [i \in DOMAIN items |-> "all"])
        ELSE [i \in DOMAIN items |->
                IF i \in known THEN <<gross[i], 1>>
                ELSE IF refGross > 0 THEN <<OrOne(items[i].qty) * refGross, refQty>>
                ELSE <<OrOne(items[i].qty), 1>>]

(* _absorb_into_estimates: est is a set, higher baselines first.            *)
(* delta > 0 is taken out of the rows, delta < 0 is added to them.          *)
HighestFirst(base, S, k) ==
    LET ahead(i) == {j \in S : base[j] > base[i] \/ (base[j] = base[i] /\ j < i)}
    IN  {i \in S : Cardinality(ahead(i)) < k}

Room(base, S) == SumFunction([i \in S |-> base[i] - MinCtn])

(* As few donors as cover delta, but no fewer than CtnDonorMax. *)
DonorsOf(base, pool, delta) ==
    HighestFirst(base, pool,
        Min({k \in Min({CtnDonorMax, Cardinality(pool), delta})..Cardinality(pool) :
                \/ k = Cardinality(pool)
                \/ Room(base, HighestFirst(base, pool, k)) >= delta}))

Moved(base, sign, shares) ==
    [i \in DOMAIN base |-> IF i \in DOMAIN shares THEN base[i] + sign * shares[i] ELSE base[i]]

TakenFrom(base, donors, delta) ==
    LET take == Min({delta, Room(base, donors)})
    IN  [left |-> delta - take,
         ctn |-> Moved(base, -1, SpreadUnits(take, [i \in donors |-> base[i] - MinCtn]))]

AddedTo(base, adders, units) ==
    [left |-> 0, ctn |-> Moved(base, 1, SpreadUnits(units, Restrict(base, adders)))]

AbsorbIntoEstimates(base, est, delta) ==
    LET pool == {i \in est : base[i] > MinCtn}
    IN  IF delta < 0
        THEN AddedTo(base, HighestFirst(base, est, Min({CtnDonorMax, Cardinality(est), -delta})),
                     -delta)
        ELSE IF pool = {} THEN [left |-> delta, ctn |-> base]
        ELSE TakenFrom(base, DonorsOf(base, pool, delta), delta)

(* Each result: the cartons, the blocking codes and the total the remedy    *)
(* proposes (0: none is offered).                                           *)
Cartons(ctn) == [ctn |-> ctn, codes |-> {}, need |-> 0]
\* Mutant: the remedy forgets the least that one row must keep.
CartonsBlockedTight(ctn, code, need) ==
    [ctn |-> ctn, codes |-> {code}, need |-> need - MinCtn]

CartonsBlocked(ctn, code, need) == [ctn |-> ctn, codes |-> {code}, need |-> need]

NoPinBaseline(weight, auth) ==
    Apportion(auth, weight, [i \in DOMAIN weight |-> MinCtn], [i \in DOMAIN weight |-> 0])

(* The unpinned rows take up what the pins moved away from the baseline:    *)
(* first the estimates, and what is left then the rows the list states.     *)
Pinned(pin, ctn) == [i \in DOMAIN pin |-> IF pin[i] > 0 THEN pin[i] ELSE ctn[i]]

Absorbed(base, est, delta) ==
    IF delta # 0 /\ est # {} THEN AbsorbIntoEstimates(base, est, delta)
    ELSE [left |-> delta, ctn |-> base]

StatedShares(base, stated, left) ==
    IF stated = {} THEN Impossible
    ELSE Apportion(SumFunctionOnSet(base, stated) - left, Restrict(base, stated),
                   [i \in stated |-> MinCtn], [i \in stated |-> 0])

WithStated(ctn, pin, stated, shares) ==
    IF shares = Impossible
    THEN CartonsBlocked(Pinned(pin, ctn), "REVIEWED_CTN_EXCEEDS_AUTHORITY", 0)
    ELSE Cartons(Pinned(pin, [i \in DOMAIN pin |-> IF i \in stated THEN shares[i] ELSE ctn[i]]))

AfterEstimates(base, pin, stated, absorbed) ==
    IF absorbed.left = 0 THEN Cartons(Pinned(pin, absorbed.ctn))
    ELSE WithStated(absorbed.ctn, pin, stated, StatedShares(base, stated, absorbed.left))

FromBaseline(base, evidence, pin) ==
    LET pins == {i \in DOMAIN pin : pin[i] > 0}
    IN  IF base = Impossible
        THEN CartonsBlocked([i \in DOMAIN pin |-> MinCtn], "CARTON_ALLOCATION_IMPOSSIBLE", 0)
        ELSE AfterEstimates(base, pin, evidence \ pins,
                 Absorbed(base, DOMAIN pin \ (pins \cup evidence),
                          SumFunction([i \in pins |-> pin[i] - base[i]])))

AllocateCartons(weight, evidence, pin, auth) ==
    LET unpinned == {i \in DOMAIN pin : pin[i] = 0}
        pinSum == SumFunction(pin)
        floorNeed == MinCtn * Cardinality(unpinned)
    IN  IF unpinned = {}
        THEN IF pinSum = auth THEN Cartons(pin)
             ELSE CartonsBlocked(pin, "REVIEWED_CTN_TOTAL_MISMATCH", pinSum)
        ELSE IF pinSum > 0 /\ auth - pinSum < floorNeed
        THEN CartonsBlocked(Pinned(pin, [i \in DOMAIN pin |-> MinCtn]),
                            "REVIEWED_CTN_EXCEEDS_AUTHORITY", pinSum + floorNeed)
        ELSE FromBaseline(NoPinBaseline(weight, auth), evidence, pin)

(* _carton_lattice_check. *)
CartonLatticeCheck(ctn, auth, blocked) ==
    (IF \E i \in DOMAIN ctn : ctn[i] < MinCtn THEN {"CARTON_LATTICE_VIOLATION"} ELSE {})
    \cup (IF ~blocked /\ SumFunction(ctn) # auth THEN {"CARTON_RECONCILIATION_FAILED"} ELSE {})

-----------------------------------------------------------------------------
(* allocate_weights_and_cartons.  authGross and authCtn are 0 when no       *)
(* document or reviewer states them.                                        *)

(* Without an authority one carton, or one of value, counts as a kilogram. *)
AuthorisedGross(ev, prov, authGross) ==
    LET total == SumFunction(Scaled(prov))
        common == CommonDenominator(prov)
    IN  IF authGross > 0 THEN authGross
        ELSE IF HaveCarton(ev) /\ ~HaveGross(ev) THEN HalfUp(total * One, common * CtnOne)
        ELSE HalfUp(total, common)

(* 3 and 3b: the rungs that stand, and the basis, for an authority `auth'. *)
Standing(items, ev, prov, first, unpinned, pinSum, rejected) ==
    [rungs |-> [i \in DOMAIN items |-> IF i \in rejected
                                       THEN [src |-> Ratio, net |-> 0] ELSE first[i]],
     rejected |-> rejected,
     unpinned |-> unpinned,
     pinSum |-> pinSum,
     basis |-> FinalBasis(items, ev, prov, first, unpinned, rejected)]

Ladder(items, ev, prov, auth) ==
    LET unpinned == {i \in DOMAIN items : items[i].pinGross = 0}
        pinSum == SumFunction([i \in DOMAIN items |-> items[i].pinGross])
        first == [i \in DOMAIN items |-> NetLadder(items[i], ev[i])]
    IN  Standing(items, ev, prov, first, unpinned, pinSum,
                 RejectedDescriptions(first, unpinned, auth - pinSum))

(* 4: the gross of every item, the blocking codes, the remedy's total. *)
CappedElsePlain(room, weight, floors, shares) ==
    IF shares = Impossible THEN Apportion(room, weight, floors, [i \in DOMAIN floors |-> 0])
    ELSE shares

GrossShares(room, weight, floors, caps) ==
    CappedElsePlain(room, weight, floors, Apportion(room, weight, floors, caps))

AllocateGross(items, l, auth) ==
    LET room == auth - l.pinSum
        floors == [i \in l.unpinned |-> FloorOf(l.rungs[i])]
        kept == [i \in DOMAIN items |-> items[i].pinGross]
        stated == [i \in l.unpinned |-> IF l.rungs[i].src = Description THEN Eps
                                        ELSE FloorOf(l.rungs[i])]
        Blocked(code, need) == [gross |-> kept, codes |-> {code}, need |-> need]
        given(shares) ==
            IF shares = Impossible
            THEN Blocked("GROSS_ALLOCATION_IMPOSSIBLE", l.pinSum + SumFunction(floors))
            ELSE [gross |-> [i \in DOMAIN items |-> IF i \in l.unpinned THEN shares[i] ELSE kept[i]],
                  codes |-> {}, need |-> 0]
    IN  IF l.unpinned = {}
        THEN IF l.pinSum = auth THEN [gross |-> kept, codes |-> {}, need |-> 0]
             ELSE Blocked("REVIEWED_GROSS_TOTAL_MISMATCH", l.pinSum)
        ELSE IF room < 0
        THEN Blocked("REVIEWED_GROSS_EXCEEDS_AUTHORITY", l.pinSum + SumFunction(stated))
        ELSE given(GrossShares(room, Restrict(Scaled(l.basis), l.unpinned), floors,
                               [i \in l.unpinned |-> InvoiceGrossCap(l.rungs[i])]))

(* 5: fixed nets stand, ratio nets follow the final gross; a row without a *)
(* gross stays blank.                                                      *)
FinalNets(items, l, gross) ==
    [i \in DOMAIN items |-> IF gross[i] = 0 THEN 0
                            ELSE IF l.rungs[i].src = Ratio THEN RatioNet(gross[i])
                            ELSE l.rungs[i].net]

NoAllocation ==
    [gross |-> << >>, net |-> << >>, ctn |-> << >>, auth |-> 0, rungs |-> << >>,
     rejected |-> {}, ctnWeight |-> << >>, disagree |-> {}, inverted |-> {},
     grossNeed |-> 0, ctnNeed |-> 0, codes |-> {}]

(* The table of the items: l is the ladder, g the gross allocation, c the   *)
(* cartons and `weight' what they were divided by.                          *)
AllocationTable(items, ev, auth, l, g, nets, weight, c, authCtn) ==
    LET All == DOMAIN items
        inverted == {i \in All : g.gross[i] > 0 /\ nets[i] >= g.gross[i]}
        blocked == g.codes \cup c.codes # {}
    IN  [gross |-> g.gross, net |-> nets, ctn |-> c.ctn,
         auth |-> auth, rungs |-> l.rungs, rejected |-> l.rejected, ctnWeight |-> weight,
         disagree |-> {i \in All : SourcesDisagree(items[i], NetLadder(items[i], ev[i]))},
         inverted |-> inverted,             \* WEIGHT_RECONCILIATION_IMPOSSIBLE
         grossNeed |-> g.need, ctnNeed |-> c.need,
         codes |-> g.codes \cup c.codes
                     \cup (IF inverted # {} THEN {"WEIGHT_RECONCILIATION_IMPOSSIBLE"} ELSE {})
                     \cup (IF authCtn = 0 THEN {} ELSE CartonLatticeCheck(c.ctn, authCtn, blocked))]

(* Step by step: the authority, the ladder, the gross, the cartons.          *)
CartonStep(items, ev, auth, l, g, weight, authCtn) ==
    LET pin == [i \in DOMAIN items |-> items[i].pinCtn]
    IN  AllocationTable(items, ev, auth, l, g, FinalNets(items, l, g.gross), weight,
            IF authCtn = 0 THEN Cartons(pin)
            ELSE AllocateCartons(weight, {i \in DOMAIN items : ev[i].ctn > 0}, pin, authCtn),
            authCtn)

GrossStep(items, ev, auth, l, g, authCtn) ==
    CartonStep(items, ev, auth, l, g, Scaled(CartonBasis(items, ev, g.gross, l.basis)), authCtn)

LadderStep(items, ev, auth, l, authCtn) ==
    GrossStep(items, ev, auth, l, AllocateGross(items, l, auth), authCtn)

AuthorityStep(items, ev, prov, auth, authCtn) ==
    LadderStep(items, ev, auth, Ladder(items, ev, prov, auth), authCtn)

BasisStep(items, ev, prov, authGross, authCtn) ==
    AuthorityStep(items, ev, prov, AuthorisedGross(ev, prov, authGross), authCtn)

Allocate(items, ev, packing, authGross, authCtn) ==
    IF items = << >> THEN NoAllocation
    ELSE BasisStep(items, ev, ProvisionalBasis(items, ev, packing), authGross, authCtn)

-----------------------------------------------------------------------------
(* What an allocation is given: whole steps, and pins that are not negative. *)
FiguresOK(items, ev) ==
    /\ IsFiniteSet(DOMAIN items) /\ DOMAIN items \subseteq Int /\ DOMAIN ev = DOMAIN items
    /\ \A i \in DOMAIN items :
           /\ {items[i].value, items[i].qty, items[i].invWeight, items[i].desc,
               items[i].pinNet} \subseteq Int
           /\ {items[i].pinGross, items[i].pinCtn} \subseteq Nat
           /\ {ev[i].gross, ev[i].net, ev[i].ctn} \subseteq Int

(* What it promises, of the table t of these items for the authorised       *)
(* totals given, unless a code says that it could not.                      *)
GrossCodes == {"REVIEWED_GROSS_TOTAL_MISMATCH", "REVIEWED_GROSS_EXCEEDS_AUTHORITY",
               "GROSS_ALLOCATION_IMPOSSIBLE"}
CartonCodes == {"REVIEWED_CTN_TOTAL_MISMATCH", "REVIEWED_CTN_EXCEEDS_AUTHORITY",
                "CARTON_ALLOCATION_IMPOSSIBLE"}

ExactOrBlocked(t, items, gross, packages) ==
    /\ t.codes \cap GrossCodes = {} =>
         /\ SumFunction(t.gross) = gross
         /\ \A i \in DOMAIN items :
                /\ t.gross[i] > 0
                /\ items[i].pinGross > 0 => t.gross[i] = items[i].pinGross
                /\ items[i].pinNet > 0 => t.net[i] = items[i].pinNet
                /\ t.net[i] < t.gross[i] \/ items[i].pinGross > 0
    /\ t.codes = {} => \A i \in DOMAIN items : t.net[i] < t.gross[i]
    /\ t.codes \cap CartonCodes = {} /\ packages > 0 =>
         /\ SumFunction(t.ctn) = packages
         /\ \A i \in DOMAIN items : /\ t.ctn[i] >= MinCtn
                                    /\ items[i].pinCtn > 0 => t.ctn[i] = items[i].pinCtn
=============================================================================
