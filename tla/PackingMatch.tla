----------------------------- MODULE PackingMatch -----------------------------
(***************************************************************************)
(* app/rules/packing_match.py: which invoice item a row of the packing     *)
(* list speaks about, and what it says of it.                              *)
(*                                                                         *)
(* A text is a member of DOMAIN Meaning, normalised (_norm); Meaning says  *)
(* what the matcher reads in it: its words, its measurement of one kind    *)
(* ("" if none) and its product codes.  A row has text, qty, gross, net,   *)
(* declared (a weight in an unlabelled column), type (what the row calls   *)
(* that weight), carton, and the mark of the shared carton group it belongs *)
(* to, if any; once read, its group is that mark and the list it is on.     *)
(* Zero is a figure that is not printed; weights are in kilograms already. *)
(***************************************************************************)
EXTENDS Integers, FiniteSets, FiniteSetsExt, Functions, SequencesExt

CONSTANTS
    Meaning,        \* text -> [words, size, codes]
    TextOrder,      \* the texts in the order of their keys, for ties
    GroupRange,     \* a carton group's mark -> the cartons it counts if it is a range of
                    \* more than one, else 0
    NoGroup

MinScore == 60      \* _MIN_SCORE, in percent
MinMargin == 10     \* _MIN_MARGIN

Share(total, part, whole) == (2 * total * part + whole) \div (2 * whole)

-----------------------------------------------------------------------------
(* Pass 1: what an unlabelled weight column is.  printed: the totals the    *)
(* list prints; tol: how far a sum may be off (2%, at least 0.05 kg).       *)

CONSTANT Tolerance
Close(a, b) ==
    /\ b > 0
    /\ (IF a > b THEN a - b ELSE b - a) <= Max({b \div 50, Tolerance})

ClassifyDeclared(rows, printed) ==
    LET declaring == {i \in DOMAIN rows : rows[i].declared > 0}
        stated == {rows[i].type : i \in declaring} \ {"UNKNOWN"}
        bare == {i \in declaring : rows[i].gross = 0 /\ rows[i].net = 0}
        sum == SumFunction([i \in bare |-> rows[i].declared])
    IN  IF stated = {"GROSS"} THEN "GROSS"
        ELSE IF stated = {"NET"} THEN "NET"
        ELSE IF bare # {} /\ Close(sum, printed.net) THEN "NET"
        ELSE IF bare # {} /\ Close(sum, printed.gross) THEN "GROSS"
        ELSE "SHAPE"

(* The row as pass 1 leaves it: the row's own type before the column's. *)
ReadRow(row, kind) ==
    LET bare == row.gross = 0 /\ row.net = 0
        own == IF row.type \in {"GROSS", "NET"} THEN row.type ELSE kind
    IN  IF ~bare THEN row
        ELSE IF own = "NET" THEN [row EXCEPT !.net = row.declared]
        ELSE [row EXCEPT !.gross = row.declared]

-----------------------------------------------------------------------------
(* Pass 2: a shared carton group counts once, its last row takes the rest.  *)
(* A group is that of one list: <<list, mark>>.                             *)

SharedCartons(rows) ==
    LET Members(g) == {i \in DOMAIN rows : rows[i].group = g /\ rows[i].carton > 0}
        Printed(g) == {rows[i].carton : i \in Members(g)}
        groupTotal(g) ==
            IF Cardinality(Printed(g)) > 1
            THEN SumFunction([i \in Members(g) |-> rows[i].carton])
            ELSE IF GroupRange[g[2]] > 0 THEN GroupRange[g[2]] ELSE CHOOSE v \in Printed(g) : TRUE
        qty(g) == SumFunction([i \in Members(g) |-> rows[i].qty])
        part(i) ==
            LET g == rows[i].group
            IN  IF qty(g) > 0 THEN Share(groupTotal(g), rows[i].qty, qty(g))
                ELSE Share(groupTotal(g), 1, Cardinality(Members(g)))
        cartons(i) ==
            LET g == rows[i].group
            IN  IF g[2] = NoGroup \/ rows[i].carton = 0 THEN rows[i].carton
                ELSE IF i # Max(Members(g)) THEN part(i)
                ELSE groupTotal(g) - SumFunction([j \in Members(g) \ {i} |-> part(j)])
    IN  [i \in DOMAIN rows |-> cartons(i)]

(* Pass 3: rows of one text are one product.                                *)
Products(rows) == {rows[i].text : i \in DOMAIN rows}

ProductOf(rows, cartons, text) ==
    LET own == {i \in DOMAIN rows : rows[i].text = text}
    IN  [gross |-> SumFunction([i \in own |-> rows[i].gross]),
         net |-> SumFunction([i \in own |-> rows[i].net]),
         ctn |-> SumFunction([i \in own |-> cartons[i]]),
         shared |-> \E i \in own : rows[i].group[2] # NoGroup /\ rows[i].carton > 0]

-----------------------------------------------------------------------------
(* Pass 4: the ladder of matches, from a product's text to an item's text. *)

MeasuresConflict(a, b) ==
    Meaning[a].size # "" /\ Meaning[b].size # "" /\ Meaning[a].size # Meaning[b].size

Similarity(a, b) ==
    LET wa == Meaning[a].words  wb == Meaning[b].words
    IN  IF MeasuresConflict(a, b) \/ wa = {} \/ wb = {} THEN 0
        ELSE (100 * Cardinality(wa \cap wb)) \div Cardinality(wa \cup wb)

ExactMatches(products, texts) == [p \in products \cap texts |-> p]

(* A rung adds to the matches of the rungs above it.                        *)
Joined(m, more) ==
    [p \in DOMAIN m \cup DOMAIN more |-> IF p \in DOMAIN m THEN m[p] ELSE more[p]]

(* Rung 2 goes through the products in the order of the packing list: an    *)
(* item's text is claimed by the first product whose codes single it out.   *)
CodeMatches(order, products, texts) ==
    LET free == texts \ products
        hits(p, claimed) == {t \in free \ claimed : Meaning[t].codes \cap Meaning[p].codes # {}}
        step(m, p, h) == IF p \in texts \/ Cardinality(h) # 1 THEN m
                         ELSE Joined([q \in {p} |-> CHOOSE t \in h : TRUE], m)
    IN  FoldLeft(LAMBDA m, p : step(m, p, hits(p, Range(m))), << >>, order)

(* Rung 3: of two pairs of a product and an item's text the more similar    *)
(* comes first.                                                             *)
TextRank(t) == CHOOSE k \in DOMAIN TextOrder : TextOrder[k] = t

Better(a, b) ==
    LET sa == Similarity(a[1], a[2])  sb == Similarity(b[1], b[2])
    IN  \/ sa > sb
        \/ sa = sb /\ TextRank(a[1]) < TextRank(b[1])
        \/ sa = sb /\ a[1] = b[1] /\ TextRank(a[2]) < TextRank(b[2])

(* The pair that comes last. *)
Worst(pairs) == CHOOSE pt \in pairs : \A o \in pairs : ~Better(pt, o)

(* Every remaining pair once, best first; a close runner-up leaves the      *)
(* product undecided.                                                       *)
SimilarityMatches(products, texts, matched, claimed) ==
    LET pairs == {pt \in (products \ matched) \X texts : Similarity(pt[1], pt[2]) >= MinScore}
        step(was, p, t, taken) ==
            LET rivals == {Similarity(p, o) : o \in {o \in texts \ (taken \cup {t}) :
                                                     <<p, o>> \in pairs}}
            IN  IF p \in DOMAIN was.match \cup was.undecided \/ t \in taken THEN was
                ELSE IF Similarity(p, t) - Max(rivals \cup {0}) < MinMargin
                THEN [was EXCEPT !.undecided = @ \cup {p}]
                ELSE [was EXCEPT !.match = Joined([q \in {p} |-> t], was.match)]
    IN  MapThenFoldSet(LAMBDA pt, was : step(was, pt[1], pt[2], claimed \cup Range(was.match)),
                       [match |-> << >>, undecided |-> {}], LAMBDA pt : pt, Worst, pairs).match

(* The order in which the products first appear. *)
ProductOrder(rows) ==
    LET first(t) == Min({i \in DOMAIN rows : rows[i].text = t})
        rank(t) == Cardinality({u \in Products(rows) : first(u) <= first(t)})
    IN  [k \in 1..Cardinality(Products(rows)) |-> CHOOSE t \in Products(rows) : rank(t) = k]

WithSimilar(products, texts, m) ==
    Joined(m, SimilarityMatches(products, texts, DOMAIN m, Range(m)))

Matches(rows, texts) ==
    LET products == Products(rows)
    IN  WithSimilar(products, texts,
                    Joined(ExactMatches(products, texts),
                           CodeMatches(ProductOrder(rows), products, texts)))

-----------------------------------------------------------------------------
(* Pass 5: a product's figures are divided over the items of its text by    *)
(* quantity, else by value, else equally.  A sibling's share is rounded to  *)
(* the lattice here (in the code it keeps 28 digits).                       *)

NoEvidence == [gross |-> 0, net |-> 0, ctn |-> 0, shared |-> FALSE]

\* Mutant: groups of the same mark on two lists are taken for one.
RowsReadMerged(lists) ==
    FlattenSeq([k \in DOMAIN lists |->
        LET list == lists[k]
            kind == ClassifyDeclared(list.rows, [gross |-> list.gross, net |-> list.net])
        IN  [i \in DOMAIN lists[k].rows |->
                [ReadRow(lists[k].rows[i], kind) EXCEPT !.group = <<0, @>>]]])

(* Each list decides for itself what its unlabelled weight column is, and   *)
(* numbers its cartons for itself.                                          *)
RowsRead(lists) ==
    FlattenSeq([k \in DOMAIN lists |->
        LET kind == ClassifyDeclared(lists[k].rows, [gross |-> lists[k].gross, net |-> lists[k].net])
        IN  [i \in DOMAIN lists[k].rows |->
                [ReadRow(lists[k].rows[i], kind) EXCEPT !.group = <<k, @>>]]])

Divided(items, match, rows, cartons) ==
    LET siblings(t) == {k \in DOMAIN items : items[k].text = t}
        qty(t) == SumFunction([k \in siblings(t) |-> items[k].qty])
        value(t) == SumFunction([k \in siblings(t) |-> items[k].value])
        of(k, total) ==
            LET t == items[k].text
            IN  IF qty(t) > 0 THEN Share(total, items[k].qty, qty(t))
                ELSE IF value(t) > 0 THEN Share(total, items[k].value, value(t))
                ELSE Share(total, 1, Cardinality(siblings(t)))
        part(k, p) == [gross |-> of(k, p.gross), net |-> of(k, p.net), ctn |-> of(k, p.ctn),
                       shared |-> p.shared]
        evidence(k, ps) == IF ps = {} THEN NoEvidence
                           ELSE part(k, ProductOf(rows, cartons, CHOOSE p \in ps : TRUE))
    IN  [k \in DOMAIN items |->
            evidence(k, {p \in DOMAIN match : match[p] = items[k].text})]

MatchPacking(items, rows) ==
    Divided(items, Matches(rows, {items[k].text : k \in DOMAIN items}), rows,
            SharedCartons(rows))
=============================================================================
