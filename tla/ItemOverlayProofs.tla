------------------------ MODULE ItemOverlayProofs ------------------------
(***************************************************************************)
(* Proofs about the overlay of ItemOverlay, for every value of its         *)
(* constants: types, the order that fits the rows, the entries that belong *)
(* to rows on display, the weights of a row; that losses are announced and *)
(* the revision tells every change; and that the overlay implements the    *)
(* table of ItemTable.                                                     *)
(***************************************************************************)
EXTENDS ItemOverlay, FiniteSetTheorems, SequenceTheorems, WellFoundedInduction, TLAPS

(***************************************************************************)
(* Lists without repetition                                                *)
(***************************************************************************)
\* The elements of a sequence with one more, and with one less.
LEMMA InsertAtElements ==
    ASSUME NEW T, NEW s \in Seq(T), NEW i \in 1..(Len(s) + 1), NEW e \in T
    PROVE  /\ InsertAt(s, i, e) \in Seq(T)
           /\ Len(InsertAt(s, i, e)) = Len(s) + 1
           /\ \A j \in 1..(Len(s) + 1) :
                 InsertAt(s, i, e)[j] =
                    IF j < i THEN s[j] ELSE IF j = i THEN e ELSE s[j - 1]
<1> DEFINE u == SubSeq(s, 1, i - 1)
           v == SubSeq(s, i, Len(s))
<1>0. Len(s) \in Nat /\ \A j \in 1..Len(s) : s[j] \in T
  BY LenProperties, ElementOfSeq
<1>1. /\ u \in Seq(T)
      /\ Len(u) = i - 1
      /\ \A j \in 1..(i - 1) : u[j] = s[j]
  BY <1>0, SubSeqProperties
<1>2. /\ v \in Seq(T)
      /\ Len(v) = Len(s) - i + 1
      /\ \A j \in 1..(Len(s) - i + 1) : v[j] = s[i + j - 1]
  BY <1>0, SubSeqProperties
<1>3. <<e>> \in Seq(T) /\ Len(<<e>>) = 1 /\ <<e>>[1] = e
  OBVIOUS
<1> HIDE DEF u, v
<1>4. /\ u \o <<e>> \in Seq(T)
      /\ Len(u \o <<e>>) = i
      /\ \A j \in 1..i : (u \o <<e>>)[j] = IF j < i THEN s[j] ELSE e
  BY <1>0, <1>1, <1>3, ConcatProperties
<1>5. /\ (u \o <<e>>) \o v \in Seq(T)
      /\ Len((u \o <<e>>) \o v) = Len(s) + 1
      /\ \A j \in 1..(Len(s) + 1) : ((u \o <<e>>) \o v)[j] =
            IF j <= i THEN (u \o <<e>>)[j] ELSE v[j - i]
  BY <1>0, <1>2, <1>4, ConcatProperties
<1>6. InsertAt(s, i, e) = (u \o <<e>>) \o v
  BY DEF InsertAt, u, v
<1> QED BY <1>0, <1>2, <1>4, <1>5, <1>6

LEMMA RemoveAtElements ==
    ASSUME NEW T, NEW s \in Seq(T), NEW i \in 1..Len(s)
    PROVE  /\ RemoveAt(s, i) \in Seq(T)
           /\ Len(RemoveAt(s, i)) = Len(s) - 1
           /\ \A j \in 1..(Len(s) - 1) :
                 RemoveAt(s, i)[j] = IF j < i THEN s[j] ELSE s[j + 1]
<1> DEFINE u == SubSeq(s, 1, i - 1)
           v == SubSeq(s, i + 1, Len(s))
<1>0. Len(s) \in Nat /\ \A j \in 1..Len(s) : s[j] \in T
  BY LenProperties, ElementOfSeq
<1>1. /\ u \in Seq(T)
      /\ Len(u) = i - 1
      /\ \A j \in 1..(i - 1) : u[j] = s[j]
  BY <1>0, SubSeqProperties
<1>2. /\ v \in Seq(T)
      /\ Len(v) = Len(s) - i
      /\ \A j \in 1..(Len(s) - i) : v[j] = s[i + j]
  BY <1>0, SubSeqProperties
<1> HIDE DEF u, v
<1>3. /\ u \o v \in Seq(T)
      /\ Len(u \o v) = Len(s) - 1
      /\ \A j \in 1..(Len(s) - 1) : (u \o v)[j] = IF j <= i - 1 THEN u[j] ELSE v[j - (i - 1)]
  <2>1. Len(u) + Len(v) = Len(s) - 1
    BY <1>0, <1>1, <1>2
  <2>2. /\ u \o v \in Seq(T)
        /\ Len(u \o v) = Len(u) + Len(v)
        /\ \A j \in 1..(Len(u) + Len(v)) :
              (u \o v)[j] = IF j <= Len(u) THEN u[j] ELSE v[j - Len(u)]
    BY <1>1, <1>2, ConcatProperties
  <2> QED BY <1>1, <2>1, <2>2
<1>4. RemoveAt(s, i) = u \o v
  BY DEF RemoveAt, u, v
<1>5. ASSUME NEW j \in 1..(Len(s) - 1)
      PROVE  (u \o v)[j] = IF j < i THEN s[j] ELSE s[j + 1]
  <2>1. CASE j < i
    BY <1>0, <1>1, <1>3, <2>1
  <2>2. CASE ~(j < i)
    <3>1. j - (i - 1) \in 1..(Len(s) - i) /\ i + (j - (i - 1)) = j + 1
      BY <1>0, <2>2
    <3> QED BY <1>0, <1>2, <1>3, <2>2, <3>1
  <2> QED BY <2>1, <2>2
<1> QED BY <1>3, <1>4, <1>5

\* An id inserted into a list that lacks it: a list with one id more.
LEMMA InsertLists ==
    ASSUME NEW T, NEW s \in Seq(T), NEW S, Lists(s, S),
           NEW i \in 1..(Len(s) + 1), NEW e \in T, e \notin S
    PROVE  /\ InsertAt(s, i, e) \in Seq(T)
           /\ Lists(InsertAt(s, i, e), S \cup {e})
<1> DEFINE t == InsertAt(s, i, e)
<1>1. /\ t \in Seq(T)
      /\ Len(t) = Len(s) + 1
      /\ \A j \in 1..(Len(s) + 1) :
            t[j] = IF j < i THEN s[j] ELSE IF j = i THEN e ELSE s[j - 1]
  BY InsertAtElements
<1> HIDE DEF t
<1>2. \A j \in 1..Len(s) : s[j] \in S /\ s[j] # e
  BY DEF Lists, Range
<1>3. IsInjective(t)
  <2>1. DOMAIN t = 1..(Len(s) + 1)
    BY <1>1, LenProperties
  <2> SUFFICES ASSUME NEW a \in 1..(Len(s) + 1), NEW b \in 1..(Len(s) + 1), t[a] = t[b]
               PROVE  a = b
    BY <2>1 DEF IsInjective
  <2>2. \A j, k \in 1..Len(s) : s[j] = s[k] => j = k
    BY LenProperties DEF Lists, IsInjective
  <2>3. Len(s) \in Nat
    BY LenProperties
  <2>4. CASE a = i
    BY <1>1, <1>2, <2>3, <2>4
  <2>5. CASE b = i
    BY <1>1, <1>2, <2>3, <2>5
  <2>6. CASE a # i /\ b # i
    <3> DEFINE old(j) == IF j < i THEN j ELSE j - 1
    <3>1. old(a) \in 1..Len(s) /\ old(b) \in 1..Len(s)
      BY <2>3, <2>6
    <3>2. t[a] = s[old(a)] /\ t[b] = s[old(b)]
      BY <1>1, <2>6
    <3>3. old(a) = old(b)
      BY <2>2, <3>1, <3>2
    <3> QED BY <2>3, <2>6, <3>3
  <2> QED BY <2>4, <2>5, <2>6
<1>4. Range(t) = S \cup {e}
  <2>1. Range(t) \subseteq S \cup {e}
    BY <1>1, <1>2 DEF Range
  <2>2. e \in Range(t)
    BY <1>1 DEF Range
  <2>3. ASSUME NEW x \in S PROVE x \in Range(t)
    <3>1. PICK j \in 1..Len(s) : s[j] = x
      BY DEF Lists, Range
    <3>2. t[j] = x \/ t[j + 1] = x
      BY <1>1, <3>1
    <3> QED BY <1>1, <3>2 DEF Range
  <2> QED BY <2>1, <2>2, <2>3
<1> QED BY <1>1, <1>3, <1>4 DEF Lists, t

\* An id taken out of a list: a list of the others.
LEMMA WithoutLists ==
    ASSUME NEW T, NEW s \in Seq(T), NEW S, Lists(s, S), NEW e \in S
    PROVE  /\ Without(s, e) \in Seq(T)
           /\ Lists(Without(s, e), S \ {e})
<1>1. PICK i \in 1..Len(s) : s[i] = e
  BY DEF Lists, Range
<1>2. (CHOOSE j \in DOMAIN s : s[j] = e) = i
  BY <1>1 DEF Lists, IsInjective
<1> DEFINE t == RemoveAt(s, i)
<1>3. Without(s, e) = t
  <2>1. DOMAIN s = 1..Len(s)
    BY LenProperties
  <2>2. \E j \in DOMAIN s : s[j] = e
    BY <1>1, <2>1
  <2> QED BY <1>2, <2>2 DEF Without
<1>4. /\ t \in Seq(T)
      /\ Len(t) = Len(s) - 1
      /\ \A j \in 1..(Len(s) - 1) : t[j] = IF j < i THEN s[j] ELSE s[j + 1]
  BY <1>1, RemoveAtElements
<1> HIDE DEF t
<1>5. IsInjective(t)
  <2>1. DOMAIN t = 1..(Len(s) - 1)
    BY <1>4, LenProperties
  <2> SUFFICES ASSUME NEW a \in 1..(Len(s) - 1), NEW b \in 1..(Len(s) - 1), t[a] = t[b]
               PROVE  a = b
    BY <2>1 DEF IsInjective
  <2> DEFINE old(j) == IF j < i THEN j ELSE j + 1
  <2>2. Len(s) \in Nat
    BY LenProperties
  <2>3. old(a) \in 1..Len(s) /\ old(b) \in 1..Len(s)
    BY <2>2
  <2>4. t[a] = s[old(a)] /\ t[b] = s[old(b)]
    BY <1>4
  <2>5. old(a) = old(b)
    <3>1. \A j, k \in 1..Len(s) : s[j] = s[k] => j = k
      BY LenProperties DEF Lists, IsInjective
    <3> HIDE DEF old
    <3> QED BY <2>3, <2>4, <3>1
  <2> QED BY <2>2, <2>5
<1>6. Range(t) = S \ {e}
  <2>1. \A j \in 1..Len(s) : j # i => s[j] # e
    BY <1>1 DEF Lists, IsInjective
  <2>2. Range(t) \subseteq S \ {e}
    <3>1. Len(s) \in Nat /\ \A j \in 1..Len(s) : s[j] \in S
      BY LenProperties DEF Lists, Range
    <3>2. ASSUME NEW j \in 1..(Len(s) - 1) PROVE t[j] \in S \ {e}
      <4>1. CASE j < i
        <5>1. j \in 1..Len(s) /\ j # i /\ t[j] = s[j]
          BY <1>4, <3>1, <4>1
        <5> QED BY <2>1, <3>1, <5>1
      <4>2. CASE ~(j < i)
        <5>1. j + 1 \in 1..Len(s) /\ j + 1 # i /\ t[j] = s[j + 1]
          BY <1>1, <1>4, <3>1, <4>2
        <5> QED BY <2>1, <3>1, <5>1
      <4> QED BY <4>1, <4>2
    <3>3. DOMAIN t = 1..(Len(s) - 1)
      BY <1>4, LenProperties
    <3> QED BY <3>2, <3>3 DEF Range
  <2>3. ASSUME NEW x \in S \ {e} PROVE x \in Range(t)
    <3>1. PICK j \in 1..Len(s) : s[j] = x
      BY DEF Lists, Range
    <3>2. IF j < i THEN t[j] = x /\ j \in 1..Len(t) ELSE t[j - 1] = x /\ j - 1 \in 1..Len(t)
      BY <1>1, <1>4, <3>1
    <3> QED BY <1>4, <3>2 DEF Range
  <2> QED BY <2>2, <2>3
<1> QED BY <1>3, <1>4, <1>5, <1>6 DEF Lists, t

(***************************************************************************)
(* The rows on display                                                     *)
(***************************************************************************)
LEMMA SourceRowsList ==
    ASSUME NEW ev \in [count : 0..MaxItems, lineage : Lineages, version : 0..MaxVersion]
    PROVE  /\ SourceRows(ev) \in Seq(SourceIds)
           /\ Len(SourceRows(ev)) = ev.count
           /\ \A i \in 1..ev.count : SourceRows(ev)[i] = <<ev.lineage, i>>
           /\ Lists(SourceRows(ev), Range(SourceRows(ev)))
           /\ Range(SourceRows(ev)) \subseteq SourceIds
<1>0. /\ ev.count \in Nat /\ ev.count <= MaxItems /\ ev.lineage \in Lineages
  BY MaxItemsType
<1>1. \A i \in 1..ev.count : <<ev.lineage, i>> \in SourceIds
  BY <1>0, MaxItemsType DEF SourceIds
<1>2. SourceRows(ev) \in [1..ev.count -> SourceIds]
  BY <1>1 DEF SourceRows
<1>3. SourceRows(ev) \in Seq(SourceIds) /\ Len(SourceRows(ev)) = ev.count
  BY <1>0, <1>2, SeqDef
<1>4. IsInjective(SourceRows(ev))
  BY DEF SourceRows, IsInjective
<1> QED BY <1>2, <1>3, <1>4 DEF SourceRows, Lists, Range

\* The empty list lists nothing.
LEMMA NothingListed ==
    ASSUME NEW s, NEW S, Lists(s, S), NEW e \in S
    PROVE  s # <<>>
<1>1. Range(<<>>) = {}
  BY DEF Range
<1> QED BY <1>1 DEF Lists

LEMMA NoneIsApart == None \notin ManualRecord /\ None \notin Edits
  BY NoneFresh

\* A list of S is a candidate for the sorted one.
LEMMA ListCounts ==
    ASSUME NEW T, NEW s \in Seq(T), NEW S, Lists(s, S)
    PROVE  Cardinality(S) = Len(s) /\ s \in [1..Cardinality(S) -> S]
<1>1. Len(s) \in Nat /\ DOMAIN s = 1..Len(s) /\ s = [i \in 1..Len(s) |-> s[i]]
  BY LenProperties
<1>2. s \in [1..Len(s) -> S]
  BY <1>1 DEF Lists, Range
<1>3. s \in Bijection(1..Len(s), S)
  BY <1>1, <1>2 DEF Lists, Range, Bijection, Injection, Surjection
<1>4. Cardinality(S) = Len(s)
  BY <1>1, <1>3, FS_CountingElements DEF ExistsBijection
<1> QED BY <1>2, <1>4

\* The order there is: the stored one, or the extraction's.
ShownIds(ev, ov) == IF ov.ordered_item_ids = <<>> THEN SourceRows(ev) ELSE ov.ordered_item_ids

\* It lists the active rows, and is in the order of the sort key.
LEMMA ShownSorted ==
    ASSUME OverlayInv
    PROVE  /\ ActiveIds(evidence, overlay) \subseteq ItemIds
           /\ Cardinality(ActiveIds(evidence, overlay)) \in Nat
           /\ ShownIds(evidence, overlay) \in Seq(ItemIds)
           /\ ShownIds(evidence, overlay) \in
                 [1..Cardinality(ActiveIds(evidence, overlay)) -> ActiveIds(evidence, overlay)]
           /\ Lists(ShownIds(evidence, overlay), ActiveIds(evidence, overlay))
           /\ \A i, j \in DOMAIN ShownIds(evidence, overlay) : i < j =>
                 Before(overlay, ShownIds(evidence, overlay)[i], ShownIds(evidence, overlay)[j])
<1> DEFINE S == ActiveIds(evidence, overlay)
           source == SourceRows(evidence)
           ordered == overlay.ordered_item_ids
<1>0. TypeOK
  BY DEF OverlayInv
<1>1. /\ source \in Seq(SourceIds)
      /\ Len(source) = evidence.count
      /\ \A i \in 1..evidence.count : source[i] = <<evidence.lineage, i>>
      /\ Lists(source, Range(source))
      /\ Range(source) \subseteq SourceIds
  BY <1>0, SourceRowsList DEF TypeOK
<1>2. S \subseteq ItemIds
  BY <1>1 DEF ActiveIds, ActiveManual, ItemIds
<1>3. CASE ordered = <<>>
  <2>1. S = Range(source) /\ Lists(source, S)
    BY <1>1, <1>3 DEF OverlayInv, OrderOrNothing, ActiveIds
  <2>2. source \in Seq(ItemIds)
    BY <1>1, SeqMonotonic DEF ItemIds
  <2>3. source \in [1..Cardinality(S) -> S] /\ Cardinality(S) = Len(source) /\ Len(source) \in Nat
    BY <2>1, <2>2, ListCounts, LenProperties
  <2>4. ASSUME NEW i \in DOMAIN source, NEW j \in DOMAIN source, i < j
        PROVE  Before(overlay, source[i], source[j])
    <3>1. i \in 1..evidence.count /\ j \in 1..evidence.count
      BY <1>1, <2>4, LenProperties
    <3>2. source[i] \notin ManualIds /\ source[j] \notin ManualIds
      BY <1>1, <3>1, ManualIdsApart, ElementOfSeq
    <3>3. Sequence(source[i]) = i /\ Sequence(source[j]) = j
      BY <1>1, <3>1, <3>2 DEF Sequence
    <3>4. \A id : Place(overlay, id) = Len(ordered) + 1
      BY <1>3 DEF Place
    <3> QED BY <2>4, <3>3, <3>4 DEF Before
  <2>5. ShownIds(evidence, overlay) = source
    BY <1>3 DEF ShownIds
  <2> HIDE DEF source, S
  <2> QED BY <1>2, <2>1, <2>2, <2>3, <2>4, <2>5 DEF S
<1>4. CASE ordered # <<>>
  <2>1. ordered \in Seq(ItemIds) /\ Lists(ordered, S)
    BY <1>0, <1>4 DEF TypeOK, Overlay, OverlayInv, OrderFitsRows
  <2>2. ordered \in [1..Cardinality(S) -> S] /\ Cardinality(S) = Len(ordered) /\ Len(ordered) \in Nat
    BY <2>1, ListCounts, LenProperties
  <2>3. ASSUME NEW i \in DOMAIN ordered PROVE Place(overlay, ordered[i]) = i
    BY <2>1 DEF Place, Lists, IsInjective
  <2>4. ASSUME NEW i \in DOMAIN ordered, NEW j \in DOMAIN ordered, i < j
        PROVE  Before(overlay, ordered[i], ordered[j])
    BY <2>3, <2>4 DEF Before
  <2>5. ShownIds(evidence, overlay) = ordered
    BY <1>4 DEF ShownIds
  <2> HIDE DEF ordered, S
  <2> QED BY <1>2, <2>1, <2>2, <2>4, <2>5 DEF S
<1> QED BY <1>3, <1>4

\* The displayed ids list the active rows: what add_item and delete_item call
\* "before".  When anything was mutated they are in the sort key's order.
LEMMA CurrentLists ==
    ASSUME OverlayInv
    PROVE  /\ CurrentIds(evidence, overlay) \in Seq(ItemIds)
           /\ Lists(CurrentIds(evidence, overlay), ActiveIds(evidence, overlay))
           /\ CurrentIds(evidence, overlay) \in
                 [1..Cardinality(ActiveIds(evidence, overlay)) -> ActiveIds(evidence, overlay)]
           /\ HasMutations(overlay) =>
                 \A i, j \in DOMAIN CurrentIds(evidence, overlay) : i < j =>
                    Before(overlay, CurrentIds(evidence, overlay)[i],
                                    CurrentIds(evidence, overlay)[j])
<1> DEFINE S == ActiveIds(evidence, overlay)
           source == SourceRows(evidence)
           ids == CurrentIds(evidence, overlay)
           Good(s) == Lists(s, S) /\ \A i, j \in DOMAIN s : i < j => Before(overlay, s[i], s[j])
<1>1. CASE ~HasMutations(overlay)
  <2>1. overlay.tombstones = {} /\ ActiveManual(overlay) = {}
    BY <1>1 DEF HasMutations, ActiveManual
  <2>2. S = Range(source)
    BY <2>1 DEF ActiveIds
  <2>3. source \in Seq(SourceIds) /\ Lists(source, Range(source))
    BY SourceRowsList DEF OverlayInv, TypeOK
  <2>4. source \in Seq(ItemIds) /\ ids = source
    BY <1>1, <2>3, SeqMonotonic DEF ItemIds, CurrentIds
  <2> HIDE DEF source, S, ids
  <2>5. source \in [1..Cardinality(S) -> S]
    BY <2>2, <2>3, ListCounts
  <2> QED BY <1>1, <2>2, <2>3, <2>4, <2>5 DEF S, ids
<1>2. CASE HasMutations(overlay)
  <2>1. S \subseteq ItemIds /\ Cardinality(S) \in Nat
    BY ShownSorted
  <2>2. \E s \in [1..Cardinality(S) -> S] : Good(s)
    BY ShownSorted
  <2>3. ids = CHOOSE s \in [1..Cardinality(S) -> S] : Good(s)
    BY <1>2 DEF CurrentIds, Sorted
  <2>4. ids \in [1..Cardinality(S) -> S] /\ Good(ids)
    BY <2>2, <2>3
  <2>5. ids \in Seq(S)
    BY <2>1, <2>4, SeqDef
  <2>6. ids \in Seq(ItemIds)
    BY <2>1, <2>5, SeqMonotonic
  <2> QED BY <2>4, <2>6
<1> QED BY <1>1, <1>2

LEMMA CurrentIsCurrent ==
    ASSUME IndInv
    PROVE  /\ Current = CurrentIds(evidence, overlay)
           /\ Current \in Seq(ItemIds)
           /\ Lists(Current, ActiveIds(evidence, overlay))
           /\ Range(Current) = ActiveIds(evidence, overlay)
<1> DEFINE ids == CurrentIds(evidence, overlay)
<1>1. ids \in Seq(ItemIds) /\ Lists(ids, ActiveIds(evidence, overlay))
  BY CurrentLists DEF IndInv
<1>2. items = [i \in 1..Len(ids) |-> Row(evidence, overlay, ids[i])]
  BY DEF IndInv, CurrentRows
<1>3. Current = [i \in 1..Len(ids) |-> ids[i]]
  BY <1>2 DEF Current, Row
<1>4. Current = ids
  BY <1>1, <1>3, LenProperties
<1> QED BY <1>1, <1>4 DEF Lists

(***************************************************************************)
(* What each operation leaves                                              *)
(***************************************************************************)
\* The rows are those of before when nothing they are made of has changed.
LEMMA SameActiveIds ==
    ASSUME evidence' = evidence,
           overlay'.manual_items = overlay.manual_items,
           overlay'.tombstones = overlay.tombstones
    PROVE  /\ ActiveIds(evidence, overlay)' = ActiveIds(evidence, overlay)
           /\ ActiveManual(overlay)' = ActiveManual(overlay)
           /\ SourceRows(evidence)' = SourceRows(evidence)
  BY DEF ActiveIds, ActiveManual, SourceRows

\* A notice of a revision that was reached is one of the next, too.
LEMMA OneRevisionMore ==
    ASSUME TypeOK
    PROVE  overlay.revision + 1 \in Nat /\ overlay.reset_notice <= overlay.revision + 1
<1>1. overlay.revision \in Nat /\ overlay.reset_notice \in Nat
  BY DEF TypeOK, Overlay
<1>2. overlay.reset_notice <= overlay.revision
  BY DEF TypeOK
<1> QED BY <1>1, <1>2

LEMMA NoEditsType == NoEdits \in Edits /\ PairSane(NoEdits)
  BY DEF NoEdits, Edits, Fields, Numbers, Pins, NoNumber, Absent, PairSane

LEMMA MergedType ==
    ASSUME NEW old \in Edits, NEW r \in Request, Acceptable(r)
    PROVE  Merged(old, r) \in Edits
<1>1. \A n \in Numbers : r.number[n] \in Int /\ old.number[n] \in Int /\ old.number[n] >= NoNumber
  BY DEF Edits, Request, Fields
<1>2. ASSUME NEW n \in Numbers, r.number[n] # Absent
      PROVE  Stored(r.number[n]) \in Int /\ Stored(r.number[n]) >= NoNumber
  <2>1. CASE r.number[n] = Clear
    BY <2>1 DEF Stored, NoNumber
  <2>2. CASE r.number[n] # Clear
    BY <1>1, <1>2, <2>2 DEF Stored, Acceptable, Sent, NoNumber
  <2> QED BY <2>1, <2>2
<1>3. [n \in Numbers |-> IF r.number[n] # Absent THEN Stored(r.number[n]) ELSE old.number[n]]
        \in [Numbers -> Int]
  BY <1>1, <1>2
<1>4. Merged(old, r) \in Fields
  BY <1>3 DEF Merged, Edits, Request, Fields
<1>5. \A n \in Numbers : Merged(old, r).number[n] >= NoNumber
  BY <1>1, <1>2 DEF Merged
<1> QED BY <1>4, <1>5 DEF Edits

\* Dropping the COO or the pins keeps an entry an entry, and its weights sane.
LEMMA ReducedType ==
    ASSUME NEW e \in Edits, PairSane(e)
    PROVE  /\ [e EXCEPT !.coo = None] \in Edits
           /\ PairSane([e EXCEPT !.coo = None])
           /\ Unpinned(e) \in Edits
           /\ PairSane(Unpinned(e))
<1>1. [e EXCEPT !.coo = None] \in Edits /\ PairSane([e EXCEPT !.coo = None])
  BY DEF Edits, Fields, PairSane
<1>2. Unpinned(e) \in Edits
  <2>1. e \in Fields /\ \A n \in Numbers : e.number[n] >= NoNumber
    BY DEF Edits
  <2> DEFINE number == [n \in Numbers |-> IF n \in Pins THEN NoNumber ELSE e.number[n]]
  <2>2. number \in [Numbers -> Int] /\ \A n \in Numbers : number[n] >= NoNumber
    <3>1. \A n \in Numbers : e.number[n] \in Int
      BY <2>1 DEF Fields
    <3>2. NoNumber \in Int /\ NoNumber >= NoNumber
      BY DEF NoNumber
    <3> QED BY <2>1, <3>1, <3>2
  <2>3. Unpinned(e) = [e EXCEPT !.number = number]
    BY DEF Unpinned
  <2> HIDE DEF number
  <2>4. [e EXCEPT !.number = number] \in Fields /\ [e EXCEPT !.number = number].number = number
    BY <2>1, <2>2 DEF Fields
  <2> QED BY <2>2, <2>3, <2>4 DEF Edits
<1>3. PairSane(Unpinned(e))
  BY DEF Edits, Fields, Unpinned, Numbers, Pins, PairSane
<1> QED BY <1>1, <1>2, <1>3

LEMMA RangeInItemIds ==
    ASSUME IndInv
    PROVE  Range(Current) \subseteq ItemIds
<1>1. Current \in Seq(ItemIds)
  BY CurrentIsCurrent
<1> QED BY <1>1, LenProperties, ElementOfSeq DEF Range

\* The order an insertion or a deletion starts from lists the active rows too.
LEMMA OrderingLists ==
    ASSUME IndInv
    PROVE  /\ Ordering \in Seq(ItemIds)
           /\ Lists(Ordering, ActiveIds(evidence, overlay))
           /\ Len(Ordering) = Len(Current)
<1>1. /\ Current \in Seq(ItemIds)
      /\ Lists(Current, ActiveIds(evidence, overlay))
  BY CurrentIsCurrent
<1>2. overlay.ordered_item_ids \in Seq(ItemIds) /\ OrderFitsRows
  BY DEF IndInv, OverlayInv, TypeOK, Overlay
<1>3. Ordering \in Seq(ItemIds) /\ Lists(Ordering, ActiveIds(evidence, overlay))
  BY <1>1, <1>2 DEF Ordering, OrderFitsRows
<1>4. Len(Ordering) = Len(Current)
  BY <1>1, <1>3, ListCounts
<1> QED BY <1>3, <1>4

\* add_item's list is the active rows and the new one, wherever it is put.
LEMMA InsertedOrder ==
    ASSUME IndInv, NEW id \in ManualIds, overlay.manual_items[id] = None,
           NEW sn \in 1..(Len(Current) + 1)
    PROVE  /\ InsertAt(Ordering, sn, id) \in Seq(ItemIds)
           /\ Lists(InsertAt(Ordering, sn, id), ActiveIds(evidence, overlay) \cup {id})
           /\ InsertAt(Ordering, sn, id) # <<>>
<1>1. Range(SourceRows(evidence)) \subseteq SourceIds
  BY SourceRowsList DEF IndInv, OverlayInv, TypeOK
<1>2. id \in ItemIds /\ id \notin ActiveIds(evidence, overlay)
  BY <1>1, ManualIdsApart DEF ItemIds, ActiveIds, ActiveManual
<1>3. /\ Ordering \in Seq(ItemIds)
      /\ Lists(Ordering, ActiveIds(evidence, overlay))
      /\ sn \in 1..(Len(Ordering) + 1)
  BY OrderingLists
<1>4. /\ InsertAt(Ordering, sn, id) \in Seq(ItemIds)
      /\ Lists(InsertAt(Ordering, sn, id), ActiveIds(evidence, overlay) \cup {id})
  BY <1>2, <1>3, InsertLists
<1>5. InsertAt(Ordering, sn, id) # <<>>
  <2> DEFINE order == InsertAt(Ordering, sn, id)
  <2>1. Lists(order, ActiveIds(evidence, overlay) \cup {id})
    BY <1>4
  <2> HIDE DEF order
  <2>2. order # <<>>
    BY <2>1, NothingListed
  <2> QED BY <2>2 DEF order
<1> QED BY <1>4, <1>5

\* delete_item's list is the other active rows, of which there are some.
LEMMA DeletedOrder ==
    ASSUME IndInv, NEW id \in Range(Current)
    PROVE  /\ Without(Ordering, id) \in Seq(ItemIds)
           /\ Lists(Without(Ordering, id), ActiveIds(evidence, overlay) \ {id})
           /\ Len(Current) > 1 => Without(Ordering, id) # <<>>
<1> DEFINE order == Without(Ordering, id)
<1>1. /\ Current \in Seq(ItemIds)
      /\ Lists(Current, ActiveIds(evidence, overlay))
      /\ id \in ActiveIds(evidence, overlay)
  BY CurrentIsCurrent
<1>2. /\ order \in Seq(ItemIds)
      /\ Lists(order, ActiveIds(evidence, overlay) \ {id})
  BY <1>1, OrderingLists, WithoutLists
<1> HIDE DEF order
<1>3. ASSUME Len(Current) > 1 PROVE order # <<>>
  <2>1. Len(Current) \in Nat /\ DOMAIN Current = 1..Len(Current)
    BY <1>1, LenProperties
  <2>2. 1 \in DOMAIN Current /\ 2 \in DOMAIN Current
    BY <1>3, <2>1
  <2>3. PICK other \in DOMAIN Current : Current[other] # id
    <3>1. Current[1] # Current[2]
      BY <1>1, <2>2 DEF Lists, IsInjective
    <3> QED BY <2>2, <3>1
  <2>4. Current[other] \in ActiveIds(evidence, overlay) \ {id}
    BY <1>1, <2>3 DEF Lists, Range
  <2> QED BY <1>2, <2>4, NothingListed
<1> QED BY <1>2, <1>3 DEF order

LEMMA AddItemInv ==
    ASSUME IndInv, NEW id \in ManualIds, NEW coo \in {""} \cup Countries,
           NEW sn \in 1..(Len(Current) + 1), AddItem(sn, id, coo)
    PROVE  OverlayInv'
<1> DEFINE record == [active |-> TRUE, coo |-> coo]
           manual == [overlay.manual_items EXCEPT ![id] = record]
           order  == InsertAt(Ordering, sn, id)
<1>0. OverlayInv /\ TypeOK /\ EntriesOfActiveRows /\ NetBelowGross
  BY DEF IndInv, OverlayInv
<1>1. overlay \in Overlay /\ overlay.reset_notice <= overlay.revision
  BY <1>0 DEF TypeOK
<1>2. /\ Current \in Seq(ItemIds)
      /\ Lists(Current, ActiveIds(evidence, overlay))
      /\ Range(Current) = ActiveIds(evidence, overlay)
  BY CurrentIsCurrent
<1>3. /\ Ordering \in Seq(ItemIds)
      /\ Lists(Ordering, ActiveIds(evidence, overlay))
      /\ Len(Ordering) = Len(Current)
  BY OrderingLists
<1>4. /\ id \in ItemIds
      /\ overlay.manual_items[id] = None
      /\ evidence' = evidence
      /\ overlay' = Added(sn, id, coo)
      /\ ValidOrder(overlay', Range(Current) \cup {id})
  BY DEF AddItem, ItemIds
<1>5. order \in Seq(ItemIds) /\ order # <<>>
  BY <1>4, InsertedOrder
<1>6. record \in ManualRecord /\ record # None
  <2>1. record \in ManualRecord
    BY DEF ManualRecord
  <2> HIDE DEF record
  <2> QED BY <2>1, NoneIsApart
<1>7. manual \in [ManualIds -> {None} \cup ManualRecord]
  BY <1>1, <1>6 DEF Overlay
<1>8. /\ overlay' = [overlay EXCEPT !.manual_items = manual,
                                    !.ordered_item_ids = order,
                                    !.revision = overlay.revision + 1]
      /\ overlay'.revision = overlay.revision + 1
      /\ overlay'.ordered_item_ids = order
      /\ overlay'.manual_items = manual
      /\ overlay'.tombstones = overlay.tombstones
      /\ overlay'.hs_selections = overlay.hs_selections
      /\ overlay'.field_edits = overlay.field_edits
      /\ overlay'.bms_edits = overlay.bms_edits
      /\ overlay'.reset_notice = overlay.reset_notice
  BY <1>1, <1>4 DEF Added, Bumped, Overlay
<1>9. TypeOK'
  <2>0. overlay.revision + 1 \in Nat /\ overlay.reset_notice <= overlay.revision + 1
    BY <1>0, OneRevisionMore
  <2> DEFINE next == overlay.revision + 1
  <2>1. overlay' = [overlay EXCEPT !.manual_items = manual,
                                   !.ordered_item_ids = order,
                                   !.revision = next]
    BY <1>8
  <2> HIDE DEF order, manual, next
  <2>2. overlay' \in Overlay
    <3>1. next \in Nat
      BY <2>0 DEF next
    <3> QED BY <1>1, <1>5, <1>7, <2>1, <3>1 DEF Overlay
  <2>3. overlay'.reset_notice <= overlay'.revision
    BY <1>8, <2>0
  <2> QED BY <1>0, <1>4, <2>2, <2>3 DEF TypeOK
<1>10. ActiveIds(evidence, overlay)' = ActiveIds(evidence, overlay) \cup {id}
  <2>1. overlay.manual_items \in [ManualIds -> {None} \cup ManualRecord]
    BY <1>1 DEF Overlay
  <2>2. manual[id] = record /\ \A x \in ManualIds \ {id} : manual[x] = overlay.manual_items[x]
    BY <2>1
  <2>3. record.active
    OBVIOUS
  <2> HIDE DEF record, manual
  <2>4. ActiveManual(overlay)' = ActiveManual(overlay) \cup {id}
    <3>1. overlay'.manual_items = manual
      BY <1>8
    <3> QED BY <1>6, <2>2, <2>3, <3>1 DEF ActiveManual
  <2>5. SourceRows(evidence)' = SourceRows(evidence)
    BY <1>4 DEF SourceRows
  <2> QED BY <1>8, <2>4, <2>5 DEF ActiveIds
<1> HIDE DEF order, manual, record
<1>11. OrderFitsRows'
  BY <1>2, <1>4, <1>10 DEF OrderFitsRows, ValidOrder
<1>12. OrderOrNothing'
  BY <1>5, <1>8 DEF OrderOrNothing
<1>13. EntriesOfActiveRows'
  <2>1. SourceRows(evidence)' = SourceRows(evidence)
    BY <1>4 DEF SourceRows
  <2> QED BY <1>0, <1>8, <1>10, <2>1 DEF EntriesOfActiveRows
<1>14. NetBelowGross'
  BY <1>0, <1>8 DEF NetBelowGross
<1> QED BY <1>9, <1>11, <1>12, <1>13, <1>14 DEF OverlayInv

LEMMA DeleteItemInv ==
    ASSUME IndInv, NEW sn \in DOMAIN Current, DeleteItem(Current[sn], sn)
    PROVE  OverlayInv'
<1> DEFINE id     == Current[sn]
           manual == IF id \in ManualIds THEN [overlay.manual_items EXCEPT ![id].active = FALSE]
                     ELSE overlay.manual_items
           tombs  == IF id \in ManualIds THEN overlay.tombstones ELSE overlay.tombstones \cup {id}
           order  == Without(Ordering, id)
           hs     == [overlay.hs_selections EXCEPT ![id] = None]
           edits  == [overlay.field_edits EXCEPT ![id] = None]
           bms    == overlay.bms_edits \ {id}
<1>0. OverlayInv /\ TypeOK /\ EntriesOfActiveRows /\ NetBelowGross
  BY DEF IndInv, OverlayInv
<1>1. overlay \in Overlay
  BY <1>0 DEF TypeOK
<1>2. Range(Current) = ActiveIds(evidence, overlay) /\ Current \in Seq(ItemIds)
  BY CurrentIsCurrent
<1>3. id \in ItemIds /\ id \in ActiveIds(evidence, overlay) /\ id \in Range(Current)
  BY <1>2, LenProperties, ElementOfSeq DEF Range
<1>4. /\ evidence' = evidence
      /\ overlay' = Deleted(id)
      /\ ValidOrder(overlay', Range(Current) \ {id})
      /\ Len(Current) > 1
  BY DEF DeleteItem
<1>5. order \in Seq(ItemIds) /\ order # <<>>
  BY <1>3, <1>4, DeletedOrder
<1>6. Range(SourceRows(evidence)) \subseteq SourceIds
  BY <1>0, SourceRowsList DEF TypeOK
<1>7. /\ overlay.manual_items \in [ManualIds -> {None} \cup ManualRecord]
      /\ overlay.tombstones \in SUBSET SourceIds
      /\ overlay.hs_selections \in [ItemIds -> {None} \cup Codes]
      /\ overlay.field_edits \in [ItemIds -> {None} \cup Edits]
      /\ overlay.bms_edits \in SUBSET ItemIds
  BY <1>1 DEF Overlay
<1>8. /\ overlay' = [overlay EXCEPT !.manual_items = manual,
                                    !.tombstones = tombs,
                                    !.ordered_item_ids = order,
                                    !.hs_selections = hs,
                                    !.field_edits = edits,
                                    !.bms_edits = bms,
                                    !.revision = overlay.revision + 1]
      /\ overlay'.revision = overlay.revision + 1
      /\ overlay'.ordered_item_ids = order
      /\ overlay'.manual_items = manual
      /\ overlay'.tombstones = tombs
      /\ overlay'.hs_selections = hs
      /\ overlay'.field_edits = edits
      /\ overlay'.bms_edits = bms
      /\ overlay'.reset_notice = overlay.reset_notice
  BY <1>1, <1>4 DEF Deleted, Bumped, Overlay
<1>9. id \in ManualIds => /\ overlay.manual_items[id] \in ManualRecord
                          /\ overlay.manual_items[id].active
  BY <1>3, <1>6, <1>7, ManualIdsApart DEF ActiveIds, ActiveManual
<1>10. id \notin ManualIds => id \in SourceIds /\ id \in Range(SourceRows(evidence))
  BY <1>3, <1>6 DEF ActiveIds, ActiveManual
<1>11. manual \in [ManualIds -> {None} \cup ManualRecord]
  <2>1. ASSUME id \in ManualIds
        PROVE  [overlay.manual_items[id] EXCEPT !.active = FALSE] \in ManualRecord
    BY <1>9, <2>1 DEF ManualRecord
  <2> QED BY <1>7, <2>1
<1>12. /\ tombs \in SUBSET SourceIds
       /\ tombs \subseteq Range(SourceRows(evidence))
  BY <1>0, <1>7, <1>10 DEF EntriesOfActiveRows
<1>13. /\ hs \in [ItemIds -> {None} \cup Codes]
       /\ edits \in [ItemIds -> {None} \cup Edits]
       /\ bms \in SUBSET ItemIds
       /\ hs[id] = None /\ edits[id] = None /\ id \notin bms
       /\ \A x \in ItemIds : x # id => hs[x] = overlay.hs_selections[x]
       /\ \A x \in ItemIds : x # id => edits[x] = overlay.field_edits[x]
       /\ bms \subseteq overlay.bms_edits
  BY <1>3, <1>7
<1>14. SourceRows(evidence)' = SourceRows(evidence)
  BY <1>4 DEF SourceRows
<1>15. ActiveIds(evidence, overlay)' = ActiveIds(evidence, overlay) \ {id}
  <2>1. CASE id \in ManualIds
    <3>1. manual[id] = [overlay.manual_items[id] EXCEPT !.active = FALSE]
      BY <1>7, <2>1
    <3>2. ~manual[id].active
      BY <1>9, <2>1, <3>1 DEF ManualRecord
    <3>3. \A x \in ManualIds \ {id} : manual[x] = overlay.manual_items[x]
      BY <1>7, <2>1
    <3>4. overlay'.manual_items = manual
      BY <1>8
    <3>5. overlay'.tombstones = overlay.tombstones
      BY <1>8, <2>1
    <3> HIDE DEF id, manual
    <3>6. ActiveManual(overlay)' = ActiveManual(overlay) \ {id}
      BY <3>2, <3>3, <3>4 DEF ActiveManual
    <3> QED BY <1>6, <1>14, <2>1, <3>5, <3>6, ManualIdsApart DEF ActiveIds
  <2>2. CASE id \notin ManualIds
    <3>1. /\ overlay'.manual_items = overlay.manual_items
          /\ overlay'.tombstones = overlay.tombstones \cup {id}
      BY <1>8, <2>2
    <3>2. ActiveManual(overlay)' = ActiveManual(overlay)
      BY <3>1 DEF ActiveManual
    <3>3. id \notin ActiveManual(overlay)
      BY <2>2 DEF ActiveManual
    <3> HIDE DEF id
    <3> QED BY <1>14, <3>1, <3>2, <3>3 DEF ActiveIds
  <2> QED BY <2>1, <2>2
<1> HIDE DEF id, manual, tombs, order, hs, edits, bms
<1>16. TypeOK'
  <2> DEFINE next == overlay.revision + 1
  <2>1. next \in Nat /\ overlay.reset_notice <= next
    BY <1>0, OneRevisionMore
  <2>2. overlay' = [overlay EXCEPT !.manual_items = manual,
                                   !.tombstones = tombs,
                                   !.ordered_item_ids = order,
                                   !.hs_selections = hs,
                                   !.field_edits = edits,
                                   !.bms_edits = bms,
                                   !.revision = next]
    BY <1>8
  <2>3. overlay'.reset_notice <= overlay'.revision
    BY <1>8, <2>1
  <2> HIDE DEF next
  <2>4. overlay' \in Overlay
    BY <1>1, <1>5, <1>11, <1>12, <1>13, <2>1, <2>2 DEF Overlay
  <2> QED BY <1>0, <1>4, <2>3, <2>4 DEF TypeOK
<1>17. OrderFitsRows'
  BY <1>2, <1>4, <1>15 DEF OrderFitsRows, ValidOrder
<1>18. OrderOrNothing'
  BY <1>5, <1>8 DEF OrderOrNothing
<1>19. EntriesOfActiveRows'
  <2>1. overlay'.tombstones \subseteq Range(SourceRows(evidence)')
    BY <1>8, <1>12, <1>14
  <2>2. ASSUME NEW x \in ItemIds, x \notin ActiveIds(evidence, overlay) \/ x = id
        PROVE  hs[x] = None /\ edits[x] = None /\ x \notin bms
    <3>1. CASE x = id
      BY <1>13, <3>1
    <3>2. CASE x # id
      <4>1. /\ overlay.hs_selections[x] = None
            /\ overlay.field_edits[x] = None
            /\ x \notin overlay.bms_edits
        BY <1>0, <2>2, <3>2 DEF EntriesOfActiveRows
      <4> QED BY <1>13, <3>2, <4>1
    <3> QED BY <3>1, <3>2
  <2>3. /\ overlay'.hs_selections = hs
        /\ overlay'.field_edits = edits
        /\ overlay'.bms_edits = bms
    BY <1>8
  <2>4. ASSUME NEW x \in ItemIds, x \notin ActiveIds(evidence, overlay)'
        PROVE  /\ overlay'.hs_selections[x] = None
               /\ overlay'.field_edits[x] = None
               /\ x \notin overlay'.bms_edits
    BY <1>15, <2>2, <2>3, <2>4
  <2> QED BY <2>1, <2>4 DEF EntriesOfActiveRows
<1>20. NetBelowGross'
  <2>1. ASSUME NEW x \in ItemIds, edits[x] # None PROVE PairSane(edits[x])
    <3>1. x # id /\ edits[x] = overlay.field_edits[x]
      BY <1>13, <2>1
    <3>2. PairSane(overlay.field_edits[x])
      BY <1>0, <2>1, <3>1 DEF NetBelowGross
    <3> QED BY <3>1, <3>2
  <2>2. overlay'.field_edits = edits
    BY <1>8
  <2> QED BY <2>1, <2>2 DEF NetBelowGross
<1> QED BY <1>16, <1>17, <1>18, <1>19, <1>20 DEF OverlayInv

\* A mutation of entries only: the rows stay, an entry is new only for a row on
\* display, and its weights are sane.
LEMMA EntriesInv ==
    ASSUME OverlayInv, evidence' = evidence, overlay' \in Overlay,
           overlay'.reset_notice <= overlay'.revision,
           overlay'.manual_items = overlay.manual_items,
           overlay'.tombstones = overlay.tombstones,
           overlay'.ordered_item_ids = overlay.ordered_item_ids,
           \A id \in ItemIds :
              /\ overlay'.hs_selections[id] # None
                    => overlay.hs_selections[id] # None \/ id \in ActiveIds(evidence, overlay)
              /\ overlay'.field_edits[id] # None
                    => /\ overlay.field_edits[id] # None \/ id \in ActiveIds(evidence, overlay)
                       /\ PairSane(overlay'.field_edits[id])
              /\ id \in overlay'.bms_edits
                    => id \in overlay.bms_edits \/ id \in ActiveIds(evidence, overlay)
    PROVE  OverlayInv'
<1>1. /\ ActiveIds(evidence, overlay)' = ActiveIds(evidence, overlay)
      /\ ActiveManual(overlay)' = ActiveManual(overlay)
      /\ SourceRows(evidence)' = SourceRows(evidence)
  BY SameActiveIds
<1>2. TypeOK'
  BY DEF OverlayInv, TypeOK
<1>3. OrderFitsRows'
  BY <1>1 DEF OverlayInv, OrderFitsRows
<1>4. OrderOrNothing'
  BY <1>1 DEF OverlayInv, OrderOrNothing
<1>5. EntriesOfActiveRows'
  <2>1. EntriesOfActiveRows
    BY DEF OverlayInv
  <2>2. ASSUME NEW id \in ItemIds, id \notin ActiveIds(evidence, overlay)
        PROVE  /\ overlay'.hs_selections[id] = None
               /\ overlay'.field_edits[id] = None
               /\ id \notin overlay'.bms_edits
    BY <2>1, <2>2 DEF EntriesOfActiveRows
  <2> QED BY <1>1, <2>1, <2>2 DEF EntriesOfActiveRows
<1>6. NetBelowGross'
  <2>1. ASSUME NEW id \in ItemIds, overlay'.field_edits[id] # None
        PROVE  PairSane(overlay'.field_edits[id])
    BY <2>1
  <2> QED BY <2>1 DEF NetBelowGross
<1> QED BY <1>2, <1>3, <1>4, <1>5, <1>6 DEF OverlayInv

LEMMA EditItemInv ==
    ASSUME IndInv, NEW id \in Range(Current), NEW r \in Requests, EditItem(id, r)
    PROVE  OverlayInv'
<1> DEFINE merged == Merged(EditsOf(overlay, id), r)
           edits  == [overlay.field_edits EXCEPT ![id] = merged]
           next   == overlay.revision + 1
<1>0. OverlayInv /\ TypeOK /\ NetBelowGross /\ overlay \in Overlay
  BY DEF IndInv, OverlayInv, TypeOK
<1>1. id \in ActiveIds(evidence, overlay) /\ id \in ItemIds
  BY CurrentIsCurrent, RangeInItemIds
<1>2. /\ evidence' = evidence
      /\ Acceptable(r) /\ PairSane(merged)
      /\ overlay' = Bumped([overlay EXCEPT !.field_edits[id] = merged])
  BY DEF EditItem
<1>3. overlay.field_edits \in [ItemIds -> {None} \cup Edits]
  BY <1>0 DEF Overlay
<1>4. merged \in Edits
  <2>1. EditsOf(overlay, id) \in Edits
    BY <1>1, <1>3, NoEditsType DEF EditsOf
  <2>2. r \in Request
    BY RequestsType
  <2> QED BY <1>2, <2>1, <2>2, MergedType
<1>5. next \in Nat /\ overlay.reset_notice <= next
  BY <1>0, OneRevisionMore
<1>6. /\ overlay' = [overlay EXCEPT !.field_edits = edits, !.revision = next]
      /\ overlay'.revision = next
      /\ overlay'.reset_notice = overlay.reset_notice
      /\ overlay'.manual_items = overlay.manual_items
      /\ overlay'.tombstones = overlay.tombstones
      /\ overlay'.ordered_item_ids = overlay.ordered_item_ids
      /\ overlay'.hs_selections = overlay.hs_selections
      /\ overlay'.field_edits = edits
      /\ overlay'.bms_edits = overlay.bms_edits
  BY <1>0, <1>2 DEF Bumped, Overlay
<1> HIDE DEF merged
<1>7. /\ edits \in [ItemIds -> {None} \cup Edits]
      /\ edits[id] = merged
      /\ \A x \in ItemIds \ {id} : edits[x] = overlay.field_edits[x]
  BY <1>1, <1>3, <1>4
<1> HIDE DEF edits, next
<1>8. overlay' \in Overlay
  BY <1>0, <1>5, <1>6, <1>7 DEF Overlay
<1>9. ASSUME NEW x \in ItemIds, edits[x] # None
      PROVE  /\ overlay.field_edits[x] # None \/ x \in ActiveIds(evidence, overlay)
             /\ PairSane(edits[x])
  <2>1. CASE x = id
    BY <1>1, <1>2, <1>7, <2>1
  <2>2. CASE x # id
    BY <1>0, <1>7, <1>9, <2>2 DEF NetBelowGross
  <2> QED BY <2>1, <2>2
<1> QED BY <1>0, <1>2, <1>5, <1>6, <1>8, <1>9, EntriesInv

\* The COO of all rows: what is left of an entry is an entry.
LEMMA SetAllCooInv ==
    ASSUME IndInv, NEW c \in Countries, SetAllCoo(c)
    PROVE  OverlayInv'
<1> DEFINE edits == [id \in ItemIds |->
                       IF overlay.field_edits[id] = None THEN None
                       ELSE Left([overlay.field_edits[id] EXCEPT !.coo = None])]
           next  == overlay.revision + 1
<1>0. OverlayInv /\ TypeOK /\ NetBelowGross /\ overlay \in Overlay
  BY DEF IndInv, OverlayInv, TypeOK
<1>1. evidence' = evidence /\ overlay' = StampedCoo(c)
  BY DEF SetAllCoo
<1>2. overlay.field_edits \in [ItemIds -> {None} \cup Edits]
  BY <1>0 DEF Overlay
<1>3. next \in Nat /\ overlay.reset_notice <= next
  BY <1>0, OneRevisionMore
<1>4. /\ overlay' = [overlay EXCEPT !.coo_all = c, !.field_edits = edits, !.revision = next]
      /\ overlay'.revision = next
      /\ overlay'.reset_notice = overlay.reset_notice
      /\ overlay'.manual_items = overlay.manual_items
      /\ overlay'.tombstones = overlay.tombstones
      /\ overlay'.ordered_item_ids = overlay.ordered_item_ids
      /\ overlay'.hs_selections = overlay.hs_selections
      /\ overlay'.field_edits = edits
      /\ overlay'.bms_edits = overlay.bms_edits
  BY <1>0, <1>1 DEF StampedCoo, Bumped, Overlay
<1>5. ASSUME NEW id \in ItemIds
      PROVE  /\ edits[id] \in {None} \cup Edits
             /\ edits[id] # None => overlay.field_edits[id] # None /\ PairSane(edits[id])
  <2>1. CASE overlay.field_edits[id] = None
    BY <2>1
  <2>2. CASE overlay.field_edits[id] # None
    <3> DEFINE e == overlay.field_edits[id]
    <3>1. e \in Edits /\ PairSane(e)
      BY <1>0, <1>2, <2>2 DEF NetBelowGross
    <3>2. [e EXCEPT !.coo = None] \in Edits /\ PairSane([e EXCEPT !.coo = None])
      BY <3>1, ReducedType
    <3>3. edits[id] = Left([e EXCEPT !.coo = None])
      BY <2>2
    <3> HIDE DEF e, edits
    <3> QED BY <2>2, <3>2, <3>3 DEF Left
  <2> QED BY <2>1, <2>2
<1>6. edits \in [ItemIds -> {None} \cup Edits]
  BY <1>5
<1> HIDE DEF edits, next
<1>7. overlay' \in Overlay
  BY <1>0, <1>3, <1>4, <1>6 DEF Overlay
<1> QED BY <1>0, <1>1, <1>3, <1>4, <1>5, <1>7, EntriesInv

LEMMA SetShipmentTotalsInv ==
    ASSUME IndInv, NEW t \in Totals, SetShipmentTotals(t)
    PROVE  OverlayInv'
<1> DEFINE next == overlay.revision + 1
<1>0. OverlayInv /\ TypeOK /\ NetBelowGross /\ overlay \in Overlay
  BY DEF IndInv, OverlayInv, TypeOK
<1>1. /\ evidence' = evidence
      /\ overlay' = Bumped([overlay EXCEPT !.shipment_override = t])
  BY DEF SetShipmentTotals
<1>2. next \in Nat /\ overlay.reset_notice <= next
  BY <1>0, OneRevisionMore
<1>3. /\ overlay' = [overlay EXCEPT !.shipment_override = t, !.revision = next]
      /\ overlay'.revision = next
      /\ overlay'.reset_notice = overlay.reset_notice
      /\ overlay'.manual_items = overlay.manual_items
      /\ overlay'.tombstones = overlay.tombstones
      /\ overlay'.ordered_item_ids = overlay.ordered_item_ids
      /\ overlay'.hs_selections = overlay.hs_selections
      /\ overlay'.field_edits = overlay.field_edits
      /\ overlay'.bms_edits = overlay.bms_edits
  BY <1>0, <1>1 DEF Bumped, Overlay
<1> HIDE DEF next
<1>4. overlay' \in Overlay
  BY <1>0, <1>2, <1>3 DEF Overlay
<1> QED BY <1>0, <1>1, <1>2, <1>3, <1>4, EntriesInv DEF NetBelowGross

\* One code for some rows on display: select_hs and select_hs_range.
LEMMA SelectedInv ==
    ASSUME IndInv, NEW ids \in SUBSET Range(Current), NEW code \in Codes,
           evidence' = evidence, overlay' = Selected(ids, code)
    PROVE  OverlayInv'
<1> DEFINE hs   == [id \in ItemIds |-> IF id \in ids THEN code ELSE overlay.hs_selections[id]]
           next == overlay.revision + 1
<1>0. OverlayInv /\ TypeOK /\ NetBelowGross /\ overlay \in Overlay
  BY DEF IndInv, OverlayInv, TypeOK
<1>1. ids \subseteq ActiveIds(evidence, overlay)
  BY CurrentIsCurrent
<1>2. next \in Nat /\ overlay.reset_notice <= next
  BY <1>0, OneRevisionMore
<1>3. /\ overlay' = [overlay EXCEPT !.hs_selections = hs, !.revision = next]
      /\ overlay'.revision = next
      /\ overlay'.reset_notice = overlay.reset_notice
      /\ overlay'.manual_items = overlay.manual_items
      /\ overlay'.tombstones = overlay.tombstones
      /\ overlay'.ordered_item_ids = overlay.ordered_item_ids
      /\ overlay'.hs_selections = hs
      /\ overlay'.field_edits = overlay.field_edits
      /\ overlay'.bms_edits = overlay.bms_edits
  BY <1>0 DEF Selected, Bumped, Overlay
<1>4. overlay.hs_selections \in [ItemIds -> {None} \cup Codes]
  BY <1>0 DEF Overlay
<1>5. /\ hs \in [ItemIds -> {None} \cup Codes]
      /\ \A id \in ItemIds : hs[id] # None =>
            overlay.hs_selections[id] # None \/ id \in ActiveIds(evidence, overlay)
  BY <1>1, <1>4
<1> HIDE DEF hs, next
<1>6. overlay' \in Overlay
  BY <1>0, <1>2, <1>3, <1>5 DEF Overlay
<1> QED BY <1>0, <1>2, <1>3, <1>5, <1>6, EntriesInv DEF NetBelowGross

LEMMA EditBmsInv ==
    ASSUME IndInv, NEW set, NEW cleared, EditBms(set, cleared)
    PROVE  OverlayInv'
<1> DEFINE bms == (overlay.bms_edits \ cleared) \cup set
<1>0. OverlayInv /\ TypeOK /\ NetBelowGross /\ overlay \in Overlay
  BY DEF IndInv, OverlayInv, TypeOK
<1>1. set \subseteq ActiveIds(evidence, overlay) /\ set \subseteq ItemIds
  BY CurrentIsCurrent, RangeInItemIds DEF EditBms
<1>2. evidence' = evidence /\ overlay' = [overlay EXCEPT !.bms_edits = bms]
  BY DEF EditBms
<1>3. /\ overlay'.revision = overlay.revision
      /\ overlay'.reset_notice = overlay.reset_notice
      /\ overlay'.manual_items = overlay.manual_items
      /\ overlay'.tombstones = overlay.tombstones
      /\ overlay'.ordered_item_ids = overlay.ordered_item_ids
      /\ overlay'.hs_selections = overlay.hs_selections
      /\ overlay'.field_edits = overlay.field_edits
      /\ overlay'.bms_edits = bms
  BY <1>0, <1>2 DEF Overlay
<1>4. overlay.bms_edits \in SUBSET ItemIds /\ overlay.reset_notice <= overlay.revision
  BY <1>0 DEF TypeOK, Overlay
<1>5. /\ bms \in SUBSET ItemIds
      /\ \A id \in bms : id \in overlay.bms_edits \/ id \in ActiveIds(evidence, overlay)
  BY <1>1, <1>4
<1> HIDE DEF bms
<1>6. overlay' \in Overlay
  BY <1>0, <1>2, <1>5 DEF Overlay
<1> QED BY <1>0, <1>2, <1>3, <1>4, <1>5, <1>6, EntriesInv DEF NetBelowGross

\* A reset leaves what is handed to it, announced or as it was.
LEMMA ResetLeaves ==
    ASSUME TypeOK, NEW left \in Overlay, Reset(left),
           left.revision = overlay.revision,
           left.reset_notice = overlay.reset_notice
    PROVE  /\ overlay' \in Overlay
           /\ overlay'.reset_notice <= overlay'.revision
           /\ overlay'.ordered_item_ids = left.ordered_item_ids
           /\ overlay'.manual_items = left.manual_items
           /\ overlay'.tombstones = left.tombstones
           /\ overlay'.hs_selections = left.hs_selections
           /\ overlay'.field_edits = left.field_edits
           /\ overlay'.bms_edits = left.bms_edits
<1>1. CASE left = overlay
  <2>1. overlay' = left
    BY <1>1 DEF Reset
  <2> QED BY <1>1, <2>1 DEF TypeOK
<1>2. CASE left # overlay
  <2> DEFINE next == left.revision + 1
  <2>1. next \in Nat
    BY OneRevisionMore
  <2>2. overlay' = [left EXCEPT !.revision = next, !.reset_notice = next]
    BY <1>2 DEF Reset, Announced, Bumped, Overlay
  <2> HIDE DEF next
  <2>3. /\ overlay' \in Overlay
        /\ overlay'.revision = next
        /\ overlay'.reset_notice = next
        /\ overlay'.ordered_item_ids = left.ordered_item_ids
        /\ overlay'.manual_items = left.manual_items
        /\ overlay'.tombstones = left.tombstones
        /\ overlay'.hs_selections = left.hs_selections
        /\ overlay'.field_edits = left.field_edits
        /\ overlay'.bms_edits = left.bms_edits
    BY <2>1, <2>2 DEF Overlay
  <2> QED BY <2>1, <2>3
<1> QED BY <1>1, <1>2

\* New invoices: no order, no entry, no active manual row.
LEMMA InvoiceEvidenceInv ==
    ASSUME IndInv, NEW count \in 0..MaxItems, NEW lineage \in Lineages,
           InvoiceEvidence(count, lineage)
    PROVE  OverlayInv'
<1> DEFINE left   == ItemsReset(overlay)
           nobody == [id \in ManualIds |-> IF overlay.manual_items[id] = None THEN None
                                          ELSE [overlay.manual_items[id] EXCEPT !.active = FALSE]]
           none   == [id \in ItemIds |-> None]
<1>0. TypeOK /\ overlay \in Overlay
  BY DEF IndInv, OverlayInv, TypeOK
<1>1. overlay.manual_items \in [ManualIds -> {None} \cup ManualRecord]
  BY <1>0 DEF Overlay
<1>2. ASSUME NEW id \in ManualIds
      PROVE  /\ nobody[id] \in {None} \cup ManualRecord
             /\ nobody[id] = None \/ ~nobody[id].active
  <2>1. CASE overlay.manual_items[id] = None
    BY <2>1
  <2>2. CASE overlay.manual_items[id] # None
    <3>1. overlay.manual_items[id] \in ManualRecord
      BY <1>1, <2>2
    <3>2. nobody[id] = [overlay.manual_items[id] EXCEPT !.active = FALSE]
      BY <2>2
    <3> HIDE DEF nobody
    <3> QED BY <3>1, <3>2 DEF ManualRecord
  <2> QED BY <2>1, <2>2
<1>3. nobody \in [ManualIds -> {None} \cup ManualRecord]
  BY <1>2
<1>4. /\ none \in [ItemIds -> {None} \cup Codes]
      /\ none \in [ItemIds -> {None} \cup Edits]
      /\ \A id \in ItemIds : none[id] = None
  OBVIOUS
<1>5. EmptyOverlay.field_edits = none /\ EmptyOverlay.hs_selections = none
  BY DEF EmptyOverlay
<1>6. left = [overlay EXCEPT !.coo_all = None, !.field_edits = none, !.tombstones = {},
                             !.bms_edits = {}, !.ordered_item_ids = <<>>,
                             !.hs_selections = none, !.manual_items = nobody]
  BY <1>0, <1>5 DEF ItemsReset, Overlay
<1>7. Reset(left)
  BY DEF InvoiceEvidence
<1>8. evidence' \in [count : 0..MaxItems, lineage : Lineages, version : 0..MaxVersion]
  <2>1. evidence.version + 1 \in 0..MaxVersion
    <3>1. evidence.version \in 0..MaxVersion /\ evidence.version < MaxVersion
      BY <1>0 DEF TypeOK, InvoiceEvidence
    <3> QED BY <3>1, MaxVersionType
  <2> QED BY <2>1 DEF InvoiceEvidence
<1> HIDE DEF left, nobody, none
<1>9. /\ left \in Overlay
      /\ left.revision = overlay.revision
      /\ left.reset_notice = overlay.reset_notice
      /\ left.ordered_item_ids = <<>>
      /\ left.manual_items = nobody
      /\ left.tombstones = {}
      /\ left.hs_selections = none
      /\ left.field_edits = none
      /\ left.bms_edits = {}
  <2> DEFINE noids == <<>>
             noset == {}
  <2>1. noids \in Seq(ItemIds) /\ noset \in SUBSET SourceIds /\ noset \in SUBSET ItemIds
    OBVIOUS
  <2>2. left = [overlay EXCEPT !.coo_all = None, !.field_edits = none, !.tombstones = noset,
                               !.bms_edits = noset, !.ordered_item_ids = noids,
                               !.hs_selections = none, !.manual_items = nobody]
    BY <1>6
  <2> HIDE DEF noids, noset
  <2>3. left \in Overlay
    BY <1>0, <1>3, <1>4, <2>1, <2>2 DEF Overlay
  <2>4. /\ left.revision = overlay.revision
        /\ left.reset_notice = overlay.reset_notice
        /\ left.ordered_item_ids = noids
        /\ left.manual_items = nobody
        /\ left.tombstones = noset
        /\ left.hs_selections = none
        /\ left.field_edits = none
        /\ left.bms_edits = noset
    BY <1>0, <2>2 DEF Overlay
  <2> QED BY <2>3, <2>4 DEF noids, noset
<1>10. /\ overlay' \in Overlay
       /\ overlay'.reset_notice <= overlay'.revision
       /\ overlay'.ordered_item_ids = <<>>
       /\ overlay'.manual_items = nobody
       /\ overlay'.tombstones = {}
       /\ overlay'.hs_selections = none
       /\ overlay'.field_edits = none
       /\ overlay'.bms_edits = {}
  BY <1>0, <1>7, <1>9, ResetLeaves
<1>11. TypeOK'
  BY <1>8, <1>10 DEF TypeOK
<1>12. OrderFitsRows'
  BY <1>10 DEF OrderFitsRows
<1>13. OrderOrNothing'
  <2>1. ActiveManual(overlay)' = {}
    BY <1>2, <1>10 DEF ActiveManual
  <2> QED BY <1>10, <2>1 DEF OrderOrNothing
<1>14. EntriesOfActiveRows'
  BY <1>4, <1>10 DEF EntriesOfActiveRows
<1>15. NetBelowGross'
  BY <1>4, <1>10 DEF NetBelowGross
<1> QED BY <1>11, <1>12, <1>13, <1>14, <1>15 DEF OverlayInv

\* A new air waybill or packing list: entries lose their pins, or go.
LEMMA ShipmentEvidenceInv ==
    ASSUME IndInv, ShipmentEvidence
    PROVE  OverlayInv'
<1> DEFINE left     == ShipmentReset(overlay)
           stripped == [id \in ItemIds |->
                          IF overlay.field_edits[id] = None THEN None
                          ELSE Left(Unpinned(overlay.field_edits[id]))]
           edits    == left.field_edits
<1>0. OverlayInv /\ TypeOK /\ NetBelowGross /\ overlay \in Overlay
  BY DEF IndInv, OverlayInv, TypeOK
<1>1. overlay.field_edits \in [ItemIds -> {None} \cup Edits]
  BY <1>0 DEF Overlay
<1>2. ASSUME NEW id \in ItemIds
      PROVE  /\ stripped[id] \in {None} \cup Edits
             /\ stripped[id] # None => overlay.field_edits[id] # None /\ PairSane(stripped[id])
  <2>1. CASE overlay.field_edits[id] = None
    BY <2>1
  <2>2. CASE overlay.field_edits[id] # None
    <3> DEFINE e == overlay.field_edits[id]
    <3>1. e \in Edits /\ PairSane(e)
      BY <1>0, <1>1, <2>2 DEF NetBelowGross
    <3>2. Unpinned(e) \in Edits /\ PairSane(Unpinned(e))
      BY <3>1, ReducedType
    <3>3. stripped[id] = Left(Unpinned(e))
      BY <2>2
    <3> HIDE DEF e, stripped
    <3> QED BY <2>2, <3>2, <3>3 DEF Left
  <2> QED BY <2>1, <2>2
<1>3. stripped \in [ItemIds -> {None} \cup Edits]
  BY <1>2
<1>4. PICK kept \in [ItemIds -> {None} \cup Edits] :
         /\ kept = stripped \/ kept = overlay.field_edits
         /\ left = [overlay EXCEPT !.shipment_override = None, !.field_edits = kept]
  BY <1>0, <1>1, <1>3 DEF ShipmentReset, Overlay
<1>5. ASSUME NEW id \in ItemIds, kept[id] # None
      PROVE  overlay.field_edits[id] # None /\ PairSane(kept[id])
  BY <1>0, <1>2, <1>4, <1>5 DEF NetBelowGross
<1>6. evidence' = evidence /\ Reset(left)
  BY DEF ShipmentEvidence
<1> HIDE DEF left, stripped
<1>7. /\ left \in Overlay
      /\ left.revision = overlay.revision
      /\ left.reset_notice = overlay.reset_notice
      /\ left.ordered_item_ids = overlay.ordered_item_ids
      /\ left.manual_items = overlay.manual_items
      /\ left.tombstones = overlay.tombstones
      /\ left.hs_selections = overlay.hs_selections
      /\ left.field_edits = kept
      /\ left.bms_edits = overlay.bms_edits
  BY <1>0, <1>4 DEF Overlay
<1>8. /\ overlay' \in Overlay
      /\ overlay'.reset_notice <= overlay'.revision
      /\ overlay'.ordered_item_ids = overlay.ordered_item_ids
      /\ overlay'.manual_items = overlay.manual_items
      /\ overlay'.tombstones = overlay.tombstones
      /\ overlay'.hs_selections = overlay.hs_selections
      /\ overlay'.field_edits = kept
      /\ overlay'.bms_edits = overlay.bms_edits
  BY <1>0, <1>6, <1>7, ResetLeaves
<1> QED BY <1>0, <1>5, <1>6, <1>8, EntriesInv

(***************************************************************************)
(* The invariant                                                           *)
(***************************************************************************)
\* Nothing is stored and nothing displayed before the first extraction.
LEMMA InitInv == Init => IndInv
<1> SUFFICES ASSUME Init PROVE IndInv
  OBVIOUS
<1> DEFINE none == [id \in ItemIds |-> None]
           nobody == [id \in ManualIds |-> None]
<1>1. evidence \in [count : 0..MaxItems, lineage : Lineages, version : 0..MaxVersion]
  BY LineagesType, MaxItemsType, MaxVersionType DEF Init
<1>2. /\ none \in [ItemIds -> {None} \cup Codes]
      /\ none \in [ItemIds -> {None} \cup Edits]
      /\ nobody \in [ManualIds -> {None} \cup ManualRecord]
      /\ \A id \in ItemIds : none[id] = None
      /\ \A id \in ManualIds : nobody[id] = None
  OBVIOUS
<1>3. overlay = [revision |-> 0, ordered_item_ids |-> <<>>, manual_items |-> nobody,
                 tombstones |-> {}, hs_selections |-> none, field_edits |-> none,
                 bms_edits |-> {}, coo_all |-> None, shipment_override |-> None,
                 reset_notice |-> 0]
  BY DEF Init, EmptyOverlay
<1> HIDE DEF none, nobody
<1>4. /\ overlay \in Overlay
      /\ overlay.revision = 0 /\ overlay.reset_notice = 0
      /\ overlay.ordered_item_ids = <<>>
      /\ overlay.manual_items = nobody
      /\ overlay.tombstones = {}
      /\ overlay.hs_selections = none
      /\ overlay.field_edits = none
      /\ overlay.bms_edits = {}
      /\ overlay.coo_all = None
  BY <1>2, <1>3 DEF Overlay
<1>5. TypeOK
  BY <1>1, <1>4 DEF TypeOK
<1>6. OrderFitsRows /\ OrderOrNothing /\ EntriesOfActiveRows /\ NetBelowGross
  BY <1>2, <1>4 DEF OrderFitsRows, OrderOrNothing, ActiveManual, EntriesOfActiveRows, NetBelowGross
<1>7. items = CurrentRows(evidence, overlay)
  <2>1. ~HasMutations(overlay)
    BY <1>2, <1>4 DEF HasMutations
  <2>2. CurrentIds(evidence, overlay) = SourceRows(evidence)
    BY <2>1 DEF CurrentIds
  <2>3. SourceRows(evidence) = <<>>
    BY DEF SourceRows, Init
  <2>4. CurrentRows(evidence, overlay) = <<>>
    BY <2>2, <2>3 DEF CurrentRows
  <2> QED BY <2>4 DEF Init
<1> QED BY <1>5, <1>6, <1>7 DEF IndInv, OverlayInv

LEMMA NextInv == IndInv /\ [Next]_vars => IndInv'
<1> SUFFICES ASSUME IndInv, [Next]_vars PROVE IndInv'
  OBVIOUS
<1>1. CASE Next
  <2>1. OverlayInv'
    <3>1. CASE ReviewerStep
      <4>1. ASSUME NEW id \in ManualIds, NEW coo \in {""} \cup Countries,
                   NEW sn \in 1..(Len(Current) + 1), AddItem(sn, id, coo)
            PROVE  OverlayInv'
        BY <4>1, AddItemInv
      <4>2. ASSUME NEW sn \in DOMAIN Current, DeleteItem(Current[sn], sn)
            PROVE  OverlayInv'
        BY <4>2, DeleteItemInv
      <4>3. ASSUME NEW id \in Range(Current), NEW r \in Requests, EditItem(id, r)
            PROVE  OverlayInv'
        BY <4>3, EditItemInv
      <4>4. ASSUME NEW c \in Countries, SetAllCoo(c) PROVE OverlayInv'
        BY <4>4, SetAllCooInv
      <4>5. ASSUME NEW t \in Totals, SetShipmentTotals(t) PROVE OverlayInv'
        BY <4>5, SetShipmentTotalsInv
      <4>6. ASSUME NEW id \in Range(Current), NEW code \in Codes, SelectHs(id, code)
            PROVE  OverlayInv'
        BY <4>6, SelectedInv DEF SelectHs
      <4>7. ASSUME NEW sns \in SUBSET DOMAIN Current, NEW code \in Codes,
                   SelectHsRange(sns, code)
            PROVE  OverlayInv'
        <5>1. {Current[sn] : sn \in sns} \subseteq Range(Current)
          BY DEF Range
        <5> QED BY <4>7, <5>1, SelectedInv DEF SelectHsRange
      <4> QED BY <3>1, <4>1, <4>2, <4>3, <4>4, <4>5, <4>6, <4>7 DEF ReviewerStep
    <3>2. CASE BmsStep
      BY <3>2, EditBmsInv DEF BmsStep
    <3>3. CASE EvidenceStep
      BY <3>3, InvoiceEvidenceInv, ShipmentEvidenceInv DEF EvidenceStep
    <3> QED BY <1>1, <3>1, <3>2, <3>3 DEF Next
  <2>2. items' = CurrentRows(evidence', overlay')
    BY <1>1 DEF Next
  <2> QED BY <2>1, <2>2 DEF IndInv
<1>2. CASE UNCHANGED vars
  BY <1>2 DEF vars, IndInv, OverlayInv, TypeOK, OrderFitsRows, OrderOrNothing,
              EntriesOfActiveRows, NetBelowGross
<1> QED BY <1>1, <1>2

\* The overlay's parts fit one another, and the rows on display are the ones
\* computed of them, whatever the reviewer and the extractions do in what
\* order (apply_item_mutations and every operation of item_mutations.py).
THEOREM OverlayFits == Spec => []IndInv
<1> QED BY InitInv, NextInv, PTL DEF Spec

\* Types, and no reset notice names a revision that was not reached.
THEOREM TypesHold == Spec => []TypeOK
<1>1. IndInv => TypeOK
  BY DEF IndInv, OverlayInv
<1> QED BY <1>1, OverlayFits, PTL

\* Deleting a row or replacing the invoices leaves no entry behind for an id
\* that a later extraction may print again.
THEOREM NoOrphanEntries == Spec => []EntriesOfActiveRows
<1>1. IndInv => EntriesOfActiveRows
  BY DEF IndInv, OverlayInv
<1> QED BY <1>1, OverlayFits, PTL

\* Pinned weights stay sane through merges, clearings, rounding and resets.
THEOREM WeightsStaySane == Spec => []NetBelowGross
<1>1. IndInv => NetBelowGross
  BY DEF IndInv, OverlayInv
<1> QED BY <1>1, OverlayFits, PTL

\* validate_overlay_invariants never refuses an addition within the list or a
\* deletion from it: the order it checks is in step with the rows.
LEMMA AcceptedWhenInv == IndInv => MutationsAccepted
<1> SUFFICES ASSUME IndInv PROVE MutationsAccepted
  OBVIOUS
<1>0. overlay \in Overlay
  BY DEF IndInv, OverlayInv, TypeOK
<1>1. ASSUME NEW sn \in 1..(Len(Current) + 1), NEW id \in ManualIds,
             overlay.manual_items[id] = None
      PROVE  ValidOrder(Added(sn, id, ""), Range(Current) \cup {id})
  <2>1. Added(sn, id, "").ordered_item_ids = InsertAt(Ordering, sn, id)
    BY <1>0 DEF Added, Bumped, Overlay
  <2>2. Lists(InsertAt(Ordering, sn, id), Range(Current) \cup {id})
    BY <1>1, InsertedOrder, CurrentIsCurrent
  <2> QED BY <2>1, <2>2 DEF ValidOrder
<1>2. ASSUME NEW id \in Range(Current)
      PROVE  ValidOrder(Deleted(id), Range(Current) \ {id})
  <2>1. Deleted(id).ordered_item_ids = Without(Ordering, id)
    BY <1>0 DEF Deleted, Bumped, Overlay
  <2>2. Lists(Without(Ordering, id), Range(Current) \ {id})
    BY DeletedOrder, CurrentIsCurrent
  <2> QED BY <2>1, <2>2 DEF ValidOrder
<1> QED BY <1>1, <1>2 DEF MutationsAccepted

\* No reviewer is ever locked out of the list by an order that fell out of
\* step with it.
THEOREM MutationsAreAccepted == Spec => []MutationsAccepted
<1> QED BY AcceptedWhenInv, OverlayFits, PTL

(***************************************************************************)
(* Revisions and notices                                                   *)
(***************************************************************************)
\* Every mutation of the reviewer raises the revision and leaves the notice.
LEMMA ReviewerRaises ==
    ASSUME TypeOK, ReviewerStep
    PROVE  /\ evidence' = evidence
           /\ overlay'.revision = overlay.revision + 1
           /\ overlay'.reset_notice = overlay.reset_notice
<1>0. overlay \in Overlay
  BY DEF TypeOK
<1>2. ASSUME NEW id \in ManualIds, NEW coo, NEW sn, AddItem(sn, id, coo)
      PROVE  /\ evidence' = evidence
             /\ overlay'.revision = overlay.revision + 1
             /\ overlay'.reset_notice = overlay.reset_notice
  BY <1>0, <1>2 DEF AddItem, Added, Bumped, Overlay
<1>3. ASSUME NEW id, NEW sn, DeleteItem(id, sn)
      PROVE  /\ evidence' = evidence
             /\ overlay'.revision = overlay.revision + 1
             /\ overlay'.reset_notice = overlay.reset_notice
  BY <1>0, <1>3 DEF DeleteItem, Deleted, Bumped, Overlay
<1>4. ASSUME NEW id, NEW r, EditItem(id, r)
      PROVE  /\ evidence' = evidence
             /\ overlay'.revision = overlay.revision + 1
             /\ overlay'.reset_notice = overlay.reset_notice
  BY <1>0, <1>4 DEF EditItem, Bumped, Overlay
<1>5. ASSUME NEW c, SetAllCoo(c)
      PROVE  /\ evidence' = evidence
             /\ overlay'.revision = overlay.revision + 1
             /\ overlay'.reset_notice = overlay.reset_notice
  BY <1>0, <1>5 DEF SetAllCoo, StampedCoo, Bumped, Overlay
<1>6. ASSUME NEW t, SetShipmentTotals(t)
      PROVE  /\ evidence' = evidence
             /\ overlay'.revision = overlay.revision + 1
             /\ overlay'.reset_notice = overlay.reset_notice
  BY <1>0, <1>6 DEF SetShipmentTotals, Bumped, Overlay
<1>7. ASSUME NEW ids, NEW code, overlay' = Selected(ids, code), evidence' = evidence
      PROVE  /\ evidence' = evidence
             /\ overlay'.revision = overlay.revision + 1
             /\ overlay'.reset_notice = overlay.reset_notice
  BY <1>0, <1>7 DEF Selected, Bumped, Overlay
<1>8. ASSUME NEW id, NEW code, SelectHs(id, code)
      PROVE  overlay' = Selected({id}, code) /\ evidence' = evidence
  BY <1>8 DEF SelectHs
<1>9. ASSUME NEW sns, NEW code, SelectHsRange(sns, code)
      PROVE  overlay' = Selected({Current[sn] : sn \in sns}, code) /\ evidence' = evidence
  BY <1>9 DEF SelectHsRange
<1> QED BY <1>2, <1>3, <1>4, <1>5, <1>6, <1>7, <1>8, <1>9 DEF ReviewerStep

\* Brand, model and size move neither the revision nor the notice.
LEMMA BmsKeeps ==
    ASSUME IndInv, BmsStep
    PROVE  /\ evidence' = evidence
           /\ \E bms \in SUBSET ItemIds : overlay' = [overlay EXCEPT !.bms_edits = bms]
           /\ overlay'.revision = overlay.revision
           /\ overlay'.reset_notice = overlay.reset_notice
<1>0. overlay \in Overlay
  BY DEF IndInv, OverlayInv, TypeOK
<1>1. PICK set, cleared :
         /\ set \in SUBSET Range(Current)
         /\ EditBms(set, cleared)
  BY DEF BmsStep
<1> DEFINE bms == (overlay.bms_edits \ cleared) \cup set
<1>2. evidence' = evidence /\ overlay' = [overlay EXCEPT !.bms_edits = bms]
  BY <1>1 DEF EditBms
<1>3. bms \in SUBSET ItemIds
  BY <1>0, <1>1, RangeInItemIds DEF Overlay
<1> HIDE DEF bms
<1> QED BY <1>0, <1>2, <1>3 DEF Overlay

\* Evidence that takes something away raises the revision to the notice's.
LEMMA EvidenceAnnounces ==
    ASSUME TypeOK, EvidenceStep
    PROVE  \/ overlay' = overlay
           \/ /\ overlay'.revision = overlay.revision + 1
              /\ overlay'.reset_notice = overlay.revision + 1
<1>0. overlay \in Overlay
  BY DEF TypeOK
<1>1. ASSUME NEW left, Reset(left), left.revision = overlay.revision,
             "reset_notice" \in DOMAIN left, "revision" \in DOMAIN left
      PROVE  \/ overlay' = overlay
             \/ /\ overlay'.revision = overlay.revision + 1
                /\ overlay'.reset_notice = overlay.revision + 1
  BY <1>1 DEF Reset, Announced, Bumped
<1>2. /\ ItemsReset(overlay).revision = overlay.revision
      /\ "reset_notice" \in DOMAIN ItemsReset(overlay) /\ "revision" \in DOMAIN ItemsReset(overlay)
  BY <1>0 DEF ItemsReset, Overlay
<1>3. /\ ShipmentReset(overlay).revision = overlay.revision
      /\ "reset_notice" \in DOMAIN ShipmentReset(overlay) /\ "revision" \in DOMAIN ShipmentReset(overlay)
  BY <1>0 DEF ShipmentReset, Overlay
<1> QED BY <1>1, <1>2, <1>3 DEF EvidenceStep, InvoiceEvidence, ShipmentEvidence

\* A notice on display is retired by any mutation that raises the revision,
\* and put up by evidence that takes something away.
LEMMA NoticeStep ==
    ASSUME IndInv, Next
    PROVE  IF overlay'.revision = overlay.revision THEN NoticeShown' = NoticeShown
           ELSE NoticeShown' <=> EvidenceStep
<1>0. /\ TypeOK
      /\ overlay.revision \in Nat /\ overlay.reset_notice \in Nat
      /\ overlay.reset_notice <= overlay.revision
  BY DEF IndInv, OverlayInv, TypeOK, Overlay
<1>1. CASE EvidenceStep
  <2>1. CASE overlay' = overlay
    BY <2>1 DEF NoticeShown
  <2>2. CASE /\ overlay'.revision = overlay.revision + 1
             /\ overlay'.reset_notice = overlay.revision + 1
    BY <1>0, <1>1, <2>2 DEF NoticeShown
  <2> QED BY <1>0, <1>1, <2>1, <2>2, EvidenceAnnounces
<1>2. CASE ReviewerStep /\ ~EvidenceStep
  <2>1. /\ overlay'.revision = overlay.revision + 1
        /\ overlay'.reset_notice = overlay.reset_notice
    BY <1>0, <1>2, ReviewerRaises
  <2> QED BY <1>0, <1>2, <2>1 DEF NoticeShown
<1>3. CASE BmsStep
  BY <1>3, BmsKeeps DEF NoticeShown
<1> QED BY <1>1, <1>2, <1>3 DEF Next

\* The notice of what the evidence took away is neither missed nor raised by
\* a mutation, and stays until the next one (apply_item_mutations,
\* reset_for_evidence_change and the reviewers' operations).
THEOREM LossesAreAnnounced == Spec => LossIsAnnounced
<1> DEFINE Step == IF overlay'.revision = overlay.revision THEN NoticeShown' = NoticeShown
                   ELSE NoticeShown' <=> EvidenceStep
<1>1. IndInv /\ [Next]_vars => [Step]_vars
  BY NoticeStep
<1>2. Spec => [][IndInv /\ [Next]_vars]_vars
  BY OverlayFits, PTL DEF Spec
<1> QED BY <1>1, OverlayFits, PTL DEF Spec, LossIsAnnounced

(***************************************************************************)
(* The order on display                                                    *)
(***************************************************************************)
\* The order of a job was written by an operation that left another trace.
OrderHasCause ==
    overlay.ordered_item_ids # <<>> =>
        \/ overlay.tombstones # {}
        \/ \E id \in ManualIds : overlay.manual_items[id] # None

\* A set of natural numbers has a least one.
LEMMA LeastNumber ==
    ASSUME NEW T \in SUBSET Nat, T # {}
    PROVE  \E n \in T : \A k \in T : n <= k
<1>1. IsWellFoundedOn({ss \in Nat \X Nat : ss[1] < ss[2]}, Nat)
  BY NatLessThanWellFounded DEF OpToRel
<1>2. \E y \in T : \A z \in T : <<z, y>> \notin {ss \in Nat \X Nat : ss[1] < ss[2]}
  BY <1>1, WFMin
<1>3. PICK y \in T : \A z \in T : <<z, y>> \notin {ss \in Nat \X Nat : ss[1] < ss[2]}
  BY <1>2
<1>4. ASSUME NEW z \in T PROVE y <= z
  <2>1. ~(z < y)
    BY <1>3
  <2> QED BY <2>1
<1> QED BY <1>4

\* A set has one list in the order of the sort key at most.
LEMMA SortedOnce ==
    ASSUME OverlayInv,
           NEW S, S \subseteq ItemIds,
           NEW n \in Nat,
           NEW s \in [1..n -> S], Lists(s, S),
           NEW t \in [1..n -> S], Lists(t, S),
           \A i, j \in 1..n : i < j => Before(overlay, s[i], s[j]),
           \A i, j \in 1..n : i < j => Before(overlay, t[i], t[j])
    PROVE  s = t
<1>1. ASSUME NEW a \in ItemIds, NEW b \in ItemIds, Before(overlay, a, b), Before(overlay, b, a)
      PROVE  FALSE
  <2>1. \A id \in ItemIds : Place(overlay, id) \in Int
    <3>1. /\ overlay.ordered_item_ids \in Seq(ItemIds)
          /\ Len(overlay.ordered_item_ids) \in Nat
          /\ DOMAIN overlay.ordered_item_ids = 1..Len(overlay.ordered_item_ids)
      BY LenProperties DEF OverlayInv, TypeOK, Overlay
    <3> QED BY <3>1 DEF Place
  <2>2. \A id \in ItemIds : Sequence(id) \in Int
    BY MaxItemsType DEF Sequence, ItemIds, SourceIds
  <2> QED BY <1>1, <2>1, <2>2 DEF Before
<1> DEFINE T == {i \in 1..n : s[i] # t[i]}
<1>2. ASSUME T # {} PROVE FALSE
  <2>0. T \in SUBSET Nat
    OBVIOUS
  <2>1. PICK k \in T : \A j \in T : k <= j
    BY <1>2, <2>0, LeastNumber
  <2>2. \A j \in 1..n : j < k => s[j] = t[j]
    BY <2>1
  <2>3. PICK l \in 1..n : t[l] = s[k]
    BY <2>1 DEF Lists, Range
  <2>4. PICK m \in 1..n : s[m] = t[k]
    BY <2>1 DEF Lists, Range
  <2>5. k < l
    <3>1. l # k
      BY <2>1, <2>3
    <3>2. ~(l < k)
      BY <2>1, <2>2, <2>3, <3>1 DEF Lists, IsInjective
    <3> QED BY <2>1, <3>1, <3>2
  <2>6. k < m
    <3>1. m # k
      BY <2>1, <2>4
    <3>2. ~(m < k)
      BY <2>1, <2>2, <2>4, <3>1 DEF Lists, IsInjective
    <3> QED BY <2>1, <3>1, <3>2
  <2>7. Before(overlay, s[k], s[m]) /\ Before(overlay, t[k], t[l])
    BY <2>1, <2>5, <2>6
  <2>8. s[k] \in ItemIds /\ s[m] \in ItemIds
    BY <2>1
  <2> QED BY <1>1, <2>3, <2>4, <2>7, <2>8
<1> QED BY <1>2

\* The rows on display are in the order there is.
LEMMA CurrentIsShown ==
    ASSUME OverlayInv, OrderHasCause
    PROVE  CurrentIds(evidence, overlay) = ShownIds(evidence, overlay)
<1> DEFINE S == ActiveIds(evidence, overlay)
           ids == CurrentIds(evidence, overlay)
           shown == ShownIds(evidence, overlay)
<1>1. CASE ~HasMutations(overlay)
  <2>1. overlay.ordered_item_ids = <<>>
    BY <1>1 DEF HasMutations, OrderHasCause
  <2> QED BY <1>1, <2>1 DEF CurrentIds, ShownIds
<1>2. CASE HasMutations(overlay)
  <2>1. /\ ids \in [1..Cardinality(S) -> S] /\ Lists(ids, S)
        /\ \A i, j \in DOMAIN ids : i < j => Before(overlay, ids[i], ids[j])
    BY <1>2, CurrentLists
  <2>2. /\ shown \in [1..Cardinality(S) -> S] /\ Lists(shown, S)
        /\ \A i, j \in DOMAIN shown : i < j => Before(overlay, shown[i], shown[j])
        /\ S \subseteq ItemIds /\ Cardinality(S) \in Nat
    BY ShownSorted
  <2> HIDE DEF S, ids, shown
  <2>3. DOMAIN ids = 1..Cardinality(S) /\ DOMAIN shown = 1..Cardinality(S)
    BY <2>1, <2>2
  <2>4. ids = shown
    BY <2>1, <2>2, <2>3, SortedOnce
  <2> QED BY <2>4 DEF ids, shown
<1> QED BY <1>1, <1>2

\* OrderHasCause joins the invariant.
Settled == IndInv /\ OrderHasCause

\* Insertions and deletions are made in the order on display.
LEMMA OrderingIsCurrent ==
    ASSUME Settled
    PROVE  /\ Current = ShownIds(evidence, overlay)
           /\ Ordering = Current
           /\ Current \in Seq(ItemIds)
           /\ Lists(Current, ActiveIds(evidence, overlay))
           /\ Len(Current) \in Nat
           /\ DOMAIN Current = 1..Len(Current)
           /\ DOMAIN items = 1..Len(Current)
           /\ items = [i \in 1..Len(Current) |-> Row(evidence, overlay, Current[i])]
<1>1. IndInv /\ OverlayInv /\ OrderHasCause
  BY DEF Settled, IndInv
<1>2. /\ Current = CurrentIds(evidence, overlay)
      /\ Current \in Seq(ItemIds)
      /\ Lists(Current, ActiveIds(evidence, overlay))
  BY <1>1, CurrentIsCurrent
<1>3. Current = ShownIds(evidence, overlay)
  BY <1>1, <1>2, CurrentIsShown
<1>4. Ordering = Current
  BY <1>3 DEF Ordering, ShownIds
<1>5. Len(Current) \in Nat /\ DOMAIN Current = 1..Len(Current)
  BY <1>2, LenProperties
<1>6. items = [i \in 1..Len(Current) |-> Row(evidence, overlay, Current[i])]
  BY <1>1, <1>2 DEF IndInv, CurrentRows
<1> QED BY <1>2, <1>3, <1>4, <1>5, <1>6

(***************************************************************************)
(* What each operation leaves                                              *)
(***************************************************************************)
\* What add_item leaves of what was stored.
AddFacts(sn, id) ==
    /\ evidence' = evidence
    /\ overlay.manual_items[id] = None
    /\ overlay'.ordered_item_ids = InsertAt(Current, sn, id)
    /\ overlay'.manual_items[id] # None
    /\ \A x \in ManualIds \ {id} : overlay'.manual_items[x] = overlay.manual_items[x]
    /\ overlay'.tombstones = overlay.tombstones
    /\ overlay'.hs_selections = overlay.hs_selections
    /\ overlay'.field_edits = overlay.field_edits
    /\ overlay'.bms_edits = overlay.bms_edits
    /\ overlay'.coo_all = overlay.coo_all
    /\ overlay'.shipment_override = overlay.shipment_override

LEMMA AddLeaves ==
    ASSUME Settled, NEW id \in ManualIds, NEW coo \in {""} \cup Countries,
           NEW sn \in 1..(Len(Current) + 1), AddItem(sn, id, coo)
    PROVE  AddFacts(sn, id)
<1> DEFINE record == [active |-> TRUE, coo |-> coo]
<1>0. overlay \in Overlay /\ Ordering = Current
  BY OrderingIsCurrent DEF Settled, IndInv, OverlayInv, TypeOK
<1>1. record # None
  <2>1. record \in ManualRecord
    BY DEF ManualRecord
  <2> HIDE DEF record
  <2> QED BY <2>1, NoneIsApart
<1>2. overlay.manual_items \in [ManualIds -> {None} \cup ManualRecord]
  BY <1>0 DEF Overlay
<1>3. /\ evidence' = evidence /\ overlay.manual_items[id] = None
      /\ overlay' = Added(sn, id, coo)
  BY DEF AddItem
<1>4. /\ overlay'.ordered_item_ids = InsertAt(Ordering, sn, id)
      /\ overlay'.manual_items = [overlay.manual_items EXCEPT ![id] = record]
      /\ overlay'.tombstones = overlay.tombstones
      /\ overlay'.hs_selections = overlay.hs_selections
      /\ overlay'.field_edits = overlay.field_edits
      /\ overlay'.bms_edits = overlay.bms_edits
      /\ overlay'.coo_all = overlay.coo_all
      /\ overlay'.shipment_override = overlay.shipment_override
  BY <1>0, <1>3 DEF Added, Bumped, Overlay
<1> HIDE DEF record
<1> QED BY <1>0, <1>1, <1>2, <1>3, <1>4 DEF AddFacts

LEMMA DeleteLeaves ==
    ASSUME Settled, NEW sn \in DOMAIN Current, DeleteItem(Current[sn], sn)
    PROVE  /\ evidence' = evidence
           /\ Len(Current) > 1
           /\ overlay'.ordered_item_ids = Without(Current, Current[sn])
           /\ overlay'.ordered_item_ids # <<>>
           /\ \A x \in ManualIds : /\ overlay'.manual_items[x] = None
                                        <=> overlay.manual_items[x] = None
                                   /\ x # Current[sn] =>
                                        overlay'.manual_items[x] = overlay.manual_items[x]
           /\ overlay'.tombstones = IF Current[sn] \in ManualIds THEN overlay.tombstones
                                    ELSE overlay.tombstones \cup {Current[sn]}
           /\ \A x \in ItemIds \ {Current[sn]} :
                 /\ overlay'.hs_selections[x] = overlay.hs_selections[x]
                 /\ overlay'.field_edits[x] = overlay.field_edits[x]
                 /\ x \in overlay'.bms_edits <=> x \in overlay.bms_edits
           /\ overlay'.coo_all = overlay.coo_all
           /\ overlay'.shipment_override = overlay.shipment_override
<1> DEFINE id     == Current[sn]
           manual == IF id \in ManualIds THEN [overlay.manual_items EXCEPT ![id].active = FALSE]
                     ELSE overlay.manual_items
           tombs  == IF id \in ManualIds THEN overlay.tombstones ELSE overlay.tombstones \cup {id}
           order  == Without(Ordering, id)
           hs     == [overlay.hs_selections EXCEPT ![id] = None]
           edits  == [overlay.field_edits EXCEPT ![id] = None]
           bms    == overlay.bms_edits \ {id}
<1>0. overlay \in Overlay /\ Ordering = Current /\ IndInv
  BY OrderingIsCurrent DEF Settled, IndInv, OverlayInv, TypeOK
<1>1. /\ overlay.manual_items \in [ManualIds -> {None} \cup ManualRecord]
      /\ overlay.hs_selections \in [ItemIds -> {None} \cup Codes]
      /\ overlay.field_edits \in [ItemIds -> {None} \cup Edits]
  BY <1>0 DEF Overlay
<1>2. evidence' = evidence /\ overlay' = Deleted(id) /\ Len(Current) > 1
  BY DEF DeleteItem
<1>3. /\ overlay'.ordered_item_ids = order
      /\ overlay'.manual_items = manual
      /\ overlay'.tombstones = tombs
      /\ overlay'.hs_selections = hs
      /\ overlay'.field_edits = edits
      /\ overlay'.bms_edits = bms
      /\ overlay'.coo_all = overlay.coo_all
      /\ overlay'.shipment_override = overlay.shipment_override
  BY <1>0, <1>2 DEF Deleted, Bumped, Overlay
<1>4. id \in Range(Current) /\ id \in ActiveIds(evidence, overlay)
  BY <1>0, CurrentIsCurrent DEF Range
<1>5. order # <<>>
  BY <1>0, <1>2, <1>4, DeletedOrder
<1>6. Range(SourceRows(evidence)) \subseteq SourceIds
  BY <1>0, SourceRowsList DEF IndInv, OverlayInv, TypeOK
<1>7. id \in ManualIds => overlay.manual_items[id] \in ManualRecord
  BY <1>1, <1>4, <1>6, ManualIdsApart DEF ActiveIds, ActiveManual
<1>8. ASSUME NEW x \in ManualIds
      PROVE  /\ manual[x] = None <=> overlay.manual_items[x] = None
             /\ x # id => manual[x] = overlay.manual_items[x]
  <2>1. CASE x # id
    BY <1>1, <2>1
  <2>2. CASE x = id
    <3>1. manual[x] = [overlay.manual_items[x] EXCEPT !.active = FALSE]
      BY <1>1, <2>2
    <3>2. overlay.manual_items[x] \in ManualRecord
      BY <1>7, <2>2
    <3>3. manual[x] \in ManualRecord
      BY <3>1, <3>2 DEF ManualRecord
    <3> QED BY <2>2, <3>2, <3>3, NoneIsApart
  <2> QED BY <2>1, <2>2
<1>9. ASSUME NEW x \in ItemIds, x # id
      PROVE  /\ hs[x] = overlay.hs_selections[x]
             /\ edits[x] = overlay.field_edits[x]
             /\ x \in bms <=> x \in overlay.bms_edits
  BY <1>1, <1>9
<1> HIDE DEF manual, order, hs, edits, bms
<1> QED BY <1>0, <1>2, <1>3, <1>5, <1>8, <1>9 DEF order

LEMMA EditLeaves ==
    ASSUME Settled, NEW id \in Range(Current), NEW r \in Requests, EditItem(id, r)
    PROVE  /\ evidence' = evidence
           /\ overlay'.ordered_item_ids = overlay.ordered_item_ids
           /\ overlay'.manual_items = overlay.manual_items
           /\ overlay'.tombstones = overlay.tombstones
           /\ overlay'.hs_selections = overlay.hs_selections
           /\ \A x \in ItemIds \ {id} : overlay'.field_edits[x] = overlay.field_edits[x]
           /\ overlay'.bms_edits = overlay.bms_edits
           /\ overlay'.coo_all = overlay.coo_all
           /\ overlay'.shipment_override = overlay.shipment_override
<1>0. overlay \in Overlay
  BY DEF Settled, IndInv, OverlayInv, TypeOK
<1>1. overlay.field_edits \in [ItemIds -> {None} \cup Edits]
  BY <1>0 DEF Overlay
<1>2. /\ evidence' = evidence
      /\ overlay' = Bumped([overlay EXCEPT !.field_edits[id] = Merged(EditsOf(overlay, id), r)])
  BY DEF EditItem
<1> QED BY <1>0, <1>1, <1>2 DEF Bumped, Overlay

LEMMA SetAllCooLeaves ==
    ASSUME Settled, NEW c \in Countries, SetAllCoo(c)
    PROVE  /\ evidence' = evidence
           /\ overlay'.ordered_item_ids = overlay.ordered_item_ids
           /\ overlay'.manual_items = overlay.manual_items
           /\ overlay'.tombstones = overlay.tombstones
           /\ overlay'.hs_selections = overlay.hs_selections
           /\ \A x \in ItemIds :
                 /\ EditsOf(overlay', x).description = EditsOf(overlay, x).description
                 /\ EditsOf(overlay', x).number = EditsOf(overlay, x).number
                 /\ EditsOf(overlay', x).coo = None
           /\ overlay'.bms_edits = overlay.bms_edits
           /\ overlay'.coo_all = c
           /\ overlay'.shipment_override = overlay.shipment_override
<1> DEFINE edits == [id \in ItemIds |->
                       IF overlay.field_edits[id] = None THEN None
                       ELSE Left([overlay.field_edits[id] EXCEPT !.coo = None])]
<1>0. overlay \in Overlay
  BY DEF Settled, IndInv, OverlayInv, TypeOK
<1>1. overlay.field_edits \in [ItemIds -> {None} \cup Edits]
  BY <1>0 DEF Overlay
<1>2. evidence' = evidence /\ overlay' = StampedCoo(c)
  BY DEF SetAllCoo
<1>3. overlay'.field_edits = edits
  BY <1>0, <1>2 DEF StampedCoo, Bumped, Overlay
<1>4. ASSUME NEW x \in ItemIds
      PROVE  /\ EditsOf(overlay', x).description = EditsOf(overlay, x).description
             /\ EditsOf(overlay', x).number = EditsOf(overlay, x).number
             /\ EditsOf(overlay', x).coo = None
  <2> DEFINE e == overlay.field_edits[x]
             d == [e EXCEPT !.coo = None]
  <2>1. overlay'.field_edits[x] = IF e = None THEN None ELSE Left(d)
    BY <1>3
  <2>2. CASE e = None
    BY <2>1, <2>2 DEF EditsOf, NoEdits
  <2>3. CASE e # None
    <3>1. e \in Edits
      BY <1>1, <2>3
    <3>2. d \in Edits /\ d.description = e.description /\ d.number = e.number /\ d.coo = None
      BY <3>1 DEF Edits, Fields
    <3>3. EditsOf(overlay, x) = e
      BY <2>3 DEF EditsOf
    <3> HIDE DEF e, d
    <3>4. d # None
      BY <3>2, NoneIsApart
    <3>5. EditsOf(overlay', x) = d
      BY <2>1, <2>3, <3>4 DEF EditsOf, Left
    <3> QED BY <3>2, <3>3, <3>5
  <2> QED BY <2>2, <2>3
<1> QED BY <1>0, <1>2, <1>4 DEF StampedCoo, Bumped, Overlay

LEMMA SetTotalsLeaves ==
    ASSUME Settled, NEW t, SetShipmentTotals(t)
    PROVE  /\ evidence' = evidence
           /\ overlay'.ordered_item_ids = overlay.ordered_item_ids
           /\ overlay'.manual_items = overlay.manual_items
           /\ overlay'.tombstones = overlay.tombstones
           /\ overlay'.hs_selections = overlay.hs_selections
           /\ overlay'.field_edits = overlay.field_edits
           /\ overlay'.bms_edits = overlay.bms_edits
           /\ overlay'.coo_all = overlay.coo_all
<1>0. overlay \in Overlay
  BY DEF Settled, IndInv, OverlayInv, TypeOK
<1> QED BY <1>0 DEF SetShipmentTotals, Bumped, Overlay

LEMMA SelectedLeaves ==
    ASSUME Settled, NEW ids, NEW code, evidence' = evidence, overlay' = Selected(ids, code)
    PROVE  /\ overlay'.ordered_item_ids = overlay.ordered_item_ids
           /\ overlay'.manual_items = overlay.manual_items
           /\ overlay'.tombstones = overlay.tombstones
           /\ \A x \in ItemIds : overlay'.hs_selections[x] =
                 IF x \in ids THEN code ELSE overlay.hs_selections[x]
           /\ overlay'.field_edits = overlay.field_edits
           /\ overlay'.bms_edits = overlay.bms_edits
           /\ overlay'.coo_all = overlay.coo_all
           /\ overlay'.shipment_override = overlay.shipment_override
<1>0. overlay \in Overlay
  BY DEF Settled, IndInv, OverlayInv, TypeOK
<1> QED BY <1>0 DEF Selected, Bumped, Overlay

LEMMA BmsLeaves ==
    ASSUME Settled, BmsStep
    PROVE  /\ evidence' = evidence
           /\ overlay'.ordered_item_ids = overlay.ordered_item_ids
           /\ overlay'.manual_items = overlay.manual_items
           /\ overlay'.tombstones = overlay.tombstones
           /\ overlay'.hs_selections = overlay.hs_selections
           /\ overlay'.field_edits = overlay.field_edits
           /\ overlay'.coo_all = overlay.coo_all
           /\ overlay'.shipment_override = overlay.shipment_override
<1>0. overlay \in Overlay /\ IndInv
  BY DEF Settled, IndInv, OverlayInv, TypeOK
<1> QED BY <1>0, BmsKeeps DEF Overlay

\* After new invoices nothing is left but the shipment totals and the records
\* of manual rows, which are not active.
LEMMA InvoiceLeaves ==
    ASSUME Settled, NEW count, NEW lineage, InvoiceEvidence(count, lineage)
    PROVE  /\ evidence' = [count |-> count, lineage |-> lineage, version |-> evidence.version + 1]
           /\ overlay'.ordered_item_ids = <<>>
           /\ \A x \in ItemIds : overlay'.hs_selections[x] = None
           /\ \A x \in ItemIds : overlay'.field_edits[x] = None
           /\ overlay'.bms_edits = {}
           /\ overlay'.coo_all = None
           /\ overlay'.shipment_override = overlay.shipment_override
<1> DEFINE left == ItemsReset(overlay)
<1>0. overlay \in Overlay
  BY DEF Settled, IndInv, OverlayInv, TypeOK
<1>1. /\ left.ordered_item_ids = <<>>
      /\ \A x \in ItemIds : left.hs_selections[x] = None
      /\ \A x \in ItemIds : left.field_edits[x] = None
      /\ left.bms_edits = {}
      /\ left.coo_all = None
      /\ left.shipment_override = overlay.shipment_override
      /\ {"revision", "ordered_item_ids", "manual_items", "tombstones", "hs_selections",
           "field_edits", "bms_edits", "coo_all", "shipment_override", "reset_notice"}
            \subseteq DOMAIN left
  BY <1>0 DEF ItemsReset, EmptyOverlay, Overlay
<1>2. /\ evidence' = [count |-> count, lineage |-> lineage, version |-> evidence.version + 1]
      /\ overlay' = left \/ overlay' = Announced(left)
  BY DEF InvoiceEvidence, Reset
<1> HIDE DEF left
<1> QED BY <1>1, <1>2 DEF Announced, Bumped

\* After a new air waybill or packing list the totals and the pins are gone.
LEMMA ShipmentLeaves ==
    ASSUME Settled, ShipmentEvidence
    PROVE  /\ evidence' = evidence
           /\ overlay'.ordered_item_ids = overlay.ordered_item_ids
           /\ overlay'.manual_items = overlay.manual_items
           /\ overlay'.tombstones = overlay.tombstones
           /\ overlay'.hs_selections = overlay.hs_selections
           /\ \A x \in ItemIds :
                 /\ EditsOf(overlay', x).description = EditsOf(overlay, x).description
                 /\ EditsOf(overlay', x).coo = EditsOf(overlay, x).coo
                 /\ EditsOf(overlay', x).number =
                       [n \in Numbers |-> IF n \in Pins THEN NoNumber
                                          ELSE EditsOf(overlay, x).number[n]]
           /\ overlay'.bms_edits = overlay.bms_edits
           /\ overlay'.coo_all = overlay.coo_all
           /\ overlay'.shipment_override = None
<1> DEFINE left == ShipmentReset(overlay)
           stripped == [id \in ItemIds |->
                          IF overlay.field_edits[id] = None THEN None
                          ELSE Left(Unpinned(overlay.field_edits[id]))]
           Pinned(id) == /\ overlay.field_edits[id] # None
                         /\ Unpinned(overlay.field_edits[id]) # overlay.field_edits[id]
<1>0. overlay \in Overlay
  BY DEF Settled, IndInv, OverlayInv, TypeOK
<1>1. overlay.field_edits \in [ItemIds -> {None} \cup Edits]
  BY <1>0 DEF Overlay
<1>2. /\ left.ordered_item_ids = overlay.ordered_item_ids
      /\ left.manual_items = overlay.manual_items
      /\ left.tombstones = overlay.tombstones
      /\ left.hs_selections = overlay.hs_selections
      /\ left.field_edits = IF \E id \in ItemIds : Pinned(id) THEN stripped
                            ELSE overlay.field_edits
      /\ left.bms_edits = overlay.bms_edits
      /\ left.coo_all = overlay.coo_all
      /\ left.shipment_override = None
      /\ {"revision", "ordered_item_ids", "manual_items", "tombstones", "hs_selections",
           "field_edits", "bms_edits", "coo_all", "shipment_override", "reset_notice"}
            \subseteq DOMAIN left
  BY <1>0 DEF ShipmentReset, Overlay
<1>3. evidence' = evidence /\ (overlay' = left \/ overlay' = Announced(left))
  BY DEF ShipmentEvidence, Reset
<1>4. ASSUME NEW x \in ItemIds
      PROVE  /\ EditsOf(left, x).description = EditsOf(overlay, x).description
             /\ EditsOf(left, x).coo = EditsOf(overlay, x).coo
             /\ EditsOf(left, x).number =
                   [n \in Numbers |-> IF n \in Pins THEN NoNumber
                                      ELSE EditsOf(overlay, x).number[n]]
  <2> DEFINE e == overlay.field_edits[x]
             d == Unpinned(e)
  <2>1. CASE e = None
    <3>1. left.field_edits[x] = None
      BY <1>2, <2>1
    <3>2. EditsOf(left, x) = NoEdits /\ EditsOf(overlay, x) = NoEdits
      BY <2>1, <3>1 DEF EditsOf
    <3> QED BY <3>2 DEF NoEdits
  <2>2. CASE e # None
    <3>1. e \in Edits
      BY <1>1, <2>2
    <3>2. /\ d \in Edits /\ d.description = e.description /\ d.coo = e.coo
          /\ d.number = [n \in Numbers |-> IF n \in Pins THEN NoNumber ELSE e.number[n]]
      <4>1. d \in Edits
        <5>1. PairSane(e)
          BY <2>2 DEF Settled, IndInv, OverlayInv, NetBelowGross
        <5> QED BY <3>1, <5>1, ReducedType
      <4> QED BY <3>1, <4>1 DEF Edits, Fields, Unpinned
    <3>3. EditsOf(overlay, x) = e
      BY <2>2 DEF EditsOf
    <3>4. left.field_edits[x] = Left(d) \/ (left.field_edits[x] = e /\ d = e)
      BY <1>2, <2>2
    <3> HIDE DEF e, d, left
    <3>5. EditsOf(left, x) = d
      BY <2>2, <3>2, <3>4, NoneIsApart DEF EditsOf, Left
    <3> QED BY <3>2, <3>3, <3>5
  <2> QED BY <2>1, <2>2
<1> HIDE DEF left
<1>5. /\ overlay'.ordered_item_ids = left.ordered_item_ids
      /\ overlay'.manual_items = left.manual_items
      /\ overlay'.tombstones = left.tombstones
      /\ overlay'.hs_selections = left.hs_selections
      /\ overlay'.field_edits = left.field_edits
      /\ overlay'.bms_edits = left.bms_edits
      /\ overlay'.coo_all = left.coo_all
      /\ overlay'.shipment_override = left.shipment_override
  BY <1>2, <1>3 DEF Announced, Bumped
<1>6. \A x : EditsOf(overlay', x) = EditsOf(left, x)
  BY <1>5 DEF EditsOf
<1> QED BY <1>2, <1>3, <1>4, <1>5, <1>6

(***************************************************************************)
(* The strengthened invariant                                              *)
(***************************************************************************)
LEMMA CauseStep ==
    ASSUME Settled, Next
    PROVE  OrderHasCause'
<1>0. OrderHasCause
  BY DEF Settled
<1>1. ASSUME overlay'.ordered_item_ids = overlay.ordered_item_ids,
             overlay'.manual_items = overlay.manual_items,
             overlay'.tombstones = overlay.tombstones
      PROVE  OrderHasCause'
  BY <1>0, <1>1 DEF OrderHasCause
<1>2. ASSUME NEW id \in ManualIds, NEW coo \in {""} \cup Countries,
             NEW sn \in 1..(Len(Current) + 1), AddItem(sn, id, coo)
      PROVE  OrderHasCause'
  BY <1>2, AddLeaves DEF AddFacts, OrderHasCause
<1>3. ASSUME NEW sn \in DOMAIN Current, DeleteItem(Current[sn], sn)
      PROVE  OrderHasCause'
  <2>1. Current[sn] \in ActiveIds(evidence, overlay)
    BY CurrentIsCurrent DEF Settled, Range
  <2>2. CASE Current[sn] \in ManualIds
    <3>1. Current[sn] \notin SourceIds
      BY <2>2, ManualIdsApart
    <3>2. Range(SourceRows(evidence)) \subseteq SourceIds
      BY SourceRowsList DEF Settled, IndInv, OverlayInv, TypeOK
    <3>3. overlay.manual_items[Current[sn]] # None
      BY <2>1, <3>1, <3>2 DEF ActiveIds, ActiveManual
    <3> QED BY <1>3, <2>2, <3>3, DeleteLeaves DEF OrderHasCause
  <2>3. CASE Current[sn] \notin ManualIds
    BY <1>3, <2>3, DeleteLeaves DEF OrderHasCause
  <2> QED BY <2>2, <2>3
<1>4. ASSUME NEW id \in Range(Current), NEW r \in Requests, EditItem(id, r)
      PROVE  OrderHasCause'
  BY <1>1, <1>4, EditLeaves
<1>5. ASSUME NEW c \in Countries, SetAllCoo(c) PROVE OrderHasCause'
  BY <1>1, <1>5, SetAllCooLeaves
<1>6. ASSUME NEW t \in Totals, SetShipmentTotals(t) PROVE OrderHasCause'
  BY <1>1, <1>6, SetTotalsLeaves
<1>7. ASSUME NEW ids, NEW code, evidence' = evidence, overlay' = Selected(ids, code)
      PROVE  OrderHasCause'
  BY <1>1, <1>7, SelectedLeaves
<1>8. CASE BmsStep
  BY <1>1, <1>8, BmsLeaves
<1>9. ASSUME NEW count, NEW lineage, InvoiceEvidence(count, lineage)
      PROVE  OrderHasCause'
  BY <1>9, InvoiceLeaves DEF OrderHasCause
<1>10. CASE ShipmentEvidence
  BY <1>1, <1>10, ShipmentLeaves
<1> QED
  BY <1>2, <1>3, <1>4, <1>5, <1>6, <1>7, <1>8, <1>9, <1>10
  DEF Next, ReviewerStep, SelectHs, SelectHsRange, EvidenceStep

LEMMA SettledStep == Settled /\ [Next]_vars => Settled'
<1> SUFFICES ASSUME Settled, [Next]_vars PROVE Settled'
  OBVIOUS
<1>1. IndInv'
  BY NextInv DEF Settled
<1>2. CASE Next
  BY <1>1, <1>2, CauseStep DEF Settled
<1>3. CASE UNCHANGED vars
  BY <1>1, <1>3 DEF Settled, OrderHasCause, vars
<1> QED BY <1>2, <1>3

\* In every state the order fits the rows, and a job whose reviewer neither
\* deleted nor added a row has no order of its own: it shows the rows as they
\* were extracted (item_mutations.py: add_item, delete_item).
THEOREM OverlaySettles == Spec => []Settled
<1>1. Init => Settled
  <2>1. Init => OrderHasCause
    BY DEF Init, EmptyOverlay, OrderHasCause
  <2> QED BY <2>1, InitInv DEF Settled
<1> QED BY <1>1, SettledStep, PTL DEF Spec

\* The table is the rows of the order on display.
TableFits ==
    /\ Current = ShownIds(evidence, overlay)
    /\ Current \in Seq(ItemIds)
    /\ Lists(Current, ActiveIds(evidence, overlay))
    /\ Len(Current) \in Nat
    /\ DOMAIN Current = 1..Len(Current)
    /\ DOMAIN items = 1..Len(Current)
    /\ items = [i \in 1..Len(Current) |-> Row(evidence, overlay, Current[i])]

LEMMA SettledFits == Settled => TableFits
  BY OrderingIsCurrent DEF TableFits

LEMMA SettledFitsNext == Settled' => TableFits'
<1>1. Settled => TableFits
  BY SettledFits
<1> QED BY <1>1, PTL

\* The rows after a step.
LEMMA NextRows ==
    ASSUME Settled, Next
    PROVE  /\ TableFits
           /\ Settled' /\ TableFits'
  BY SettledFits, SettledFitsNext, SettledStep

(***************************************************************************)
(* Every operation is one of the table's                                   *)
(***************************************************************************)
\* The table when the order stays: row by row.
LEMMA SameOrder ==
    ASSUME TableFits, TableFits', evidence' = evidence,
           overlay'.ordered_item_ids = overlay.ordered_item_ids
    PROVE  /\ DOMAIN items' = DOMAIN items
           /\ \A i \in DOMAIN items :
                 /\ Current[i] \in ItemIds
                 /\ items[i] = Row(evidence, overlay, Current[i])
                 /\ items'[i] = Row(evidence', overlay', Current[i])
<1>1. Current' = Current
  BY DEF TableFits, ShownIds
<1>2. \A i \in 1..Len(Current) : Current[i] \in ItemIds
  BY ElementOfSeq DEF TableFits
<1>3. items' = [i \in 1..Len(Current) |-> Row(evidence', overlay', Current[i])]
  BY <1>1 DEF TableFits
<1>4. items = [i \in 1..Len(Current) |-> Row(evidence, overlay, Current[i])]
  BY DEF TableFits
<1> HIDE DEF Current
<1> QED BY <1>2, <1>3, <1>4

\* A row is told by its columns.
LEMMA ChangesOnlyWhen ==
    ASSUME TableFits, DOMAIN items' = DOMAIN items, NEW columns,
           \A i \in DOMAIN items :
              /\ "id" \notin columns => items'[i].id = items[i].id
              /\ "of" \notin columns => items'[i].of = items[i].of
              /\ "description" \notin columns => items'[i].description = items[i].description
              /\ "coo" \notin columns => items'[i].coo = items[i].coo
              /\ "number" \notin columns => items'[i].number = items[i].number
              /\ "hs" \notin columns => items'[i].hs = items[i].hs
              /\ "bms" \notin columns => items'[i].bms = items[i].bms
    PROVE  Table!ChangesOnly(columns)
<1>1. ASSUME NEW i \in DOMAIN items
      PROVE  DOMAIN items[i] = {"id", "of", "description", "coo", "number", "hs", "bms"}
  <2>1. items[i] = Row(evidence, overlay, Current[i])
    BY DEF TableFits
  <2> QED BY <2>1 DEF Row
<1>2. ASSUME NEW i \in DOMAIN items, NEW c \in DOMAIN items[i] \ columns
      PROVE  items'[i][c] = items[i][c]
  <2>1. c \in {"id", "of", "description", "coo", "number", "hs", "bms"} /\ c \notin columns
    BY <1>1
  <2>2. CASE c = "id" BY <2>1, <2>2
  <2>3. CASE c = "of" BY <2>1, <2>3
  <2>4. CASE c = "description" BY <2>1, <2>4
  <2>5. CASE c = "coo" BY <2>1, <2>5
  <2>6. CASE c = "number" BY <2>1, <2>6
  <2>7. CASE c = "hs" BY <2>1, <2>7
  <2>8. CASE c = "bms" BY <2>1, <2>8
  <2> QED BY <2>1, <2>2, <2>3, <2>4, <2>5, <2>6, <2>7, <2>8
<1> QED BY <1>2 DEF Table!ChangesOnly

\* What is shown of a row follows from what is stored under its id.
LEMMA RowStays ==
    ASSUME evidence' = evidence, NEW x \in ItemIds,
           overlay'.field_edits[x] = overlay.field_edits[x],
           overlay'.hs_selections[x] = overlay.hs_selections[x],
           x \in overlay'.bms_edits <=> x \in overlay.bms_edits,
           overlay'.coo_all = overlay.coo_all,
           x \in ManualIds => overlay'.manual_items[x] = overlay.manual_items[x]
    PROVE  Row(evidence', overlay', x) = Row(evidence, overlay, x)
<1>1. EditsOf(overlay', x) = EditsOf(overlay, x)
  BY DEF EditsOf
<1>2. Coo(overlay', x) = Coo(overlay, x)
  BY <1>1 DEF Coo
<1> QED BY <1>1, <1>2 DEF Row

LEMMA EditIsEdit ==
    ASSUME Settled, Next, NEW id \in Range(Current), NEW r \in Requests, EditItem(id, r)
    PROVE  Table!Edit
<1>0. TableFits /\ TableFits'
  BY NextRows
<1>1. /\ evidence' = evidence
      /\ overlay'.ordered_item_ids = overlay.ordered_item_ids
      /\ overlay'.manual_items = overlay.manual_items
      /\ overlay'.hs_selections = overlay.hs_selections
      /\ \A x \in ItemIds \ {id} : overlay'.field_edits[x] = overlay.field_edits[x]
      /\ overlay'.bms_edits = overlay.bms_edits
      /\ overlay'.coo_all = overlay.coo_all
      /\ overlay'.shipment_override = overlay.shipment_override
  BY EditLeaves
<1>2. /\ DOMAIN items' = DOMAIN items
      /\ \A i \in DOMAIN items : /\ Current[i] \in ItemIds
                                 /\ items[i] = Row(evidence, overlay, Current[i])
                                 /\ items'[i] = Row(evidence', overlay', Current[i])
  BY <1>0, <1>1, SameOrder
<1>3. Table!ChangesOnly({"description", "coo", "number"})
  <2>1. ASSUME NEW i \in DOMAIN items
        PROVE  /\ items'[i].id = items[i].id
               /\ items'[i].of = items[i].of
               /\ items'[i].hs = items[i].hs
               /\ items'[i].bms = items[i].bms
    BY <1>1, <1>2 DEF Row
  <2> QED BY <1>0, <1>2, <2>1, ChangesOnlyWhen
<1>4. PICK at \in DOMAIN items : Current[at] = id
  BY <1>0 DEF Range, TableFits
<1>5. ASSUME NEW i \in DOMAIN items \ {at} PROVE items'[i] = items[i]
  <2>1. Current[i] # id
    BY <1>0, <1>4 DEF TableFits, Lists, IsInjective
  <2>2. Row(evidence', overlay', Current[i]) = Row(evidence, overlay, Current[i])
    BY <1>1, <1>2, <2>1, RowStays
  <2> QED BY <1>2, <2>2
<1> QED BY <1>1, <1>3, <1>5 DEF Table!Edit

LEMMA SetAllCooIsSetAllCoo ==
    ASSUME Settled, Next, NEW c \in Countries, SetAllCoo(c)
    PROVE  Table!SetAllCoo
<1>0. TableFits /\ TableFits'
  BY NextRows
<1>1. /\ evidence' = evidence
      /\ overlay'.ordered_item_ids = overlay.ordered_item_ids
      /\ overlay'.hs_selections = overlay.hs_selections
      /\ \A x \in ItemIds :
            /\ EditsOf(overlay', x).description = EditsOf(overlay, x).description
            /\ EditsOf(overlay', x).number = EditsOf(overlay, x).number
            /\ EditsOf(overlay', x).coo = None
      /\ overlay'.bms_edits = overlay.bms_edits
      /\ overlay'.coo_all = c
      /\ overlay'.shipment_override = overlay.shipment_override
  BY SetAllCooLeaves
<1>2. /\ DOMAIN items' = DOMAIN items
      /\ \A i \in DOMAIN items : /\ Current[i] \in ItemIds
                                 /\ items[i] = Row(evidence, overlay, Current[i])
                                 /\ items'[i] = Row(evidence', overlay', Current[i])
  BY <1>0, <1>1, SameOrder
<1>3. Table!ChangesOnly({"coo"})
  <2>1. ASSUME NEW i \in DOMAIN items
        PROVE  /\ items'[i].id = items[i].id
               /\ items'[i].of = items[i].of
               /\ items'[i].description = items[i].description
               /\ items'[i].number = items[i].number
               /\ items'[i].hs = items[i].hs
               /\ items'[i].bms = items[i].bms
    BY <1>1, <1>2 DEF Row
  <2> QED BY <1>0, <1>2, <2>1, ChangesOnlyWhen
<1>4. ASSUME NEW i \in DOMAIN items PROVE items'[i].coo = c
  <2>1. c # None
    BY NoneFresh
  <2>2. Coo(overlay', Current[i]) = c
    BY <1>1, <1>2, <2>1 DEF Coo
  <2> QED BY <1>2, <2>2 DEF Row
<1> QED BY <1>1, <1>3, <1>4 DEF Table!SetAllCoo

LEMMA SetTotalsIsSetTotals ==
    ASSUME Settled, Next, NEW t \in Totals, SetShipmentTotals(t)
    PROVE  Table!SetTotals
<1>0. TableFits /\ TableFits'
  BY NextRows
<1>1. /\ evidence' = evidence
      /\ overlay'.ordered_item_ids = overlay.ordered_item_ids
      /\ overlay'.manual_items = overlay.manual_items
      /\ overlay'.hs_selections = overlay.hs_selections
      /\ overlay'.field_edits = overlay.field_edits
      /\ overlay'.bms_edits = overlay.bms_edits
      /\ overlay'.coo_all = overlay.coo_all
  BY SetTotalsLeaves
<1>2. /\ DOMAIN items' = DOMAIN items
      /\ \A i \in DOMAIN items : /\ Current[i] \in ItemIds
                                 /\ items[i] = Row(evidence, overlay, Current[i])
                                 /\ items'[i] = Row(evidence', overlay', Current[i])
  BY <1>0, <1>1, SameOrder
<1>3. \A i \in DOMAIN items : items'[i] = items[i]
  BY <1>1, <1>2, RowStays
<1>4. items' = items
  BY <1>0, <1>2, <1>3 DEF TableFits
<1> QED BY <1>1, <1>4 DEF Table!SetTotals

LEMMA SelectedIsSelectHs ==
    ASSUME Settled, Next, NEW ids, NEW code, NEW chosen \in DOMAIN items,
           Current[chosen] \in ids, evidence' = evidence, overlay' = Selected(ids, code)
    PROVE  Table!SelectHs
<1>0. TableFits /\ TableFits'
  BY NextRows
<1>1. /\ overlay'.ordered_item_ids = overlay.ordered_item_ids
      /\ overlay'.manual_items = overlay.manual_items
      /\ \A x \in ItemIds : overlay'.hs_selections[x] =
            IF x \in ids THEN code ELSE overlay.hs_selections[x]
      /\ overlay'.field_edits = overlay.field_edits
      /\ overlay'.bms_edits = overlay.bms_edits
      /\ overlay'.coo_all = overlay.coo_all
      /\ overlay'.shipment_override = overlay.shipment_override
  BY SelectedLeaves
<1>2. /\ DOMAIN items' = DOMAIN items
      /\ \A i \in DOMAIN items : /\ Current[i] \in ItemIds
                                 /\ items[i] = Row(evidence, overlay, Current[i])
                                 /\ items'[i] = Row(evidence', overlay', Current[i])
  BY <1>0, <1>1, SameOrder
<1>3. \A x : EditsOf(overlay', x) = EditsOf(overlay, x) /\ Coo(overlay', x) = Coo(overlay, x)
  BY <1>1 DEF EditsOf, Coo
<1>4. Table!ChangesOnly({"hs"})
  <2>1. ASSUME NEW i \in DOMAIN items
        PROVE  /\ items'[i].id = items[i].id
               /\ items'[i].of = items[i].of
               /\ items'[i].description = items[i].description
               /\ items'[i].coo = items[i].coo
               /\ items'[i].number = items[i].number
               /\ items'[i].bms = items[i].bms
    BY <1>1, <1>2, <1>3 DEF Row
  <2> QED BY <1>0, <1>2, <2>1, ChangesOnlyWhen
<1>5. \A i \in DOMAIN items : items'[i].hs = IF Current[i] \in ids THEN code ELSE items[i].hs
  BY <1>1, <1>2 DEF Row
<1>6. \A i \in DOMAIN items : items'[i].hs \in {items[i].hs, items'[chosen].hs}
  BY <1>5
<1> QED BY <1>1, <1>4, <1>6 DEF Table!SelectHs

LEMMA BmsIsEditBms ==
    ASSUME Settled, Next, BmsStep
    PROVE  Table!EditBms
<1>0. TableFits /\ TableFits'
  BY NextRows
<1>1. /\ evidence' = evidence
      /\ overlay'.ordered_item_ids = overlay.ordered_item_ids
      /\ overlay'.manual_items = overlay.manual_items
      /\ overlay'.hs_selections = overlay.hs_selections
      /\ overlay'.field_edits = overlay.field_edits
      /\ overlay'.coo_all = overlay.coo_all
      /\ overlay'.shipment_override = overlay.shipment_override
  BY BmsLeaves
<1>2. /\ DOMAIN items' = DOMAIN items
      /\ \A i \in DOMAIN items : /\ Current[i] \in ItemIds
                                 /\ items[i] = Row(evidence, overlay, Current[i])
                                 /\ items'[i] = Row(evidence', overlay', Current[i])
  BY <1>0, <1>1, SameOrder
<1>3. \A x : EditsOf(overlay', x) = EditsOf(overlay, x) /\ Coo(overlay', x) = Coo(overlay, x)
  BY <1>1 DEF EditsOf, Coo
<1>4. ASSUME NEW i \in DOMAIN items
      PROVE  /\ items'[i].id = items[i].id
             /\ items'[i].of = items[i].of
             /\ items'[i].description = items[i].description
             /\ items'[i].coo = items[i].coo
             /\ items'[i].number = items[i].number
             /\ items'[i].hs = items[i].hs
  BY <1>1, <1>2, <1>3 DEF Row
<1>5. Table!ChangesOnly({"bms"})
  BY <1>0, <1>2, <1>4, ChangesOnlyWhen
<1> QED BY <1>1, <1>5 DEF Table!EditBms

LEMMA InvoiceIsNewItems ==
    ASSUME Settled, Next, NEW count \in 0..MaxItems, NEW lineage \in Lineages,
           InvoiceEvidence(count, lineage)
    PROVE  Table!NewItems
<1>0. TableFits /\ TableFits'
  BY NextRows
<1>1. /\ evidence' = [count |-> count, lineage |-> lineage, version |-> evidence.version + 1]
      /\ overlay'.ordered_item_ids = <<>>
      /\ \A x \in ItemIds : overlay'.hs_selections[x] = None
      /\ \A x \in ItemIds : overlay'.field_edits[x] = None
      /\ overlay'.bms_edits = {}
      /\ overlay'.coo_all = None
      /\ overlay'.shipment_override = overlay.shipment_override
  BY InvoiceLeaves
<1>2. evidence.version \in Nat
  BY MaxVersionType DEF Settled, IndInv, OverlayInv, TypeOK
<1>3. evidence'.version # evidence.version
  BY <1>1, <1>2
<1>4. ASSUME NEW i \in DOMAIN items'
      PROVE  /\ items'[i].of = evidence'.version
             /\ items'[i].coo = "printed"
             /\ Table!Untouched(items'[i])
  <2> DEFINE x == <<lineage, i>>
  <2>1. Current' = [j \in 1..count |-> <<lineage, j>>]
    BY <1>0, <1>1 DEF TableFits, ShownIds, SourceRows
  <2>2. DOMAIN Current' = 1..count
    BY <2>1
  <2>3. i \in 1..count
    BY <1>0, <2>2 DEF TableFits
  <2>4. Current'[i] = x
    BY <2>1, <2>3
  <2>5. x \in SourceIds /\ x \in ItemIds /\ x \notin ManualIds
    BY <2>3, MaxItemsType, ManualIdsApart DEF SourceIds, ItemIds
  <2>6. items'[i] = Row(evidence', overlay', x)
    BY <1>0, <2>4 DEF TableFits
  <2> HIDE DEF x
  <2>7. EditsOf(overlay', x) = NoEdits
    BY <1>1, <2>5 DEF EditsOf
  <2>8. Coo(overlay', x) = "printed"
    BY <1>1, <2>5, <2>7 DEF Coo, NoEdits
  <2>9. /\ items'[i].of = evidence'.version
        /\ items'[i].coo = "printed"
        /\ items'[i].description = None
        /\ items'[i].number = [n \in Numbers |-> NoNumber]
        /\ items'[i].hs = None
        /\ items'[i].bms = None
    BY <1>1, <2>5, <2>6, <2>7, <2>8 DEF Row, NoEdits
  <2> QED BY <2>9 DEF Table!Untouched
<1> QED BY <1>1, <1>3, <1>4 DEF Table!NewItems

LEMMA ShipmentIsNewShipment ==
    ASSUME Settled, Next, ShipmentEvidence
    PROVE  Table!NewShipment
<1>0. TableFits /\ TableFits'
  BY NextRows
<1>1. /\ evidence' = evidence
      /\ overlay'.ordered_item_ids = overlay.ordered_item_ids
      /\ overlay'.manual_items = overlay.manual_items
      /\ overlay'.hs_selections = overlay.hs_selections
      /\ \A x \in ItemIds :
            /\ EditsOf(overlay', x).description = EditsOf(overlay, x).description
            /\ EditsOf(overlay', x).coo = EditsOf(overlay, x).coo
            /\ EditsOf(overlay', x).number =
                  [n \in Numbers |-> IF n \in Pins THEN NoNumber
                                     ELSE EditsOf(overlay, x).number[n]]
      /\ overlay'.bms_edits = overlay.bms_edits
      /\ overlay'.coo_all = overlay.coo_all
      /\ overlay'.shipment_override = None
  BY ShipmentLeaves
<1>2. /\ DOMAIN items' = DOMAIN items
      /\ \A i \in DOMAIN items : /\ Current[i] \in ItemIds
                                 /\ items[i] = Row(evidence, overlay, Current[i])
                                 /\ items'[i] = Row(evidence', overlay', Current[i])
  BY <1>0, <1>1, SameOrder
<1>3. \A x \in ItemIds : Coo(overlay', x) = Coo(overlay, x)
  BY <1>1 DEF Coo
<1>4. Table!ChangesOnly({"number"})
  <2>1. ASSUME NEW i \in DOMAIN items
        PROVE  /\ items'[i].id = items[i].id
               /\ items'[i].of = items[i].of
               /\ items'[i].description = items[i].description
               /\ items'[i].coo = items[i].coo
               /\ items'[i].hs = items[i].hs
               /\ items'[i].bms = items[i].bms
    <3>1. /\ overlay'.hs_selections = overlay.hs_selections
          /\ overlay'.bms_edits = overlay.bms_edits
          /\ EditsOf(overlay', Current[i]).description = EditsOf(overlay, Current[i]).description
          /\ Coo(overlay', Current[i]) = Coo(overlay, Current[i])
          /\ evidence' = evidence
      BY <1>1, <1>2, <1>3
    <3> QED BY <1>2, <3>1 DEF Row
  <2> QED BY <1>0, <1>2, <2>1, ChangesOnlyWhen
<1>5. ASSUME NEW i \in DOMAIN items, NEW n \in DOMAIN items[i].number
      PROVE  items'[i].number[n] = IF n \in Pins THEN NoNumber ELSE items[i].number[n]
  <2> DEFINE old == EditsOf(overlay, Current[i])
  <2>1. items[i].number = old.number
    BY <1>2 DEF Row
  <2>2. items'[i].number = [k \in Numbers |-> IF k \in Pins THEN NoNumber ELSE old.number[k]]
    BY <1>1, <1>2 DEF Row
  <2>3. DOMAIN old.number = Numbers
    <3>1. overlay.field_edits \in [ItemIds -> {None} \cup Edits]
      BY DEF Settled, IndInv, OverlayInv, TypeOK, Overlay
    <3>2. old = NoEdits \/ old \in Edits
      BY <1>2, <3>1 DEF EditsOf
    <3> HIDE DEF old
    <3>3. old = NoEdits => DOMAIN old.number = Numbers
      BY DEF NoEdits
    <3>4. old \in Edits => old.number \in [Numbers -> Int]
      BY DEF Edits, Fields
    <3> QED BY <3>2, <3>3, <3>4
  <2> QED BY <2>1, <2>2, <2>3
<1> QED BY <1>1, <1>4, <1>5 DEF Table!NewShipment

\* A function on the first numbers is a sequence.
LEMMA FirstNumbers ==
    ASSUME NEW T, NEW n \in Nat, NEW s \in [1..n -> T]
    PROVE  s \in Seq(T) /\ Len(s) = n
<1>1. s \in Seq(T)
  BY SeqDef
<1>2. DOMAIN s = 1..Len(s) /\ Len(s) \in Nat
  BY <1>1, LenProperties
<1> QED BY <1>1, <1>2

\* A table from which one row is gone.
Gone(s, t, n, at) == \A i \in 1..n : s[i] = IF i < at THEN t[i] ELSE t[i + 1]

LEMMA RowGone ==
    ASSUME NEW T, NEW s \in Seq(T), NEW t \in Seq(T),
           Len(t) = Len(s) + 1,
           NEW at \in 1..Len(t), Gone(s, t, Len(s), at)
    PROVE  RemoveAt(t, at) = s
<1> DEFINE u == RemoveAt(t, at)
           n == Len(s)
<1>0. n \in Nat
  BY LenProperties
<1>1. /\ u \in Seq(T)
      /\ Len(u) = Len(t) - 1
      /\ \A j \in 1..(Len(t) - 1) : u[j] = IF j < at THEN t[j] ELSE t[j + 1]
  BY RemoveAtElements
<1>2. Len(t) - 1 = n /\ \A j \in 1..n : s[j] = IF j < at THEN t[j] ELSE t[j + 1]
  BY <1>0 DEF Gone
<1> HIDE DEF u, n
<1>3. Len(u) = n /\ \A j \in 1..n : u[j] = s[j]
  BY <1>1, <1>2
<1>4. Len(s) = n
  BY DEF n
<1>5. u = s
  BY <1>1, <1>3, <1>4, SeqEqual
<1> QED BY <1>5 DEF u

\* The rows that may be on display before and after a step.
AnyRow == {Row(evidence, overlay, x) : x \in ItemIds} \cup {Row(evidence', overlay', x) : x \in ItemIds}

LEMMA AddIsAdd ==
    ASSUME Settled, Next, NEW id \in ManualIds, NEW sn \in 1..(Len(Current) + 1),
           AddFacts(sn, id)
    PROVE  Table!Add
<1> DEFINE n     == Len(Current)
           order == InsertAt(Current, sn, id)
<1>0. TableFits /\ TableFits'
  BY NextRows
<1>1. /\ evidence' = evidence
      /\ overlay.manual_items[id] = None
      /\ overlay'.ordered_item_ids = order
      /\ overlay'.manual_items[id] # None
      /\ \A x \in ManualIds \ {id} : overlay'.manual_items[x] = overlay.manual_items[x]
      /\ overlay'.hs_selections = overlay.hs_selections
      /\ overlay'.field_edits = overlay.field_edits
      /\ overlay'.bms_edits = overlay.bms_edits
      /\ overlay'.coo_all = overlay.coo_all
      /\ overlay'.shipment_override = overlay.shipment_override
  BY DEF AddFacts
<1>2. id \in ItemIds
  BY DEF ItemIds
<1>3. Current \in Seq(ItemIds) /\ n \in Nat /\ sn \in 1..(n + 1)
  BY <1>0 DEF TableFits
<1>4. /\ order \in Seq(ItemIds)
      /\ Len(order) = n + 1
      /\ \A j \in 1..(n + 1) :
            order[j] = IF j < sn THEN Current[j] ELSE IF j = sn THEN id ELSE Current[j - 1]
  <2>1. Current \in Seq(ItemIds) /\ sn \in 1..(Len(Current) + 1)
    BY <1>3
  <2>2. /\ InsertAt(Current, sn, id) \in Seq(ItemIds)
        /\ Len(InsertAt(Current, sn, id)) = Len(Current) + 1
        /\ \A j \in 1..(Len(Current) + 1) :
              InsertAt(Current, sn, id)[j] =
                 IF j < sn THEN Current[j] ELSE IF j = sn THEN id ELSE Current[j - 1]
    BY <1>2, <2>1, InsertAtElements
  <2> QED BY <2>2
<1>5. order # <<>>
  BY <1>1, InsertedOrder, OrderingIsCurrent DEF Settled
<1>6. Current' = order
  BY <1>0, <1>1, <1>5 DEF TableFits, ShownIds
<1>7. items' = [j \in 1..(n + 1) |-> Row(evidence', overlay', order[j])]
  BY <1>0, <1>4, <1>6 DEF TableFits
<1>8. items = [j \in 1..n |-> Row(evidence, overlay, Current[j])]
  BY <1>0 DEF TableFits
<1>9. /\ id \notin ActiveIds(evidence, overlay)
      /\ \A i \in 1..n : Current[i] \in ItemIds /\ Current[i] # id
  <2>1. Range(SourceRows(evidence)) \subseteq SourceIds
    BY SourceRowsList DEF Settled, IndInv, OverlayInv, TypeOK
  <2>2. id \notin ActiveIds(evidence, overlay)
    BY <1>1, <2>1, ManualIdsApart DEF ActiveIds, ActiveManual
  <2>3. Range(Current) = ActiveIds(evidence, overlay) /\ DOMAIN Current = 1..n
    BY <1>0 DEF TableFits, Lists
  <2>4. \A i \in 1..n : Current[i] \in ItemIds
    BY <1>3, ElementOfSeq
  <2>5. \A i \in 1..n : Current[i] \in Range(Current)
    BY <2>3 DEF Range
  <2> QED BY <2>2, <2>3, <2>4, <2>5
<1>10. \A x \in ItemIds : x # id => Row(evidence', overlay', x) = Row(evidence, overlay, x)
  BY <1>1, RowStays
<1> HIDE DEF n, order
<1>11. /\ DOMAIN items = 1..n /\ items \in [1..n -> AnyRow]
       /\ DOMAIN items' = 1..(n + 1) /\ items' \in [1..(n + 1) -> AnyRow]
  <2>1. \A j \in 1..(n + 1) : order[j] \in ItemIds
    BY <1>4, ElementOfSeq
  <2> QED BY <1>7, <1>8, <1>9, <2>1 DEF AnyRow
<1>12. ASSUME NEW i \in 1..n
       PROVE  items[i] = IF i < sn THEN items'[i] ELSE items'[i + 1]
  <2>1. items[i] = Row(evidence', overlay', Current[i])
    BY <1>8, <1>9, <1>10
  <2>2. CASE i < sn
    BY <1>3, <1>4, <1>7, <2>1, <2>2
  <2>3. CASE ~(i < sn)
    <3>1. i + 1 \in 1..(n + 1) /\ ~(i + 1 < sn) /\ i + 1 # sn /\ (i + 1) - 1 = i
      BY <1>3, <2>3
    <3>2. order[i + 1] = Current[i]
      BY <1>4, <3>1
    <3> QED BY <1>7, <2>1, <2>3, <3>1, <3>2
  <2> QED BY <2>2, <2>3
<1>13. RemoveAt(items', sn) = items /\ Len(items) = n /\ Len(items') = n + 1
  <2>1. Gone(items, items', n, sn)
    BY <1>12 DEF Gone
  <2>2. /\ items \in Seq(AnyRow) /\ Len(items) = n
        /\ items' \in Seq(AnyRow) /\ Len(items') = n + 1
    BY <1>3, <1>11, FirstNumbers
  <2>3. Len(items') = Len(items) + 1 /\ sn \in 1..Len(items') /\ Gone(items, items', Len(items), sn)
    BY <1>3, <2>1, <2>2
  <2> QED BY <2>2, <2>3, RowGone
<1>14. items'[sn] = Row(evidence', overlay', id)
  BY <1>3, <1>4, <1>7
<1>15. \A i \in DOMAIN items : items[i].id # items'[sn].id
  BY <1>8, <1>9, <1>11, <1>14 DEF Row
<1>16. items'[sn].of = 0 /\ Table!Untouched(items'[sn])
  <2>1. /\ overlay'.hs_selections[id] = None
        /\ overlay'.field_edits[id] = None
        /\ id \notin overlay'.bms_edits
    BY <1>1, <1>2, <1>9 DEF Settled, IndInv, OverlayInv, EntriesOfActiveRows
  <2>2. EditsOf(overlay', id) = NoEdits
    BY <2>1 DEF EditsOf
  <2>3. /\ items'[sn].of = 0
        /\ items'[sn].description = None
        /\ items'[sn].number = [k \in Numbers |-> NoNumber]
        /\ items'[sn].hs = None
        /\ items'[sn].bms = None
    BY <1>14, <2>1, <2>2 DEF Row, NoEdits
  <2> QED BY <2>3 DEF Table!Untouched
<1>17. sn \in DOMAIN items'
  BY <1>3, <1>11
<1>18. Len(items') = Len(items) + 1
  BY <1>13
<1>19. overlay'.shipment_override = overlay.shipment_override /\ evidence'.version = evidence.version
  BY <1>1
<1> QED BY <1>13, <1>15, <1>16, <1>17, <1>18, <1>19 DEF Table!Add, Table!RemoveAt, RemoveAt

LEMMA DeleteIsDelete ==
    ASSUME Settled, Next, NEW sn \in DOMAIN Current, DeleteItem(Current[sn], sn)
    PROVE  Table!Delete
<1> DEFINE id    == Current[sn]
           order == Without(Current, id)
           m     == Len(Current) - 1
<1>0. TableFits /\ TableFits'
  BY NextRows
<1>1. /\ evidence' = evidence
      /\ Len(Current) > 1
      /\ overlay'.ordered_item_ids = order
      /\ overlay'.ordered_item_ids # <<>>
      /\ \A x \in ManualIds : x # id => overlay'.manual_items[x] = overlay.manual_items[x]
      /\ \A x \in ItemIds \ {id} :
            /\ overlay'.hs_selections[x] = overlay.hs_selections[x]
            /\ overlay'.field_edits[x] = overlay.field_edits[x]
            /\ x \in overlay'.bms_edits <=> x \in overlay.bms_edits
      /\ overlay'.coo_all = overlay.coo_all
      /\ overlay'.shipment_override = overlay.shipment_override
  BY DeleteLeaves
<1>2. /\ Current \in Seq(ItemIds) /\ Len(Current) \in Nat /\ m \in Nat /\ sn \in 1..(m + 1)
      /\ DOMAIN Current = 1..(m + 1)
      /\ \A i, j \in DOMAIN Current : Current[i] = Current[j] => i = j
  BY <1>0, <1>1 DEF TableFits, Lists, IsInjective
<1>3. order = RemoveAt(Current, sn)
  <2>1. (CHOOSE i \in DOMAIN Current : Current[i] = id) = sn
    BY <1>2
  <2> QED BY <2>1 DEF Without
<1>4. /\ order \in Seq(ItemIds)
      /\ Len(order) = m
      /\ \A j \in 1..m : order[j] = IF j < sn THEN Current[j] ELSE Current[j + 1]
  <2>1. Current \in Seq(ItemIds) /\ sn \in 1..Len(Current)
    BY <1>2
  <2>2. /\ RemoveAt(Current, sn) \in Seq(ItemIds)
        /\ Len(RemoveAt(Current, sn)) = Len(Current) - 1
        /\ \A j \in 1..(Len(Current) - 1) :
              RemoveAt(Current, sn)[j] = IF j < sn THEN Current[j] ELSE Current[j + 1]
    BY <2>1, RemoveAtElements
  <2> HIDE DEF order
  <2> QED BY <1>3, <2>2
<1>5. Current' = order
  BY <1>0, <1>1 DEF TableFits, ShownIds
<1>6. items' = [j \in 1..m |-> Row(evidence', overlay', order[j])]
  BY <1>0, <1>4, <1>5 DEF TableFits
<1>7. items = [j \in 1..(m + 1) |-> Row(evidence, overlay, Current[j])]
  BY <1>0, <1>2 DEF TableFits
<1>8. \A x \in ItemIds : x # id => Row(evidence', overlay', x) = Row(evidence, overlay, x)
  BY <1>1, RowStays
<1>9. \A i \in 1..(m + 1) : Current[i] \in ItemIds /\ (i # sn => Current[i] # id)
  BY <1>2, ElementOfSeq
<1> HIDE DEF order, m, id
<1>10. /\ DOMAIN items' = 1..m /\ items' \in [1..m -> AnyRow]
       /\ DOMAIN items = 1..(m + 1) /\ items \in [1..(m + 1) -> AnyRow]
  <2>1. \A j \in 1..m : order[j] \in ItemIds
    BY <1>4, ElementOfSeq
  <2> QED BY <1>6, <1>7, <1>9, <2>1 DEF AnyRow
<1>11. ASSUME NEW i \in 1..m
       PROVE  items'[i] = IF i < sn THEN items[i] ELSE items[i + 1]
  <2>1. items'[i] = Row(evidence', overlay', order[i])
    BY <1>6
  <2>2. CASE i < sn
    <3>1. i \in 1..(m + 1) /\ i # sn
      BY <1>2, <2>2
    <3>2. order[i] = Current[i]
      BY <1>4, <2>2
    <3> QED BY <1>7, <1>8, <1>9, <2>1, <2>2, <3>1, <3>2
  <2>3. CASE ~(i < sn)
    <3>1. i + 1 \in 1..(m + 1) /\ i + 1 # sn
      BY <1>2, <2>3
    <3>2. order[i] = Current[i + 1]
      BY <1>4, <2>3
    <3> QED BY <1>7, <1>8, <1>9, <2>1, <2>3, <3>1, <3>2
  <2> QED BY <2>2, <2>3
<1>12. RemoveAt(items, sn) = items' /\ Len(items) = m + 1
  <2>1. Gone(items', items, m, sn)
    BY <1>11 DEF Gone
  <2>2. /\ items' \in Seq(AnyRow) /\ Len(items') = m
        /\ items \in Seq(AnyRow) /\ Len(items) = m + 1
    BY <1>2, <1>10, FirstNumbers
  <2>3. Len(items) = Len(items') + 1 /\ sn \in 1..Len(items) /\ Gone(items', items, Len(items'), sn)
    BY <1>2, <2>1, <2>2
  <2> QED BY <2>2, <2>3, RowGone
<1>13. Len(items) > 1 /\ sn \in DOMAIN items
  BY <1>1, <1>2, <1>10, <1>12 DEF m
<1>14. overlay'.shipment_override = overlay.shipment_override /\ evidence'.version = evidence.version
  BY <1>1
<1> QED BY <1>12, <1>13, <1>14 DEF Table!Delete, Table!RemoveAt, RemoveAt

\* The table starts empty, and every step is one of its own.
LEMMA TableInit == Init => Table!Init
  BY DEF Init, EmptyOverlay, Table!Init

LEMMA TableStep == Settled /\ [Next]_vars => [Table!Next]_(Table!tableVars)
<1> SUFFICES ASSUME Settled, [Next]_vars PROVE [Table!Next]_(Table!tableVars)
  OBVIOUS
<1>1. CASE UNCHANGED vars
  BY <1>1 DEF vars, Table!tableVars
<1>2. CASE Next
  <2>1. ASSUME NEW id \in ManualIds, NEW coo \in {""} \cup Countries,
               NEW sn \in 1..(Len(Current) + 1), AddItem(sn, id, coo)
        PROVE  Table!Next
    BY <1>2, <2>1, AddLeaves, AddIsAdd DEF Table!Next
  <2>2. ASSUME NEW sn \in DOMAIN Current, DeleteItem(Current[sn], sn) PROVE Table!Next
    BY <1>2, <2>2, DeleteIsDelete DEF Table!Next
  <2>3. ASSUME NEW id \in Range(Current), NEW r \in Requests, EditItem(id, r)
        PROVE  Table!Next
    BY <1>2, <2>3, EditIsEdit DEF Table!Next
  <2>4. ASSUME NEW c \in Countries, SetAllCoo(c) PROVE Table!Next
    BY <1>2, <2>4, SetAllCooIsSetAllCoo DEF Table!Next
  <2>5. ASSUME NEW t \in Totals, SetShipmentTotals(t) PROVE Table!Next
    BY <1>2, <2>5, SetTotalsIsSetTotals DEF Table!Next
  <2>6. ASSUME NEW id \in Range(Current), NEW code \in Codes, SelectHs(id, code)
        PROVE  Table!Next
    <3>1. PICK at \in DOMAIN items : Current[at] = id
      BY DEF Range, Current
    <3> QED BY <1>2, <2>6, <3>1, SelectedIsSelectHs DEF SelectHs, Table!Next
  <2>7. ASSUME NEW sns \in SUBSET DOMAIN Current, NEW code \in Codes, SelectHsRange(sns, code)
        PROVE  Table!Next
    <3>1. PICK at \in sns : at \in DOMAIN items
      BY <2>7 DEF SelectHsRange, Current
    <3>2. Current[at] \in {Current[sn] : sn \in sns}
      OBVIOUS
    <3> QED BY <1>2, <2>7, <3>1, <3>2, SelectedIsSelectHs DEF SelectHsRange, Table!Next
  <2>8. CASE BmsStep
    BY <1>2, <2>8, BmsIsEditBms DEF Table!Next
  <2>9. ASSUME NEW count \in 0..MaxItems, NEW lineage \in Lineages,
               InvoiceEvidence(count, lineage)
        PROVE  Table!Next
    BY <1>2, <2>9, InvoiceIsNewItems DEF Table!Next
  <2>10. CASE ShipmentEvidence
    BY <1>2, <2>10, ShipmentIsNewShipment DEF Table!Next
  <2> QED BY <1>2, <2>1, <2>2, <2>3, <2>4, <2>5, <2>6, <2>7, <2>8, <2>9, <2>10
          DEF Next, ReviewerStep, EvidenceStep
<1> QED BY <1>1, <1>2

\* The overlay implements the table the reviewer is promised: whatever it
\* stores for whom, every operation changes the rows and the columns it is
\* about and no others.
THEOREM OverlayImplementsTable == Spec => ImplementsItemTable
<1> QED BY TableInit, TableStep, OverlaySettles, PTL DEF Spec, ImplementsItemTable, Table!Spec

(***************************************************************************)
(* What the declaration is made of                                         *)
(***************************************************************************)
LEMMA DeclaredStep ==
    ASSUME Settled, Next, Declared' # Declared
    PROVE  evidence' # evidence \/ overlay'.revision > overlay.revision
<1>0. /\ IndInv /\ TypeOK /\ overlay.revision \in Nat
      /\ TableFits /\ TableFits'
  BY NextRows DEF Settled, IndInv, OverlayInv, TypeOK, Overlay
<1>1. CASE ReviewerStep
  BY <1>0, <1>1, ReviewerRaises
<1>2. CASE BmsStep
  <2>1. /\ evidence' = evidence
        /\ overlay'.ordered_item_ids = overlay.ordered_item_ids
        /\ overlay'.manual_items = overlay.manual_items
        /\ overlay'.hs_selections = overlay.hs_selections
        /\ overlay'.field_edits = overlay.field_edits
        /\ overlay'.coo_all = overlay.coo_all
        /\ overlay'.shipment_override = overlay.shipment_override
    BY <1>2, BmsLeaves
  <2>2. /\ DOMAIN items' = DOMAIN items
        /\ \A i \in DOMAIN items : /\ Current[i] \in ItemIds
                                   /\ items[i] = Row(evidence, overlay, Current[i])
                                   /\ items'[i] = Row(evidence', overlay', Current[i])
    BY <1>0, <2>1, SameOrder
  <2>3. \A x : EditsOf(overlay', x) = EditsOf(overlay, x) /\ Coo(overlay', x) = Coo(overlay, x)
    BY <2>1 DEF EditsOf, Coo
  <2>4. \A i \in DOMAIN items : [items'[i] EXCEPT !.bms = None] = [items[i] EXCEPT !.bms = None]
    BY <2>1, <2>2, <2>3 DEF Row
  <2>5. Declared' = Declared
    BY <2>1, <2>2, <2>4 DEF Declared
  <2> QED BY <2>5
<1>3. CASE EvidenceStep
  <2>1. CASE overlay' = overlay
    <3>1. CASE evidence' = evidence
      <4>1. items' = CurrentRows(evidence, overlay) /\ items = CurrentRows(evidence, overlay)
        BY <1>0, <2>1, <3>1 DEF Next, IndInv
      <4> QED BY <2>1, <4>1 DEF Declared
    <3> QED BY <3>1
  <2> QED BY <1>0, <1>3, <2>1, EvidenceAnnounces
<1> QED BY <1>1, <1>2, <1>3 DEF Next

\* The fingerprint sees every change of what it stands for: the rows and the
\* totals never change while evidence and revision stand still.
THEOREM RevisionTells == Spec => RevisionTellsChange
<1> DEFINE Step == Declared' # Declared
                     => evidence' # evidence \/ overlay'.revision > overlay.revision
<1>1. Settled /\ [Next]_vars => [Step]_vars
  BY DeclaredStep
<1> QED BY <1>1, OverlaySettles, PTL DEF Spec, RevisionTellsChange
=============================================================================
