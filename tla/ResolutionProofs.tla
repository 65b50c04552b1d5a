---------------------------- MODULE ResolutionProofs ----------------------------
(***************************************************************************)
(* Proofs about what a review is computed of (Shipment's Context), for any  *)
(* documents and entries: the items, the evidence of the packing lists, the *)
(* shipment's totals and the freight candidates are whole figures, the      *)
(* codes official ones; of the air waybills the lightest decides, in        *)
(* whatever order they were uploaded; and what the packing lists print is   *)
(* neither lost nor counted twice.                                          *)
(***************************************************************************)
EXTENDS Shipment, AllocationProofs

-----------------------------------------------------------------------------
(* Figures of finite sets.                                                  *)

\* Of finitely many items one has the greatest figure.
LEMMA GreatestOf ==
    ASSUME NEW S, IsFiniteSet(S), S # {}, NEW f, Ints(f, S)
    PROVE  \E x \in S : \A y \in S : f[y] <= f[x]
<1> DEFINE Good == {s \in SUBSET S : s = {} \/ \E x \in s : \A y \in s : f[y] <= f[x]}
<1>1. {} \in Good
  OBVIOUS
<1>2. ASSUME NEW s \in SUBSET S, NEW x \in s, s \ {x} \in Good PROVE s \in Good
  <2>1. \A y \in s : f[y] \in Int
    BY DEF Ints
  <2>2. CASE s \ {x} = {}
    BY <2>1, <2>2
  <2>3. ASSUME NEW z \in s \ {x}, \A y \in s \ {x} : f[y] <= f[z] PROVE s \in Good
    BY <2>1, <2>3
  <2> QED BY <1>2, <2>2, <2>3
<1>3. S \in Good
  <2> HIDE DEF Good
  <2> QED BY <1>1, <1>2, SumInduction
<1> QED BY <1>3

\* The greatest and the least of finitely many numbers.
LEMMA ExtremesOf ==
    ASSUME NEW S \in SUBSET Int, IsFiniteSet(S), S # {}
    PROVE  /\ Max(S) \in S /\ \A y \in S : y <= Max(S)
           /\ Min(S) \in S /\ \A y \in S : Min(S) <= y
<1>1. \E x \in S : \A y \in S : y <= x
  <2> DEFINE f == [x \in S |-> x]
  <2>1. Ints(f, S) /\ \A x \in S : f[x] = x
    BY DEF Ints
  <2> HIDE DEF f
  <2>2. PICK x \in S : \A y \in S : f[y] <= f[x]
    BY <2>1, GreatestOf
  <2> QED BY <2>1, <2>2
<1>2. \E x \in S : \A y \in S : x <= y
  <2> DEFINE f == [x \in S |-> -x]
  <2>1. Ints(f, S) /\ \A x \in S : f[x] = -x
    BY DEF Ints
  <2> HIDE DEF f
  <2>2. PICK x \in S : \A y \in S : f[y] <= f[x]
    BY <2>1, GreatestOf
  <2>3. \A y \in S : x <= y
    BY <2>1, <2>2
  <2> QED BY <2>3
<1>3. \E x \in S : \A y \in S : x >= y
  BY <1>1
<1>4. Max(S) \in S /\ \A y \in S : Max(S) >= y
  BY <1>3 DEF Max
<1>5. Min(S) \in S /\ \A y \in S : Min(S) =< y
  BY <1>2 DEF Min
<1> QED BY <1>4, <1>5

-----------------------------------------------------------------------------
(* Sequences, what a concatenation and a selection are made of; with them   *)
(* the invoices of a job are lists of rows as the extraction yields them.   *)

\* The operators of the instances are the library's.
LEMMA SameFlattening ==
    ASSUME NEW ss PROVE I!FlattenSeq(ss) = FlattenSeq(ss) /\ P!FlattenSeq(ss) = FlattenSeq(ss)
BY DEF FlattenSeq, I!FlattenSeq, P!FlattenSeq

\* The selected entries of a sequence make a sequence.
LEMMA SelectedTyped ==
    ASSUME NEW S, NEW s, NEW N \in Nat, DOMAIN s = 1..N, NEW A,
           \A k \in 1..N : k \in A => s[k] \in S
    PROVE  I!EntriesAt(s, A) \in Seq(S)
<1> DEFINE ss == [k \in DOMAIN s |-> IF k \in A THEN << s[k] >> ELSE << >>]
<1>1. \A k \in 1..N : ss[k] \in Seq(S)
  OBVIOUS
<1>2. DOMAIN ss = 1..N /\ ss = [k \in 1..N |-> ss[k]]
  OBVIOUS
<1>3. I!EntriesAt(s, A) = FlattenSeq(ss)
  BY SameFlattening DEF I!EntriesAt
<1> HIDE DEF ss
<1> QED BY <1>1, <1>2, <1>3, FlattenTyped

Line == Doc!InvoiceLine

\* The payloads of a role are what the extraction of its files yields.
LEMMA PayloadsTyped ==
    ASSUME NEW files \in Seq(DOMAIN Document), NEW role, NEW S,
           \A f \in DOMAIN Document : Document[f].role = role => Document[f].body \in S
    PROVE  Payloads(files, role) \in Seq(S)
<1> DEFINE bodies == [k \in DOMAIN files |-> Document[files[k]].body]
           A == {k \in DOMAIN files : Document[files[k]].role = role}
<1>1. PICK N \in Nat : DOMAIN files = 1..N /\ \A k \in 1..N : files[k] \in DOMAIN Document
  BY LenProperties, ElementOfSeq
<1>2. DOMAIN bodies = 1..N /\ \A k \in 1..N : k \in A => bodies[k] \in S
  BY <1>1
<1>3. Payloads(files, role) = I!EntriesAt(bodies, A)
  BY DEF Payloads
<1> HIDE DEF bodies, A
<1> QED BY <1>1, <1>2, <1>3, SelectedTyped

LEMMA SameCardinality ==
    ASSUME NEW S PROVE I!Cardinality(S) = Cardinality(S) /\ P!Cardinality(S) = Cardinality(S)
BY DEF I!Cardinality, P!Cardinality, Cardinality

\* A list of invoices each with rows as the extraction yields them.
Invoices(vs) ==
    \E N \in Nat : DOMAIN vs = 1..N /\ \A k \in 1..N : vs[k].rows \in Seq(Line)

LEMMA VirtualsTyped ==
    ASSUME NEW chunk \in Doc!InvoiceChunk
    PROVE  Invoices(I!VirtualInvoices(chunk))
<1> DEFINE subs == I!Anchored(chunk)
           mine(k) == {n \in DOMAIN chunk.rows : I!BucketOf(subs, chunk.rows[n].page) = k}
           vs == I!VirtualInvoices(chunk)
<1>1. chunk.rows \in Seq(Line) /\ chunk.subs \in Seq(Doc!SubInvoice)
  BY DEF Doc!InvoiceChunk, Line
<1>2. PICK N \in Nat : DOMAIN chunk.rows = 1..N /\ \A k \in 1..N : chunk.rows[k] \in Line
  BY <1>1, LenProperties, ElementOfSeq
<1>3. \E M \in Nat : DOMAIN subs = 1..M
  <2> DEFINE A == {k \in DOMAIN chunk.subs : chunk.subs[k].page > 0}
  <2>1. IsFiniteSet(A)
    <3>1. PICK M \in Nat : DOMAIN chunk.subs = 1..M
      BY <1>1, LenProperties
    <3>2. IsFiniteSet(1..M)
      BY FS_Interval
    <3> QED BY <3>1, <3>2, FS_Subset
  <2>2. Cardinality(A) \in Nat
    BY <2>1, FS_CardinalityType
  <2>3. DOMAIN subs = 1..Cardinality(A)
    BY SameCardinality, Zenon DEF I!Anchored
  <2> QED BY <2>2, <2>3
<1>4. CASE subs = << >>
  <2>1. vs = << [number |-> chunk.doc.number, kind |-> chunk.doc.kind,
                 currency |-> chunk.doc.currency, totals |-> chunk.doc.totals,
                 rows |-> chunk.rows] >>
    BY <1>4 DEF I!VirtualInvoices
  <2>2. DOMAIN vs = 1..1 /\ vs[1].rows = chunk.rows
    BY <2>1
  <2>3. \A k \in 1..1 : vs[k].rows \in Seq(Line)
    BY <1>1, <2>2
  <2>4. Invoices(vs)
    <3> HIDE DEF vs
    <3> QED BY <2>2, <2>3 DEF Invoices
  <2> QED BY <2>4
<1>5. CASE subs # << >>
  <2>1. /\ DOMAIN vs = DOMAIN subs
        /\ \A k \in DOMAIN subs : vs[k].rows = I!EntriesAt(chunk.rows, mine(k))
    BY <1>5 DEF I!VirtualInvoices
  <2>2. ASSUME NEW k \in DOMAIN subs PROVE vs[k].rows \in Seq(Line)
    <3>1. I!EntriesAt(chunk.rows, mine(k)) \in Seq(Line)
      <4> HIDE DEF mine
      <4> QED BY <1>2, SelectedTyped
    <3> QED BY <2>1, <3>1
  <2>3. Invoices(vs)
    <3> HIDE DEF vs, subs
    <3> QED BY <1>3, <2>1, <2>2 DEF Invoices
  <2> QED BY <2>3
<1> QED BY <1>4, <1>5

\* Those of them that are kept.
LEMMA KeptTyped ==
    ASSUME NEW vs, Invoices(vs)
    PROVE  Invoices(I!KeptVirtuals(vs))
<1> DEFINE A == {k \in DOMAIN vs : I!GoodsKind(vs[k].kind)}
           keep == I!EntriesAt(vs, A)
           S == {vs[k] : k \in DOMAIN vs}
<1>1. I!KeptVirtuals(vs) = keep \/ I!KeptVirtuals(vs) = vs
  BY DEF I!KeptVirtuals
<1>2. PICK N \in Nat : DOMAIN vs = 1..N /\ \A k \in 1..N : vs[k].rows \in Seq(Line)
  BY DEF Invoices
<1>3. keep \in Seq(S)
  <2>1. \A k \in 1..N : k \in A => vs[k] \in S
    BY <1>2
  <2> HIDE DEF S, A
  <2> QED BY <1>2, <2>1, SelectedTyped
<1> HIDE DEF keep
<1>4. \E M \in Nat : DOMAIN keep = 1..M /\ \A k \in 1..M : keep[k] \in S
  <2> HIDE DEF S
  <2> QED BY <1>3, LenProperties, ElementOfSeq
<1>5. \A v \in S : v.rows \in Seq(Line)
  BY <1>2
<1>6. Invoices(keep)
  BY <1>4, <1>5 DEF Invoices
<1> QED BY <1>1, <1>6

\* The goods rows of an invoice.
LEMMA GoodsTyped ==
    ASSUME NEW v, v.rows \in Seq(Line)
    PROVE  I!GoodsRows(v) \in Seq(Line)
<1>1. PICK N \in Nat : DOMAIN v.rows = 1..N /\ \A k \in 1..N : v.rows[k] \in Line
  BY LenProperties, ElementOfSeq
<1>2. PICK rows, A : rows = v.rows /\ A = {k \in DOMAIN v.rows : I!Goods(v.rows[k])}
  OBVIOUS
<1>3. I!GoodsRows(v) = I!EntriesAt(rows, A)
  BY <1>2 DEF I!GoodsRows
<1> QED BY <1>1, <1>2, <1>3, SelectedTyped

\* A list of items, each with a row as the extraction yields it.
Entries(list) ==
    \E N \in Nat : DOMAIN list = 1..N /\ \A k \in 1..N : list[k].row \in Line

\* Numbered invoices: the documents' invoices in a row.
Numbered(vs) ==
    \E N \in Nat : DOMAIN vs = 1..N /\ \A k \in 1..N : vs[k].inv.rows \in Seq(Line)

LEMMA NumberedTyped ==
    ASSUME NEW chunks \in Seq(Doc!InvoiceChunk)
    PROVE  Numbered(I!VirtualsOf(chunks))
<1> DEFINE kept(k) == I!KeptVirtuals(I!VirtualInvoices(chunks[k]))
           of(k) == [j \in DOMAIN kept(k) |-> [doc |-> k, inv |-> kept(k)[j]]]
           ss == [k \in DOMAIN chunks |-> of(k)]
           S == UNION {{of(k)[j] : j \in DOMAIN kept(k)} : k \in DOMAIN chunks}
<1>1. PICK N \in Nat : DOMAIN chunks = 1..N /\ \A k \in 1..N : chunks[k] \in Doc!InvoiceChunk
  BY LenProperties, ElementOfSeq
<1>2. \A k \in 1..N : Invoices(kept(k))
  BY <1>1, VirtualsTyped, KeptTyped
<1>3. ASSUME NEW k \in 1..N PROVE of(k) \in Seq(S)
  <2>1. PICK M \in Nat : DOMAIN kept(k) = 1..M
    <3> HIDE DEF kept
    <3> QED BY <1>2 DEF Invoices
  <2>2. k \in DOMAIN chunks
    BY <1>1
  <2>3. \A j \in DOMAIN kept(k) : of(k)[j] \in S
    <3> HIDE DEF of, kept
    <3> QED BY <2>2
  <2>4. DOMAIN of(k) = 1..M /\ of(k) = [j \in 1..M |-> of(k)[j]]
    <3> HIDE DEF kept
    <3> QED BY <2>1
  <2> HIDE DEF of, S, kept
  <2>5. of(k) \in [1..M -> S]
    BY <2>1, <2>3, <2>4
  <2> QED BY <2>5
<1>4. \A x \in S : x.inv.rows \in Seq(Line)
  <2> SUFFICES ASSUME NEW k \in DOMAIN chunks, NEW j \in DOMAIN kept(k)
               PROVE  of(k)[j].inv.rows \in Seq(Line)
    <3> HIDE DEF of, kept
    <3> QED OBVIOUS
  <2>1. of(k)[j].inv = kept(k)[j]
    <3> HIDE DEF kept
    <3> QED OBVIOUS
  <2>2. kept(k)[j].rows \in Seq(Line)
    <3> HIDE DEF kept
    <3> QED BY <1>1, <1>2 DEF Invoices
  <2> HIDE DEF of, kept
  <2> QED BY <2>1, <2>2
<1>5. I!VirtualsOf(chunks) = FlattenSeq(ss)
  BY SameFlattening DEF I!VirtualsOf
<1>6. DOMAIN ss = 1..N /\ ss = [k \in 1..N |-> ss[k]] /\ \A k \in 1..N : ss[k] \in Seq(S)
  <2> HIDE DEF of, S
  <2> QED BY <1>1, <1>3
<1> HIDE DEF ss, S
<1>7. FlattenSeq(ss) \in Seq(S)
  BY <1>6, FlattenTyped
<1>8. PICK M \in Nat : DOMAIN FlattenSeq(ss) = 1..M /\ \A k \in 1..M : FlattenSeq(ss)[k] \in S
  BY <1>7, LenProperties, ElementOfSeq
<1>9. Numbered(FlattenSeq(ss))
  BY <1>4, <1>8 DEF Numbered
<1> QED BY <1>5, <1>9

LEMMA ItemsTyped ==
    ASSUME NEW vs, Numbered(vs)
    PROVE  Entries(I!ItemsOf(vs))
<1> DEFINE goods(k) == I!GoodsRows(vs[k].inv)
           of(k) == [j \in DOMAIN goods(k) |->
                        [number |-> vs[k].inv.number, doc |-> vs[k].doc, row |-> goods(k)[j]]]
           ss == [k \in DOMAIN vs |-> of(k)]
           S == UNION {{of(k)[j] : j \in DOMAIN goods(k)} : k \in DOMAIN vs}
<1>1. PICK N \in Nat : DOMAIN vs = 1..N /\ \A k \in 1..N : vs[k].inv.rows \in Seq(Line)
  BY DEF Numbered
<1>2. \A k \in 1..N : goods(k) \in Seq(Line)
  BY <1>1, GoodsTyped
<1>3. ASSUME NEW k \in 1..N PROVE of(k) \in Seq(S)
  <2>1. PICK M \in Nat : DOMAIN goods(k) = 1..M
    <3> HIDE DEF goods
    <3> QED BY <1>2, LenProperties
  <2>2. k \in DOMAIN vs
    BY <1>1
  <2>3. \A j \in DOMAIN goods(k) : of(k)[j] \in S
    <3> HIDE DEF of, goods
    <3> QED BY <2>2
  <2>4. DOMAIN of(k) = 1..M /\ of(k) = [j \in 1..M |-> of(k)[j]]
    <3> HIDE DEF goods
    <3> QED BY <2>1
  <2> HIDE DEF of, S, goods
  <2>5. of(k) \in [1..M -> S]
    BY <2>1, <2>3, <2>4
  <2> QED BY <2>5
<1>4. \A x \in S : x.row \in Line
  <2> SUFFICES ASSUME NEW k \in DOMAIN vs, NEW j \in DOMAIN goods(k)
               PROVE  of(k)[j].row \in Line
    <3> HIDE DEF of, goods
    <3> QED OBVIOUS
  <2>1. of(k)[j].row = goods(k)[j]
    <3> HIDE DEF goods
    <3> QED OBVIOUS
  <2>2. goods(k)[j] \in Line
    <3> HIDE DEF goods
    <3>1. goods(k) \in Seq(Line) /\ j \in 1..Len(goods(k))
      BY <1>1, <1>2, LenProperties
    <3> QED BY <3>1, ElementOfSeq
  <2> HIDE DEF of, goods
  <2> QED BY <2>1, <2>2
<1>5. I!ItemsOf(vs) = FlattenSeq(ss)
  BY SameFlattening DEF I!ItemsOf
<1>6. DOMAIN ss = 1..N /\ ss = [k \in 1..N |-> ss[k]] /\ \A k \in 1..N : ss[k] \in Seq(S)
  <2> HIDE DEF of, S
  <2> QED BY <1>1, <1>3
<1> HIDE DEF ss, S
<1>7. FlattenSeq(ss) \in Seq(S)
  BY <1>6, FlattenTyped
<1>8. PICK M \in Nat : DOMAIN FlattenSeq(ss) = 1..M /\ \A k \in 1..M : FlattenSeq(ss)[k] \in S
  BY <1>7, LenProperties, ElementOfSeq
<1>9. Entries(FlattenSeq(ss))
  BY <1>4, <1>8 DEF Entries
<1> QED BY <1>5, <1>9

\* The documents that count are some of those there are.
LEMMA FinalTyped ==
    ASSUME NEW chunks \in Seq(Doc!InvoiceChunk)
    PROVE  I!FinalChunks(chunks) \in Seq(Doc!InvoiceChunk)
<1> DEFINE A == {k \in DOMAIN chunks : I!GoodsKind(chunks[k].doc.kind)}
<1>1. PICK N \in Nat : DOMAIN chunks = 1..N /\ \A k \in 1..N : chunks[k] \in Doc!InvoiceChunk
  BY LenProperties, ElementOfSeq
<1>2. I!EntriesAt(chunks, A) \in Seq(Doc!InvoiceChunk)
  <2> HIDE DEF A
  <2> QED BY <1>1, SelectedTyped
<1>3. I!FinalChunks(chunks) = I!EntriesAt(chunks, A) \/ I!FinalChunks(chunks) = chunks
  BY DEF I!FinalChunks
<1> HIDE DEF A
<1> QED BY <1>2, <1>3

\* The item list of the invoices: as many rows, each as it was extracted.
LEMMA InvoicesTyped ==
    ASSUME NEW chunks \in Seq(Doc!InvoiceChunk)
    PROVE  Entries(I!FinalizeInvoices(chunks).items)
<1>1. I!FinalChunks(chunks) \in Seq(Doc!InvoiceChunk)
  BY FinalTyped
<1>2. PICK vs : vs = I!VirtualsOf(I!FinalChunks(chunks))
  OBVIOUS
<1>3. Entries(I!ItemsOf(vs))
  BY <1>1, <1>2, NumberedTyped, ItemsTyped
<1>4. PICK list, result :
          /\ list = I!ItemsOf(vs) /\ result = I!FinalizeInvoices(chunks)
          /\ result = I!InvoiceResult(vs, list)
  BY <1>2 DEF I!FinalizeInvoices
<1>5. result.items = list
  <2>1. I!InvoiceResult(vs, list).items = list
    BY DEF I!InvoiceResult
  <2> QED BY <1>4, <2>1
<1> QED BY <1>3, <1>4, <1>5

-----------------------------------------------------------------------------
(* The code of an item is an official one, or none.                         *)

Codes == DOMAIN Official \cup {<< >>}

\* The best code of a band of official codes is one of them.
LEMMA PickedIsOfficial ==
    ASSUME NEW desc \in Texts, NEW band \in SUBSET DOMAIN Official, band # {}
    PROVE  R!PickWithinBand(desc, band) \in DOMAIN Official
<1> DEFINE score == Score[desc]
           best == {c \in band : \A d \in band : score[d] <= score[c]}
           specific == {c \in best : ~Official[c].other}
           pool == IF specific = {} THEN best ELSE specific
           first == CHOOSE c \in pool : \A d \in pool : Official[c].rank <= Official[d].rank
           others == {c \in band : Official[c].other}
           last == IF others = {} THEN band ELSE others
           rank == [c \in DOMAIN Official |-> Official[c].rank]
           back == [c \in DOMAIN Official |-> -Official[c].rank]
<1>1. Ints(score, DOMAIN Official) /\ Ints(rank, DOMAIN Official) /\ Ints(back, DOMAIN Official)
  BY OfficialAssumption DEF Ints
<1>2. IsFiniteSet(DOMAIN Official)
  BY OfficialAssumption
<1>3. best # {}
  <2>1. IsFiniteSet(band) /\ Ints(score, band)
    BY <1>1, <1>2, FS_Subset DEF Ints
  <2> HIDE DEF score
  <2>2. \E x \in band : \A y \in band : score[y] <= score[x]
    BY <2>1, GreatestOf
  <2> QED BY <2>2
<1>4. pool \in SUBSET DOMAIN Official /\ pool # {}
  <2> HIDE DEF score
  <2> QED BY <1>3
<1>5. first \in DOMAIN Official
  <2> HIDE DEF pool
  <2>1. IsFiniteSet(pool) /\ Ints(back, pool)
    BY <1>1, <1>2, <1>4, FS_Subset DEF Ints
  <2>2. PICK x \in pool : \A y \in pool : back[y] <= back[x]
    <3> HIDE DEF back
    <3> QED BY <1>4, <2>1, GreatestOf
  <2>3. ASSUME NEW y \in pool PROVE Official[x].rank <= Official[y].rank
    <3>1. PICK a, b \in Int : a = Official[x].rank /\ b = Official[y].rank
      BY <1>4, OfficialAssumption
    <3>2. back[x] = -a /\ back[y] = -b
      BY <1>4, <3>1
    <3>3. -b <= -a
      BY <2>2, <3>2
    <3> QED BY <3>1, <3>3
  <2>4. first \in pool
    BY <2>2, <2>3
  <2> QED BY <1>4, <2>4
<1>6. R!OtherFallback(band) \in DOMAIN Official
  <2>1. last \in SUBSET DOMAIN Official /\ last # {}
    OBVIOUS
  <2>2. R!OtherFallback(band) = R!LastOf(last)
    BY DEF R!OtherFallback
  <2> HIDE DEF last
  <2>3. IsFiniteSet(last) /\ Ints(rank, last)
    BY <1>1, <1>2, <2>1, FS_Subset DEF Ints
  <2>4. PICK x \in last : \A y \in last : rank[y] <= rank[x]
    <3> HIDE DEF rank
    <3> QED BY <2>1, <2>3, GreatestOf
  <2>5. \A y \in last : Official[y].rank <= Official[x].rank
    BY <2>1, <2>4
  <2>6. R!LastOf(last) \in last
    BY <2>5 DEF R!LastOf
  <2> QED BY <2>1, <2>2, <2>6
<1>7. R!PickWithinBand(desc, band) \in {first, R!OtherFallback(band)}
  BY DEF R!PickWithinBand
<1> HIDE DEF first
<1> QED BY <1>5, <1>6, <1>7

\* A printed code that is completed is completed to an official one.
LEMMA CompletedIsOfficial ==
    ASSUME NEW printed, NEW desc \in Texts
    PROVE  R!CompleteViaPrefix(printed, desc).code \in Codes
<1> DEFINE tiers == {n \in 1..3 : n <= Len(printed) /\ R!Band(SubSeq(printed, 1, n)) # {}}
<1>1. CASE tiers = {}
  <2>1. R!CompleteViaPrefix(printed, desc) = R!Unresolved
    BY <1>1 DEF R!CompleteViaPrefix
  <2>2. R!Unresolved.code = R!NoCode
    BY DEF R!Unresolved, R!Resolution
  <2>3. R!NoCode = << >>
    BY DEF R!NoCode
  <2> QED BY <2>1, <2>2, <2>3 DEF Codes
<1>2. CASE tiers # {}
  <2>1. PICK n : n = Max(tiers)
    OBVIOUS
  <2>2. n \in tiers
    <3>1. tiers \in SUBSET Int /\ IsFiniteSet(tiers)
      <4>1. PICK m \in Nat : m = 3
        OBVIOUS
      <4>2. tiers \in SUBSET (1..m)
        BY <4>1
      <4>3. IsFiniteSet(1..m)
        BY FS_Interval
      <4> QED BY <4>2, <4>3, FS_Subset
    <3> HIDE DEF tiers
    <3> QED BY <1>2, <2>1, <3>1, ExtremesOf
  <2>3. R!CompleteViaPrefix(printed, desc) = R!CompletedFrom(printed, desc, n)
    <3>1. \A Q : R!Max(Q) = Max(Q)
      BY DEF R!Max, Max
    <3> QED BY <1>2, <2>1, <3>1 DEF R!CompleteViaPrefix
  <2> DEFINE band == IF Len(printed) > n /\ R!Band(printed) # {} THEN R!Band(printed)
                     ELSE R!Band(SubSeq(printed, 1, n))
  <2>4. band # {} /\ band \in SUBSET DOMAIN Official
    BY <2>2 DEF R!Band
  <2>5. R!CompletedFrom(printed, desc, n).code = R!PickWithinBand(desc, band)
    BY DEF R!CompletedFrom, R!Resolution
  <2> HIDE DEF band
  <2> QED BY <2>3, <2>4, <2>5, PickedIsOfficial DEF Codes
<1> QED BY <1>1, <1>2

\* So is what an item is resolved to, and what a reviewer makes of it.
LEMMA ResolvedIsOfficial ==
    ASSUME NEW printed, NEW desc \in Texts, NEW hist, NEW entry, NEW source
    PROVE  R!Reviewed(R!ResolveHs(printed, desc, hist), entry, source).code \in Codes
<1> DEFINE completed == R!CompleteViaPrefix(printed, desc)
           hs == R!ResolveHs(printed, desc, hist)
<1>1. completed.code \in Codes
  BY CompletedIsOfficial
<1>2. Guess[desc] \in Codes
  BY OfficialAssumption DEF Codes
<1>3. hs.code \in Codes
  <2>1. CASE printed \in DOMAIN Official
    <3>1. hs = R!Resolution(printed, "INVOICE_HS_EXACT", FALSE)
      BY <2>1 DEF R!ResolveHs
    <3> QED BY <2>1, <3>1 DEF R!Resolution, Codes
  <2>2. CASE printed \notin DOMAIN Official /\ completed # R!Unresolved
    <3>1. hs = completed
      BY <2>2 DEF R!ResolveHs
    <3> QED BY <1>1, <3>1
  <2>3. CASE /\ printed \notin DOMAIN Official /\ completed = R!Unresolved
             /\ desc \in DOMAIN hist /\ hist[desc] \in DOMAIN Official
    <3>1. hs = R!Resolution(hist[desc], "HISTORY", FALSE)
      BY <2>3 DEF R!ResolveHs
    <3> QED BY <2>3, <3>1 DEF R!Resolution, Codes
  <2>4. CASE /\ printed \notin DOMAIN Official /\ completed = R!Unresolved
             /\ ~(desc \in DOMAIN hist /\ hist[desc] \in DOMAIN Official)
    <3>1. hs \in {R!Resolution(Guess[desc], "SEMANTIC_DESCRIPTION", FALSE), R!Unresolved}
      BY <2>4 DEF R!ResolveHs
    <3>2. R!Unresolved.code = << >>
      BY DEF R!Unresolved, R!Resolution, R!NoCode
    <3>3. R!Resolution(Guess[desc], "SEMANTIC_DESCRIPTION", FALSE).code = Guess[desc]
      BY DEF R!Resolution
    <3> QED BY <1>2, <3>1, <3>2, <3>3 DEF Codes
  <2> QED BY <2>1, <2>2, <2>3, <2>4
<1> HIDE DEF hs
<1>4. R!Reviewed(hs, entry, source).code \in Codes
  <2>1. CASE entry \in DOMAIN Official
    BY <2>1 DEF R!Reviewed, R!Resolution, Codes
  <2>2. CASE entry \notin DOMAIN Official
    BY <1>3, <2>2 DEF R!Reviewed
  <2> QED BY <2>1, <2>2
<1> QED BY <1>4 DEF hs

-----------------------------------------------------------------------------
(* What the packing lists say of the items are whole figures.               *)

\* A row that was read: its carton group is one of its list.
GroupKey == Nat \X (DOMAIN GroupRange \cup {NoGroup})
PackRow == [text : Texts, qty : Int, gross : Int, net : Int, declared : Int, type : STRING,
            carton : Nat, group : GroupKey]

\* What the matching of the packing lists and the costs call a sum and a maximum.
LEMMA SameSums ==
    ASSUME NEW f PROVE P!SumFunction(f) = SumFunction(f) /\ R!SumFunction(f) = SumFunction(f)
BY DEF P!SumFunction, P!SumFunctionOnSet, P!FoldFunctionOnSet, P!MapThenFoldSet,
       R!SumFunction, R!SumFunctionOnSet, R!FoldFunctionOnSet, R!MapThenFoldSet,
       SumFunction, SumFunctionOnSet, FoldFunctionOnSet, MapThenFoldSet

LEMMA SameMax ==
    ASSUME NEW S PROVE P!Max(S) = Max(S) /\ R!Max(S) = Max(S) /\ T!Min(S) = Min(S)
BY DEF P!Max, R!Max, Max, T!Min, Min

\* A sum of whole figures is whole.
LEMMA FiguresAddUp ==
    ASSUME NEW f, IsFiniteSet(DOMAIN f), Ints(f, DOMAIN f)
    PROVE  SumFunction(f) \in Int
BY SumInt DEF SumFunction, Sum

\* A row as pass 1 leaves it, its group keyed by its list.
LEMMA ReadTyped ==
    ASSUME NEW row \in Doc!PackingRow, NEW kind, NEW k \in Nat
    PROVE  LET read == [P!ReadRow(row, kind) EXCEPT !.group = <<k, @>>]
           IN  /\ read \in PackRow /\ read.group = <<k, row.group>>
               /\ read.text = row.text /\ read.qty = row.qty /\ read.carton = row.carton
<1>1. row.declared \in Int
  BY DEF Doc!PackingRow
<1>2. PICK read : read = P!ReadRow(row, kind)
  OBVIOUS
<1>3. read \in {row, [row EXCEPT !.net = row.declared], [row EXCEPT !.gross = row.declared]}
  BY <1>2 DEF P!ReadRow
<1>4. /\ read \in Doc!PackingRow /\ read.group = row.group
      /\ read.text = row.text /\ read.qty = row.qty /\ read.carton = row.carton
  BY <1>1, <1>3 DEF Doc!PackingRow
<1>5. /\ [read EXCEPT !.group = <<k, @>>] \in PackRow
      /\ [read EXCEPT !.group = <<k, @>>].group = <<k, read.group>>
      /\ [read EXCEPT !.group = <<k, @>>].text = read.text
      /\ [read EXCEPT !.group = <<k, @>>].qty = read.qty
      /\ [read EXCEPT !.group = <<k, @>>].carton = read.carton
  BY <1>4 DEF PackRow, GroupKey, Doc!PackingRow
<1> QED BY <1>2, <1>4, <1>5

\* The rows of a list as they are read.
ListRead(lists, k) ==
    LET kind == P!ClassifyDeclared(lists[k].rows, [gross |-> lists[k].gross, net |-> lists[k].net])
    IN  [i \in DOMAIN lists[k].rows |->
            [P!ReadRow(lists[k].rows[i], kind) EXCEPT !.group = <<k, @>>]]

\* What a row that is read keeps of the line it is read from.
ReadOf(row, line, k) ==
    /\ row.group = <<k, line.group>>
    /\ row.text = line.text /\ row.qty = line.qty /\ row.carton = line.carton

LEMMA ListReadTyped ==
    ASSUME NEW lists \in Seq(Doc!PackingListChunk), NEW k \in DOMAIN lists
    PROVE  /\ ListRead(lists, k) \in Seq(PackRow)
           /\ DOMAIN ListRead(lists, k) = DOMAIN lists[k].rows
           /\ \A i \in DOMAIN lists[k].rows : ReadOf(ListRead(lists, k)[i], lists[k].rows[i], k)
<1> DEFINE kind == P!ClassifyDeclared(lists[k].rows,
                                      [gross |-> lists[k].gross, net |-> lists[k].net])
           read(i) == [P!ReadRow(lists[k].rows[i], kind) EXCEPT !.group = <<k, @>>]
<1>1. PICK N \in Nat : DOMAIN lists = 1..N /\ \A j \in 1..N : lists[j] \in Doc!PackingListChunk
  BY LenProperties, ElementOfSeq
<1>2. lists[k].rows \in Seq(Doc!PackingRow) /\ k \in Nat
  BY <1>1 DEF Doc!PackingListChunk
<1>3. PICK M \in Nat : /\ DOMAIN lists[k].rows = 1..M
                       /\ \A i \in 1..M : lists[k].rows[i] \in Doc!PackingRow
  BY <1>2, LenProperties, ElementOfSeq
<1>4. \A i \in 1..M : read(i) \in PackRow /\ ReadOf(read(i), lists[k].rows[i], k)
  <2> HIDE DEF kind
  <2> TAKE i \in 1..M
  <2>1. PICK row \in Doc!PackingRow : row = lists[k].rows[i]
    BY <1>3
  <2>2. PICK r : r = [P!ReadRow(row, kind) EXCEPT !.group = <<k, @>>]
    OBVIOUS
  <2>3. /\ r \in PackRow /\ r.group = <<k, row.group>>
        /\ r.text = row.text /\ r.qty = row.qty /\ r.carton = row.carton
    BY <1>2, <2>2, ReadTyped
  <2> QED BY <2>1, <2>2, <2>3 DEF ReadOf
<1>5. ListRead(lists, k) = [i \in 1..M |-> read(i)]
  BY <1>3 DEF ListRead
<1> HIDE DEF read
<1>6. ListRead(lists, k) \in [1..M -> PackRow]
  BY <1>4, <1>5
<1> QED BY <1>3, <1>4, <1>5, <1>6

\* The rows of the lists, one list after the other.
LEMMA RowsTyped ==
    ASSUME NEW lists \in Seq(Doc!PackingListChunk)
    PROVE  TrustedRows(lists) \in Seq(PackRow)
<1>1. PICK used : used = Trusted(lists) /\ used \in Seq(Doc!PackingListChunk)
  <2>1. << >> \in Seq(Doc!PackingListChunk)
    OBVIOUS
  <2> QED BY <2>1 DEF Trusted
<1> DEFINE ss == [k \in DOMAIN used |-> ListRead(used, k)]
<1>2. PICK N \in Nat : DOMAIN used = 1..N
  BY <1>1, LenProperties
<1>3. P!RowsRead(used) = FlattenSeq(ss)
  BY SameFlattening DEF P!RowsRead, ListRead
<1>4. DOMAIN ss = 1..N /\ ss = [k \in 1..N |-> ss[k]] /\ \A k \in 1..N : ss[k] \in Seq(PackRow)
  BY <1>1, <1>2, ListReadTyped
<1> HIDE DEF ss
<1>5. P!RowsRead(used) \in Seq(PackRow)
  BY <1>3, <1>4, FlattenTyped
<1> QED BY <1>1, <1>5 DEF TrustedRows

LEMMA ShareTyped ==
    ASSUME NEW total \in Int, NEW part \in Int, NEW whole \in Int, whole > 0
    PROVE  P!Share(total, part, whole) \in Int
<1>1. PICK num \in Int : num = 2 * total * part + whole
  OBVIOUS
<1>2. PICK den \in Int : den = 2 * whole /\ den > 0
  OBVIOUS
<1> QED BY <1>1, <1>2 DEF P!Share

\* The cartons of the rows, shared ones divided.
LEMMA CartonsTyped ==
    ASSUME NEW rows \in Seq(PackRow)
    PROVE  /\ DOMAIN P!SharedCartons(rows) = DOMAIN rows
           /\ \A i \in DOMAIN rows : P!SharedCartons(rows)[i] \in Int
<1> DEFINE Members(g) == {i \in DOMAIN rows : rows[i].group = g /\ rows[i].carton > 0}
           Figured(g) == {rows[i].carton : i \in Members(g)}
           all(g) == P!SumFunction([i \in Members(g) |-> rows[i].carton])
           groupTotal(g) ==
               IF P!Cardinality(Figured(g)) > 1 THEN all(g)
               ELSE IF GroupRange[g[2]] > 0 THEN GroupRange[g[2]]
               ELSE CHOOSE v \in Figured(g) : TRUE
           qty(g) == P!SumFunction([i \in Members(g) |-> rows[i].qty])
           part(i) ==
               LET g == rows[i].group
               IN  IF qty(g) > 0 THEN P!Share(groupTotal(g), rows[i].qty, qty(g))
                   ELSE P!Share(groupTotal(g), 1, P!Cardinality(Members(g)))
           rest(g, i) == P!SumFunction([j \in Members(g) \ {i} |-> part(j)])
           cartons(i) ==
               LET g == rows[i].group
               IN  IF g[2] = NoGroup \/ rows[i].carton = 0 THEN rows[i].carton
                   ELSE IF i # P!Max(Members(g)) THEN part(i)
                   ELSE groupTotal(g) - rest(g, i)
<1>1. P!SharedCartons(rows) = [i \in DOMAIN rows |-> cartons(i)]
  BY Zenon DEF P!SharedCartons
<1>2. PICK N \in Nat : DOMAIN rows = 1..N /\ \A i \in 1..N : rows[i] \in PackRow
  BY LenProperties, ElementOfSeq
<1>3. \A i \in DOMAIN rows : /\ rows[i].carton \in Nat /\ rows[i].qty \in Int
                            /\ rows[i].group[2] \in DOMAIN GroupRange \cup {NoGroup}
  BY <1>2 DEF PackRow, GroupKey
<1>4. \A g : IsFiniteSet(Members(g)) /\ Members(g) \in SUBSET DOMAIN rows
  <2>1. IsFiniteSet(1..N)
    BY FS_Interval
  <2> QED BY <1>2, <2>1, FS_Subset
<1>5. \A g : all(g) \in Int /\ qty(g) \in Int
  <2> TAKE g
  <2> DEFINE c == [i \in Members(g) |-> rows[i].carton]
             q == [i \in Members(g) |-> rows[i].qty]
  <2>1. DOMAIN c = Members(g) /\ DOMAIN q = Members(g) /\ Ints(c, Members(g)) /\ Ints(q, Members(g))
    BY <1>3 DEF Ints
  <2>2. all(g) = SumFunction(c) /\ qty(g) = SumFunction(q)
    BY SameSums
  <2> HIDE DEF c, q, all, qty, Members
  <2> QED BY <1>4, <2>1, <2>2, FiguresAddUp
<1>6. ASSUME NEW i \in DOMAIN rows, rows[i].group[2] # NoGroup, rows[i].carton > 0
      PROVE  groupTotal(rows[i].group) \in Int
  <2>1. i \in Members(rows[i].group)
    BY <1>6
  <2>2. rows[i].group[2] \in DOMAIN GroupRange
    BY <1>3, <1>6
  <2>3. PICK g : g = rows[i].group
    OBVIOUS
  <2>4. GroupRange[g[2]] \in Int
    BY <2>2, <2>3, GroupRangeAssumption
  <2>5. Figured(g) # {} /\ \A v \in Figured(g) : v \in Int
    BY <1>3, <2>1, <2>3
  <2> HIDE DEF Members, all
  <2>6. (CHOOSE v \in Figured(g) : TRUE) \in Int
    BY <2>5
  <2>7. groupTotal(g) \in Int
    BY <1>5, <2>4, <2>6
  <2> QED BY <2>3, <2>7
<1>7. ASSUME NEW i \in DOMAIN rows, rows[i].group[2] # NoGroup, rows[i].carton > 0
      PROVE  part(i) \in Int
  <2>1. PICK g : g = rows[i].group
    OBVIOUS
  <2>2. groupTotal(g) \in Int /\ rows[i].qty \in Int /\ qty(g) \in Int
    <3> HIDE DEF groupTotal, qty
    <3> QED BY <1>3, <1>5, <1>6, <1>7, <2>1
  <2>3. P!Cardinality(Members(g)) \in Nat /\ P!Cardinality(Members(g)) > 0
    <3>1. i \in Members(g)
      BY <1>7, <2>1
    <3> HIDE DEF Members
    <3>2. Cardinality(Members(g)) \in Nat /\ Cardinality(Members(g)) # 0
      BY <1>4, <3>1, FS_CardinalityType, FS_EmptySet
    <3> QED BY <3>2, SameCardinality
  <2>4. PICK total \in Int, n \in Int, q \in Int, m \in Int :
            total = groupTotal(g) /\ n = P!Cardinality(Members(g)) /\ q = qty(g) /\ m = rows[i].qty
    <3> HIDE DEF groupTotal, qty, Members
    <3> QED BY <2>2, <2>3
  <2>5. part(i) = IF q > 0 THEN P!Share(total, m, q) ELSE P!Share(total, 1, n)
    <3> HIDE DEF groupTotal, qty, Members
    <3> QED BY <2>1, <2>4
  <2>6. n > 0
    <3> HIDE DEF groupTotal, qty, Members
    <3> QED BY <2>3, <2>4
  <2>7. P!Share(total, 1, n) \in Int
    BY <2>6, ShareTyped
  <2>8. q > 0 => P!Share(total, m, q) \in Int
    BY ShareTyped
  <2> HIDE DEF part
  <2> QED BY <2>5, <2>7, <2>8
<1>8. ASSUME NEW i \in DOMAIN rows PROVE cartons(i) \in Int
  <2>1. PICK g : g = rows[i].group
    OBVIOUS
  <2>2. CASE g[2] = NoGroup \/ rows[i].carton = 0
    <3>1. cartons(i) = rows[i].carton
      BY <2>1, <2>2
    <3> HIDE DEF cartons
    <3> QED BY <1>3, <3>1
  <2>3. CASE ~(g[2] = NoGroup \/ rows[i].carton = 0)
    <3>1. g[2] # NoGroup /\ rows[i].carton > 0
      BY <1>3, <2>3
    <3>2. part(i) \in Int /\ groupTotal(g) \in Int
      <4> HIDE DEF part, groupTotal
      <4> QED BY <1>6, <1>7, <2>1, <3>1
    <3>3. rest(g, i) \in Int
      <4> DEFINE p == [j \in Members(g) \ {i} |-> part(j)]
      <4>1. DOMAIN p = Members(g) \ {i} /\ rest(g, i) = SumFunction(p)
        <5> HIDE DEF part, Members
        <5> QED BY SameSums
      <4>2. \A j \in Members(g) : part(j) \in Int
        <5>1. \A j \in Members(g) : j \in DOMAIN rows /\ rows[j].group[2] # NoGroup /\ rows[j].carton > 0
          BY <3>1
        <5> HIDE DEF part, Members
        <5> QED BY <1>7, <5>1
      <4>3. IsFiniteSet(DOMAIN p) /\ Ints(p, DOMAIN p)
        <5> HIDE DEF part, Members
        <5> QED BY <1>4, <4>1, <4>2, FS_Subset DEF Ints
      <4> HIDE DEF p, rest
      <4> QED BY <4>1, <4>3, FiguresAddUp
    <3>4. cartons(i) \in {part(i), groupTotal(g) - rest(g, i)}
      <4> HIDE DEF part, Members, groupTotal, rest
      <4> QED BY <2>1, <2>3
    <3> HIDE DEF part, groupTotal, rest, cartons
    <3> QED BY <3>2, <3>3, <3>4
  <2> QED BY <2>2, <2>3
<1> HIDE DEF cartons
<1> QED BY <1>1, <1>8

\* Items whose quantities and values are whole figures.
Countable(items) ==
    /\ IsFiniteSet(DOMAIN items)
    /\ \A k \in DOMAIN items : items[k].qty \in Int /\ items[k].value \in Int

Figures(e) == e.gross \in Int /\ e.net \in Int /\ e.ctn \in Int

LEMMA ProductTyped ==
    ASSUME NEW rows \in Seq(PackRow), NEW text
    PROVE  Figures(P!ProductOf(rows, P!SharedCartons(rows), text))
<1> DEFINE own == {i \in DOMAIN rows : rows[i].text = text}
           cartons == P!SharedCartons(rows)
           gross == [i \in own |-> rows[i].gross]
           net == [i \in own |-> rows[i].net]
           ctn == [i \in own |-> cartons[i]]
           product == P!ProductOf(rows, cartons, text)
<1>1. PICK N \in Nat : DOMAIN rows = 1..N /\ \A i \in 1..N : rows[i] \in PackRow
  BY LenProperties, ElementOfSeq
<1>2. IsFiniteSet(own) /\ own \in SUBSET DOMAIN rows
  <2>1. IsFiniteSet(1..N)
    BY FS_Interval
  <2> QED BY <1>1, <2>1, FS_Subset
<1>3. \A i \in own : rows[i].gross \in Int /\ rows[i].net \in Int
  BY <1>1 DEF PackRow, GroupKey
<1>4. \A i \in own : cartons[i] \in Int
  BY <1>2, CartonsTyped
<1>5. /\ DOMAIN gross = own /\ DOMAIN net = own /\ DOMAIN ctn = own
      /\ Ints(gross, own) /\ Ints(net, own) /\ Ints(ctn, own)
  <2> HIDE DEF cartons, own
  <2> QED BY <1>3, <1>4 DEF Ints
<1>6. /\ product.gross = SumFunction(gross) /\ product.net = SumFunction(net)
      /\ product.ctn = SumFunction(ctn)
  <2> HIDE DEF cartons
  <2> QED BY SameSums DEF P!ProductOf
<1> HIDE DEF gross, net, ctn, own, product
<1>7. SumFunction(gross) \in Int /\ SumFunction(net) \in Int /\ SumFunction(ctn) \in Int
  BY <1>2, <1>5, FiguresAddUp
<1>8. Figures(product)
  BY <1>6, <1>7 DEF Figures
<1> QED BY <1>8 DEF product

\* What the packing lists say of the items are whole figures.
LEMMA EvidenceTyped ==
    ASSUME NEW items, Countable(items), NEW rows \in Seq(PackRow)
    PROVE  /\ DOMAIN P!MatchPacking(items, rows) = DOMAIN items
           /\ \A k \in DOMAIN items : Figures(P!MatchPacking(items, rows)[k])
<1> DEFINE cartons == P!SharedCartons(rows)
           match == P!Matches(rows, {items[k].text : k \in DOMAIN items})
           siblings(t) == {k \in DOMAIN items : items[k].text = t}
           qty(t) == P!SumFunction([k \in siblings(t) |-> items[k].qty])
           value(t) == P!SumFunction([k \in siblings(t) |-> items[k].value])
           of(k, total) ==
               LET t == items[k].text
               IN  IF qty(t) > 0 THEN P!Share(total, items[k].qty, qty(t))
                   ELSE IF value(t) > 0 THEN P!Share(total, items[k].value, value(t))
                   ELSE P!Share(total, 1, P!Cardinality(siblings(t)))
           part(k, p) == [gross |-> of(k, p.gross), net |-> of(k, p.net), ctn |-> of(k, p.ctn),
                          shared |-> p.shared]
           evidence(k, ps) == IF ps = {} THEN P!NoEvidence
                              ELSE part(k, P!ProductOf(rows, cartons, CHOOSE p \in ps : TRUE))
           found(k) == {p \in DOMAIN match : match[p] = items[k].text}
<1>1. P!MatchPacking(items, rows) = [k \in DOMAIN items |-> evidence(k, found(k))]
  <2> HIDE DEF match
  <2>1. P!MatchPacking(items, rows) = P!Divided(items, match, rows, cartons)
    BY DEF P!MatchPacking, match
  <2> HIDE DEF cartons
  <2> QED BY <2>1, Zenon DEF P!Divided
<1>2. ASSUME NEW k \in DOMAIN items, NEW total \in Int PROVE of(k, total) \in Int
  <2>1. PICK t : t = items[k].text
    OBVIOUS
  <2>2. IsFiniteSet(siblings(t)) /\ k \in siblings(t)
    BY <2>1, FS_Subset DEF Countable
  <2>3. qty(t) \in Int /\ value(t) \in Int
    <3> DEFINE q == [j \in siblings(t) |-> items[j].qty]
               v == [j \in siblings(t) |-> items[j].value]
    <3>1. /\ DOMAIN q = siblings(t) /\ DOMAIN v = siblings(t)
          /\ Ints(q, siblings(t)) /\ Ints(v, siblings(t))
      BY DEF Countable, Ints
    <3>2. qty(t) = SumFunction(q) /\ value(t) = SumFunction(v)
      BY SameSums
    <3> HIDE DEF q, v, qty, value, siblings
    <3> QED BY <2>2, <3>1, <3>2, FiguresAddUp
  <2>4. P!Cardinality(siblings(t)) \in Nat /\ P!Cardinality(siblings(t)) > 0
    <3> HIDE DEF siblings
    <3>1. Cardinality(siblings(t)) \in Nat /\ Cardinality(siblings(t)) # 0
      BY <2>2, FS_CardinalityType, FS_EmptySet
    <3> QED BY <3>1, SameCardinality
  <2>5. PICK q \in Int, v \in Int, n \in Int, mine \in Int, own \in Int :
            /\ q = qty(t) /\ v = value(t) /\ n = P!Cardinality(siblings(t))
            /\ mine = items[k].qty /\ own = items[k].value
    <3> HIDE DEF qty, value, siblings
    <3> QED BY <2>3, <2>4 DEF Countable
  <2>6. of(k, total) = IF q > 0 THEN P!Share(total, mine, q)
                       ELSE IF v > 0 THEN P!Share(total, own, v) ELSE P!Share(total, 1, n)
    <3> HIDE DEF qty, value, siblings
    <3> QED BY <2>1, <2>5
  <2>7. n > 0
    <3> HIDE DEF qty, value, siblings
    <3> QED BY <2>4, <2>5
  <2> HIDE DEF of, qty, value, siblings
  <2>8. P!Share(total, 1, n) \in Int
    BY <2>7, ShareTyped
  <2>9. q > 0 => P!Share(total, mine, q) \in Int
    BY ShareTyped
  <2>10. v > 0 => P!Share(total, own, v) \in Int
    BY ShareTyped
  <2> QED BY <2>6, <2>8, <2>9, <2>10
<1>3. ASSUME NEW k \in DOMAIN items, NEW ps PROVE Figures(evidence(k, ps))
  <2>1. CASE ps = {}
    <3>1. evidence(k, ps) = P!NoEvidence
      BY <2>1
    <3>2. Figures(P!NoEvidence)
      BY DEF P!NoEvidence, Figures
    <3> HIDE DEF evidence
    <3> QED BY <3>1, <3>2
  <2>2. CASE ps # {}
    <3>1. PICK p : p = P!ProductOf(rows, cartons, CHOOSE q \in ps : TRUE)
      OBVIOUS
    <3>2. Figures(p)
      <4>1. PICK text : text = CHOOSE q \in ps : TRUE
        OBVIOUS
      <4> QED BY <3>1, <4>1, ProductTyped
    <3>3. evidence(k, ps) = part(k, p)
      <4> HIDE DEF of
      <4> QED BY <2>2, <3>1
    <3>4. Figures(part(k, p))
      <4> HIDE DEF of
      <4> QED BY <1>2, <3>2 DEF Figures
    <3> HIDE DEF evidence, part
    <3> QED BY <3>3, <3>4
  <2> QED BY <2>1, <2>2
<1> HIDE DEF evidence, found
<1> QED BY <1>1, <1>3

-----------------------------------------------------------------------------
(* So are the gross weight and the packages that the transport documents    *)
(* state, whichever of them the ladder takes.                               *)

\* Of numbers in a finite set one is least.
LEMMA LeastAt ==
    ASSUME NEW S, IsFiniteSet(S), S # {}, NEW f, Ints(f, S)
    PROVE  \E x \in S : \A y \in S : f[x] <= f[y]
<1> DEFINE g == [x \in S |-> -f[x]]
<1>1. Ints(g, S) /\ \A x \in S : g[x] = -f[x]
  BY DEF Ints
<1> HIDE DEF g
<1>2. PICK x \in S : \A y \in S : g[y] <= g[x]
  BY <1>1, GreatestOf
<1>3. \A y \in S : f[x] <= f[y]
  BY <1>1, <1>2 DEF Ints
<1> QED BY <1>3

\* The forms of a shipment, classified: the figures of each are whole.
Graded(cs) ==
    \E N \in Nat : /\ DOMAIN cs = 1..N
                   /\ \A i \in 1..N : /\ cs[i].gross \in Int /\ cs[i].packages \in Int
                                      /\ cs[i].hawb \in Int /\ cs[i].mawb \in Int

LEMMA ClassifiedTyped ==
    ASSUME NEW f \in Doc!AirWaybillForm
    PROVE  LET c == T!ClassifyForm(f)
           IN  /\ c.gross \in Int /\ c.packages \in Int
               /\ c.hawb \in Int /\ c.mawb \in Int
<1>1. f.gross \in Int /\ f.packages \in Int
  BY DEF Doc!AirWaybillForm
<1> DEFINE kind == T!DocumentKind(f)
           number == T!FirstNumber(<<f.hawb, f.primary, f.mawb>>)
           house == "house" \in f.title \/ f.hawb # ""
           own == IF f.hawb # "" THEN f.hawb ELSE number
           hawb == T!Points("house" \in f.title, 100) + T!Points(f.hawb # "", 60)
                + T!Points(own \in ForwarderNumbers, 20) + T!Points(f.issuer = "forwarder", 30)
                + T!Points(f.shipper = "trade", 30) + T!Points(f.consignee = "trade", 30)
           mawb == T!Points("master" \in f.title, 100) + T!Points(f.mawb # "" /\ ~house, 60)
                + T!Points(own \in AirlineNumbers, 40) + T!Points(f.issuer = "airline", 30)
                + T!Points(f.shipper = "logistics", 30) + T!Points(f.consignee = "logistics", 30)
           read(dec, h, m, n) == [dec |-> dec, hawb |-> h, mawb |-> m, number |-> n,
                               gross |-> f.gross, packages |-> f.packages,
                               chargeable |-> f.chargeable]
<1>3. hawb \in Int /\ mawb \in Int
  <2> HIDE DEF number, house, own
  <2>1. \A cond : /\ T!Points(cond, 100) \in Int /\ T!Points(cond, 60) \in Int
                  /\ T!Points(cond, 20) \in Int /\ T!Points(cond, 30) \in Int
                  /\ T!Points(cond, 40) \in Int
    BY DEF T!Points
  <2>2a. PICK a \in Int : a = T!Points("house" \in f.title, 100)
    BY <2>1, Zenon
  <2>2b. PICK b \in Int : b = T!Points(f.hawb # "", 60)
    BY <2>1, Zenon
  <2>2c. PICK c \in Int : c = T!Points(own \in ForwarderNumbers, 20)
    BY <2>1, Zenon
  <2>2d. PICK d \in Int : d = T!Points(f.issuer = "forwarder", 30)
    BY <2>1, Zenon
  <2>2e. PICK e \in Int : e = T!Points(f.shipper = "trade", 30)
    BY <2>1, Zenon
  <2>2f. PICK g \in Int : g = T!Points(f.consignee = "trade", 30)
    BY <2>1, Zenon
  <2>3. PICK n \in Int : n = a + b + c + d + e + g
    OBVIOUS
  <2>4. hawb \in Int
    BY <2>2a, <2>2b, <2>2c, <2>2d, <2>2e, <2>2f, <2>3, Zenon
  <2>5a. PICK q \in Int : q = T!Points("master" \in f.title, 100)
    BY <2>1, Zenon
  <2>5b. PICK r \in Int : r = T!Points(f.mawb # "" /\ ~house, 60)
    BY <2>1, Zenon
  <2>5c. PICK s \in Int : s = T!Points(own \in AirlineNumbers, 40)
    BY <2>1, Zenon
  <2>5d. PICK t \in Int : t = T!Points(f.issuer = "airline", 30)
    BY <2>1, Zenon
  <2>5e. PICK u \in Int : u = T!Points(f.shipper = "logistics", 30)
    BY <2>1, Zenon
  <2>5f. PICK v \in Int : v = T!Points(f.consignee = "logistics", 30)
    BY <2>1, Zenon
  <2>6. PICK m \in Int : m = q + r + s + t + u + v
    OBVIOUS
  <2>7. mawb \in Int
    BY <2>5a, <2>5b, <2>5c, <2>5d, <2>5e, <2>5f, <2>6, Zenon
  <2> QED BY <2>4, <2>7
<1>4. T!ClassifyForm(f) =
        IF kind = "AWB" THEN read(T!Decide(hawb, mawb), hawb, mawb, number)
        ELSE read(kind, 0, 0, IF kind = "BILL_OF_LADING" /\ T!OwnBlNumber(f) # ""
                              THEN T!OwnBlNumber(f) ELSE number)
  BY Zenon DEF T!ClassifyForm
<1> HIDE DEF hawb, mawb, kind, number, own, house
<1>5. PICK d, h, m, n : T!ClassifyForm(f) = read(d, h, m, n) /\ h \in Int /\ m \in Int
  <2>1. 0 \in Int
    OBVIOUS
  <2> HIDE DEF read
  <2> QED BY <1>3, <1>4, <2>1
<1> QED BY <1>1, <1>5

LEMMA GradesTyped ==
    ASSUME NEW forms \in Seq(Doc!AirWaybillForm)
    PROVE  Graded(T!Classifications(forms)) /\ DOMAIN T!Classifications(forms) = DOMAIN forms
<1> DEFINE cs == [i \in DOMAIN forms |-> T!ClassifyForm(forms[i])]
           S == T!WeighedAirWaybills(cs)
           lo == T!Lightest(cs, S)
           hi == T!Heaviest(cs, S)
           h(i) == cs[i].hawb + T!Points(i = lo, 20)
           m(i) == cs[i].mawb + T!Points(i = hi, 20)
           rescored(i) == [cs[i] EXCEPT !.hawb = h(i), !.mawb = m(i), !.dec = T!Decide(h(i), m(i))]
           again == [i \in DOMAIN cs |-> IF i \in {lo, hi} THEN rescored(i) ELSE cs[i]]
<1>1. PICK N \in Nat : DOMAIN forms = 1..N /\ \A i \in 1..N : forms[i] \in Doc!AirWaybillForm
  BY LenProperties, ElementOfSeq
<1>2. DOMAIN cs = 1..N /\ \A i \in 1..N : /\ cs[i].gross \in Int /\ cs[i].packages \in Int
                                          /\ cs[i].hawb \in Int /\ cs[i].mawb \in Int
  BY <1>1, ClassifiedTyped
<1>3. \A i \in 1..N : DOMAIN cs[i] = {"dec", "hawb", "mawb", "number", "gross", "packages", "chargeable"}
  <2>1. \A f : DOMAIN T!ClassifyForm(f)
                  = {"dec", "hawb", "mawb", "number", "gross", "packages", "chargeable"}
    BY DEF T!ClassifyForm
  <2> QED BY <1>1, <2>1
<1>4. T!Classifications(forms) \in {cs, again}
  <2>1. T!Classifications(forms) = T!ComparativeRescore(cs)
    BY DEF T!Classifications
  <2>2. T!ComparativeRescore(cs) \in {cs, again}
    <3> HIDE DEF cs
    <3> QED BY DEF T!ComparativeRescore
  <2> HIDE DEF cs, again
  <2> QED BY <2>1, <2>2
<1> HIDE DEF cs
<1>5. Graded(cs)
  BY <1>2 DEF Graded
<1>6. DOMAIN again = 1..N /\ \A i \in 1..N : /\ again[i].gross \in Int /\ again[i].packages \in Int
                                             /\ again[i].hawb \in Int /\ again[i].mawb \in Int
  <2>1. DOMAIN again = 1..N /\ \A i \in 1..N : again[i] \in {cs[i], rescored(i)}
    <3> HIDE DEF rescored
    <3> QED BY <1>2
  <2>2. \A i \in 1..N : h(i) \in Int /\ m(i) \in Int
    <3> HIDE DEF lo, hi
    <3> QED BY <1>2 DEF T!Points
  <2> HIDE DEF h, m
  <2>3. ASSUME NEW i \in 1..N
        PROVE  /\ rescored(i).gross = cs[i].gross /\ rescored(i).packages = cs[i].packages
               /\ rescored(i).hawb = h(i) /\ rescored(i).mawb = m(i)
    BY <1>3
  <2> HIDE DEF rescored, again
  <2> QED BY <1>2, <2>1, <2>2, <2>3
<1> HIDE DEF again
<1>7. Graded(again)
  BY <1>6 DEF Graded
<1> QED BY <1>1, <1>2, <1>4, <1>5, <1>6, <1>7

\* Of the forms of a set, one is picked.
LEMMA PickTyped ==
    ASSUME NEW forms, NEW cs, Graded(cs), NEW S \in SUBSET DOMAIN cs, S # {}, NEW invoices
    PROVE  T!Pick(forms, cs, S, invoices) \in S
<1> DEFINE key(i) == <<IF cs[i].packages = T!Unread THEN 1 ELSE 0,
                       IF forms[i].refs \cap invoices = {} THEN 1 ELSE 0,
                       - T!Confidence(cs[i]), i>>
           before(a, b) == \E k \in 1..4 : /\ a[k] < b[k]
                                           /\ \A m \in 1..(k - 1) : a[m] = b[m]
<1>1. T!Pick(forms, cs, S, invoices)
        = CHOOSE i \in S : \A j \in S \ {i} : before(key(i), key(j))
  BY Zenon DEF T!Pick
<1>2. PICK N \in Nat : /\ DOMAIN cs = 1..N
                       /\ \A i \in 1..N : cs[i].hawb \in Int /\ cs[i].mawb \in Int
  BY DEF Graded
<1>3. IsFiniteSet(S) /\ S \in SUBSET Int
  <2>1. IsFiniteSet(1..N)
    BY FS_Interval
  <2> QED BY <1>2, <2>1, FS_Subset
<1>4. \A i \in S : T!Confidence(cs[i]) \in Int
  <2> TAKE i \in S
  <2>1. PICK gap \in Int : gap = IF cs[i].hawb > cs[i].mawb THEN cs[i].hawb - cs[i].mawb
                                 ELSE cs[i].mawb - cs[i].hawb
    BY <1>2
  <2>2. T!Confidence(cs[i]) \in {T!Min({100, gap}), 100}
    BY <2>1 DEF T!Confidence
  <2>3. T!Min({100, gap}) \in {100, gap}
    <3>1. T!Min({100, gap}) = Min({100, gap})
      BY SameMax
    <3>2. {100, gap} \in SUBSET Int /\ {100, gap} # {} /\ {100, gap} = {100} \cup {gap}
      OBVIOUS
    <3>3. IsFiniteSet({100} \cup {gap})
      <4>1. PICK Q : Q = {100} /\ IsFiniteSet(Q)
        BY FS_Singleton
      <4>2. IsFiniteSet(Q \cup {gap})
        BY <4>1, FS_AddElement
      <4> QED BY <4>1, <4>2
    <3> QED BY <3>1, <3>2, <3>3, ExtremesOf
  <2> QED BY <2>2, <2>3
<1> DEFINE at == [k \in 1..4 |-> [i \in S |-> key(i)[k]]]
<1>5. \A i \in S, k \in 1..4 : key(i)[k] \in Int /\ key(i)[k] = at[k][i]
  <2>1. \A i \in S : key(i)[1] \in Int /\ key(i)[2] \in Int
    OBVIOUS
  <2>2. \A i \in S : key(i)[3] \in Int /\ key(i)[4] \in Int
    BY <1>3, <1>4
  <2>3. \A k \in 1..4 : k = 1 \/ k = 2 \/ k = 3 \/ k = 4
    OBVIOUS
  <2>4. \A i \in S, k \in 1..4 : key(i)[k] \in Int
    <3> HIDE DEF key
    <3> QED BY <2>1, <2>2, <2>3
  <2> HIDE DEF key
  <2> QED BY <2>4
<1>6. \A i \in S : key(i)[4] = i
  OBVIOUS
<1> HIDE DEF key, at
<1> DEFINE least(Q, k) == {i \in Q : \A j \in Q : at[k][i] <= at[k][j]}
           S1 == least(S, 1)
           S2 == least(S1, 2)
           S3 == least(S2, 3)
<1>7. ASSUME NEW Q \in SUBSET S, Q # {}, NEW k \in 1..4
      PROVE  least(Q, k) # {} /\ least(Q, k) \in SUBSET Q
  <2>1. IsFiniteSet(Q) /\ Ints(at[k], Q)
    BY <1>3, <1>5, FS_Subset DEF Ints
  <2>2. PICK x \in Q : \A y \in Q : at[k][x] <= at[k][y]
    BY <1>7, <2>1, LeastAt
  <2> QED BY <2>2
<1>8. S1 \in SUBSET S /\ S1 # {}
  BY <1>7
<1>9. S2 \in SUBSET S1 /\ S2 # {}
  <2> HIDE DEF S1, least
  <2> QED BY <1>7, <1>8
<1>10. S3 \in SUBSET S2 /\ S3 # {}
  <2> HIDE DEF S1, S2, least
  <2> QED BY <1>7, <1>8, <1>9
<1>11. PICK i \in S3 : \A j \in S3 : at[4][i] <= at[4][j]
  <2> HIDE DEF S1, S2, S3, least
  <2>1. least(S3, 4) # {}
    BY <1>7, <1>8, <1>9, <1>10
  <2> QED BY <2>1 DEF least
<1>12. ASSUME NEW Q \in SUBSET S, NEW k \in 1..4, NEW x \in least(Q, k), NEW y \in Q
       PROVE  /\ key(x)[k] <= key(y)[k]
              /\ y \notin least(Q, k) => key(x)[k] < key(y)[k]
              /\ y \in least(Q, k) => key(x)[k] = key(y)[k]
  <2>1. \A z \in Q : at[k][z] \in Int
    BY <1>5
  <2>2. at[k][x] = key(x)[k] /\ at[k][y] = key(y)[k]
    BY <1>5
  <2>3. y \notin least(Q, k) => \E z \in Q : at[k][z] < at[k][y]
    BY <2>1
  <2> QED BY <2>1, <2>2, <2>3
<1>13. ASSUME NEW j \in S \ {i} PROVE before(key(i), key(j))
  <2>0. i \in S2 /\ i \in S1 /\ i \in S
    <3> HIDE DEF S1, S2, S3
    <3> QED BY <1>8, <1>9, <1>10
  <2>1. CASE j \notin S1
    <3>1. key(i)[1] < key(j)[1]
      <4> HIDE DEF least
      <4> QED BY <1>12, <2>0, <2>1
    <3>2. \A m \in 1..(1 - 1) : key(i)[m] = key(j)[m]
      OBVIOUS
    <3>3. 1 \in 1..4
      OBVIOUS
    <3> QED BY <3>1, <3>2, <3>3
  <2>2. CASE j \in S1 /\ j \notin S2
    <3>1. key(i)[1] = key(j)[1]
      <4> HIDE DEF least, S2
      <4> QED BY <1>12, <2>0, <2>2
    <3>2. key(i)[2] < key(j)[2]
      <4> HIDE DEF least, S1
      <4> QED BY <1>8, <1>12, <2>0, <2>2
    <3>3. \A m \in 1..(2 - 1) : key(i)[m] = key(j)[m]
      BY <3>1
    <3>4. 2 \in 1..4
      OBVIOUS
    <3> HIDE DEF S1, S2, S3, least
    <3> QED BY <3>2, <3>3, <3>4
  <2>3. CASE j \in S2 /\ j \notin S3
    <3>0. j \in S1
      <4> HIDE DEF S1, S2, S3, least
      <4> QED BY <1>9, <2>3
    <3>1. key(i)[1] = key(j)[1]
      <4> HIDE DEF least, S2, S3
      <4> QED BY <1>12, <2>0, <3>0
    <3>2. key(i)[2] = key(j)[2]
      <4> HIDE DEF least, S1, S3
      <4> QED BY <1>8, <1>12, <2>0, <2>3, <3>0
    <3>3. key(i)[3] < key(j)[3]
      <4> HIDE DEF least, S1, S2
      <4> QED BY <1>8, <1>9, <1>12, <2>0, <2>3
    <3>4. \A m \in 1..(3 - 1) : m = 1 \/ m = 2
      OBVIOUS
    <3>5. 3 \in 1..4
      OBVIOUS
    <3> HIDE DEF S1, S2, S3, least
    <3> QED BY <3>1, <3>2, <3>3, <3>4, <3>5
  <2>4. CASE j \in S3
    <3>0. j \in S1 /\ j \in S2
      <4> HIDE DEF S1, S2, S3, least
      <4> QED BY <1>9, <1>10, <2>4
    <3>1. key(i)[1] = key(j)[1]
      <4> HIDE DEF least, S2, S3
      <4> QED BY <1>12, <2>0, <3>0
    <3>2. key(i)[2] = key(j)[2]
      <4> HIDE DEF least, S1, S3
      <4> QED BY <1>8, <1>12, <2>0, <3>0
    <3>3. key(i)[3] = key(j)[3]
      <4> HIDE DEF least, S1, S2
      <4> QED BY <1>8, <1>9, <1>12, <2>0, <2>4, <3>0
    <3>4. key(i)[4] < key(j)[4]
      <4> HIDE DEF S1, S2, S3, least
      <4>1. at[4][i] <= at[4][j]
        BY <1>11, <2>4
      <4>2. at[4][i] = i /\ at[4][j] = j /\ i \in Int /\ j \in Int
        BY <1>3, <1>5, <1>6, <2>0
      <4> QED BY <1>6, <2>0, <4>1, <4>2
    <3>5. \A m \in 1..(4 - 1) : m = 1 \/ m = 2 \/ m = 3
      OBVIOUS
    <3>6. 4 \in 1..4
      OBVIOUS
    <3> HIDE DEF S1, S2, S3, least
    <3> QED BY <3>1, <3>2, <3>3, <3>4, <3>5, <3>6
  <2> HIDE DEF S1, S2, S3, before
  <2> QED BY <2>1, <2>2, <2>3, <2>4
<1>14. i \in S /\ \A j \in S \ {i} : before(key(i), key(j))
  <2> HIDE DEF S1, S2, S3, before
  <2> QED BY <1>8, <1>9, <1>10, <1>13
<1> HIDE DEF before
<1> QED BY <1>1, <1>14

\* The lightest of a set of forms, and the heaviest.
LightOf(cs, S) == {i \in S : \A j \in S : cs[i].gross <= cs[j].gross}
HeavyOf(cs, S) == {i \in S : \A j \in S : cs[i].gross >= cs[j].gross}

\* What the code takes of a set is one of the lightest, or of the heaviest.
LEMMA ChosenLight ==
    ASSUME NEW cs, Graded(cs), NEW S \in SUBSET DOMAIN cs, S # {}
    PROVE  /\ T!Lightest(cs, S) \in LightOf(cs, S) /\ T!LighterOrFewer(cs, S) \in LightOf(cs, S)
           /\ T!Heaviest(cs, S) \in HeavyOf(cs, S)
<1>1. PICK N \in Nat : /\ DOMAIN cs = 1..N
                       /\ \A i \in 1..N : cs[i].gross \in Int /\ cs[i].packages \in Int
  BY DEF Graded
<1>2. IsFiniteSet(S) /\ S \in SUBSET Int
  <2>1. IsFiniteSet(1..N)
    BY FS_Interval
  <2> QED BY <1>1, <2>1, FS_Subset
<1>3. ASSUME NEW Q \in SUBSET S, Q # {} PROVE T!Min(Q) \in Q /\ IsFiniteSet(Q)
  <2>1. IsFiniteSet(Q) /\ Q \in SUBSET Int
    BY <1>2, FS_Subset
  <2> QED BY <1>3, <2>1, SameMax, ExtremesOf
<1> DEFINE g == [i \in S |-> cs[i].gross]
           light == LightOf(cs, S)
           counted == {i \in light : cs[i].packages # T!Unread}
           few == {i \in counted : \A j \in counted : cs[i].packages <= cs[j].packages}
<1>4. Ints(g, S) /\ \A i \in S : g[i] = cs[i].gross
  BY <1>1 DEF Ints
<1> HIDE DEF g
<1>5. light # {} /\ light \in SUBSET S
  <2>1. PICK x \in S : \A y \in S : g[x] <= g[y]
    BY <1>2, <1>4, LeastAt
  <2> QED BY <1>4, <2>1 DEF LightOf
<1>6. HeavyOf(cs, S) # {} /\ HeavyOf(cs, S) \in SUBSET S
  <2>1. PICK x \in S : \A y \in S : g[y] <= g[x]
    BY <1>2, <1>4, GreatestOf
  <2>2. \A y \in S : cs[x].gross >= cs[y].gross
    BY <1>1, <1>4, <2>1
  <2> QED BY <2>1, <2>2 DEF HeavyOf
<1>7. T!Lightest(cs, S) = T!Min(light) /\ T!Heaviest(cs, S) = T!Min(HeavyOf(cs, S))
  BY DEF T!Lightest, T!Heaviest, LightOf, HeavyOf
<1>8. T!LighterOrFewer(cs, S) = IF counted = {} THEN T!Min(light) ELSE T!Min(few)
  BY Zenon DEF T!LighterOrFewer, LightOf
<1>9. counted # {} => few # {} /\ few \in SUBSET S
  <2> SUFFICES ASSUME counted # {} PROVE few # {} /\ few \in SUBSET S
    OBVIOUS
  <2> DEFINE h == [i \in counted |-> cs[i].packages]
  <2>0. counted \in SUBSET S
    BY <1>5
  <2>1. Ints(h, counted) /\ \A i \in counted : h[i] = cs[i].packages
    <3> HIDE DEF counted
    <3> QED BY <1>1, <2>0 DEF Ints
  <2> HIDE DEF h, counted
  <2>2. PICK x \in counted : \A y \in counted : h[x] <= h[y]
    <3>1. IsFiniteSet(counted)
      BY <1>2, <2>0, FS_Subset
    <3> QED BY <2>1, <3>1, LeastAt
  <2> QED BY <2>0, <2>1, <2>2
<1>10. few \in SUBSET light
  OBVIOUS
<1> HIDE DEF light, counted, few
<1>11. T!LighterOrFewer(cs, S) \in light
  BY <1>3, <1>5, <1>8, <1>9, <1>10
<1> QED BY <1>3, <1>5, <1>6, <1>7, <1>11 DEF light

LEMMA ChosenTyped ==
    ASSUME NEW cs, Graded(cs), NEW S \in SUBSET DOMAIN cs, S # {}
    PROVE  T!Lightest(cs, S) \in S /\ T!LighterOrFewer(cs, S) \in S /\ T!Min(S) \in S
<1>1. T!Lightest(cs, S) \in S /\ T!LighterOrFewer(cs, S) \in S
  BY ChosenLight DEF LightOf
<1>2. PICK N \in Nat : DOMAIN cs = 1..N
  BY DEF Graded
<1>3. IsFiniteSet(1..N)
  BY FS_Interval
<1>4. IsFiniteSet(S) /\ S \in SUBSET Int
  BY <1>2, <1>3, FS_Subset
<1>5. T!Min(S) \in S
  BY <1>4, SameMax, ExtremesOf
<1> QED BY <1>1, <1>5

LEMMA PreferredTyped ==
    ASSUME NEW cs, Graded(cs), NEW chosen \in DOMAIN cs
    PROVE  T!PreferLowerAwb(cs, chosen) \in DOMAIN cs
<1> DEFINE S == T!WeighedAirWaybills(cs)
<1>1. S \in SUBSET DOMAIN cs
  BY DEF T!WeighedAirWaybills
<1>2. /\ T!PreferLowerAwb(cs, chosen) \in {chosen, T!LighterOrFewer(cs, S)}
      /\ chosen \notin S => T!PreferLowerAwb(cs, chosen) = chosen
  BY DEF T!PreferLowerAwb
<1> HIDE DEF S
<1>3. chosen \in S => T!LighterOrFewer(cs, S) \in DOMAIN cs
  BY <1>1, ChosenTyped
<1> QED BY <1>2, <1>3

\* Every rung of the ladder is one of the forms, or none.
LEMMA RungsTyped ==
    ASSUME NEW forms, NEW cs, Graded(cs), NEW invoices
    PROVE  \A k \in DOMAIN T!LadderRungs(forms, cs, invoices) :
               T!LadderRungs(forms, cs, invoices)[k].form \in DOMAIN cs \cup {T!NoForm}
<1> DEFINE Of(dec) == {i \in DOMAIN cs : cs[i].dec = dec}
           Weighed(dec) == {i \in Of(dec) : cs[i].gross # T!Unread}
           picked(S) == IF S = {} THEN T!NoForm ELSE T!Pick(forms, cs, S, invoices)
           hawb == picked(Weighed("HAWB"))
           usable == {i \in Of("MAWB") \cup Of("UNKNOWN_AWB") : cs[i].gross # T!Unread}
           rung(type, form) == [type |-> type, form |-> form]
           Forms == DOMAIN cs \cup {T!NoForm}
           f1 == IF hawb = T!NoForm THEN T!NoForm ELSE T!PreferLowerAwb(cs, hawb)
           f2 == IF Weighed("BILL_OF_LADING") # {}
                 THEN T!Lightest(cs, Weighed("BILL_OF_LADING"))
                 ELSE IF Of("BILL_OF_LADING") # {} THEN T!Min(Of("BILL_OF_LADING"))
                 ELSE T!NoForm
           f3 == picked(Weighed("TRUE_DO"))
           f4 == picked(Weighed("TRACKING"))
           f5 == picked(Of("HAWB"))
           t6 == IF T!Cardinality(usable) = 1 THEN "SINGLE_AWB" ELSE "HAWB"
           f6 == IF usable = {} THEN T!NoForm ELSE T!LighterOrFewer(cs, usable)
           f7 == picked(Weighed("MIXED_DO_PACKING"))
<1>1. T!LadderRungs(forms, cs, invoices)
        = << rung("HAWB", f1), rung("BILL_OF_LADING", f2), rung("TRUE_DO", f3),
             rung("TRACKING", f4), rung("HAWB", f5), rung(t6, f6), rung("PACKING_LIST", f7) >>
  BY DEF T!LadderRungs
<1>2. \A dec : Of(dec) \in SUBSET DOMAIN cs /\ Weighed(dec) \in SUBSET DOMAIN cs
  OBVIOUS
<1>3. usable \in SUBSET DOMAIN cs
  OBVIOUS
<1>4. ASSUME NEW S \in SUBSET DOMAIN cs
      PROVE  picked(S) \in Forms /\ (S # {} => picked(S) \in DOMAIN cs)
  BY PickTyped
<1>5. f3 \in Forms /\ f4 \in Forms /\ f5 \in Forms /\ f7 \in Forms /\ hawb \in Forms
  <2> HIDE DEF picked, Of, Weighed, Forms
  <2> QED BY <1>2, <1>4
<1>6. f1 \in Forms
  <2> HIDE DEF hawb
  <2> QED BY <1>5, PreferredTyped
<1>7. f2 \in Forms
  <2>1. Weighed("BILL_OF_LADING") # {}
          => T!Lightest(cs, Weighed("BILL_OF_LADING")) \in DOMAIN cs
    <3> HIDE DEF Of, Weighed
    <3> QED BY <1>2, ChosenTyped
  <2>2. Of("BILL_OF_LADING") # {} => T!Min(Of("BILL_OF_LADING")) \in DOMAIN cs
    <3> HIDE DEF Of, Weighed
    <3> QED BY <1>2, ChosenTyped
  <2> HIDE DEF Of, Weighed
  <2> QED BY <2>1, <2>2
<1>8. f6 \in Forms
  <2> HIDE DEF usable
  <2> QED BY <1>3, ChosenTyped
<1> HIDE DEF f1, f2, f3, f4, f5, f6, f7, t6, Forms
<1>9. \A k \in 1..7 : k = 1 \/ k = 2 \/ k = 3 \/ k = 4 \/ k = 5 \/ k = 6 \/ k = 7
  OBVIOUS
<1>10. PICK rungs : rungs = T!LadderRungs(forms, cs, invoices)
  OBVIOUS
<1>11. DOMAIN rungs = 1..7
  BY <1>1, <1>10
<1>12. /\ rungs[1].form \in Forms /\ rungs[2].form \in Forms /\ rungs[3].form \in Forms
       /\ rungs[4].form \in Forms /\ rungs[5].form \in Forms /\ rungs[6].form \in Forms
       /\ rungs[7].form \in Forms
  BY <1>1, <1>5, <1>6, <1>7, <1>8, <1>10
<1>13. \A k \in DOMAIN rungs : rungs[k].form \in Forms
  BY <1>9, <1>11, <1>12
<1> QED BY <1>10, <1>13 DEF Forms

\* The shipment's gross weight and packages are whole figures.
LEMMA AuthorityTyped ==
    ASSUME NEW forms \in Seq(Doc!AirWaybillForm), NEW packing, NEW invoices,
           packing.gross \in Int, packing.packages \in Int
    PROVE  LET ship == T!ResolveShipmentAuthority(forms, packing, invoices)
           IN  ship.gross \in Int /\ ship.packages \in Int
<1>1. PICK cs : cs = T!Classifications(forms)
  OBVIOUS
<1>2. PICK rungs : rungs = T!LadderRungs(forms, cs, invoices)
  OBVIOUS
<1>3. PICK N \in Nat : /\ DOMAIN cs = 1..N
                       /\ \A i \in 1..N : cs[i].gross \in Int /\ cs[i].packages \in Int
  BY <1>1, GradesTyped DEF Graded
<1>4. \A k \in DOMAIN rungs : rungs[k].form \in DOMAIN cs \cup {T!NoForm}
  BY <1>1, <1>2, GradesTyped, RungsTyped
<1>5. DOMAIN rungs \in SUBSET Int /\ IsFiniteSet(DOMAIN rungs)
  <2>1. PICK m \in Nat : m = 7
    OBVIOUS
  <2>2. DOMAIN rungs = 1..m
    BY <1>2, <2>1 DEF T!LadderRungs
  <2> QED BY <2>2, FS_Interval
<1> DEFINE found == {k \in DOMAIN rungs : rungs[k].form # T!NoForm}
           rung == rungs[T!Min(found)]
           authority(type, form, gross, unit, packages) ==
            [type |-> type, form |-> form, gross |-> gross, unit |-> unit, packages |-> packages,
             hawb |-> T!HouseNumber(forms, cs), mawb |-> T!MasterNumber(forms, cs),
             bl |-> T!BillNumber(forms, cs), classes |-> cs]
<1>6. T!ResolveShipmentAuthority(forms, packing, invoices) =
        IF found # {}
        THEN authority(rung.type, rung.form, cs[rung.form].gross, forms[rung.form].unit,
                       cs[rung.form].packages)
        ELSE IF packing.gross # T!Unread
        THEN authority("PACKING_LIST", T!NoForm, packing.gross, packing.unit, packing.packages)
        ELSE authority("UNKNOWN", T!NoForm, T!Unread, T!NoUnit, T!Unread)
  <2>1. T!ResolveShipmentAuthority(forms, packing, invoices) = T!AuthorityOf(forms, cs, packing, rungs)
    BY <1>1, <1>2 DEF T!ResolveShipmentAuthority
  <2> QED BY <2>1, Zenon DEF T!AuthorityOf
<1>7. found # {} => rung.form \in DOMAIN cs
  <2>1. found \in SUBSET DOMAIN rungs
    OBVIOUS
  <2>2. found # {} => T!Min(found) \in found
    <3> HIDE DEF found
    <3>1. IsFiniteSet(found) /\ found \in SUBSET Int
      BY <1>5, <2>1, FS_Subset
    <3> QED BY <3>1, SameMax, ExtremesOf
  <2> QED BY <1>4, <2>2
<1> HIDE DEF found, rung
<1>8. \A type, form, gross, unit, packages :
        /\ authority(type, form, gross, unit, packages).gross = gross
        /\ authority(type, form, gross, unit, packages).packages = packages
  OBVIOUS
<1> HIDE DEF authority
<1>9. T!Unread \in Int
  BY DEF T!Unread
<1> QED BY <1>3, <1>6, <1>7, <1>8, <1>9

-----------------------------------------------------------------------------
(* So are the totals of the packing lists and the candidates for the freight. *)

\* The totals the packing lists print are whole figures.
LEMMA TotalsTyped ==
    ASSUME NEW lists \in Seq(Doc!PackingListChunk)
    PROVE  PackingTotals(lists).gross \in Int /\ PackingTotals(lists).packages \in Int
<1> DEFINE S(fld) == {k \in DOMAIN lists : lists[k][fld] > 0}
           last(fld) == IF S(fld) = {} THEN T!Unread ELSE lists[Max(S(fld))][fld]
           unit == IF S("gross") = {} THEN T!NoUnit ELSE lists[Max(S("gross"))].unit
<1>1. PICK N \in Nat : DOMAIN lists = 1..N /\ \A k \in 1..N : lists[k] \in Doc!PackingListChunk
  BY LenProperties, ElementOfSeq
<1>2. \A k \in 1..N : lists[k]["gross"] \in Int /\ lists[k]["packages"] \in Int
  BY <1>1 DEF Doc!PackingListChunk
<1>3. ASSUME NEW fld, \A k \in 1..N : lists[k][fld] \in Int PROVE last(fld) \in Int
  <2>1. S(fld) # {} => Max(S(fld)) \in 1..N
    <3>1. S(fld) \in SUBSET (1..N)
      BY <1>1
    <3>2. IsFiniteSet(1..N)
      BY FS_Interval
    <3> HIDE DEF S
    <3>3. IsFiniteSet(S(fld)) /\ S(fld) \in SUBSET Int
      BY <3>1, <3>2, FS_Subset
    <3> QED BY <3>1, <3>3, ExtremesOf
  <2> HIDE DEF S
  <2> QED BY <1>3, <2>1 DEF T!Unread
<1>4. PackingTotals(lists) = [gross |-> last("gross"), packages |-> last("packages"),
                              net |-> last("net"), unit |-> unit]
  BY Zenon DEF PackingTotals
<1>5. last("gross") \in Int /\ last("packages") \in Int
  <2> HIDE DEF last
  <2> QED BY <1>2, <1>3
<1> HIDE DEF last, unit
<1> QED BY <1>4, <1>5

LEMMA RoundedTyped ==
    ASSUME NEW num \in Int, NEW den \in Int, den > 0
    PROVE  R!RoundedDiv(num, den) \in Int
<1>1. PICK n \in Int, d \in Int : n = 2 * num + den /\ d = 2 * den /\ d > 0
  OBVIOUS
<1> QED BY <1>1 DEF R!RoundedDiv

\* What the boxes of a waybill charge.
LEMMA ChargeTyped ==
    ASSUME NEW box \in Doc!AirWaybillCharges
    PROVE  R!AwbChargeTotal(box) \in Int
<1> DEFINE parts == {k \in {"weight", "valuation", "tax", "other"} : box[k] # R!NoAmount}
           components == R!SumFunctionOnSet(box, parts)
<1>1. /\ box.prepaid \in Int /\ box.collect \in Int /\ box.printed \in Int
      /\ \A k \in {"weight", "valuation", "tax", "other"} : box[k] \in Int
  BY DEF Doc!AirWaybillCharges
<1>2. IsFiniteSet(parts)
  <2>1. PICK Q : Q = {"weight"} \cup {"valuation"} \cup {"tax"} \cup {"other"}
    OBVIOUS
  <2>2. IsFiniteSet(Q)
    <3>1. IsFiniteSet({"weight"})
      BY FS_Singleton
    <3>2. IsFiniteSet({"weight"} \cup {"valuation"})
      BY <3>1, FS_AddElement
    <3>3. IsFiniteSet({"weight"} \cup {"valuation"} \cup {"tax"})
      BY <3>2, FS_AddElement
    <3>4. IsFiniteSet({"weight"} \cup {"valuation"} \cup {"tax"} \cup {"other"})
      BY <3>3, FS_AddElement
    <3> QED BY <2>1, <3>4
  <2>3. parts \in SUBSET Q
    BY <2>1
  <2> HIDE DEF parts
  <2> QED BY <2>2, <2>3, FS_Subset
<1>3. Ints(box, parts)
  BY <1>1 DEF Ints
<1>5. R!AwbChargeTotal(box) = IF box.prepaid > 0 THEN box.prepaid
                              ELSE IF box.collect > 0 THEN box.collect
                              ELSE IF box.weight > 0 THEN components
                              ELSE box.printed
  BY Zenon DEF R!AwbChargeTotal
<1> HIDE DEF parts
<1>4. components \in Int
  <2>1. components = SumFunctionOnSet(box, parts)
    BY DEF R!SumFunctionOnSet, R!FoldFunctionOnSet, R!MapThenFoldSet,
           SumFunctionOnSet, FoldFunctionOnSet, MapThenFoldSet
  <2> HIDE DEF components
  <2>2. Sum(box, parts) \in Int
    BY <1>2, <1>3, SumInt
  <2> QED BY <2>1, <2>2 DEF Sum
<1> HIDE DEF components
<1> QED BY <1>1, <1>4, <1>5

LEMMA AwbFreightTyped ==
    ASSUME NEW forms \in Seq(Doc!AirWaybillForm), NEW gross \in Int
    PROVE  R!AwbFreightCandidate(forms, gross).amount \in Int
<1> DEFINE charged == {i \in DOMAIN forms : R!AwbChargeTotal(forms[i].charges) # R!NoAmount}
           f == forms[Max(charged)]
           amount == R!ProrateToAuthority(R!AwbChargeTotal(f.charges), f.gross, gross)
<1>1. PICK N \in Nat : DOMAIN forms = 1..N /\ \A i \in 1..N : forms[i] \in Doc!AirWaybillForm
  BY LenProperties, ElementOfSeq
<1>2. charged # {} => f \in Doc!AirWaybillForm
  <2>1. charged \in SUBSET (1..N)
    BY <1>1
  <2> HIDE DEF charged
  <2>2. IsFiniteSet(1..N)
    BY FS_Interval
  <2>3. IsFiniteSet(charged) /\ charged \in SUBSET Int
    <3>1. IsFiniteSet(charged)
      BY <2>1, <2>2, FS_Subset
    <3>2. charged \in SUBSET Int
      BY <2>1
    <3> QED BY <3>1, <3>2
  <2> QED BY <1>1, <2>1, <2>3, ExtremesOf
<1>3. R!AwbFreightCandidate(forms, gross).amount
        = IF charged = {} THEN R!NoAmount ELSE amount
  <2>1. R!Max(charged) = Max(charged)
    BY SameMax
  <2>2. R!NoFreight.amount = R!NoAmount
    BY DEF R!NoFreight
  <2>3. R!AwbFreightCandidate(forms, gross)
          = IF charged = {} THEN R!NoFreight
            ELSE [amount |-> amount, currency |-> f.charges.currency]
    BY <2>1 DEF R!AwbFreightCandidate
  <2> HIDE DEF amount, charged, f
  <2> QED BY <2>2, <2>3
<1> HIDE DEF charged
<1>4. charged # {} => amount \in Int
  <2> SUFFICES ASSUME charged # {} PROVE amount \in Int
    OBVIOUS
  <2>1. PICK g \in Int, t \in Int : g = f.gross /\ t = R!AwbChargeTotal(f.charges)
    BY <1>2, ChargeTyped DEF Doc!AirWaybillForm
  <2>2. amount = R!ProrateToAuthority(t, g, gross)
    BY <2>1
  <2>3. PICK n \in Int : n = t * gross
    OBVIOUS
  <2>4. g > 0 => R!RoundedDiv(n, g) \in Int
    BY RoundedTyped
  <2> HIDE DEF amount
  <2> QED BY <2>2, <2>3, <2>4 DEF R!ProrateToAuthority
<1> HIDE DEF amount
<1> QED BY <1>3, <1>4 DEF R!NoAmount

LEMMA InvoiceFreightTyped ==
    ASSUME NEW chunks \in Seq(Doc!InvoiceChunk)
    PROVE  R!InvoiceFreight(chunks).amount \in Int
<1> DEFINE billed(totals) == {t \in totals : t.freight # R!NoAmount}
           subs(c) == {k \in DOMAIN c.subs : billed(c.subs[k].totals) # {}}
           amount(totals) == (CHOOSE t \in billed(totals) : TRUE).freight
           bills(c) == [k \in subs(c) |-> amount(c.subs[k].totals)]
           of(c) == IF billed(c.doc.totals) # {} THEN amount(c.doc.totals)
                    ELSE IF subs(c) = {} THEN R!NoAmount
                    ELSE R!SumFunction(bills(c))
           billing == {k \in DOMAIN chunks : of(chunks[k]) # R!NoAmount}
<1>1. R!InvoiceFreight(chunks)
        = IF billing = {} THEN R!NoFreight
          ELSE [amount |-> of(chunks[R!Max(billing)]), currency |-> ""]
  BY Zenon DEF R!InvoiceFreight
<1>2. ASSUME NEW totals \in SUBSET Doc!InvoiceTotals, billed(totals) # {}
      PROVE  amount(totals) \in Int
  <2>1. PICK t : t = CHOOSE u \in billed(totals) : TRUE
    OBVIOUS
  <2>2. t \in Doc!InvoiceTotals
    BY <1>2, <2>1
  <2> QED BY <2>1, <2>2 DEF Doc!InvoiceTotals
<1>3. ASSUME NEW c \in Doc!InvoiceChunk PROVE of(c) \in Int
  <2>1. c.doc.totals \in SUBSET Doc!InvoiceTotals /\ c.subs \in Seq(Doc!SubInvoice)
    BY DEF Doc!InvoiceChunk, Doc!InvoiceHeader
  <2>2. PICK M \in Nat : DOMAIN c.subs = 1..M /\ \A k \in 1..M : c.subs[k] \in Doc!SubInvoice
    BY <2>1, LenProperties, ElementOfSeq
  <2>3. \A k \in 1..M : c.subs[k].totals \in SUBSET Doc!InvoiceTotals
    BY <2>2 DEF Doc!SubInvoice
  <2>4. IsFiniteSet(subs(c)) /\ subs(c) \in SUBSET (1..M)
    <3>1. subs(c) \in SUBSET (1..M)
      BY <2>2
    <3>2. IsFiniteSet(1..M)
      BY FS_Interval
    <3> HIDE DEF subs
    <3> QED BY <3>1, <3>2, FS_Subset
  <2>5. DOMAIN bills(c) = subs(c) /\ Ints(bills(c), subs(c))
    <3>1. \A k \in subs(c) : billed(c.subs[k].totals) # {}
      OBVIOUS
    <3> HIDE DEF subs, amount, billed
    <3> QED BY <1>2, <2>3, <2>4, <3>1 DEF Ints
  <2>6. R!SumFunction(bills(c)) \in Int
    <3> HIDE DEF bills, subs
    <3>1. SumFunction(bills(c)) \in Int
      BY <2>4, <2>5, FiguresAddUp
    <3> QED BY <3>1, SameSums
  <2> HIDE DEF bills, subs, amount, billed
  <2> QED BY <1>2, <2>1, <2>6 DEF R!NoAmount
<1> HIDE DEF of
<1>4. billing # {} => of(chunks[R!Max(billing)]) \in Int
  <2>1. PICK N \in Nat : DOMAIN chunks = 1..N /\ \A k \in 1..N : chunks[k] \in Doc!InvoiceChunk
    BY LenProperties, ElementOfSeq
  <2>2. billing \in SUBSET (1..N)
    BY <2>1
  <2> HIDE DEF billing
  <2>3. IsFiniteSet(1..N)
    BY FS_Interval
  <2>4. IsFiniteSet(billing) /\ billing \in SUBSET Int
    <3>1. IsFiniteSet(billing)
      BY <2>2, <2>3, FS_Subset
    <3>2. billing \in SUBSET Int
      BY <2>2
    <3> QED BY <3>1, <3>2
  <2>5. billing # {} => Max(billing) \in billing
    BY <2>4, ExtremesOf
  <2> QED BY <1>3, <2>1, <2>2, <2>5, SameMax
<1> HIDE DEF billing
<1>5. R!NoFreight.amount \in Int
  BY DEF R!NoFreight, R!NoAmount
<1>6. CASE billing = {}
  BY <1>1, <1>5, <1>6
<1>7. CASE billing # {}
  <2>1. PICK x \in Int : x = of(chunks[R!Max(billing)])
    BY <1>4, <1>7
  <2>2. PICK result, none : /\ result = R!InvoiceFreight(chunks)
                            /\ result = [amount |-> x, currency |-> none]
    BY <1>1, <1>7, <2>1, Zenon
  <2> HIDE DEF billed, subs, amount, bills
  <2>3. result.amount = x
    BY <2>2
  <2> QED BY <2>1, <2>2, <2>3, Zenon
<1> QED BY <1>6, <1>7

LEMMA BankFreightTyped ==
    ASSUME NEW mentions \in Seq(Doc!Mention)
    PROVE  R!BankFreight(mentions).amount \in Int
<1> DEFINE amounts == [k \in DOMAIN mentions |-> mentions[k].amount]
<1>1. PICK N \in Nat : DOMAIN mentions = 1..N /\ \A k \in 1..N : mentions[k] \in Doc!Mention
  BY LenProperties, ElementOfSeq
<1>2. DOMAIN amounts = 1..N /\ Ints(amounts, 1..N)
  BY <1>1 DEF Ints, Doc!Mention
<1>3. R!BankFreight(mentions).amount
        = IF mentions = << >> THEN R!NoAmount ELSE R!SumFunction(amounts)
  BY DEF R!BankFreight, R!NoFreight
<1> HIDE DEF amounts
<1>4. SumFunction(amounts) \in Int
  <2>1. IsFiniteSet(1..N)
    BY FS_Interval
  <2> QED BY <1>2, <2>1, FiguresAddUp
<1>5. R!SumFunction(amounts) \in Int
  BY <1>4, SameSums
<1> QED BY <1>3, <1>5 DEF R!NoAmount

\* The candidates for the freight of the shipment are whole amounts.
LEMMA CandidatesTyped ==
    ASSUME NEW chunks \in Seq(Doc!InvoiceChunk), NEW forms \in Seq(Doc!AirWaybillForm),
           NEW docs \in Seq(Doc!BankingExtraction), NEW gross \in Int
    PROVE  LET fs == FreightCandidates(chunks, forms, gross, PrintedBanking(docs))
           IN  \A k \in DOMAIN fs : fs[k].amount \in Int
<1>1. PrintedBanking(docs).mentions \in Seq(Doc!Mention)
  <2>1. CASE docs = << >>
    <3>1. << >> \in Seq(Doc!Mention)
      OBVIOUS
    <3> QED BY <2>1, <3>1 DEF PrintedBanking
  <2>2. CASE docs # << >>
    <3>1. docs[1] \in Doc!BankingExtraction
      BY <2>2
    <3> QED BY <2>2, <3>1 DEF PrintedBanking, Doc!BankingExtraction
  <2> QED BY <2>1, <2>2
<1>2. PICK a, b, c : /\ a = R!InvoiceFreight(chunks) /\ b = R!AwbFreightCandidate(forms, gross)
                     /\ c = R!BankFreight(PrintedBanking(docs).mentions)
  OBVIOUS
<1>3. a.amount \in Int
  BY <1>2, InvoiceFreightTyped
<1>4. b.amount \in Int
  BY <1>2, AwbFreightTyped
<1>5. c.amount \in Int
  BY <1>1, <1>2, BankFreightTyped
<1>6. FreightCandidates(chunks, forms, gross, PrintedBanking(docs)) = <<a, b, c>>
  BY <1>2 DEF FreightCandidates
<1>7. \A k \in DOMAIN <<a, b, c>> : k = 1 \/ k = 2 \/ k = 3
  OBVIOUS
<1>8. \A k \in DOMAIN <<a, b, c>> : <<a, b, c>>[k].amount \in Int
  BY <1>3, <1>4, <1>5, <1>7
<1> QED BY <1>6, <1>8

-----------------------------------------------------------------------------
(* A context is made of figures.                                            *)

\* What the documents of a job say, by their roles.
InvoicesOf(files) == I!FinalizeInvoices(Payloads(files, "INVOICE"))
ListsOf(files) == Payloads(files, "PACKING_LIST")
FormsOf(files) == Payloads(files, "AIR_WAYBILL")
StatedOf(files) ==
    Stated(T!ResolveShipmentAuthority(FormsOf(files), PackingTotals(ListsOf(files)),
                                      InvoicesOf(files).refs))
ItemsFrom(files, ov, hist) ==
    [k \in DOMAIN InvoicesOf(files).items |-> ItemOf(InvoicesOf(files).items[k], k, ov, hist)]

\* What a context is made of.
ShipOf(files) ==
    T!ResolveShipmentAuthority(FormsOf(files), PackingTotals(ListsOf(files)), InvoicesOf(files).refs)
FreightsOf(files, ov) ==
    FreightCandidates(Payloads(files, "INVOICE"), FormsOf(files),
                      Overridden(StatedOf(files), ov.totals).printed,
                      PrintedBanking(Payloads(files, "BANKING")))

LEMMA ContextBuilt ==
    ASSUME NEW files, NEW ov, NEW hist
    PROVE  Context(files, ov, hist)
             = ContextOf(InvoicesOf(files), ListsOf(files), FormsOf(files), ShipOf(files),
                         Overridden(StatedOf(files), ov.totals), ItemsFrom(files, ov, hist),
                         TrustedRows(ListsOf(files)), FreightsOf(files, ov),
                         PrintedBanking(Payloads(files, "BANKING")))
<1>1. PICK inv, lists, forms, ship :
          /\ inv = InvoicesOf(files) /\ lists = ListsOf(files) /\ forms = FormsOf(files)
          /\ ship = ShipOf(files)
  OBVIOUS
<1>2. PICK authority, items :
          authority = Overridden(Stated(ship), ov.totals) /\ items = ItemsFrom(files, ov, hist)
  OBVIOUS
<1>3. Context(files, ov, hist) = OfDocuments(files, ov, hist, inv, lists, forms)
  BY <1>1 DEF Context, InvoicesOf, ListsOf, FormsOf
<1>4. OfDocuments(files, ov, hist, inv, lists, forms)
        = OfInvoices(files, ov, hist, inv, lists, forms, ship)
  BY <1>1 DEF OfDocuments, ShipOf
<1>5. items = [k \in DOMAIN inv.items |-> ItemOf(inv.items[k], k, ov, hist)]
  BY <1>1, <1>2 DEF ItemsFrom
<1>6. OfInvoices(files, ov, hist, inv, lists, forms, ship)
        = OfTransport(files, inv, lists, forms, ship, authority, items)
  BY <1>2, <1>5 DEF OfInvoices
<1>7. authority = Overridden(StatedOf(files), ov.totals)
  BY <1>1, <1>2 DEF StatedOf, ShipOf
<1>8. OfTransport(files, inv, lists, forms, ship, authority, items)
        = ContextOf(inv, lists, forms, ship, authority, items, TrustedRows(lists),
                    FreightsOf(files, ov), PrintedBanking(Payloads(files, "BANKING")))
  BY <1>1, <1>7, Zenon DEF OfTransport, FreightsOf
<1> QED BY <1>1, <1>2, <1>3, <1>4, <1>6, <1>7, <1>8, Zenon

LEMMA ContextIs ==
    ASSUME NEW files, NEW ov, NEW hist, NEW c, c = Context(files, ov, hist)
    PROVE  /\ c.items = ItemsFrom(files, ov, hist)
           /\ c.ship = Overridden(StatedOf(files), ov.totals)
           /\ c.rows = TrustedRows(ListsOf(files)) /\ c.packing = PackingState(ListsOf(files))
           /\ c.evidence = P!MatchPacking(c.items, TrustedRows(ListsOf(files)))
           /\ c.candidates = FreightCandidates(Payloads(files, "INVOICE"), FormsOf(files),
                                               c.ship.printed,
                                               PrintedBanking(Payloads(files, "BANKING")))
           /\ c.forms = FormsOf(files) /\ c.inv = InvoicesOf(files)
           /\ c.classes = ShipOf(files).classes /\ c.form = ShipOf(files).form
           /\ c.field40 = T!DeriveField40(ShipOf(files))
<1>1. PICK inv, lists, forms, ship, authority, items, rows, freights, printed :
        /\ inv = InvoicesOf(files) /\ lists = ListsOf(files) /\ forms = FormsOf(files)
        /\ ship = ShipOf(files) /\ authority = Overridden(StatedOf(files), ov.totals)
        /\ items = ItemsFrom(files, ov, hist) /\ rows = TrustedRows(ListsOf(files))
        /\ freights = FreightsOf(files, ov) /\ printed = PrintedBanking(Payloads(files, "BANKING"))
  OBVIOUS
<1>2. c = ContextOf(inv, lists, forms, ship, authority, items, rows, freights, printed)
  BY <1>1, ContextBuilt, Zenon
<1>3. /\ c.items = items /\ c.ship = authority /\ c.packing = PackingState(lists)
      /\ c.rows = rows /\ c.evidence = P!MatchPacking(items, rows) /\ c.candidates = freights
      /\ c.forms = forms /\ c.inv = inv /\ c.classes = ship.classes /\ c.form = ship.form
      /\ c.field40 = T!DeriveField40(ship)
  BY <1>2 DEF ContextOf
<1>4. freights = FreightCandidates(Payloads(files, "INVOICE"), FormsOf(files), authority.printed,
                                   PrintedBanking(Payloads(files, "BANKING")))
  BY <1>1 DEF FreightsOf
<1> QED BY <1>1, <1>3, <1>4

\* The pins and the totals of an overlay are not negative.
EntriesOK(ov) ==
    /\ ov.pins \in [Rows -> [gross : Nat, net : Nat, ctn : Nat]]
    /\ ov.totals \in [gross : Nat, ctn : Nat]

LEMMA OverlayEntries == ASSUME NEW ov \in Overlay PROVE EntriesOK(ov)
BY DEF Overlay, EntriesOK

LEMMA LineTotalTyped ==
    ASSUME NEW r \in Line
    PROVE  I!LineTotal(r) \in Nat /\ I!Known(r.qty) \in Nat
<1>1. r.total \in Int /\ r.qty \in Int /\ r.unit \in Int
  BY DEF Line, Doc!InvoiceLine
<1>2. PICK q \in Nat, u \in Nat : q = I!Known(r.qty) /\ u = I!Known(r.unit)
  BY <1>1 DEF I!Known
<1>3. PICK p \in Nat : p = q * u
  BY TimesNat
<1>4. I!LineTotal(r) = IF r.total >= 0 THEN r.total ELSE p
  BY <1>2, <1>3 DEF I!LineTotal
<1> QED BY <1>1, <1>2, <1>4

\* An item as it is made of a row and of a reviewer's entries.
ItemTyped(it) ==
    /\ ItemFields \subseteq DOMAIN it
    /\ it.value \in Int /\ it.qty \in Int /\ it.invWeight \in Int /\ it.desc \in Int
    /\ it.pinNet \in Nat /\ it.pinGross \in Nat /\ it.pinCtn \in Nat
    /\ it.total \in Nat /\ it.text \in Texts /\ it.hs \in Codes

LEMMA ItemIsTyped ==
    ASSUME NEW entry, entry.row \in Line, NEW k, NEW ov, EntriesOK(ov), NEW hist
    PROVE  ItemTyped(ItemOf(entry, k, ov, hist))
<1>1. PICK r, pin : r = entry.row /\ pin = PinOf(ov, k)
  OBVIOUS
<1>2. PICK hs, coo : /\ hs = R!Reviewed(R!ResolveHs(r.hs, r.text, hist), CodeOf(ov, k),
                                        "DETAILED_REVIEW")
                     /\ coo = R!ResolveCoo(r.coo, ProfileCoo, ExporterCountry)
  OBVIOUS
<1>3. pin \in [gross : Nat, net : Nat, ctn : Nat]
  BY <1>1 DEF PinOf, NoPin, EntriesOK
<1>4. /\ r \in Line /\ r.text \in Texts /\ r.weight \in Int /\ r.described \in Int
  BY <1>1 DEF Line, Doc!InvoiceLine
<1>5. hs.code \in Codes
  BY <1>2, <1>4, ResolvedIsOfficial
<1>6. PICK total \in Nat, qty \in Nat : total = I!LineTotal(r) /\ qty = I!Known(r.qty)
  BY <1>4, LineTotalTyped
<1>7. PICK value \in Int, count \in Int : value = total * One /\ count = qty * One
  BY StepsAssumption
<1>8. PICK it : it = ItemOf(entry, k, ov, hist)
  OBVIOUS
<1>9. it = ItemFrom(r, entry.number, pin, hs, coo)
  BY <1>1, <1>2, <1>8 DEF ItemOf
<1>10. it = [text |-> r.text, qty |-> count, total |-> total, value |-> value,
             uom |-> r.uom, invWeight |-> r.weight, perUnit |-> r.perUnit,
             desc |-> r.described,
             pinGross |-> pin.gross, pinNet |-> pin.net, pinCtn |-> pin.ctn,
             number |-> entry.number, hs |-> hs.code, hsSource |-> hs.source,
             hsExplicit |-> hs.explicit, coo |-> coo.code]
  BY <1>6, <1>7, <1>9, Zenon DEF ItemFrom
<1>11. /\ it.value = value /\ it.qty = count /\ it.invWeight = r.weight
       /\ it.desc = r.described /\ it.pinNet = pin.net /\ it.pinGross = pin.gross
       /\ it.pinCtn = pin.ctn /\ it.total = total /\ it.text = r.text /\ it.hs = hs.code
  BY <1>10
<1>12. ItemFields \subseteq DOMAIN it
  BY <1>10 DEF ItemFields
<1>13. ItemTyped(it)
  BY <1>3, <1>4, <1>5, <1>11, <1>12 DEF ItemTyped
<1> QED BY <1>8, <1>13

\* A weight in kilograms is whole, and not negative if the printed one is not.
LEMMA KilogramsTyped ==
    ASSUME NEW weight \in Int, NEW unit
    PROVE  /\ D!Kilograms(weight, unit) \in Int
           /\ weight \in Nat => D!Kilograms(weight, unit) \in Nat
<1>1. CASE unit \in DOMAIN UnitMass
  <2>1. PICK n \in Nat, d \in Nat \ {0} : UnitMass[unit] = <<n, d>>
    BY <1>1, UnitMassAssumption DEF Fraction
  <2>2. D!Kilograms(weight, unit) = (2 * weight * n + d) \div (2 * d)
    BY <1>1, <2>1 DEF D!Kilograms
  <2>3. PICK m \in Int : m = 2 * weight * n + d /\ (weight \in Nat => m \in Nat)
    <3>1. 2 * weight * n \in Int /\ (weight \in Nat => 2 * weight * n \in Nat)
      <4>1. PICK w \in Int : w = 2 * weight /\ (weight \in Nat => w \in Nat)
        OBVIOUS
      <4>2. w * n \in Int /\ (w \in Nat => w * n \in Nat)
        BY TimesNat
      <4> QED BY <4>1, <4>2
    <3>2. PICK w \in Int : w = 2 * weight * n /\ (weight \in Nat => w \in Nat)
      BY <3>1
    <3> QED BY <3>2
  <2>4. PICK e \in Nat \ {0} : e = 2 * d
    OBVIOUS
  <2>5. m \div e \in Int
    OBVIOUS
  <2>6. m \in Nat => m \div e \in Nat
    BY DivNat
  <2> QED BY <2>2, <2>3, <2>4, <2>5, <2>6
<1>2. CASE unit \notin DOMAIN UnitMass
  BY <1>2 DEF D!Kilograms
<1> QED BY <1>1, <1>2

\* What the transport documents state, and the reviewer overrides, is not negative.
LEMMA ShipTyped ==
    ASSUME NEW files \in Seq(DOMAIN Document), NEW totals \in [gross : Nat, ctn : Nat]
    PROVE  LET ship == Overridden(StatedOf(files), totals)
           IN  ship.gross \in Nat /\ ship.printed \in Nat /\ ship.packages \in Nat
<1>1. ListsOf(files) \in Seq(Doc!PackingListChunk) /\ FormsOf(files) \in Seq(Doc!AirWaybillForm)
  BY PayloadsTyped, DocumentsAssumption DEF ListsOf, FormsOf
<1>2. PICK ship : ship = T!ResolveShipmentAuthority(FormsOf(files), PackingTotals(ListsOf(files)),
                                                    InvoicesOf(files).refs)
  OBVIOUS
<1>3. ship.gross \in Int /\ ship.packages \in Int
  <2>1. PICK packing : /\ packing = PackingTotals(ListsOf(files))
                       /\ packing.gross \in Int /\ packing.packages \in Int
    BY <1>1, TotalsTyped
  <2> QED BY <1>1, <1>2, <2>1, AuthorityTyped
<1>4. ASSUME NEW x \in Int PROVE Max({0, x}) \in Nat
  <2>1. {0, x} \in SUBSET Int /\ {0, x} # {} /\ {0, x} = {0} \cup {x}
    OBVIOUS
  <2>2. IsFiniteSet({0} \cup {x})
    <3>1. PICK Q : Q = {0} /\ IsFiniteSet(Q)
      BY FS_Singleton
    <3>2. IsFiniteSet(Q \cup {x})
      BY <3>1, FS_AddElement
    <3> QED BY <3>1, <3>2
  <2>3. IsFiniteSet({0, x})
    BY <2>1, <2>2
  <2>4. PICK Q : Q = {0, x} /\ Q \in SUBSET Int /\ IsFiniteSet(Q) /\ Q # {}
    BY <2>1, <2>3
  <2>5. Max(Q) \in Q /\ \A y \in Q : y <= Max(Q)
    BY <2>4, ExtremesOf
  <2>6. 0 \in Q /\ Q \in SUBSET Int
    BY <2>4
  <2>7. Max(Q) \in Nat
    <3>1. PICK m \in Int : m = Max(Q) /\ 0 <= m
      BY <2>5, <2>6, Zenon
    <3> QED BY <3>1
  <2> QED BY <2>4, <2>7
<1>5. PICK g \in Nat, p \in Nat : g = Max({0, ship.gross}) /\ p = Max({0, ship.packages})
  BY <1>3, <1>4
<1>6. PICK n \in Nat : n = p * CtnOne
  BY StepsAssumption, TimesNat
<1>7. PICK s : s = StatedOf(files)
  OBVIOUS
<1>8. s = Stated(ship)
  BY <1>2, <1>7 DEF StatedOf
<1>9. s.gross \in Nat /\ s.printed = g /\ s.packages = n
  <2>1. s.gross = D!Kilograms(g, ship.unit) /\ s.printed = g /\ s.packages = n
    BY <1>5, <1>6, <1>8 DEF Stated
  <2>2. D!Kilograms(g, ship.unit) \in Nat
    BY KilogramsTyped
  <2> QED BY <2>1, <2>2
<1>10. DOMAIN s = {"type", "gross", "printed", "unit", "packages", "hawb", "mawb", "bl", "field40"}
  BY <1>8 DEF Stated
<1>11. PICK o : o = Overridden(s, totals)
  OBVIOUS
<1>12. CASE totals = NoTotals
  <2>1. o = s
    BY <1>11, <1>12 DEF Overridden
  <2> QED BY <1>7, <1>9, <1>11, <2>1
<1>13. CASE totals # NoTotals
  <2>1. o = [s EXCEPT !.gross = totals.gross, !.printed = totals.gross, !.unit = "KGM",
                      !.packages = totals.ctn, !.type = "REVIEWER_OVERRIDE"]
    BY <1>11, <1>13 DEF Overridden
  <2>2. o.gross = totals.gross /\ o.printed = totals.gross /\ o.packages = totals.ctn
    BY <1>10, <2>1
  <2> QED BY <1>7, <1>11, <2>2
<1> QED BY <1>12, <1>13

\* A context is made of figures, whatever the documents and the entries.
LEMMA ContextTyped ==
    ASSUME NEW files \in Seq(DOMAIN Document), NEW ov, EntriesOK(ov), NEW hist,
           NEW c, c = Context(files, ov, hist)
    PROVE  ContextOK(c)
<1> DEFINE list == InvoicesOf(files).items
           rows == TrustedRows(ListsOf(files))
<1>1. /\ ListsOf(files) \in Seq(Doc!PackingListChunk) /\ FormsOf(files) \in Seq(Doc!AirWaybillForm)
      /\ Payloads(files, "INVOICE") \in Seq(Doc!InvoiceChunk)
      /\ Payloads(files, "BANKING") \in Seq(Doc!BankingExtraction)
  BY PayloadsTyped, DocumentsAssumption DEF ListsOf, FormsOf
<1>2. /\ c.items = ItemsFrom(files, ov, hist)
      /\ c.ship = Overridden(StatedOf(files), ov.totals)
      /\ c.evidence = P!MatchPacking(c.items, rows)
      /\ c.candidates = FreightCandidates(Payloads(files, "INVOICE"), FormsOf(files),
                                          c.ship.printed,
                                          PrintedBanking(Payloads(files, "BANKING")))
  BY ContextIs
<1>3. Entries(list)
  BY <1>1, InvoicesTyped DEF InvoicesOf
<1>4. PICK N \in Nat : DOMAIN list = 1..N /\ \A k \in 1..N : list[k].row \in Line
  <2> HIDE DEF list
  <2> QED BY <1>3 DEF Entries
<1>5. DOMAIN c.items = 1..N /\ \A k \in 1..N : ItemTyped(c.items[k])
  <2>1. DOMAIN c.items = 1..N /\ \A k \in 1..N : c.items[k] = ItemOf(list[k], k, ov, hist)
    BY <1>2, <1>4 DEF ItemsFrom
  <2> HIDE DEF list
  <2> QED BY <1>4, <2>1, ItemIsTyped
<1>6. IsFiniteSet(DOMAIN c.items) /\ DOMAIN c.items \subseteq Int
  <2>1. IsFiniteSet(1..N) /\ 1..N \subseteq Int
    BY FS_Interval
  <2> QED BY <1>5, <2>1
<1>7. c.ship.gross \in Nat /\ c.ship.printed \in Nat /\ c.ship.packages \in Nat
  BY <1>2, ShipTyped DEF EntriesOK
<1>8. /\ DOMAIN c.evidence = DOMAIN c.items
      /\ \A k \in DOMAIN c.items : Figures(c.evidence[k])
  <2>1. rows \in Seq(PackRow)
    BY <1>1, RowsTyped
  <2>2. Countable(c.items)
    BY <1>5, <1>6 DEF Countable, ItemTyped
  <2> HIDE DEF rows
  <2> QED BY <1>2, <2>1, <2>2, EvidenceTyped
<1>9. \A k \in DOMAIN c.candidates : c.candidates[k].amount \in Int
  <2>0. PICK gross \in Int : gross = c.ship.printed
    BY <1>7
  <2>1. PICK fs : /\ fs = c.candidates
                  /\ fs = FreightCandidates(Payloads(files, "INVOICE"), FormsOf(files), gross,
                                            PrintedBanking(Payloads(files, "BANKING")))
    BY <1>2, <2>0
  <2>2. \A k \in DOMAIN fs : fs[k].amount \in Int
    BY <1>1, <2>1, CandidatesTyped
  <2> QED BY <2>1, <2>2
<1>10. FiguresOK(c.items, c.evidence)
  <2>1. ASSUME NEW i \in DOMAIN c.items
        PROVE  /\ {c.items[i].value, c.items[i].qty, c.items[i].invWeight, c.items[i].desc,
                   c.items[i].pinNet} \subseteq Int
               /\ {c.items[i].pinGross, c.items[i].pinCtn} \subseteq Nat
    BY <1>5 DEF ItemTyped
  <2>2. ASSUME NEW i \in DOMAIN c.items
        PROVE  {c.evidence[i].gross, c.evidence[i].net, c.evidence[i].ctn} \subseteq Int
    BY <1>8 DEF Figures
  <2> QED BY <1>6, <1>8, <2>1, <2>2 DEF FiguresOK
<1>11. \A i \in DOMAIN c.items :
           /\ ItemFields \subseteq DOMAIN c.items[i]
           /\ c.items[i].total \in Nat /\ c.items[i].text \in Texts
           /\ c.items[i].hs = << >> \/ c.items[i].hs \in DOMAIN Official
  BY <1>5 DEF ItemTyped, Codes
<1>12. {c.ship.gross, c.ship.printed, c.ship.packages} \subseteq Nat
  BY <1>7
<1> QED BY <1>9, <1>10, <1>11, <1>12 DEF ContextOK

-----------------------------------------------------------------------------
(* Of the air waybills that print a weight the lightest decides.            *)

LEMMA SameCount == ASSUME NEW S PROVE T!Cardinality(S) = Cardinality(S)
BY DEF T!Cardinality, Cardinality

\* A set has fewer than two elements or it has two that differ.
LEMMA TwoOrMore ==
    ASSUME NEW S, IsFiniteSet(S)
    PROVE  T!Cardinality(S) < 2 <=> \A i, j \in S : i = j
<1>1. PICK n \in Nat : n = Cardinality(S)
  BY FS_CardinalityType
<1>2. n = 0 <=> S = {}
  BY <1>1, FS_EmptySet
<1>3. n = 1 <=> \E x : S = {x}
  BY <1>1, FS_Singleton
<1>4. (\A i, j \in S : i = j) <=> S = {} \/ \E x : S = {x}
  OBVIOUS
<1>5. T!Cardinality(S) = n
  BY <1>1, SameCount
<1>6. n < 2 <=> n = 0 \/ n = 1
  BY <1>1
<1> QED BY <1>2, <1>3, <1>4, <1>5, <1>6, Zenon

\* The air waybills that print a weight are forms, and few enough to count.
LEMMA WeighedTyped ==
    ASSUME NEW cs, Graded(cs)
    PROVE  /\ T!WeighedAirWaybills(cs) \in SUBSET DOMAIN cs
           /\ IsFiniteSet(T!WeighedAirWaybills(cs))
<1>1. T!WeighedAirWaybills(cs) \in SUBSET DOMAIN cs
  BY DEF T!WeighedAirWaybills
<1>2. PICK N \in Nat : DOMAIN cs = 1..N
  BY DEF Graded
<1>3. IsFiniteSet(1..N)
  BY FS_Interval
<1> QED BY <1>1, <1>2, <1>3, FS_Subset

\* A chosen air waybill that prints a weight gives way to a lighter one.
LEMMA PreferredLight ==
    ASSUME NEW cs, Graded(cs), NEW chosen \in T!WeighedAirWaybills(cs)
    PROVE  T!PreferLowerAwb(cs, chosen) \in LightOf(cs, T!WeighedAirWaybills(cs))
<1> DEFINE S == T!WeighedAirWaybills(cs)
           lowest == T!LighterOrFewer(cs, S)
<1>1. S \in SUBSET DOMAIN cs /\ IsFiniteSet(S) /\ chosen \in S
  BY WeighedTyped
<1>2. T!PreferLowerAwb(cs, chosen)
        = IF T!Cardinality(S) < 2 \/ chosen \notin S \/ cs[lowest].gross = cs[chosen].gross
          THEN chosen ELSE lowest
  BY Zenon DEF T!PreferLowerAwb
<1> HIDE DEF S, lowest
<1>3. lowest \in LightOf(cs, S)
  BY <1>1, ChosenLight DEF lowest
<1>4. PICK N \in Nat : DOMAIN cs = 1..N /\ \A i \in 1..N : cs[i].gross \in Int
  BY DEF Graded
<1>5. CASE T!Cardinality(S) < 2
  <2>1. \A j \in S : j = chosen
    BY <1>1, <1>5, TwoOrMore
  <2>2. T!PreferLowerAwb(cs, chosen) = chosen
    BY <1>2, <1>5
  <2> QED BY <1>1, <1>4, <2>1, <2>2 DEF LightOf, S
<1>6. CASE ~(T!Cardinality(S) < 2)
  <2>1. T!PreferLowerAwb(cs, chosen) \in {chosen, lowest}
    BY <1>2
  <2>2. T!PreferLowerAwb(cs, chosen) = lowest \/ cs[lowest].gross = cs[chosen].gross
    BY <1>1, <1>2, <1>6
  <2>3. cs[lowest].gross = cs[chosen].gross => chosen \in LightOf(cs, S)
    BY <1>1, <1>3 DEF LightOf
  <2> QED BY <1>3, <2>1, <2>2, <2>3 DEF S
<1> QED BY <1>5, <1>6

-----------------------------------------------------------------------------
\* The forms of a kind, and those that print a weight.
OfKind(cs, dec) == {i \in DOMAIN cs : cs[i].dec = dec}
WeighedOf(cs, dec) == {i \in OfKind(cs, dec) : cs[i].gross # T!Unread}
Usable(cs) == {i \in OfKind(cs, "MAWB") \cup OfKind(cs, "UNKNOWN_AWB") : cs[i].gross # T!Unread}
Rung(forms, cs, invoices, k) == T!LadderRungs(forms, cs, invoices)[k].form

LEMMA PickedOf ==
    ASSUME NEW forms, NEW cs, Graded(cs), NEW S \in SUBSET DOMAIN cs, NEW invoices
    PROVE  LET form == IF S = {} THEN T!NoForm ELSE T!Pick(forms, cs, S, invoices)
           IN  (form # T!NoForm <=> S # {}) /\ (S # {} => form \in S)
<1>1. PICK N \in Nat : DOMAIN cs = 1..N
  BY DEF Graded
<1>2. T!NoForm \notin DOMAIN cs
  BY <1>1 DEF T!NoForm
<1>3. S # {} => T!Pick(forms, cs, S, invoices) \in S
  BY PickTyped
<1> QED BY <1>2, <1>3

\* What each rung of the ladder is taken for, and what it takes.
LEMMA RungsAre ==
    ASSUME NEW forms, NEW cs, Graded(cs), NEW invoices
    PROVE  /\ Rung(forms, cs, invoices, 1) # T!NoForm <=> WeighedOf(cs, "HAWB") # {}
           /\ WeighedOf(cs, "HAWB") # {}
                => Rung(forms, cs, invoices, 1) \in LightOf(cs, T!WeighedAirWaybills(cs))
           /\ Rung(forms, cs, invoices, 2) # T!NoForm <=> OfKind(cs, "BILL_OF_LADING") # {}
           /\ OfKind(cs, "BILL_OF_LADING") # {}
                => Rung(forms, cs, invoices, 2) \in OfKind(cs, "BILL_OF_LADING")
           /\ Rung(forms, cs, invoices, 3) # T!NoForm <=> WeighedOf(cs, "TRUE_DO") # {}
           /\ WeighedOf(cs, "TRUE_DO") # {}
                => Rung(forms, cs, invoices, 3) \in WeighedOf(cs, "TRUE_DO")
           /\ Rung(forms, cs, invoices, 4) # T!NoForm <=> WeighedOf(cs, "TRACKING") # {}
           /\ WeighedOf(cs, "TRACKING") # {}
                => Rung(forms, cs, invoices, 4) \in WeighedOf(cs, "TRACKING")
           /\ Rung(forms, cs, invoices, 5) # T!NoForm <=> OfKind(cs, "HAWB") # {}
           /\ OfKind(cs, "HAWB") # {}
                => Rung(forms, cs, invoices, 5) \in OfKind(cs, "HAWB")
           /\ Rung(forms, cs, invoices, 6) # T!NoForm <=> Usable(cs) # {}
           /\ Usable(cs) # {} => Rung(forms, cs, invoices, 6) \in LightOf(cs, Usable(cs))
           /\ Rung(forms, cs, invoices, 7) # T!NoForm <=> WeighedOf(cs, "MIXED_DO_PACKING") # {}
           /\ WeighedOf(cs, "MIXED_DO_PACKING") # {}
                => Rung(forms, cs, invoices, 7) \in WeighedOf(cs, "MIXED_DO_PACKING")
<1> DEFINE picked(S) == IF S = {} THEN T!NoForm ELSE T!Pick(forms, cs, S, invoices)
           bills == OfKind(cs, "BILL_OF_LADING")
           hawb == picked(WeighedOf(cs, "HAWB"))
           rung(type, form) == [type |-> type, form |-> form]
           f1 == IF hawb = T!NoForm THEN T!NoForm ELSE T!PreferLowerAwb(cs, hawb)
           f2 == IF WeighedOf(cs, "BILL_OF_LADING") # {}
                 THEN T!Lightest(cs, WeighedOf(cs, "BILL_OF_LADING"))
                 ELSE IF bills # {} THEN T!Min(bills) ELSE T!NoForm
           f3 == picked(WeighedOf(cs, "TRUE_DO"))
           f4 == picked(WeighedOf(cs, "TRACKING"))
           f5 == picked(OfKind(cs, "HAWB"))
           t6 == IF T!Cardinality(Usable(cs)) = 1 THEN "SINGLE_AWB" ELSE "HAWB"
           f6 == IF Usable(cs) = {} THEN T!NoForm ELSE T!LighterOrFewer(cs, Usable(cs))
           f7 == picked(WeighedOf(cs, "MIXED_DO_PACKING"))
<1>1. T!LadderRungs(forms, cs, invoices)
        = << rung("HAWB", f1), rung("BILL_OF_LADING", f2), rung("TRUE_DO", f3),
             rung("TRACKING", f4), rung("HAWB", f5), rung(t6, f6), rung("PACKING_LIST", f7) >>
  BY DEF T!LadderRungs, OfKind, WeighedOf, Usable
<1>2. \A dec : OfKind(cs, dec) \in SUBSET DOMAIN cs /\ WeighedOf(cs, dec) \in SUBSET OfKind(cs, dec)
  BY DEF OfKind, WeighedOf
<1>3. Usable(cs) \in SUBSET DOMAIN cs
  BY <1>2 DEF Usable
<1>4. ASSUME NEW S \in SUBSET DOMAIN cs
      PROVE  (picked(S) # T!NoForm <=> S # {}) /\ (S # {} => picked(S) \in S)
  BY PickedOf
<1>5. T!NoForm \notin DOMAIN cs
  BY DEF Graded, T!NoForm
<1> HIDE DEF picked
<1>6. \A dec : /\ picked(OfKind(cs, dec)) # T!NoForm <=> OfKind(cs, dec) # {}
               /\ OfKind(cs, dec) # {} => picked(OfKind(cs, dec)) \in OfKind(cs, dec)
               /\ picked(WeighedOf(cs, dec)) # T!NoForm <=> WeighedOf(cs, dec) # {}
               /\ WeighedOf(cs, dec) # {} => picked(WeighedOf(cs, dec)) \in WeighedOf(cs, dec)
  <2>1. \A dec : WeighedOf(cs, dec) \in SUBSET DOMAIN cs
    BY <1>2
  <2> QED BY <1>2, <1>4, <2>1
<1>7. /\ f1 # T!NoForm <=> WeighedOf(cs, "HAWB") # {}
      /\ WeighedOf(cs, "HAWB") # {} => f1 \in LightOf(cs, T!WeighedAirWaybills(cs))
  <2>1. WeighedOf(cs, "HAWB") \in SUBSET T!WeighedAirWaybills(cs)
    BY DEF WeighedOf, OfKind, T!WeighedAirWaybills, T!AirWaybills
  <2>2. WeighedOf(cs, "HAWB") # {}
          => T!PreferLowerAwb(cs, hawb) \in LightOf(cs, T!WeighedAirWaybills(cs))
    BY <1>6, <2>1, PreferredLight
  <2>3. LightOf(cs, T!WeighedAirWaybills(cs)) \in SUBSET DOMAIN cs
    BY DEF LightOf, T!WeighedAirWaybills
  <2>4. hawb # T!NoForm <=> WeighedOf(cs, "HAWB") # {}
    BY <1>6
  <2> HIDE DEF hawb
  <2> QED BY <1>5, <2>2, <2>3, <2>4
<1>8. /\ f2 # T!NoForm <=> bills # {}
      /\ bills # {} => f2 \in bills
  <2>1. PICK weighed : weighed = WeighedOf(cs, "BILL_OF_LADING")
    OBVIOUS
  <2>2. weighed \in SUBSET bills /\ bills \in SUBSET DOMAIN cs
    BY <1>2, <2>1
  <2> HIDE DEF bills
  <2>3. weighed # {} => T!Lightest(cs, weighed) \in bills
    BY <2>2, ChosenTyped
  <2>4. bills # {} => T!Min(bills) \in bills
    BY <2>2, ChosenTyped
  <2> QED BY <1>5, <2>1, <2>2, <2>3, <2>4
<1>9. /\ f6 # T!NoForm <=> Usable(cs) # {}
      /\ Usable(cs) # {} => f6 \in LightOf(cs, Usable(cs))
  <2>1. Usable(cs) # {} => T!LighterOrFewer(cs, Usable(cs)) \in LightOf(cs, Usable(cs))
    BY <1>3, ChosenLight
  <2>2. LightOf(cs, Usable(cs)) \in SUBSET DOMAIN cs
    BY <1>3 DEF LightOf
  <2> QED BY <1>5, <2>1, <2>2
<1>10. /\ Rung(forms, cs, invoices, 1) = f1 /\ Rung(forms, cs, invoices, 2) = f2
       /\ Rung(forms, cs, invoices, 3) = f3 /\ Rung(forms, cs, invoices, 4) = f4
       /\ Rung(forms, cs, invoices, 5) = f5 /\ Rung(forms, cs, invoices, 6) = f6
       /\ Rung(forms, cs, invoices, 7) = f7
  <2> HIDE DEF f1, f2, f3, f4, f5, f6, f7, t6
  <2> QED BY <1>1 DEF Rung
<1> HIDE DEF f1, f2, f6
<1> QED BY <1>6, <1>7, <1>8, <1>9, <1>10

\* The shipment goes by the first rung that takes a form.
LEMMA FirstRung ==
    ASSUME NEW forms \in Seq(Doc!AirWaybillForm), NEW packing, NEW invoices
    PROVE  LET cs == T!Classifications(forms)
               ship == T!ResolveShipmentAuthority(forms, packing, invoices)
           IN  /\ ship.classes = cs /\ ship.hawb = T!HouseNumber(forms, cs)
               /\ \/ /\ ship.form = T!NoForm
                     /\ \A k \in 1..7 : Rung(forms, cs, invoices, k) = T!NoForm
                  \/ \E k \in 1..7 :
                       /\ Rung(forms, cs, invoices, k) # T!NoForm
                       /\ \A j \in 1..(k - 1) : Rung(forms, cs, invoices, j) = T!NoForm
                       /\ ship.form = Rung(forms, cs, invoices, k)
                       /\ ship.gross = cs[ship.form].gross
<1>1. PICK cs : cs = T!Classifications(forms)
  OBVIOUS
<1>2. PICK rungs : rungs = T!LadderRungs(forms, cs, invoices)
  OBVIOUS
<1>3. DOMAIN rungs = 1..7
  BY <1>2 DEF T!LadderRungs
<1> DEFINE found == {k \in DOMAIN rungs : rungs[k].form # T!NoForm}
           rung == rungs[T!Min(found)]
           authority(type, form, gross, unit, packages) ==
            [type |-> type, form |-> form, gross |-> gross, unit |-> unit, packages |-> packages,
             hawb |-> T!HouseNumber(forms, cs), mawb |-> T!MasterNumber(forms, cs),
             bl |-> T!BillNumber(forms, cs), classes |-> cs]
<1>4. PICK ship : ship = T!ResolveShipmentAuthority(forms, packing, invoices)
  OBVIOUS
<1>5. ship =
        IF found # {}
        THEN authority(rung.type, rung.form, cs[rung.form].gross, forms[rung.form].unit,
                       cs[rung.form].packages)
        ELSE IF packing.gross # T!Unread
        THEN authority("PACKING_LIST", T!NoForm, packing.gross, packing.unit, packing.packages)
        ELSE authority("UNKNOWN", T!NoForm, T!Unread, T!NoUnit, T!Unread)
  <2>1. ship = T!AuthorityOf(forms, cs, packing, rungs)
    BY <1>1, <1>2, <1>4 DEF T!ResolveShipmentAuthority
  <2> QED BY <2>1, Zenon DEF T!AuthorityOf
<1>6. \A type, form, gross, unit, packages :
        /\ authority(type, form, gross, unit, packages).gross = gross
        /\ authority(type, form, gross, unit, packages).form = form
        /\ authority(type, form, gross, unit, packages).hawb = T!HouseNumber(forms, cs)
        /\ authority(type, form, gross, unit, packages).classes = cs
  OBVIOUS
<1> HIDE DEF authority
<1>7. \A k : Rung(forms, cs, invoices, k) = rungs[k].form
  BY <1>2 DEF Rung
<1>8. CASE found = {}
  <2>1. ship.form = T!NoForm /\ ship.classes = cs /\ ship.hawb = T!HouseNumber(forms, cs)
    <3> HIDE DEF found, rung
    <3> QED BY <1>5, <1>6, <1>8
  <2>2. \A k \in 1..7 : Rung(forms, cs, invoices, k) = T!NoForm
    BY <1>3, <1>7, <1>8
  <2> QED BY <1>1, <1>4, <2>1, <2>2
<1>9. CASE found # {}
  <2>1. found \in SUBSET (1..7)
    BY <1>3
  <2>2. PICK k : k = T!Min(found)
    OBVIOUS
  <2>3. k \in found /\ \A j \in found : k <= j
    <3> HIDE DEF found
    <3>1. PICK m \in Nat : m = 7
      OBVIOUS
    <3>2. IsFiniteSet(1..m)
      BY FS_Interval
    <3>3. IsFiniteSet(found)
      BY <2>1, <3>1, <3>2, FS_Subset
    <3>4. found \in SUBSET Int
      BY <2>1
    <3> QED BY <1>9, <2>2, <3>3, <3>4, SameMax, ExtremesOf
  <2>4. k \in 1..7 /\ rungs[k].form # T!NoForm
    BY <2>1, <2>3
  <2>5. \A j \in 1..(k - 1) : rungs[j].form = T!NoForm
    BY <1>3, <2>3, <2>4
  <2>6. /\ ship.form = rungs[k].form /\ ship.gross = cs[rungs[k].form].gross
        /\ ship.classes = cs /\ ship.hawb = T!HouseNumber(forms, cs)
    <3> HIDE DEF found
    <3> QED BY <1>5, <1>6, <1>9, <2>2
  <2> HIDE DEF found
  <2> QED BY <1>1, <1>4, <1>7, <2>4, <2>5, <2>6
<1> QED BY <1>8, <1>9

\* When it is an air waybill that states the gross: no other document comes first.
AirDecides(cs) ==
    \/ WeighedOf(cs, "HAWB") # {}
    \/ /\ Usable(cs) # {}
       /\ OfKind(cs, "HAWB") = {} /\ OfKind(cs, "BILL_OF_LADING") = {}
       /\ WeighedOf(cs, "TRUE_DO") = {} /\ WeighedOf(cs, "TRACKING") = {}

LEMMA AirForm ==
    ASSUME NEW forms \in Seq(Doc!AirWaybillForm), NEW packing, NEW invoices
    PROVE  LET cs == T!Classifications(forms)
               ship == T!ResolveShipmentAuthority(forms, packing, invoices)
               weighed == T!WeighedAirWaybills(cs)
           IN  /\ ship.form \in weighed <=> AirDecides(cs)
               /\ ship.form \in weighed => /\ ship.form \in LightOf(cs, weighed)
                                           /\ ship.gross = cs[ship.form].gross
<1>1. PICK cs : cs = T!Classifications(forms)
  OBVIOUS
<1>2. PICK ship : ship = T!ResolveShipmentAuthority(forms, packing, invoices)
  OBVIOUS
<1> DEFINE rung(k) == Rung(forms, cs, invoices, k)
           weighed == T!WeighedAirWaybills(cs)
<1>3. Graded(cs)
  BY <1>1, GradesTyped
<1>4. weighed = WeighedOf(cs, "HAWB") \cup Usable(cs)
  BY DEF T!WeighedAirWaybills, T!AirWaybills, WeighedOf, Usable, OfKind
<1>5. \A i : /\ i \in WeighedOf(cs, "HAWB") => i \in OfKind(cs, "HAWB")
             /\ i \in OfKind(cs, "HAWB") /\ WeighedOf(cs, "HAWB") = {} => i \notin weighed
             /\ i \in OfKind(cs, "BILL_OF_LADING") => i \notin weighed
             /\ i \in WeighedOf(cs, "TRUE_DO") => i \notin weighed
             /\ i \in WeighedOf(cs, "TRACKING") => i \notin weighed
             /\ i \in WeighedOf(cs, "MIXED_DO_PACKING") => i \notin weighed
             /\ i \in weighed => i \in DOMAIN cs
  BY DEF T!WeighedAirWaybills, T!AirWaybills, WeighedOf, OfKind
<1>6. \A i : i \in LightOf(cs, weighed) => i \in weighed
  BY DEF LightOf
<1>7. WeighedOf(cs, "HAWB") = {} => Usable(cs) = weighed
  BY <1>4
<1>8. T!NoForm \notin weighed
  BY <1>3, <1>5 DEF Graded, T!NoForm
<1>9. \/ /\ ship.form = T!NoForm
         /\ \A k \in 1..7 : rung(k) = T!NoForm
      \/ \E k \in 1..7 : /\ rung(k) # T!NoForm
                         /\ \A j \in 1..(k - 1) : rung(j) = T!NoForm
                         /\ ship.form = rung(k)
                         /\ ship.gross = cs[ship.form].gross
  BY <1>1, <1>2, FirstRung
<1>10. /\ rung(1) # T!NoForm <=> WeighedOf(cs, "HAWB") # {}
       /\ WeighedOf(cs, "HAWB") # {} => rung(1) \in LightOf(cs, weighed)
       /\ rung(2) # T!NoForm <=> OfKind(cs, "BILL_OF_LADING") # {}
       /\ OfKind(cs, "BILL_OF_LADING") # {} => rung(2) \in OfKind(cs, "BILL_OF_LADING")
       /\ rung(3) # T!NoForm <=> WeighedOf(cs, "TRUE_DO") # {}
       /\ WeighedOf(cs, "TRUE_DO") # {} => rung(3) \in WeighedOf(cs, "TRUE_DO")
       /\ rung(4) # T!NoForm <=> WeighedOf(cs, "TRACKING") # {}
       /\ WeighedOf(cs, "TRACKING") # {} => rung(4) \in WeighedOf(cs, "TRACKING")
       /\ rung(5) # T!NoForm <=> OfKind(cs, "HAWB") # {}
       /\ OfKind(cs, "HAWB") # {} => rung(5) \in OfKind(cs, "HAWB")
       /\ rung(6) # T!NoForm <=> Usable(cs) # {}
       /\ Usable(cs) # {} => rung(6) \in LightOf(cs, Usable(cs))
       /\ rung(7) # T!NoForm <=> WeighedOf(cs, "MIXED_DO_PACKING") # {}
       /\ WeighedOf(cs, "MIXED_DO_PACKING") # {} => rung(7) \in WeighedOf(cs, "MIXED_DO_PACKING")
  BY <1>3, RungsAre
<1> HIDE DEF rung, weighed
<1> DEFINE Goal == /\ ship.form \in weighed <=> AirDecides(cs)
                   /\ ship.form \in weighed => /\ ship.form \in LightOf(cs, weighed)
                                               /\ ship.gross = cs[ship.form].gross
<1>11. ASSUME ship.form = T!NoForm, \A k \in 1..7 : rung(k) = T!NoForm PROVE Goal
  <2>1. rung(1) = T!NoForm /\ rung(6) = T!NoForm
    BY <1>11
  <2> QED BY <1>8, <1>10, <1>11, <2>1 DEF AirDecides
<1>12. ASSUME NEW k \in 1..7, rung(k) # T!NoForm, \A j \in 1..(k - 1) : rung(j) = T!NoForm,
              ship.form = rung(k), ship.gross = cs[ship.form].gross
       PROVE  Goal
  <2>1. CASE k = 1
    BY <1>6, <1>10, <1>12, <2>1 DEF AirDecides
  <2>2. k # 1 => WeighedOf(cs, "HAWB") = {}
    BY <1>10, <1>12
  <2>3. CASE k = 2
    BY <1>5, <1>10, <1>12, <2>2, <2>3 DEF AirDecides
  <2>4. CASE k = 3
    BY <1>5, <1>10, <1>12, <2>2, <2>4 DEF AirDecides
  <2>5. CASE k = 4
    BY <1>5, <1>10, <1>12, <2>2, <2>5 DEF AirDecides
  <2>6. CASE k = 5
    BY <1>5, <1>10, <1>12, <2>2, <2>6 DEF AirDecides
  <2>7. CASE k = 6
    <3>1. rung(2) = T!NoForm /\ rung(3) = T!NoForm /\ rung(4) = T!NoForm /\ rung(5) = T!NoForm
      BY <1>12, <2>7
    <3> QED BY <1>6, <1>7, <1>10, <1>12, <2>2, <2>7, <3>1 DEF AirDecides
  <2>8. CASE k = 7
    <3>1. rung(6) = T!NoForm
      BY <1>12, <2>8
    <3> QED BY <1>5, <1>10, <1>12, <2>2, <2>8, <3>1 DEF AirDecides
  <2> QED BY <2>1, <2>3, <2>4, <2>5, <2>6, <2>7, <2>8
<1>13. Goal
  BY <1>9, <1>11, <1>12
<1> QED BY <1>1, <1>2, <1>13 DEF weighed

\* The forms as they are classified one by one: the fields of each.
Carded(cs) ==
    /\ Graded(cs)
    /\ \A i \in DOMAIN cs : DOMAIN cs[i] = {"dec", "hawb", "mawb", "number", "gross",
                                             "packages", "chargeable"}

\* No two air waybills print one weight.
Apart(cs) ==
    \A i, j \in T!WeighedAirWaybills(cs) : cs[i].gross = cs[j].gross => i = j

LEMMA OneByOne ==
    ASSUME NEW forms \in Seq(Doc!AirWaybillForm)
    PROVE  Carded([i \in DOMAIN forms |-> T!ClassifyForm(forms[i])])
<1> DEFINE cs == [i \in DOMAIN forms |-> T!ClassifyForm(forms[i])]
<1>1. PICK N \in Nat : DOMAIN forms = 1..N /\ \A i \in 1..N : forms[i] \in Doc!AirWaybillForm
  BY LenProperties, ElementOfSeq
<1>2. DOMAIN cs = 1..N /\ \A i \in 1..N : /\ cs[i].gross \in Int /\ cs[i].packages \in Int
                                          /\ cs[i].hawb \in Int /\ cs[i].mawb \in Int
  BY <1>1, ClassifiedTyped
<1>3. \A f : DOMAIN T!ClassifyForm(f)
                = {"dec", "hawb", "mawb", "number", "gross", "packages", "chargeable"}
  BY DEF T!ClassifyForm
<1>4. \A i \in DOMAIN cs : DOMAIN cs[i] = {"dec", "hawb", "mawb", "number", "gross",
                                           "packages", "chargeable"}
  BY <1>1, <1>3
<1> HIDE DEF cs
<1>5. Carded(cs)
  BY <1>2, <1>4 DEF Carded, Graded
<1> QED BY <1>5 DEF cs

\* The comparison of weights, by its parts.
Bonus(i, x) == IF i = x THEN 20 ELSE 0
Crossed(a, b) == /\ a.packages # T!Unread /\ b.packages # T!Unread /\ a.packages > b.packages
Rescored(d, a, b) ==
    [d EXCEPT !.hawb = d.hawb + a, !.mawb = d.mawb + b,
              !.dec = T!Decide(d.hawb + a, d.mawb + b)]
Again(cs, lo, hi) ==
    [i \in DOMAIN cs |-> IF i \in {lo, hi} THEN Rescored(cs[i], Bonus(i, lo), Bonus(i, hi))
                         ELSE cs[i]]

LEMMA RescoreIs ==
    ASSUME NEW cs
    PROVE  LET S == T!WeighedAirWaybills(cs)
               lo == T!Lightest(cs, S)
               hi == T!Heaviest(cs, S)
           IN  T!ComparativeRescore(cs) =
                 IF \/ T!Cardinality(S) < 2
                    \/ cs[lo].gross = cs[hi].gross \/ Crossed(cs[lo], cs[hi])
                 THEN cs ELSE Again(cs, lo, hi)
<1> DEFINE S == T!WeighedAirWaybills(cs)
           lo == T!Lightest(cs, S)
           hi == T!Heaviest(cs, S)
           h(i) == cs[i].hawb + T!Points(i = lo, 20)
           m(i) == cs[i].mawb + T!Points(i = hi, 20)
           rescored(i) == [cs[i] EXCEPT !.hawb = h(i), !.mawb = m(i), !.dec = T!Decide(h(i), m(i))]
           again == [i \in DOMAIN cs |-> IF i \in {lo, hi} THEN rescored(i) ELSE cs[i]]
<1>1. T!ComparativeRescore(cs) =
        IF T!Cardinality(S) < 2 THEN cs
        ELSE IF cs[lo].gross = cs[hi].gross \/ Crossed(cs[lo], cs[hi]) THEN cs ELSE again
  BY Zenon DEF T!ComparativeRescore, Crossed
<1>2. \A i : h(i) = cs[i].hawb + Bonus(i, lo) /\ m(i) = cs[i].mawb + Bonus(i, hi)
  BY Zenon DEF T!Points, Bonus
<1>3. \A i : rescored(i) = Rescored(cs[i], Bonus(i, lo), Bonus(i, hi))
  <2> HIDE DEF h, m
  <2> QED BY <1>2, Zenon DEF Rescored
<1>4. again = Again(cs, lo, hi)
  <2> HIDE DEF rescored, lo, hi
  <2> QED BY <1>3 DEF Again
<1> HIDE DEF again, lo, hi, S
<1>5. T!ComparativeRescore(cs) =
        IF \/ T!Cardinality(S) < 2
           \/ cs[lo].gross = cs[hi].gross \/ Crossed(cs[lo], cs[hi])
        THEN cs ELSE Again(cs, lo, hi)
  BY <1>1, <1>4, Zenon
<1> QED BY <1>5 DEF S, lo, hi

\* The comparison leaves the figures, and an air waybill an air waybill.
LEMMA RescoreKeeps ==
    ASSUME NEW cs, Carded(cs)
    PROVE  LET again == T!ComparativeRescore(cs)
           IN  /\ DOMAIN again = DOMAIN cs
               /\ \A i \in DOMAIN cs : again[i].gross = cs[i].gross
               /\ T!WeighedAirWaybills(again) = T!WeighedAirWaybills(cs)
<1> DEFINE S == T!WeighedAirWaybills(cs)
           lo == T!Lightest(cs, S)
           hi == T!Heaviest(cs, S)
<1>1. PICK again : again = T!ComparativeRescore(cs)
  OBVIOUS
<1>2. again = cs \/ (again = Again(cs, lo, hi) /\ ~(T!Cardinality(S) < 2))
  BY <1>1, RescoreIs, Zenon
<1>3. S \in SUBSET DOMAIN cs /\ IsFiniteSet(S)
  BY WeighedTyped DEF Carded
<1> DEFINE Goal == /\ DOMAIN again = DOMAIN cs
                   /\ \A i \in DOMAIN cs : again[i].gross = cs[i].gross
                   /\ T!WeighedAirWaybills(again) = T!WeighedAirWaybills(cs)
<1>4. ASSUME again = Again(cs, lo, hi), ~(T!Cardinality(S) < 2) PROVE Goal
  <2>1. S # {}
    BY <1>3, <1>4, TwoOrMore
  <2>2. lo \in S /\ hi \in S
    <3> HIDE DEF S
    <3> QED BY <1>3, <2>1, ChosenLight DEF Carded, LightOf, HeavyOf
  <2>3. \A h, m : T!Decide(h, m) \in T!AirWaybills
    BY DEF T!Decide, T!AirWaybills
  <2>4. ASSUME NEW i \in DOMAIN cs, NEW a, NEW b
        PROVE  /\ Rescored(cs[i], a, b).gross = cs[i].gross
               /\ Rescored(cs[i], a, b).dec \in T!AirWaybills
    BY <2>3 DEF Rescored, Carded
  <2>5. \A i \in S : cs[i].dec \in T!AirWaybills
    BY DEF T!WeighedAirWaybills
  <2> HIDE DEF S, lo, hi
  <2>6. DOMAIN again = DOMAIN cs
    BY <1>4 DEF Again
  <2>7. ASSUME NEW i \in DOMAIN cs
        PROVE  /\ again[i].gross = cs[i].gross
               /\ again[i].dec \in T!AirWaybills <=> cs[i].dec \in T!AirWaybills
    <3>1. i \in {lo, hi} => again[i] = Rescored(cs[i], Bonus(i, lo), Bonus(i, hi))
      BY <1>4 DEF Again
    <3>2. i \notin {lo, hi} => again[i] = cs[i]
      BY <1>4 DEF Again
    <3>3. i \in {lo, hi} => cs[i].dec \in T!AirWaybills
      BY <2>2, <2>5
    <3> QED BY <2>4, <3>1, <3>2, <3>3
  <2> QED BY <2>6, <2>7 DEF T!WeighedAirWaybills
<1>5. ASSUME again = cs PROVE Goal
  BY <1>5
<1>6. Goal
  BY <1>2, <1>4, <1>5
<1> QED BY <1>1, <1>6

\* The same forms in another order.
Reordered(cs, p) == [i \in DOMAIN cs |-> cs[p[i]]]

\* When no two weights are equal, the lightest of the forms in another order
\* is the lightest, and so is the heaviest.
LEMMA ExtremesReordered ==
    ASSUME NEW cs, Graded(cs), Apart(cs), NEW p \in Bijection(DOMAIN cs, DOMAIN cs),
           T!WeighedAirWaybills(cs) # {}
    PROVE  LET S == T!WeighedAirWaybills(cs)
               ds == Reordered(cs, p)
               Z == T!WeighedAirWaybills(ds)
           IN  /\ Z = {i \in DOMAIN cs : p[i] \in S} /\ Z # {}
               /\ \A i, j \in DOMAIN cs : p[i] = p[j] => i = j
               /\ T!Lightest(ds, Z) \in Z /\ T!Heaviest(ds, Z) \in Z
               /\ p[T!Lightest(ds, Z)] = T!Lightest(cs, S)
               /\ p[T!Heaviest(ds, Z)] = T!Heaviest(cs, S)
               /\ Graded(ds)
<1> DEFINE S == T!WeighedAirWaybills(cs)
           ds == Reordered(cs, p)
           Z == T!WeighedAirWaybills(ds)
<1>1. PICK N \in Nat : /\ DOMAIN cs = 1..N
                       /\ \A i \in 1..N : /\ cs[i].gross \in Int /\ cs[i].packages \in Int
                                          /\ cs[i].hawb \in Int /\ cs[i].mawb \in Int
  BY DEF Graded
<1>2. /\ p \in [DOMAIN cs -> DOMAIN cs]
      /\ \A i, j \in DOMAIN cs : p[i] = p[j] => i = j
      /\ \A t \in DOMAIN cs : \E i \in DOMAIN cs : p[i] = t
  BY DEF Bijection, Injection, Surjection, IsInjective
<1>3. DOMAIN ds = DOMAIN cs /\ \A i \in DOMAIN cs : p[i] \in DOMAIN cs /\ ds[i] = cs[p[i]]
  BY <1>2 DEF Reordered
<1> HIDE DEF ds
<1>4. Graded(ds)
  <2>1. \A i \in 1..N : p[i] \in 1..N /\ ds[i] = cs[p[i]]
    BY <1>1, <1>3
  <2>2. \A i \in 1..N : /\ ds[i].gross \in Int /\ ds[i].packages \in Int
                         /\ ds[i].hawb \in Int /\ ds[i].mawb \in Int
    BY <1>1, <2>1
  <2>3. DOMAIN ds = 1..N
    BY <1>1, <1>3
  <2> QED BY <2>2, <2>3 DEF Graded
<1>5. Z = {i \in DOMAIN cs : p[i] \in S}
  BY <1>3 DEF T!WeighedAirWaybills
<1>6. S \in SUBSET DOMAIN cs /\ Z \in SUBSET DOMAIN cs /\ S # {}
  BY <1>5, WeighedTyped
<1>7. \A i, j \in S : cs[i].gross = cs[j].gross => i = j
  BY DEF Apart
<1> HIDE DEF S, Z
<1>8. Z # {} /\ \A t \in S : \E i \in Z : p[i] = t
  BY <1>2, <1>5, <1>6
<1>9. /\ T!Lightest(cs, S) \in LightOf(cs, S) /\ T!Heaviest(cs, S) \in HeavyOf(cs, S)
      /\ T!Lightest(ds, Z) \in LightOf(ds, Z) /\ T!Heaviest(ds, Z) \in HeavyOf(ds, Z)
  BY <1>3, <1>4, <1>6, <1>8, ChosenLight
<1>10. ASSUME NEW i \in Z PROVE ds[i].gross = cs[p[i]].gross /\ p[i] \in S /\ cs[p[i]].gross \in Int
  BY <1>1, <1>3, <1>5
<1>11. ASSUME NEW a \in LightOf(cs, S), NEW b \in LightOf(ds, Z) PROVE p[b] = a
  <2>1. a \in S /\ \A t \in S : cs[a].gross <= cs[t].gross
    BY DEF LightOf
  <2>2. b \in Z /\ \A j \in Z : ds[b].gross <= ds[j].gross
    BY DEF LightOf
  <2>3. PICK j \in Z : p[j] = a
    BY <1>8, <2>1
  <2>4. cs[p[b]].gross <= cs[a].gross
    BY <1>10, <2>2, <2>3
  <2>5. cs[a].gross <= cs[p[b]].gross
    BY <1>10, <2>1, <2>2
  <2>6. cs[a].gross = cs[p[b]].gross
    BY <1>1, <1>6, <1>10, <2>1, <2>2, <2>4, <2>5
  <2> QED BY <1>7, <1>10, <2>1, <2>2, <2>6
<1>12. ASSUME NEW a \in HeavyOf(cs, S), NEW b \in HeavyOf(ds, Z) PROVE p[b] = a
  <2>1. a \in S /\ \A t \in S : cs[a].gross >= cs[t].gross
    BY DEF HeavyOf
  <2>2. b \in Z /\ \A j \in Z : ds[b].gross >= ds[j].gross
    BY DEF HeavyOf
  <2>3. PICK j \in Z : p[j] = a
    BY <1>8, <2>1
  <2>4. cs[p[b]].gross >= cs[a].gross
    BY <1>10, <2>2, <2>3
  <2>5. cs[a].gross >= cs[p[b]].gross
    BY <1>10, <2>1, <2>2
  <2>6. cs[a].gross = cs[p[b]].gross
    BY <1>1, <1>6, <1>10, <2>1, <2>2, <2>4, <2>5
  <2> QED BY <1>7, <1>10, <2>1, <2>2, <2>6
<1>13. T!Lightest(ds, Z) \in Z /\ T!Heaviest(ds, Z) \in Z
  BY <1>9 DEF LightOf, HeavyOf
<1> QED BY <1>2, <1>4, <1>5, <1>8, <1>9, <1>11, <1>12, <1>13 DEF S, Z, ds

\* Then the comparison comes to the same in every order.
LEMMA RescoreReordered ==
    ASSUME NEW cs, Carded(cs), Apart(cs), NEW p \in Bijection(DOMAIN cs, DOMAIN cs)
    PROVE  T!ComparativeRescore(Reordered(cs, p)) = Reordered(T!ComparativeRescore(cs), p)
<1> DEFINE S == T!WeighedAirWaybills(cs)
           ds == Reordered(cs, p)
           Z == T!WeighedAirWaybills(ds)
           lo == T!Lightest(cs, S)
           hi == T!Heaviest(cs, S)
           low == T!Lightest(ds, Z)
           high == T!Heaviest(ds, Z)
<1>1. /\ p \in [DOMAIN cs -> DOMAIN cs]
      /\ \A i, j \in DOMAIN cs : p[i] = p[j] => i = j
      /\ \A t \in DOMAIN cs : \E i \in DOMAIN cs : p[i] = t
  BY DEF Bijection, Injection, Surjection, IsInjective
<1>2. DOMAIN ds = DOMAIN cs /\ \A i \in DOMAIN cs : p[i] \in DOMAIN cs /\ ds[i] = cs[p[i]]
  BY <1>1 DEF Reordered
<1>3. Z = {i \in DOMAIN cs : p[i] \in S}
  <2> HIDE DEF ds
  <2> QED BY <1>2 DEF T!WeighedAirWaybills
<1>4. S \in SUBSET DOMAIN cs /\ IsFiniteSet(S) /\ Z \in SUBSET DOMAIN cs /\ IsFiniteSet(Z)
  <2>1. S \in SUBSET DOMAIN cs /\ IsFiniteSet(S)
    BY WeighedTyped DEF Carded
  <2>2. PICK N \in Nat : DOMAIN cs = 1..N
    BY DEF Carded, Graded
  <2>3. IsFiniteSet(1..N)
    BY FS_Interval
  <2>4. Z \in SUBSET (1..N)
    BY <1>3, <2>2
  <2>5. IsFiniteSet(Z)
    BY <2>3, <2>4, FS_Subset
  <2> QED BY <2>1, <2>2, <2>4, <2>5
<1>5. T!ComparativeRescore(cs) =
        IF \/ T!Cardinality(S) < 2
           \/ cs[lo].gross = cs[hi].gross \/ Crossed(cs[lo], cs[hi])
        THEN cs ELSE Again(cs, lo, hi)
  BY RescoreIs, Zenon
<1>6. T!ComparativeRescore(ds) =
        IF \/ T!Cardinality(Z) < 2
           \/ ds[low].gross = ds[high].gross \/ Crossed(ds[low], ds[high])
        THEN ds ELSE Again(ds, low, high)
  BY RescoreIs, Zenon
<1>7. T!Cardinality(S) < 2 <=> T!Cardinality(Z) < 2
  <2> HIDE DEF S, Z
  <2>1. (\A i, j \in S : i = j) <=> (\A i, j \in Z : i = j)
    BY <1>1, <1>3, <1>4
  <2> QED BY <1>4, <2>1, TwoOrMore
<1>8. CASE T!Cardinality(S) < 2
  BY <1>5, <1>6, <1>7, <1>8
<1>9. CASE ~(T!Cardinality(S) < 2)
  <2>1. S # {}
    BY <1>4, <1>9, TwoOrMore
  <2>2. low \in Z /\ high \in Z /\ p[low] = lo /\ p[high] = hi
    BY <2>1, ExtremesReordered, Zenon DEF Carded
  <2> HIDE DEF low, high, lo, hi, S, Z
  <2>3. low \in DOMAIN cs /\ high \in DOMAIN cs
    BY <1>4, <2>2
  <2>4. ds[low] = cs[lo] /\ ds[high] = cs[hi]
    BY <1>2, <2>2, <2>3
  <2>5. Again(ds, low, high) = Reordered(Again(cs, lo, hi), p)
    <3> HIDE DEF ds
    <3>1. ASSUME NEW i \in DOMAIN cs
          PROVE  /\ Bonus(i, low) = Bonus(p[i], lo) /\ Bonus(i, high) = Bonus(p[i], hi)
                 /\ i \in {low, high} <=> p[i] \in {lo, hi}
      BY <1>1, <2>2, <2>3 DEF Bonus
    <3>2. ASSUME NEW i \in DOMAIN cs
          PROVE  Again(ds, low, high)[i] = Again(cs, lo, hi)[p[i]]
      <4>1. PICK f, g : f = Rescored(ds[i], Bonus(i, low), Bonus(i, high))
                        /\ g = Rescored(cs[p[i]], Bonus(p[i], lo), Bonus(p[i], hi))
        OBVIOUS
      <4>2. f = g
        BY <1>2, <3>1, <4>1
      <4>3. Again(ds, low, high)[i] = IF i \in {low, high} THEN f ELSE ds[i]
        BY <1>2, <4>1 DEF Again
      <4>4. Again(cs, lo, hi)[p[i]] = IF p[i] \in {lo, hi} THEN g ELSE cs[p[i]]
        BY <1>2, <4>1 DEF Again
      <4> QED BY <1>2, <3>1, <4>2, <4>3, <4>4
    <3>3. Again(ds, low, high) = [i \in DOMAIN ds |-> Again(ds, low, high)[i]]
      BY DEF Again
    <3>4. DOMAIN Again(cs, lo, hi) = DOMAIN cs
      BY DEF Again
    <3>5. Reordered(Again(cs, lo, hi), p) = [i \in DOMAIN cs |-> Again(cs, lo, hi)[p[i]]]
      BY <3>4 DEF Reordered
    <3> QED BY <1>2, <3>2, <3>3, <3>5
  <2> HIDE DEF ds
  <2>6. T!ComparativeRescore(ds) = Reordered(T!ComparativeRescore(cs), p)
    <3>1. CASE cs[lo].gross = cs[hi].gross \/ Crossed(cs[lo], cs[hi])
      <4>1. T!ComparativeRescore(cs) = cs
        BY <1>5, <3>1
      <4>2. T!ComparativeRescore(ds) = ds
        BY <1>6, <2>4, <3>1
      <4> QED BY <4>1, <4>2 DEF ds
    <3>2. CASE ~(cs[lo].gross = cs[hi].gross \/ Crossed(cs[lo], cs[hi]))
      <4>1. T!ComparativeRescore(cs) = Again(cs, lo, hi)
        BY <1>5, <1>9, <3>2
      <4>2. T!ComparativeRescore(ds) = Again(ds, low, high)
        BY <1>6, <1>7, <1>9, <2>4, <3>2
      <4> QED BY <2>5, <4>1, <4>2
    <3> QED BY <3>1, <3>2
  <2> QED BY <2>6 DEF ds
<1> QED BY <1>8, <1>9

\* Forms in another order are classified as they were.
LEMMA ClassifiedReordered ==
    ASSUME NEW forms \in Seq(Doc!AirWaybillForm), Apart(T!Classifications(forms)),
           NEW p \in Bijection(DOMAIN forms, DOMAIN forms)
    PROVE  /\ Reordered(forms, p) \in Seq(Doc!AirWaybillForm)
           /\ T!Classifications(Reordered(forms, p)) = Reordered(T!Classifications(forms), p)
           /\ p \in Bijection(DOMAIN T!Classifications(forms), DOMAIN T!Classifications(forms))
<1> DEFINE cs == [i \in DOMAIN forms |-> T!ClassifyForm(forms[i])]
           again == Reordered(forms, p)
           ds == [i \in DOMAIN again |-> T!ClassifyForm(again[i])]
<1>1. PICK N \in Nat : DOMAIN forms = 1..N /\ \A i \in 1..N : forms[i] \in Doc!AirWaybillForm
  BY LenProperties, ElementOfSeq
<1>2. \A i \in DOMAIN forms : p[i] \in DOMAIN forms
  BY DEF Bijection, Injection
<1>3. again \in Seq(Doc!AirWaybillForm)
  <2>1. again \in [1..N -> Doc!AirWaybillForm]
    BY <1>1, <1>2 DEF Reordered
  <2> HIDE DEF again
  <2> QED BY <1>1, <2>1, SeqDef
<1>4. T!Classifications(forms) = T!ComparativeRescore(cs)
      /\ T!Classifications(again) = T!ComparativeRescore(ds)
  BY DEF T!Classifications
<1>5. ds = Reordered(cs, p) /\ DOMAIN cs = DOMAIN forms
  BY <1>2 DEF Reordered
<1>6. Carded(cs)
  BY OneByOne
<1> HIDE DEF cs, ds, again
<1>7. /\ DOMAIN T!Classifications(forms) = DOMAIN cs
      /\ \A i \in DOMAIN cs : T!Classifications(forms)[i].gross = cs[i].gross
      /\ T!WeighedAirWaybills(T!Classifications(forms)) = T!WeighedAirWaybills(cs)
  BY <1>4, <1>6, RescoreKeeps
<1>8. T!WeighedAirWaybills(cs) \in SUBSET DOMAIN cs
  BY DEF T!WeighedAirWaybills
<1>9. Apart(cs)
  BY <1>7, <1>8 DEF Apart
<1>10. p \in Bijection(DOMAIN cs, DOMAIN cs)
  BY <1>5
<1>11. T!ComparativeRescore(ds) = Reordered(T!ComparativeRescore(cs), p)
  BY <1>5, <1>6, <1>9, <1>10, RescoreReordered
<1> QED BY <1>3, <1>4, <1>5, <1>7, <1>10, <1>11 DEF again

\* What decides of a set of forms decides of it in another order.
LEMMA DecidesReordered ==
    ASSUME NEW cs, NEW p \in Bijection(DOMAIN cs, DOMAIN cs)
    PROVE  AirDecides(cs) => AirDecides(Reordered(cs, p))
<1> DEFINE ds == Reordered(cs, p)
<1>1. /\ p \in [DOMAIN cs -> DOMAIN cs]
      /\ \A t \in DOMAIN cs : \E i \in DOMAIN cs : p[i] = t
  BY DEF Bijection, Injection, Surjection
<1>2. DOMAIN ds = DOMAIN cs /\ \A i \in DOMAIN cs : p[i] \in DOMAIN cs /\ ds[i] = cs[p[i]]
  BY <1>1 DEF Reordered
<1> HIDE DEF ds
<1>3. \A dec : OfKind(cs, dec) = {} => OfKind(ds, dec) = {}
  BY <1>2 DEF OfKind
<1>4. \A dec : WeighedOf(cs, dec) = {} => WeighedOf(ds, dec) = {}
  BY <1>2 DEF OfKind, WeighedOf
<1>5. WeighedOf(cs, "HAWB") # {} => WeighedOf(ds, "HAWB") # {}
  BY <1>1, <1>2 DEF OfKind, WeighedOf
<1>6. Usable(cs) # {} => Usable(ds) # {}
  BY <1>1, <1>2 DEF OfKind, Usable
<1>7. AirDecides(cs) => AirDecides(ds)
  BY <1>3, <1>4, <1>5, <1>6 DEF AirDecides
<1> QED BY <1>7 DEF ds

\* When an air waybill states the gross and no two weigh the same, it is the
\* lightest that states it in every order of the forms.
LEMMA LightestInAnyOrder ==
    ASSUME NEW forms \in Seq(Doc!AirWaybillForm), NEW packing, NEW none, NEW invoices,
           NEW p \in Bijection(DOMAIN forms, DOMAIN forms),
           LET cs == T!Classifications(forms)
           IN  /\ Apart(cs)
               /\ T!ResolveShipmentAuthority(forms, packing, invoices).form
                    \in T!WeighedAirWaybills(cs)
    PROVE  T!ResolveShipmentAuthority(Reordered(forms, p), none, invoices).gross
             = T!Classifications(forms)[T!ResolveShipmentAuthority(forms, packing, invoices).form].gross
<1>1. PICK cs : cs = T!Classifications(forms)
  OBVIOUS
<1>2. PICK ship : ship = T!ResolveShipmentAuthority(forms, packing, invoices)
  OBVIOUS
<1>3. PICK again : again = Reordered(forms, p)
  OBVIOUS
<1>4. PICK ds : ds = T!Classifications(again)
  OBVIOUS
<1>5. PICK other : other = T!ResolveShipmentAuthority(again, none, invoices)
  OBVIOUS
<1> DEFINE S == T!WeighedAirWaybills(cs)
           Z == T!WeighedAirWaybills(ds)
<1>6. /\ again \in Seq(Doc!AirWaybillForm) /\ ds = Reordered(cs, p)
      /\ p \in Bijection(DOMAIN cs, DOMAIN cs)
  BY <1>1, <1>3, <1>4, ClassifiedReordered
<1>7. ship.form \in S
  BY <1>1, <1>2
<1>8. AirDecides(cs) /\ ship.form \in LightOf(cs, S)
  BY <1>1, <1>2, <1>7, AirForm
<1>9. AirDecides(ds)
  BY <1>6, <1>8, DecidesReordered
<1>10. other.form \in Z /\ other.form \in LightOf(ds, Z) /\ other.gross = ds[other.form].gross
  BY <1>4, <1>5, <1>6, <1>9, AirForm
<1>11. PICK N \in Nat : DOMAIN cs = 1..N /\ \A i \in 1..N : cs[i].gross \in Int
  BY <1>1, GradesTyped DEF Graded
<1>12. /\ p \in [DOMAIN cs -> DOMAIN cs]
       /\ \A t \in DOMAIN cs : \E i \in DOMAIN cs : p[i] = t
  BY <1>6 DEF Bijection, Injection, Surjection
<1>13. DOMAIN ds = DOMAIN cs /\ \A i \in DOMAIN cs : p[i] \in DOMAIN cs /\ ds[i] = cs[p[i]]
  BY <1>6, <1>12 DEF Reordered
<1>14. Z = {i \in DOMAIN cs : p[i] \in S} /\ S \in SUBSET DOMAIN cs
  BY <1>13 DEF T!WeighedAirWaybills
<1> HIDE DEF S, Z
<1>15. PICK i \in Z : p[i] = ship.form
  BY <1>7, <1>12, <1>14
<1>16. /\ ds[i].gross = cs[ship.form].gross
       /\ ds[other.form].gross = cs[p[other.form]].gross /\ p[other.form] \in S
  BY <1>10, <1>13, <1>14, <1>15
<1>17. ds[other.form].gross <= ds[i].gross /\ cs[ship.form].gross <= cs[p[other.form]].gross
  BY <1>8, <1>10, <1>15, <1>16 DEF LightOf
<1>18. cs[ship.form].gross \in Int /\ cs[p[other.form]].gross \in Int
  BY <1>7, <1>11, <1>14, <1>16
<1>19. other.gross = cs[ship.form].gross
  BY <1>10, <1>16, <1>17, <1>18
<1> QED BY <1>1, <1>2, <1>3, <1>5, <1>19

\* The first of three numbers is the first that is printed.
LEMMA FirstOfThree ==
    ASSUME NEW a, NEW b, NEW c
    PROVE  /\ a # "" => T!FirstNumber(<<a, b, c>>) = a
           /\ b # "" => T!FirstNumber(<<"", b, c>>) = b
<1>1. PICK none : none = ""
  BY Zenon
<1>2. ASSUME NEW s, DOMAIN s = 1..3
      PROVE  /\ s[1] # none => T!FirstNumber(s) = s[1]
             /\ s[1] = none /\ s[2] # none => T!FirstNumber(s) = s[2]
  <2> DEFINE S == {i \in DOMAIN s : s[i] # none}
  <2>1. T!FirstNumber(s) = IF S = {} THEN none ELSE s[T!Min(S)]
    BY <1>1, Zenon DEF T!FirstNumber
  <2>2. S \in SUBSET Int /\ IsFiniteSet(S)
    <3>1. PICK m \in Nat : m = 3
      OBVIOUS
    <3>2. IsFiniteSet(1..m)
      BY FS_Interval
    <3>3. S \in SUBSET (1..m)
      BY <1>2, <3>1
    <3>4. IsFiniteSet(S)
      BY <3>2, <3>3, FS_Subset
    <3> QED BY <3>3, <3>4
  <2>3. S # {} => T!Min(S) \in S /\ \A y \in S : T!Min(S) <= y
    <3> HIDE DEF S
    <3> QED BY <2>2, SameMax, ExtremesOf
  <2>4. \A i \in S : i \in 1..3 /\ s[i] # none
    BY <1>2
  <2>5. ASSUME s[1] # none PROVE T!FirstNumber(s) = s[1]
    <3>1. 1 \in S
      BY <1>2, <2>5
    <3> HIDE DEF S
    <3>2. T!Min(S) \in 1..3 /\ T!Min(S) <= 1
      BY <2>3, <2>4, <3>1
    <3>3. T!Min(S) = 1
      BY <3>2
    <3> QED BY <2>1, <3>1, <3>3
  <2>6. ASSUME s[1] = none, s[2] # none PROVE T!FirstNumber(s) = s[2]
    <3>1. 2 \in S /\ 1 \notin S
      BY <1>2, <2>6
    <3> HIDE DEF S
    <3>2. T!Min(S) \in 1..3 /\ T!Min(S) <= 2 /\ T!Min(S) \in S
      BY <2>3, <2>4, <3>1
    <3>3. T!Min(S) = 2
      BY <3>1, <3>2
    <3> QED BY <2>1, <3>1, <3>3
  <2> QED BY <2>5, <2>6
<1>3. a # none => T!FirstNumber(<<a, b, c>>) = a
  BY <1>2
<1>4. b # none => T!FirstNumber(<<none, b, c>>) = b
  BY <1>2
<1> QED BY <1>1, <1>3, <1>4, Zenon

\* Field 40 prints the own house number of the one lightest air waybill.
LEMMA Field40Is ==
    ASSUME NEW forms, NEW cs, Graded(cs), NEW ship, ship.classes = cs,
           ship.hawb = T!HouseNumber(forms, cs), NEW i \in T!WeighedAirWaybills(cs),
           T!WeighedAirWaybills(cs) # {i},
           \A j \in T!WeighedAirWaybills(cs) \ {i} : cs[i].gross < cs[j].gross
    PROVE  T!OwnHouseNumber(forms[i]) # "" => T!DeriveField40(ship) = T!OwnHouseNumber(forms[i])
<1> DEFINE S == T!WeighedAirWaybills(cs)
           lo == T!Lightest(cs, S)
           hi == T!Heaviest(cs, S)
<1>1. S \in SUBSET DOMAIN cs /\ IsFiniteSet(S) /\ i \in S
  BY WeighedTyped
<1>2. PICK N \in Nat : DOMAIN cs = 1..N /\ \A k \in 1..N : cs[k].gross \in Int
  BY DEF Graded
<1>3. PICK j \in S : j # i
  BY <1>1
<1>4. cs[i].gross < cs[j].gross
  BY <1>3
<1> HIDE DEF S
<1>5. lo \in LightOf(cs, S) /\ hi \in HeavyOf(cs, S)
  BY <1>1, ChosenLight
<1> HIDE DEF lo, hi
<1>6. lo = i
  <2>1. lo \in S /\ cs[lo].gross <= cs[i].gross
    BY <1>1, <1>5 DEF LightOf
  <2>2. lo # i => cs[i].gross < cs[lo].gross
    BY <2>1 DEF S
  <2>3. cs[lo].gross \in Int /\ cs[i].gross \in Int
    BY <1>1, <1>2, <2>1
  <2>4. PICK a \in Int, b \in Int : a = cs[lo].gross /\ b = cs[i].gross
    BY <2>3
  <2>5. a <= b /\ (lo # i => b < a)
    BY <2>1, <2>2, <2>4
  <2>6. ~(b < a)
    BY <2>4, <2>5
  <2> QED BY <2>5, <2>6
<1>7. cs[lo].gross < cs[hi].gross
  <2>1. hi \in S /\ cs[hi].gross >= cs[j].gross
    BY <1>3, <1>5 DEF HeavyOf
  <2>2. cs[hi].gross \in Int /\ cs[i].gross \in Int /\ cs[j].gross \in Int
    BY <1>1, <1>2, <1>3, <2>1
  <2>3. PICK a \in Int, b \in Int, d \in Int :
          a = cs[hi].gross /\ b = cs[i].gross /\ d = cs[j].gross
    BY <2>2
  <2>4. b < d /\ a >= d
    BY <1>4, <2>1, <2>3
  <2>5. b < a
    BY <2>3, <2>4
  <2> QED BY <1>6, <2>3, <2>5
<1>8. T!Cardinality(S) >= 2
  <2>1. ~(T!Cardinality(S) < 2)
    BY <1>1, <1>3, TwoOrMore
  <2>2. PICK n \in Nat : n = T!Cardinality(S)
    BY <1>1, FS_CardinalityType, SameCount
  <2>3. ~(n < 2)
    BY <2>1, <2>2
  <2>4. n >= 2
    BY <2>2, <2>3
  <2> QED BY <2>2, <2>4
<1> DEFINE awbs == {k \in DOMAIN ship.classes : ship.classes[k].dec \in T!AirWaybills}
           weights == {ship.classes[k].gross : k \in T!WeighedAirWaybills(ship.classes)}
           weighed == T!Cardinality(T!WeighedAirWaybills(ship.classes))
<1>11. T!Cardinality(weights) # 1
  <2>1. cs[i].gross \in weights /\ cs[j].gross \in weights
    BY <1>1, <1>3 DEF S
  <2>2. cs[i].gross # cs[j].gross
    <3>1. PICK a \in Int, b \in Int : a = cs[i].gross /\ b = cs[j].gross
      BY <1>1, <1>2, <1>3
    <3>2. a < b
      BY <1>4, <3>1
    <3>3. a # b
      BY <3>1, <3>2
    <3> QED BY <3>1, <3>3
  <2>3. IsFiniteSet(weights)
    <3>1. weights = {cs[k].gross : k \in S}
      BY DEF S
    <3>2. PICK f : f = [k \in S |-> cs[k].gross]
      OBVIOUS
    <3>3. f \in Surjection(S, weights)
      BY <3>1, <3>2 DEF Surjection
    <3> HIDE DEF weights
    <3> QED BY <1>1, <3>3, FS_Surjection
  <2> HIDE DEF weights
  <2>4. \A x : weights # {x}
    BY <2>1, <2>2
  <2> QED BY <2>3, <2>4, FS_Singleton, SameCount
<1>12. ASSUME T!OwnHouseNumber(forms[i]) # "" PROVE T!DeriveField40(ship) = T!OwnHouseNumber(forms[i])
  <2>1. PICK own : own = T!OwnHouseNumber(forms[i]) /\ own # ""
    BY <1>12, Zenon
  <2>2. ship.hawb = own
    <3>1. PICK first, hawbs, others :
            /\ first = IF T!Cardinality(S) >= 2 /\ cs[lo].gross < cs[hi].gross
                       THEN T!OwnHouseNumber(forms[lo]) ELSE ""
            /\ T!HouseNumber(forms, cs) = T!FirstNumber(<<first, hawbs, others>>)
      BY Zenon DEF T!HouseNumber, S, lo, hi
    <3>2. first = own
      BY <1>6, <1>7, <1>8, <2>1, <3>1, Zenon
    <3>3. T!FirstNumber(<<own, hawbs, others>>) = own
      BY <2>1, FirstOfThree, Zenon
    <3> QED BY <3>1, <3>2, <3>3, Zenon
  <2>3. PICK single, numbers :
         /\ single = T!FirstNumber(<<ship.mawb, ship.hawb, numbers>>)
         /\ T!DeriveField40(ship)
              = IF awbs = {} /\ ship.hawb = "" /\ ship.mawb = "" THEN ship.bl
                ELSE IF ship.hawb # "" /\ ship.mawb # ""
                THEN IF weighed >= 2 /\ T!Cardinality(weights) = 1 THEN ship.mawb ELSE ship.hawb
                ELSE single
    BY Zenon DEF T!DeriveField40
  <2>4. ship.mawb = "" => single = own
    <3>1. T!FirstNumber(<<"", own, numbers>>) = own
      BY <2>1, FirstOfThree, Zenon
    <3> QED BY <2>2, <2>3, <3>1, Zenon
  <2> HIDE DEF awbs, weights, weighed
  <2> QED BY <1>11, <2>1, <2>2, <2>3, <2>4, Zenon
<1> QED BY <1>12

\* The classification of a form states its gross weight.
LEMMA GrossAsPrinted ==
    ASSUME NEW forms \in Seq(Doc!AirWaybillForm), NEW i \in DOMAIN forms
    PROVE  T!Classifications(forms)[i].gross = forms[i].gross
<1> DEFINE cs == [k \in DOMAIN forms |-> T!ClassifyForm(forms[k])]
<1>1. T!Classifications(forms) = T!ComparativeRescore(cs)
  BY DEF T!Classifications
<1>2. \A f : T!ClassifyForm(f).gross = f.gross
  BY DEF T!ClassifyForm
<1>3. DOMAIN cs = DOMAIN forms /\ cs[i].gross = forms[i].gross
  BY <1>2
<1>4. Carded(cs)
  BY OneByOne
<1> HIDE DEF cs
<1>5. T!ComparativeRescore(cs)[i].gross = cs[i].gross
  BY <1>3, <1>4, RescoreKeeps
<1> QED BY <1>1, <1>3, <1>5

\* What LowestAwbDecides says of a context: of its gross weight, and of its Field 40.
LowestStates(c) ==
    LET weighed == T!WeighedAirWaybills(c.classes)
        gross(i) == c.forms[i].gross
        none == PackingTotals(<< >>)
        reordered(p) == [i \in DOMAIN c.forms |-> c.forms[p[i]]]
    IN  c.form \in weighed =>
            /\ \A i \in weighed : gross(c.form) <= gross(i)
            /\ (\A i, j \in weighed : gross(i) = gross(j) => i = j) =>
                   \A p \in Bijection(DOMAIN c.forms, DOMAIN c.forms) :
                       T!ResolveShipmentAuthority(reordered(p), none, c.inv.refs).gross
                           = gross(c.form)

LowestPrints(c) ==
    LET weighed == T!WeighedAirWaybills(c.classes)
        gross(i) == c.forms[i].gross
    IN  \A i \in weighed :
            /\ weighed # {i} /\ \A j \in weighed \ {i} : gross(i) < gross(j)
            /\ T!OwnHouseNumber(c.forms[i]) # ""
            => c.field40 = T!OwnHouseNumber(c.forms[i])

\* Both hold of a context that was built of documents.
LEMMA LowestDecides ==
    ASSUME NEW files \in Seq(DOMAIN Document), NEW ov, NEW hist,
           NEW c, c = Context(files, ov, hist)
    PROVE  LowestStates(c) /\ LowestPrints(c)
<1>1. PICK forms, packing, refs, none :
        /\ forms = FormsOf(files) /\ packing = PackingTotals(ListsOf(files))
        /\ refs = InvoicesOf(files).refs
        /\ none = PackingTotals(<< >>)
  OBVIOUS
<1>2. PICK ship : ship = T!ResolveShipmentAuthority(forms, packing, refs)
  OBVIOUS
<1>3. forms \in Seq(Doc!AirWaybillForm)
  BY <1>1, PayloadsTyped, DocumentsAssumption DEF FormsOf
<1>4. PICK cs : cs = T!Classifications(forms)
  OBVIOUS
<1>5. /\ c.forms = forms /\ c.inv.refs = refs /\ c.form = ship.form
      /\ c.field40 = T!DeriveField40(ship) /\ c.classes = ship.classes
  <2>1. ship = ShipOf(files)
    BY <1>1, <1>2 DEF ShipOf
  <2>2. /\ c.forms = FormsOf(files) /\ c.inv = InvoicesOf(files)
        /\ c.classes = ShipOf(files).classes /\ c.form = ShipOf(files).form
        /\ c.field40 = T!DeriveField40(ShipOf(files))
    BY ContextIs
  <2> QED BY <1>1, <2>1, <2>2
<1>6. ship.classes = cs /\ ship.hawb = T!HouseNumber(forms, cs)
  BY <1>2, <1>3, <1>4, FirstRung
<1>7. Graded(cs) /\ DOMAIN cs = DOMAIN forms
  BY <1>3, <1>4, GradesTyped
<1> DEFINE S == T!WeighedAirWaybills(cs)
<1>8. \A i \in S : i \in DOMAIN cs /\ cs[i].gross = forms[i].gross
  <2>1. S \in SUBSET DOMAIN cs
    BY <1>7, WeighedTyped
  <2> HIDE DEF S
  <2> QED BY <1>3, <1>4, <1>7, <2>1, GrossAsPrinted
<1>9. S = T!WeighedAirWaybills(c.classes)
  BY <1>5, <1>6
<1>10. ship.form \in S => ship.form \in LightOf(cs, S)
  BY <1>2, <1>3, <1>4, AirForm
<1>11. ASSUME ship.form \in S, \A i, j \in S : forms[i].gross = forms[j].gross => i = j,
              NEW p \in Bijection(DOMAIN forms, DOMAIN forms)
       PROVE  T!ResolveShipmentAuthority([i \in DOMAIN forms |-> forms[p[i]]], none, refs).gross
                = forms[ship.form].gross
  <2>1. Apart(cs)
    BY <1>8, <1>11 DEF Apart
  <2>2. T!ResolveShipmentAuthority(Reordered(forms, p), none, refs).gross = cs[ship.form].gross
    BY <1>2, <1>3, <1>4, <1>11, <2>1, LightestInAnyOrder
  <2>3. Reordered(forms, p) = [i \in DOMAIN forms |-> forms[p[i]]]
    BY DEF Reordered
  <2> QED BY <1>8, <1>11, <2>2, <2>3
<1>12. ASSUME NEW i \in S, S # {i}, \A j \in S \ {i} : forms[i].gross < forms[j].gross
       PROVE  T!OwnHouseNumber(forms[i]) # "" => T!DeriveField40(ship) = T!OwnHouseNumber(forms[i])
  <2>1. \A j \in S \ {i} : cs[i].gross < cs[j].gross
    BY <1>8, <1>12
  <2> QED BY <1>6, <1>7, <1>12, <2>1, Field40Is
<1> HIDE DEF S
<1>13. ship.form \in S => \A i \in S : forms[ship.form].gross <= forms[i].gross
  BY <1>8, <1>10 DEF LightOf
<1>14. LowestStates(c)
  <2>1. ASSUME c.form \in S PROVE \A i \in S : c.forms[c.form].gross <= c.forms[i].gross
    BY <1>5, <1>13, <2>1
  <2>2. ASSUME c.form \in S, \A i, j \in S : c.forms[i].gross = c.forms[j].gross => i = j,
               NEW p \in Bijection(DOMAIN c.forms, DOMAIN c.forms)
        PROVE  T!ResolveShipmentAuthority([i \in DOMAIN c.forms |-> c.forms[p[i]]],
                                          PackingTotals(<< >>), c.inv.refs).gross
                 = c.forms[c.form].gross
    BY <1>1, <1>5, <1>11, <2>2
  <2> QED BY <1>9, <2>1, <2>2, Zenon DEF LowestStates
<1>15. LowestPrints(c)
  <2>1. \A i \in T!WeighedAirWaybills(c.classes) :
            /\ T!WeighedAirWaybills(c.classes) # {i}
            /\ \A j \in T!WeighedAirWaybills(c.classes) \ {i} : c.forms[i].gross < c.forms[j].gross
            => (T!OwnHouseNumber(c.forms[i]) # "" => c.field40 = T!OwnHouseNumber(c.forms[i]))
    BY <1>5, <1>9, <1>12, Zenon
  <2> QED BY <2>1, Zenon DEF LowestPrints
<1> QED BY <1>14, <1>15

-----------------------------------------------------------------------------
(* What is shared stays whole, up to the rounding of each share.            *)

\* What f adds up to in the class k of the parts s.
Class(class, s, k) == {x \in s : class[x] = k}
ClassSums(f, class, s, K) == [k \in K |-> Sum(f, Class(class, s, k))]

\* A sum is the sum of the sums over the classes of a partition.
LEMMA SumOfClasses ==
    ASSUME NEW S, IsFiniteSet(S), NEW f, Ints(f, S), NEW K, IsFiniteSet(K), NEW class,
           \A x \in S : class[x] \in K
    PROVE  /\ Sum(f, S) = Sum(ClassSums(f, class, S, K), K)
           /\ Ints(ClassSums(f, class, S, K), K)
<1> DEFINE sums(s) == ClassSums(f, class, s, K)
           Good == {s \in SUBSET S : Sum(f, s) = Sum(sums(s), K)}
<1>1. \A s \in SUBSET S, k \in K : sums(s)[k] = Sum(f, Class(class, s, k)) /\ sums(s)[k] \in Int
  <2> SUFFICES ASSUME NEW s \in SUBSET S, NEW k \in K
               PROVE  sums(s)[k] = Sum(f, Class(class, s, k)) /\ sums(s)[k] \in Int
    OBVIOUS
  <2>1. Class(class, s, k) \in SUBSET S
    BY DEF Class
  <2>2. Sum(f, Class(class, s, k)) \in Int
    BY <2>1, SumInt
  <2> QED BY <2>2 DEF ClassSums
<1>2. {} \in Good
  <2>1. \A k \in K : sums({})[k] = 0
    <3>1. \A k \in K : Class(class, {}, k) = {}
      BY DEF Class
    <3> QED BY <1>1, <3>1, SumEmpty
  <2>2. Sum(sums({}), K) = 0 * Cardinality(K)
    <3> HIDE DEF sums
    <3> QED BY <2>1, SumConst
  <2>3. Cardinality(K) \in Nat
    BY FS_CardinalityType
  <2> QED BY <2>2, <2>3, SumEmpty
<1>3. ASSUME NEW s \in SUBSET S, NEW x \in s, s \ {x} \in Good PROVE s \in Good
  <2> DEFINE c == class[x]
             t == s \ {x}
  <2>1. c \in K /\ t \in SUBSET S /\ x \notin t /\ x \in S
    OBVIOUS
  <2>2. \A k \in K \ {c} : Class(class, s, k) = Class(class, t, k)
    BY DEF Class
  <2>3. Class(class, t, c) = Class(class, s, c) \ {x} /\ x \in Class(class, s, c)
        /\ Class(class, s, c) \in SUBSET S
    BY DEF Class
  <2>4. sums(s)[c] = f[x] + sums(t)[c]
    <3>1. Sum(f, Class(class, s, c)) = f[x] + Sum(f, Class(class, t, c))
      BY <2>3, SumAdds
    <3> HIDE DEF sums, c, t
    <3> QED BY <1>1, <2>1, <3>1
  <2>5. Sum(sums(s), K \ {c}) = Sum(sums(t), K \ {c})
    <3>1. \A k \in K \ {c} : sums(s)[k] = sums(t)[k]
      <4> HIDE DEF sums, c, t
      <4> QED BY <1>1, <2>1, <2>2
    <3>2. IsFiniteSet(K \ {c})
      BY FS_RemoveElement
    <3> HIDE DEF sums, c, t
    <3> QED BY <3>1, <3>2, SumSame
  <2>6. Sum(f, s) = f[x] + Sum(f, t)
    BY SumAdds
  <2>7. Ints(sums(s), K) /\ Ints(sums(t), K)
    <3> HIDE DEF sums, c, t
    <3> QED BY <1>1, <2>1 DEF Ints
  <2>8. /\ Sum(sums(s), K) = sums(s)[c] + Sum(sums(s), K \ {c})
        /\ Sum(sums(t), K) = sums(t)[c] + Sum(sums(t), K \ {c})
    <3> HIDE DEF sums, c, t
    <3> QED BY <2>1, <2>7, SumRemove
  <2>9. f[x] \in Int /\ sums(t)[c] \in Int /\ Sum(sums(t), K \ {c}) \in Int
    <3>1. Sum(sums(t), K \ {c}) \in Int
      <4> HIDE DEF sums, c, t
      <4> QED BY <2>7, SumInt
    <3>2. f[x] \in Int
      BY DEF Ints
    <3>3. sums(t)[c] \in Int
      <4> HIDE DEF sums, c, t
      <4> QED BY <1>1, <2>1
    <3> QED BY <3>1, <3>2, <3>3
  <2>10. Sum(f, t) = Sum(sums(t), K)
    BY <1>3
  <2>11. Sum(f, s) = Sum(sums(s), K)
    <3> HIDE DEF sums, c, t
    <3>1. PICK a \in Int, b \in Int, d \in Int : a = f[x] /\ b = sums(t)[c] /\ d = Sum(sums(t), K \ {c})
      BY <2>9
    <3> QED BY <2>4, <2>5, <2>6, <2>8, <2>10, <3>1
  <2> QED BY <2>11
<1>4. S \in Good
  <2> HIDE DEF Good
  <2> QED BY <1>2, <1>3, SumInduction
<1>5. Ints(sums(S), K)
  <2> HIDE DEF sums
  <2> QED BY <1>1 DEF Ints
<1> QED BY <1>4, <1>5

\* A sum stays the same when its terms are moved to other places, no two to one.
LEMMA SumMoved ==
    ASSUME NEW S, IsFiniteSet(S), NEW g, Ints(g, S), NEW f, NEW at,
           \A x, y \in S : at[x] = at[y] => x = y, \A x \in S : g[x] = f[at[x]],
           NEW K, K = {at[x] : x \in S}
    PROVE  Sum(g, S) = Sum(f, K) /\ IsFiniteSet(K)
<1>1. IsFiniteSet(K)
  <2>1. PICK h : h = [x \in S |-> at[x]]
    OBVIOUS
  <2>2. h \in Surjection(S, K)
    BY <2>1 DEF Surjection
  <2> QED BY <2>2, FS_Surjection
<1>2. PICK sums : sums = ClassSums(g, at, S, K)
  OBVIOUS
<1>3. Sum(g, S) = Sum(sums, K)
  <2>1. \A x \in S : at[x] \in K
    OBVIOUS
  <2> QED BY <1>1, <1>2, <2>1, SumOfClasses
<1>4. \A y \in K : sums[y] = f[y]
  <2> TAKE y \in K
  <2>1. PICK x \in S : at[x] = y
    OBVIOUS
  <2>2. Class(at, S, y) = {x}
    BY <2>1 DEF Class
  <2>3. Sum(g, {x}) = g[x]
    <3>1. PICK one : one = {x} /\ x \in one /\ one \ {x} = {} /\ one \in SUBSET S
      OBVIOUS
    <3>2. Sum(g, one) = g[x] + Sum(g, {})
      BY <3>1, SumAdds
    <3>3. g[x] \in Int
      BY DEF Ints
    <3> QED BY <3>1, <3>2, <3>3, SumEmpty
  <2>4. sums[y] = Sum(g, {x})
    BY <1>2, <2>2 DEF ClassSums
  <2> QED BY <2>1, <2>3, <2>4
<1>5. Sum(sums, K) = Sum(f, K)
  BY <1>1, <1>4, SumSame
<1> QED BY <1>1, <1>3, <1>5

\* Twice two numbers are no further apart than n.
Near(a, b, n) == 2 * a <= 2 * b + n /\ 2 * b <= 2 * a + n

LEMMA CancelFactor ==
    ASSUME NEW w \in Int, w > 0, NEW a \in Int, NEW b \in Int, w * a <= w * b
    PROVE  a <= b
OBVIOUS

\* A share is what part of the whole is in the total, up to half a step.
LEMMA ShareNear ==
    ASSUME NEW total \in Int, NEW part \in Int, NEW whole \in Int, whole > 0
    PROVE  /\ P!Share(total, part, whole) \in Int
           /\ whole * (2 * P!Share(total, part, whole)) <= total * (2 * part) + whole
           /\ total * (2 * part) - whole <= whole * (2 * P!Share(total, part, whole))
<1>1. PICK num \in Int : num = 2 * total * part + whole
  OBVIOUS
<1>2. PICK den \in Int : den = 2 * whole /\ den > 0
  OBVIOUS
<1>3. PICK q \in Int : q = num \div den /\ den * q <= num /\ num < den * q + den
  BY <1>1, <1>2
<1>4. P!Share(total, part, whole) = q
  BY <1>1, <1>2, <1>3 DEF P!Share
<1>5. den * q = whole * (2 * q)
  BY <1>2
<1>6. 2 * total * part = total * (2 * part)
  OBVIOUS
<1> QED BY <1>1, <1>2, <1>3, <1>4, <1>5, <1>6

\* Shares by weights that add up to something positive add up to the total, up to half a step
\* each.
LEMMA SharesNear ==
    ASSUME NEW S, IsFiniteSet(S), NEW w, Ints(w, S), NEW total \in Int, Sum(w, S) > 0,
           NEW share, \A k \in S : share[k] = P!Share(total, w[k], Sum(w, S))
    PROVE  /\ Ints(share, S)
           /\ Sum(share, S) \in Int
           /\ Near(Sum(share, S), total, Cardinality(S))
<1>1. PICK W \in Int : W = Sum(w, S) /\ W > 0
  BY SumInt
<1>2. PICK n \in Nat : n = Cardinality(S)
  BY FS_CardinalityType
<1>3. \A k \in S : /\ w[k] \in Int /\ share[k] \in Int
                  /\ W * (2 * share[k]) <= total * (2 * w[k]) + W
                  /\ total * (2 * w[k]) - W <= W * (2 * share[k])
  <2> TAKE k \in S
  <2>1. PICK v \in Int : v = w[k]
    BY DEF Ints
  <2>2. share[k] = P!Share(total, v, W)
    BY <1>1, <2>1
  <2>3. /\ P!Share(total, v, W) \in Int
        /\ W * (2 * P!Share(total, v, W)) <= total * (2 * v) + W
        /\ total * (2 * v) - W <= W * (2 * P!Share(total, v, W))
    BY <1>1, ShareNear
  <2> QED BY <2>1, <2>2, <2>3
<1>4. Ints(share, S)
  BY <1>3 DEF Ints
<1> DEFINE given == [k \in S |-> W * (2 * share[k])]
           due == [k \in S |-> total * (2 * w[k])]
           ones == [k \in S |-> W]
           upper == [k \in S |-> due[k] + ones[k]]
           lower == [k \in S |-> given[k] + ones[k]]
<1>5. \A k \in S : /\ given[k] \in Int /\ due[k] \in Int /\ ones[k] = W
                  /\ upper[k] = due[k] + ones[k] /\ lower[k] = given[k] + ones[k]
                  /\ given[k] <= upper[k] /\ due[k] <= lower[k]
                  /\ given[k] = (2 * W) * share[k] /\ due[k] = (2 * total) * w[k]
  <2> TAKE k \in S
  <2>1. PICK s \in Int, v \in Int : s = share[k] /\ v = w[k]
    BY <1>3
  <2>2. given[k] = W * (2 * s) /\ due[k] = total * (2 * v) /\ ones[k] = W
    BY <2>1
  <2>3. W * (2 * s) \in Int /\ total * (2 * v) \in Int
    OBVIOUS
  <2>4. W * (2 * s) = (2 * W) * s /\ total * (2 * v) = (2 * total) * v
    OBVIOUS
  <2>5. upper[k] = due[k] + ones[k] /\ lower[k] = given[k] + ones[k]
    OBVIOUS
  <2>6. W * (2 * s) <= total * (2 * v) + W /\ total * (2 * v) - W <= W * (2 * s)
    BY <1>3, <2>1
  <2> HIDE DEF given, due, ones, upper, lower
  <2>7. PICK a \in Int, b \in Int : a = W * (2 * s) /\ b = total * (2 * v)
    BY <2>3
  <2>8. a <= b + W /\ b <= a + W
    BY <2>6, <2>7
  <2> QED BY <2>1, <2>2, <2>4, <2>5, <2>7, <2>8
<1> HIDE DEF given, due, ones, upper, lower
<1>6. Ints(given, S) /\ Ints(due, S) /\ Ints(ones, S) /\ Ints(upper, S) /\ Ints(lower, S) /\ Ints(w, S)
  BY <1>5 DEF Ints
<1>7. PICK a \in Int, b \in Int : a = Sum(share, S) /\ b = Sum(w, S) /\ b = W
  BY <1>1, <1>4, SumInt
<1>8. Sum(given, S) = (2 * W) * a
  <2>1. 2 * W \in Int
    OBVIOUS
  <2> QED BY <1>4, <1>5, <1>7, <2>1, SumScale
<1>9. Sum(due, S) = (2 * total) * W
  <2>1. PICK t \in Int : t = 2 * total
    OBVIOUS
  <2>2. \A k \in S : due[k] = t * w[k]
    BY <1>5, <2>1
  <2>3. Sum(due, S) = t * Sum(w, S)
    BY <2>2, SumScale
  <2> QED BY <1>7, <2>1, <2>3
<1>10. Sum(ones, S) = W * n
  BY <1>2, <1>5, SumConst
<1>11. Sum(upper, S) = Sum(due, S) + Sum(ones, S) /\ Sum(lower, S) = Sum(given, S) + Sum(ones, S)
  BY <1>5, <1>6, SumPlus
<1>12. Sum(given, S) <= Sum(upper, S) /\ Sum(due, S) <= Sum(lower, S)
  BY <1>5, <1>6, SumLe
<1>13. (2 * W) * a = W * (2 * a) /\ (2 * total) * W = W * (2 * total)
       /\ W * (2 * a) \in Int /\ W * (2 * total) \in Int /\ W * n \in Int
       /\ W * (2 * total + n) = W * (2 * total) + W * n
       /\ W * (2 * a + n) = W * (2 * a) + W * n
  OBVIOUS
<1>14. W * (2 * a) <= W * (2 * total + n) /\ W * (2 * total) <= W * (2 * a + n)
  <2>1. PICK g \in Int, d \in Int, o \in Int : g = W * (2 * a) /\ d = W * (2 * total) /\ o = W * n
    BY <1>13
  <2>2. g <= d + o /\ d <= g + o
    BY <1>8, <1>9, <1>10, <1>11, <1>12, <1>13, <2>1
  <2> QED BY <1>13, <2>1, <2>2
<1>15. 2 * a <= 2 * total + n /\ 2 * total <= 2 * a + n
  <2>1. 2 * a \in Int /\ 2 * total + n \in Int /\ 2 * total \in Int /\ 2 * a + n \in Int
    OBVIOUS
  <2> QED BY <1>1, <1>14, <2>1, CancelFactor
<1> QED BY <1>2, <1>4, <1>7, <1>15 DEF Near

\* Sums of near numbers are near.
LEMMA NearAdds ==
    ASSUME NEW K, IsFiniteSet(K), NEW a, NEW b, NEW c, Ints(a, K), Ints(b, K), Ints(c, K),
           \A k \in K : Near(a[k], b[k], c[k])
    PROVE  Near(Sum(a, K), Sum(b, K), Sum(c, K))
<1> DEFINE Good == {s \in SUBSET K : Near(Sum(a, s), Sum(b, s), Sum(c, s))}
<1>0. Ints(a, K) /\ Ints(b, K) /\ Ints(c, K)
  OBVIOUS
<1>1. {} \in Good
  BY SumEmpty DEF Near
<1>2. ASSUME NEW s \in SUBSET K, NEW x \in s, s \ {x} \in Good PROVE s \in Good
  <2>1. Sum(a, s) = a[x] + Sum(a, s \ {x}) /\ a[x] \in Int /\ Sum(a, s \ {x}) \in Int
    <3> HIDE DEF Good
    <3>1. Sum(a, s) = a[x] + Sum(a, s \ {x})
      BY <1>0, SumAdds
    <3> QED BY <1>0, <3>1, SumTerms
  <2>2. Sum(b, s) = b[x] + Sum(b, s \ {x}) /\ b[x] \in Int /\ Sum(b, s \ {x}) \in Int
    <3> HIDE DEF Good
    <3>1. Sum(b, s) = b[x] + Sum(b, s \ {x})
      BY <1>0, SumAdds
    <3> QED BY <1>0, <3>1, SumTerms
  <2>3. Sum(c, s) = c[x] + Sum(c, s \ {x}) /\ c[x] \in Int /\ Sum(c, s \ {x}) \in Int
    <3> HIDE DEF Good
    <3>1. Sum(c, s) = c[x] + Sum(c, s \ {x})
      BY <1>0, SumAdds
    <3> QED BY <1>0, <3>1, SumTerms
  <2>4. Near(a[x], b[x], c[x]) /\ Near(Sum(a, s \ {x}), Sum(b, s \ {x}), Sum(c, s \ {x}))
    BY <1>2
  <2>5. PICK a1 \in Int, a2 \in Int, b1 \in Int, b2 \in Int, c1 \in Int, c2 \in Int :
            /\ a1 = a[x] /\ a2 = Sum(a, s \ {x}) /\ b1 = b[x] /\ b2 = Sum(b, s \ {x})
            /\ c1 = c[x] /\ c2 = Sum(c, s \ {x})
    BY <2>1, <2>2, <2>3
  <2>6. Near(a1 + a2, b1 + b2, c1 + c2)
    BY <2>4, <2>5 DEF Near
  <2>7. Near(Sum(a, s), Sum(b, s), Sum(c, s))
    BY <2>1, <2>2, <2>3, <2>5, <2>6
  <2> QED BY <2>7
<1>3. K \in Good
  <2> HIDE DEF Good
  <2> QED BY <1>1, <1>2, SumInduction
<1> QED BY <1>3

\* The items of one text, what they have of a quantity and of a value, and what an item takes
\* of a total.
Siblings(items, t) == {k \in DOMAIN items : items[k].text = t}
QtyOf(items, t) == P!SumFunction([k \in Siblings(items, t) |-> items[k].qty])
ValueOf(items, t) == P!SumFunction([k \in Siblings(items, t) |-> items[k].value])
PartOf(items, k, total) ==
    LET t == items[k].text
    IN  IF QtyOf(items, t) > 0 THEN P!Share(total, items[k].qty, QtyOf(items, t))
        ELSE IF ValueOf(items, t) > 0 THEN P!Share(total, items[k].value, ValueOf(items, t))
        ELSE P!Share(total, 1, P!Cardinality(Siblings(items, t)))

\* The items of one text share a total, up to half a step each.
LEMMA PartsNear ==
    ASSUME NEW items, Countable(items), NEW t, Siblings(items, t) # {}, NEW total \in Int,
           NEW part, \A k \in Siblings(items, t) : part[k] = PartOf(items, k, total)
    PROVE  /\ Ints(part, Siblings(items, t))
           /\ Near(Sum(part, Siblings(items, t)), total, Cardinality(Siblings(items, t)))
<1>1. PICK sib : sib = Siblings(items, t)
  OBVIOUS
<1>2. IsFiniteSet(sib) /\ sib # {} /\ \A k \in sib : /\ items[k].text = t /\ k \in DOMAIN items
                                                     /\ items[k].qty \in Int /\ items[k].value \in Int
  BY <1>1, FS_Subset DEF Countable, Siblings
<1> DEFINE qty == [k \in sib |-> items[k].qty]
           value == [k \in sib |-> items[k].value]
           ones == [k \in sib |-> 1]
<1>3. Ints(qty, sib) /\ Ints(value, sib) /\ Ints(ones, sib)
  BY <1>2 DEF Ints
<1>4. QtyOf(items, t) = Sum(qty, sib) /\ ValueOf(items, t) = Sum(value, sib)
  BY <1>1, SameSums DEF QtyOf, ValueOf, SumFunction, Sum
<1>5. Sum(ones, sib) = Cardinality(sib) /\ Cardinality(sib) \in Nat /\ Cardinality(sib) > 0
  <2>1. Cardinality(sib) \in Nat /\ Cardinality(sib) # 0
    BY <1>2, FS_CardinalityType, FS_EmptySet
  <2>2. Sum(ones, sib) = 1 * Cardinality(sib)
    BY <1>2, SumConst
  <2> QED BY <2>1, <2>2
<1>6. Sum(qty, sib) \in Int /\ Sum(value, sib) \in Int
  BY <1>2, <1>3, SumInt
<1>7. \A k \in sib : qty[k] = items[k].qty /\ value[k] = items[k].value /\ ones[k] = 1
  OBVIOUS
<1> HIDE DEF qty, value, ones
<1>8. \A k \in sib : part[k] = IF Sum(qty, sib) > 0 THEN P!Share(total, qty[k], Sum(qty, sib))
                               ELSE IF Sum(value, sib) > 0
                               THEN P!Share(total, value[k], Sum(value, sib))
                               ELSE P!Share(total, ones[k], Sum(ones, sib))
  <2> TAKE k \in sib
  <2>1. part[k] = PartOf(items, k, total)
    BY <1>1
  <2>2. items[k].text = t /\ P!Cardinality(Siblings(items, t)) = Sum(ones, sib)
    BY <1>1, <1>2, <1>5, SameCardinality
  <2> QED BY <1>4, <1>7, <2>1, <2>2 DEF PartOf
<1>9. Ints(part, sib) /\ Near(Sum(part, sib), total, Cardinality(sib))
  <2>1. CASE Sum(qty, sib) > 0
    <3>1. \A k \in sib : part[k] = P!Share(total, qty[k], Sum(qty, sib))
      BY <1>8, <2>1
    <3> QED BY <1>2, <1>3, <2>1, <3>1, SharesNear
  <2>2. CASE ~(Sum(qty, sib) > 0) /\ Sum(value, sib) > 0
    <3>1. \A k \in sib : part[k] = P!Share(total, value[k], Sum(value, sib))
      BY <1>8, <2>2
    <3> QED BY <1>2, <1>3, <2>2, <3>1, SharesNear
  <2>3. CASE ~(Sum(qty, sib) > 0) /\ ~(Sum(value, sib) > 0)
    <3>1. \A k \in sib : part[k] = P!Share(total, ones[k], Sum(ones, sib))
      BY <1>8, <2>3
    <3>2. Sum(ones, sib) > 0
      BY <1>5
    <3> QED BY <1>2, <1>3, <3>1, <3>2, SharesNear
  <2> QED BY <2>1, <2>2, <2>3
<1> QED BY <1>1, <1>9

\* What a row counts of a figure.
Figure(rows, fld) ==
    [i \in DOMAIN rows |-> IF fld = "ctn" THEN P!SharedCartons(rows)[i]
                           ELSE IF fld = "net" THEN rows[i].net ELSE rows[i].gross]
RowsOf(rows, text) == {i \in DOMAIN rows : rows[i].text = text}

LEMMA RowFigures ==
    ASSUME NEW rows \in Seq(PackRow), NEW fld \in {"gross", "net", "ctn"}
    PROVE  IsFiniteSet(DOMAIN rows) /\ Ints(Figure(rows, fld), DOMAIN rows)
<1>1. PICK N \in Nat : DOMAIN rows = 1..N /\ \A i \in 1..N : rows[i] \in PackRow
  BY LenProperties, ElementOfSeq
<1>2. IsFiniteSet(DOMAIN rows)
  BY <1>1, FS_Interval
<1>3. \A i \in DOMAIN rows : rows[i].gross \in Int /\ rows[i].net \in Int
  BY <1>1 DEF PackRow, GroupKey
<1>4. \A i \in DOMAIN rows : P!SharedCartons(rows)[i] \in Int
  BY CartonsTyped
<1> QED BY <1>2, <1>3, <1>4 DEF Ints, Figure

\* A product has what its rows have.
LEMMA ProductHas ==
    ASSUME NEW rows \in Seq(PackRow), NEW text, NEW fld \in {"gross", "net", "ctn"}
    PROVE  P!ProductOf(rows, P!SharedCartons(rows), text)[fld]
             = Sum(Figure(rows, fld), RowsOf(rows, text))
<1> DEFINE own == RowsOf(rows, text)
           cartons == P!SharedCartons(rows)
           gross == [i \in own |-> rows[i].gross]
           net == [i \in own |-> rows[i].net]
           ctn == [i \in own |-> cartons[i]]
           product == P!ProductOf(rows, cartons, text)
<1>1. IsFiniteSet(own) /\ own \in SUBSET DOMAIN rows
  BY RowFigures, FS_Subset DEF RowsOf
<1>2. /\ product.gross = SumFunction(gross) /\ product.net = SumFunction(net)
      /\ product.ctn = SumFunction(ctn)
  <2> HIDE DEF cartons
  <2> QED BY SameSums DEF P!ProductOf, RowsOf
<1>3. /\ product.gross = Sum(gross, own) /\ product.net = Sum(net, own)
      /\ product.ctn = Sum(ctn, own)
  <2>1. DOMAIN gross = own /\ DOMAIN net = own /\ DOMAIN ctn = own
    OBVIOUS
  <2> HIDE DEF gross, net, ctn, own, product
  <2> QED BY <1>2, <2>1 DEF SumFunction, Sum
<1>4. \A i \in own : /\ gross[i] = Figure(rows, "gross")[i] /\ net[i] = Figure(rows, "net")[i]
                     /\ ctn[i] = Figure(rows, "ctn")[i]
  <2> HIDE DEF cartons
  <2> QED BY <1>1 DEF Figure, cartons
<1> HIDE DEF gross, net, ctn, own, product
<1>5. /\ Sum(gross, own) = Sum(Figure(rows, "gross"), own)
      /\ Sum(net, own) = Sum(Figure(rows, "net"), own)
      /\ Sum(ctn, own) = Sum(Figure(rows, "ctn"), own)
  BY <1>1, <1>4, SumSame
<1> QED BY <1>3, <1>5 DEF product, own

\* Every product goes to one text of the items, and no two to the same.
OneToOne(match, texts) ==
    /\ \A p \in DOMAIN match : match[p] \in texts
    /\ \A p, q \in DOMAIN match : match[p] = match[q] => p = q

\* The values of a function on a finite set are finitely many.
LEMMA FewValues ==
    ASSUME NEW S, IsFiniteSet(S), NEW f, NEW V, V = {f[x] : x \in S}
    PROVE  IsFiniteSet(V)
<1>1. PICK g : g = [x \in S |-> f[x]]
  OBVIOUS
<1>2. g \in Surjection(S, V)
  BY <1>1 DEF Surjection
<1> QED BY <1>2, FS_Surjection

\* An item takes its part of the product that its text is matched with.
LEMMA EvidenceIs ==
    ASSUME NEW items, NEW rows, NEW texts, texts = {items[k].text : k \in DOMAIN items},
           NEW match, match = P!Matches(rows, texts), OneToOne(match, texts), NEW k \in DOMAIN items
    PROVE  /\ \A p \in DOMAIN match : match[p] = items[k].text =>
                LET product == P!ProductOf(rows, P!SharedCartons(rows), p)
                    taken == P!MatchPacking(items, rows)[k]
                IN  /\ taken.gross = PartOf(items, k, product.gross)
                    /\ taken.net = PartOf(items, k, product.net)
                    /\ taken.ctn = PartOf(items, k, product.ctn)
           /\ (\A p \in DOMAIN match : match[p] # items[k].text) =>
                P!MatchPacking(items, rows)[k] = P!NoEvidence
<1> DEFINE cartons == P!SharedCartons(rows)
           siblings(t) == {j \in DOMAIN items : items[j].text = t}
           qty(t) == P!SumFunction([j \in siblings(t) |-> items[j].qty])
           value(t) == P!SumFunction([j \in siblings(t) |-> items[j].value])
           of(j, total) ==
               LET t == items[j].text
               IN  IF qty(t) > 0 THEN P!Share(total, items[j].qty, qty(t))
                   ELSE IF value(t) > 0 THEN P!Share(total, items[j].value, value(t))
                   ELSE P!Share(total, 1, P!Cardinality(siblings(t)))
           part(j, p) == [gross |-> of(j, p.gross), net |-> of(j, p.net), ctn |-> of(j, p.ctn),
                          shared |-> p.shared]
           evidence(j, ps) == IF ps = {} THEN P!NoEvidence
                              ELSE part(j, P!ProductOf(rows, cartons, CHOOSE p \in ps : TRUE))
           found(j) == {p \in DOMAIN match : match[p] = items[j].text}
<1>1. P!MatchPacking(items, rows) = [j \in DOMAIN items |-> evidence(j, found(j))]
  <2>1. P!MatchPacking(items, rows) = P!Divided(items, match, rows, cartons)
    BY DEF P!MatchPacking
  <2> HIDE DEF cartons
  <2> QED BY <2>1, Zenon DEF P!Divided
<1>2. \A total : of(k, total) = PartOf(items, k, total)
  BY Zenon DEF PartOf, QtyOf, ValueOf, Siblings
<1>3. P!MatchPacking(items, rows)[k] = evidence(k, found(k))
  <2> HIDE DEF evidence, found
  <2> QED BY <1>1
<1>4. ASSUME NEW p \in DOMAIN match, match[p] = items[k].text
      PROVE  LET product == P!ProductOf(rows, cartons, p)
                 taken == P!MatchPacking(items, rows)[k]
             IN  /\ taken.gross = PartOf(items, k, product.gross)
                 /\ taken.net = PartOf(items, k, product.net)
                 /\ taken.ctn = PartOf(items, k, product.ctn)
  <2>1. found(k) = {p}
    BY <1>4 DEF OneToOne
  <2>2. PICK product : product = P!ProductOf(rows, cartons, p)
    OBVIOUS
  <2>3. (CHOOSE q \in found(k) : TRUE) = p
    BY <2>1
  <2>4. evidence(k, found(k)) = part(k, product)
    <3> HIDE DEF part, found, cartons
    <3> QED BY <2>1, <2>2, <2>3
  <2>5. /\ part(k, product).gross = of(k, product.gross) /\ part(k, product).net = of(k, product.net)
        /\ part(k, product).ctn = of(k, product.ctn)
    <3> HIDE DEF of
    <3> QED OBVIOUS
  <2> HIDE DEF evidence, part, found, of, cartons
  <2> QED BY <1>2, <1>3, <2>2, <2>4, <2>5
<1>5. ASSUME \A p \in DOMAIN match : match[p] # items[k].text
      PROVE  P!MatchPacking(items, rows)[k] = P!NoEvidence
  <2>1. found(k) = {}
    BY <1>5
  <2>2. evidence(k, found(k)) = P!NoEvidence
    <3> HIDE DEF found, part
    <3> QED BY <2>1
  <2> QED BY <1>3, <2>2
<1> HIDE DEF evidence, part, found, of
<1> QED BY <1>4, <1>5

\* The rows of the matched products.
MatchedRows(rows, match) == {i \in DOMAIN rows : rows[i].text \in DOMAIN match}

\* The items take what the matched rows have, up to half a step an item.
LEMMA EvidenceNear ==
    ASSUME NEW items, Countable(items), NEW rows \in Seq(PackRow),
           NEW texts, texts = {items[k].text : k \in DOMAIN items},
           NEW match, match = P!Matches(rows, texts), OneToOne(match, texts),
           NEW fld \in {"gross", "net", "ctn"},
           NEW taken, \A k \in DOMAIN items : taken[k] = P!MatchPacking(items, rows)[k][fld]
    PROVE  /\ Ints(taken, DOMAIN items)
           /\ Near(Sum(taken, DOMAIN items), Sum(Figure(rows, fld), MatchedRows(rows, match)),
                   Cardinality(DOMAIN items))
<1>1. PICK S, own, fig : S = DOMAIN items /\ own = MatchedRows(rows, match) /\ fig = Figure(rows, fld)
  OBVIOUS
<1>2. IsFiniteSet(S) /\ IsFiniteSet(own) /\ own \in SUBSET DOMAIN rows /\ Ints(fig, own)
      /\ Ints(fig, DOMAIN rows) /\ IsFiniteSet(DOMAIN rows)
  <2>1. IsFiniteSet(DOMAIN rows) /\ Ints(fig, DOMAIN rows)
    BY <1>1, RowFigures
  <2>2. own \in SUBSET DOMAIN rows
    BY <1>1 DEF MatchedRows
  <2> QED BY <1>1, <2>1, <2>2, FS_Subset DEF Countable, Ints
<1>3. PICK textOf : textOf = [k \in S |-> items[k].text]
  OBVIOUS
<1>4. PICK goesTo : goesTo = [i \in own |-> match[rows[i].text]]
  OBVIOUS
<1>5. PICK ones : ones = [k \in S |-> 1]
  OBVIOUS
<1>6. IsFiniteSet(texts) /\ (\A k \in S : textOf[k] \in texts) /\ (\A i \in own : goesTo[i] \in texts)
  <2>1. texts = {textOf[k] : k \in S}
    BY <1>1, <1>3
  <2>2. IsFiniteSet(texts)
    <3>1. \A V : V = {textOf[k] : k \in S} => IsFiniteSet(V)
      BY <1>2, FewValues
    <3> QED BY <2>1, <3>1
  <2> QED BY <1>1, <1>3, <1>4, <2>2 DEF MatchedRows, OneToOne
<1>7. Ints(ones, S) /\ Sum(ones, S) = Cardinality(S)
  <2>1. \A k \in S : ones[k] = 1
    BY <1>5
  <2>2. Sum(ones, S) = 1 * Cardinality(S)
    BY <1>2, <2>1, SumConst
  <2>3. Cardinality(S) \in Nat
    BY <1>2, FS_CardinalityType
  <2> QED BY <2>1, <2>2, <2>3 DEF Ints
<1>8. ASSUME NEW t \in texts
      PROVE  LET sib == Class(textOf, S, t)
             IN  /\ Ints(taken, sib)
                 /\ Near(Sum(taken, sib), Sum(fig, Class(goesTo, own, t)), Sum(ones, sib))
  <2>1. PICK sib : sib = Siblings(items, t)
    OBVIOUS
  <2>2. Class(textOf, S, t) = sib
    BY <1>1, <1>3, <2>1 DEF Class, Siblings
  <2>3. sib # {} /\ IsFiniteSet(sib) /\ sib \in SUBSET S
    BY <1>1, <1>2, <2>1, FS_Subset DEF Siblings
  <2>4. Sum(ones, sib) = Cardinality(sib) /\ Cardinality(sib) \in Nat
    <3>1. \A k \in sib : ones[k] = 1
      BY <1>5, <2>3
    <3>2. PICK one \in Int : one = 1
      OBVIOUS
    <3>3. Sum(ones, sib) = one * Cardinality(sib)
      BY <2>3, <3>1, <3>2, SumConst
    <3> QED BY <2>3, <3>2, <3>3, FS_CardinalityType
  <2>5. \A k \in sib : k \in DOMAIN items /\ items[k].text = t
    BY <2>1 DEF Siblings
  <2>6. CASE \E p \in DOMAIN match : match[p] = t
    <3>1. PICK p \in DOMAIN match : match[p] = t
      BY <2>6
    <3>2. Class(goesTo, own, t) = RowsOf(rows, p)
      <4>1. \A i \in own : goesTo[i] = match[rows[i].text] /\ rows[i].text \in DOMAIN match
                           /\ i \in DOMAIN rows
        BY <1>1, <1>4 DEF MatchedRows
      <4>2. \A i \in own : goesTo[i] = t => rows[i].text = p
        BY <3>1, <4>1 DEF OneToOne
      <4>3. \A i \in DOMAIN rows : rows[i].text = p => i \in own /\ goesTo[i] = t
        BY <1>1, <1>4, <3>1 DEF MatchedRows
      <4> QED BY <4>1, <4>2, <4>3 DEF Class, RowsOf
    <3>3. PICK total : total = P!ProductOf(rows, P!SharedCartons(rows), p)[fld]
      OBVIOUS
    <3>4. total = Sum(fig, Class(goesTo, own, t))
      BY <1>1, <3>2, <3>3, ProductHas
    <3>5. total \in Int
      <4>1. Class(goesTo, own, t) \in SUBSET own
        BY DEF Class
      <4> QED BY <1>2, <3>4, <4>1, SumInt
    <3>6. \A k \in sib : taken[k] = PartOf(items, k, total)
      <4> TAKE k \in sib
      <4>1. k \in DOMAIN items /\ items[k].text = t
        BY <2>5
      <4>2. PICK product, mine : /\ product = P!ProductOf(rows, P!SharedCartons(rows), p)
                                 /\ mine = P!MatchPacking(items, rows)[k]
        OBVIOUS
      <4>3. /\ mine.gross = PartOf(items, k, product.gross)
            /\ mine.net = PartOf(items, k, product.net)
            /\ mine.ctn = PartOf(items, k, product.ctn)
        BY <3>1, <4>1, <4>2, EvidenceIs
      <4>4. taken[k] = mine[fld] /\ total = product[fld]
        BY <3>3, <4>1, <4>2
      <4>5. fld = "gross" \/ fld = "net" \/ fld = "ctn"
        OBVIOUS
      <4> QED BY <4>3, <4>4, <4>5
    <3>7. Ints(taken, sib) /\ Near(Sum(taken, sib), total, Cardinality(sib))
      BY <2>1, <2>3, <3>5, <3>6, PartsNear
    <3> QED BY <2>2, <2>4, <3>4, <3>7
  <2>7. CASE \A p \in DOMAIN match : match[p] # t
    <3>1. \A k \in sib : taken[k] = 0
      <4> TAKE k \in sib
      <4>1. P!MatchPacking(items, rows)[k] = P!NoEvidence
        BY <2>5, <2>7, EvidenceIs
      <4>2. fld = "gross" \/ fld = "net" \/ fld = "ctn"
        OBVIOUS
      <4>3. P!NoEvidence[fld] = 0
        BY <4>2 DEF P!NoEvidence
      <4> QED BY <2>5, <4>1, <4>3
    <3>2. Class(goesTo, own, t) = {}
      BY <1>1, <1>4, <2>7 DEF Class, MatchedRows
    <3>3. Sum(taken, sib) = 0 * Cardinality(sib)
      BY <2>3, <3>1, SumConst
    <3>4. Sum(fig, Class(goesTo, own, t)) = 0
      BY <3>2, SumEmpty
    <3>5. Ints(taken, sib)
      BY <3>1 DEF Ints
    <3> QED BY <2>2, <2>4, <3>3, <3>4, <3>5 DEF Near
  <2> QED BY <2>6, <2>7
<1>9. Ints(taken, S)
  <2> SUFFICES ASSUME NEW k \in S PROVE taken[k] \in Int
    BY DEF Ints
  <2>1. PICK t : t = textOf[k] /\ t \in texts
    BY <1>6
  <2>2. k \in Class(textOf, S, t)
    BY <2>1 DEF Class
  <2>3. Ints(taken, Class(textOf, S, t))
    BY <1>8, <2>1
  <2> QED BY <2>2, <2>3 DEF Ints
<1> DEFINE a == ClassSums(taken, textOf, S, texts)
           b == ClassSums(fig, goesTo, own, texts)
           c == ClassSums(ones, textOf, S, texts)
<1>10. Sum(taken, S) = Sum(a, texts) /\ Ints(a, texts)
  BY <1>2, <1>6, <1>9, SumOfClasses
<1>11. Sum(fig, own) = Sum(b, texts) /\ Ints(b, texts)
  BY <1>2, <1>6, SumOfClasses
<1>12. Sum(ones, S) = Sum(c, texts) /\ Ints(c, texts)
  BY <1>2, <1>6, <1>7, SumOfClasses
<1>13. \A t \in texts : Near(a[t], b[t], c[t])
  <2> TAKE t \in texts
  <2>1. /\ a[t] = Sum(taken, Class(textOf, S, t)) /\ b[t] = Sum(fig, Class(goesTo, own, t))
        /\ c[t] = Sum(ones, Class(textOf, S, t))
    BY DEF ClassSums
  <2> HIDE DEF a, b, c
  <2> QED BY <1>8, <2>1
<1> HIDE DEF a, b, c
<1>14. Near(Sum(a, texts), Sum(b, texts), Sum(c, texts))
  BY <1>6, <1>10, <1>11, <1>12, <1>13, NearAdds
<1> QED BY <1>1, <1>7, <1>9, <1>10, <1>11, <1>12, <1>14

-----------------------------------------------------------------------------
(* The cartons the rows of a packing list share count once.                 *)

\* The rows that share the cartons of a group, what they print, and the cartons they share.
Sharing(rows, g) == {i \in DOMAIN rows : rows[i].group = g /\ rows[i].carton > 0}
PrintedOf(rows, g) == [i \in Sharing(rows, g) |-> rows[i].carton]
BoxOf(rows, g) ==
    IF Cardinality(Range(PrintedOf(rows, g))) > 1 THEN SumFunction(PrintedOf(rows, g))
    ELSE IF GroupRange[g[2]] > 0 THEN GroupRange[g[2]] ELSE Max(Range(PrintedOf(rows, g)))

\* What a row of a group gets by its quantity, before the last row takes the rest.
GroupQty(rows, g) == SumFunction([i \in Sharing(rows, g) |-> rows[i].qty])
RowPart(rows, g, i) ==
    IF GroupQty(rows, g) > 0 THEN P!Share(BoxOf(rows, g), rows[i].qty, GroupQty(rows, g))
    ELSE P!Share(BoxOf(rows, g), 1, Cardinality(Sharing(rows, g)))

\* A set of one element has it as its greatest.
LEMMA OnlyOne ==
    ASSUME NEW S \in SUBSET Int, IsFiniteSet(S), S # {}, ~(Cardinality(S) > 1)
    PROVE  (CHOOSE v \in S : TRUE) = Max(S) /\ Max(S) \in S
<1>1. PICK n \in Nat : n = Cardinality(S) /\ n # 0
  BY FS_CardinalityType, FS_EmptySet
<1>2. n = 1
  BY <1>1
<1>3. PICK x : S = {x}
  BY <1>1, <1>2, FS_Singleton
<1>4. Max(S) \in S
  BY ExtremesOf
<1> QED BY <1>3, <1>4

\* What the cartons of a group's rows are.
LEMMA SharesAre ==
    ASSUME NEW rows \in Seq(PackRow), NEW g, g[2] # NoGroup, NEW i \in Sharing(rows, g)
    PROVE  P!SharedCartons(rows)[i]
             = IF i # Max(Sharing(rows, g)) THEN RowPart(rows, g, i)
               ELSE BoxOf(rows, g)
                      - SumFunction([j \in Sharing(rows, g) \ {i} |-> RowPart(rows, g, j)])
<1> DEFINE Members(h) == {j \in DOMAIN rows : rows[j].group = h /\ rows[j].carton > 0}
           Figured(h) == {rows[j].carton : j \in Members(h)}
           all(h) == P!SumFunction([j \in Members(h) |-> rows[j].carton])
           groupTotal(h) ==
               IF P!Cardinality(Figured(h)) > 1 THEN all(h)
               ELSE IF GroupRange[h[2]] > 0 THEN GroupRange[h[2]]
               ELSE CHOOSE v \in Figured(h) : TRUE
           qty(h) == P!SumFunction([j \in Members(h) |-> rows[j].qty])
           part(k) ==
               LET h == rows[k].group
               IN  IF qty(h) > 0 THEN P!Share(groupTotal(h), rows[k].qty, qty(h))
                   ELSE P!Share(groupTotal(h), 1, P!Cardinality(Members(h)))
           rest(h, k) == P!SumFunction([j \in Members(h) \ {k} |-> part(j)])
           cartons(k) ==
               LET h == rows[k].group
               IN  IF h[2] = NoGroup \/ rows[k].carton = 0 THEN rows[k].carton
                   ELSE IF k # P!Max(Members(h)) THEN part(k)
                   ELSE groupTotal(h) - rest(h, k)
<1>1. P!SharedCartons(rows) = [k \in DOMAIN rows |-> cartons(k)]
  BY Zenon DEF P!SharedCartons
<1>2. Members(g) = Sharing(rows, g)
  BY DEF Sharing
<1>3. i \in DOMAIN rows /\ rows[i].group = g /\ rows[i].carton # 0
  <2>1. PICK N \in Nat : DOMAIN rows = 1..N /\ \A k \in 1..N : rows[k] \in PackRow
    BY LenProperties, ElementOfSeq
  <2>2. i \in DOMAIN rows /\ rows[i].group = g /\ rows[i].carton > 0
    BY DEF Sharing
  <2>3. rows[i].carton \in Nat
    BY <2>1, <2>2 DEF PackRow, GroupKey
  <2> QED BY <2>2, <2>3
<1>4. qty(g) = GroupQty(rows, g)
  <2> HIDE DEF Members
  <2> QED BY <1>2, SameSums DEF GroupQty
<1>5. groupTotal(g) = BoxOf(rows, g)
  <2>1. PICK S, f : S = Sharing(rows, g) /\ f = PrintedOf(rows, g)
    OBVIOUS
  <2>2. PICK V : V = Range(f)
    OBVIOUS
  <2>3. V = Figured(g)
    <3>1. V = {f[j] : j \in S}
      BY <2>1, <2>2 DEF Range, PrintedOf
    <3>2. \A j \in S : f[j] = rows[j].carton
      BY <2>1 DEF PrintedOf
    <3> HIDE DEF Members
    <3> QED BY <1>2, <2>1, <3>1, <3>2
  <2>4. all(g) = SumFunction(f)
    <3> HIDE DEF Members
    <3> QED BY <1>2, <2>1, SameSums DEF PrintedOf
  <2>5. V \in SUBSET Int /\ V # {} /\ IsFiniteSet(V)
    <3>1. IsFiniteSet(S) /\ i \in S /\ S \in SUBSET DOMAIN rows
      BY <2>1, RowFigures, FS_Subset DEF Sharing
    <3>2. V = {f[j] : j \in S}
      BY <2>1, <2>2 DEF Range, PrintedOf
    <3>3. \A j \in S : f[j] \in Int
      <4>1. PICK N \in Nat : DOMAIN rows = 1..N /\ \A k \in 1..N : rows[k] \in PackRow
        BY LenProperties, ElementOfSeq
      <4>2. \A j \in S : rows[j].carton \in Nat
        BY <3>1, <4>1 DEF PackRow, GroupKey
      <4> QED BY <2>1, <4>2 DEF PrintedOf
    <3>4. \A W : W = {f[j] : j \in S} => IsFiniteSet(W)
      BY <3>1, FewValues
    <3> QED BY <3>1, <3>2, <3>3, <3>4
  <2>6. P!Cardinality(Figured(g)) = Cardinality(V)
    BY <2>3, SameCardinality
  <2>7. ~(Cardinality(V) > 1) => (CHOOSE v \in V : TRUE) = Max(V)
    BY <2>5, OnlyOne
  <2>8. groupTotal(g) = IF Cardinality(V) > 1 THEN SumFunction(f)
                        ELSE IF GroupRange[g[2]] > 0 THEN GroupRange[g[2]] ELSE Max(V)
    <3> HIDE DEF Figured, all, Members
    <3>1. groupTotal(g) = IF P!Cardinality(Figured(g)) > 1 THEN all(g)
                          ELSE IF GroupRange[g[2]] > 0 THEN GroupRange[g[2]]
                          ELSE CHOOSE v \in Figured(g) : TRUE
      OBVIOUS
    <3>2. (CHOOSE v \in Figured(g) : TRUE) = (CHOOSE v \in V : TRUE)
      BY <2>3
    <3>3. PICK one, other : /\ one = (CHOOSE v \in Figured(g) : TRUE)
                            /\ other = (CHOOSE v \in V : TRUE)
      OBVIOUS
    <3>4. one = other /\ (~(Cardinality(V) > 1) => other = Max(V))
      BY <2>7, <3>2, <3>3
    <3>5. groupTotal(g) = IF Cardinality(V) > 1 THEN SumFunction(f)
                          ELSE IF GroupRange[g[2]] > 0 THEN GroupRange[g[2]] ELSE one
      <4> HIDE DEF groupTotal
      <4> QED BY <2>4, <2>6, <3>1, <3>3
    <3> HIDE DEF groupTotal
    <3> QED BY <3>4, <3>5
  <2>9. BoxOf(rows, g) = IF Cardinality(V) > 1 THEN SumFunction(f)
                        ELSE IF GroupRange[g[2]] > 0 THEN GroupRange[g[2]] ELSE Max(V)
    BY <2>1, <2>2 DEF BoxOf
  <2> HIDE DEF groupTotal
  <2> QED BY <2>8, <2>9
<1>6. \A k \in Sharing(rows, g) : part(k) = RowPart(rows, g, k)
  <2> TAKE k \in Sharing(rows, g)
  <2>1. rows[k].group = g
    BY DEF Sharing
  <2>2. P!Cardinality(Members(g)) = Cardinality(Sharing(rows, g))
    BY <1>2, SameCardinality
  <2> HIDE DEF groupTotal, qty, Members
  <2> QED BY <1>4, <1>5, <2>1, <2>2 DEF RowPart
<1>7. rest(g, i) = SumFunction([j \in Sharing(rows, g) \ {i} |-> RowPart(rows, g, j)])
  <2>1. [j \in Members(g) \ {i} |-> part(j)] = [j \in Sharing(rows, g) \ {i} |-> RowPart(rows, g, j)]
    <3> HIDE DEF part, Members
    <3> QED BY <1>2, <1>6
  <2> HIDE DEF part, Members
  <2> QED BY <2>1, SameSums
<1>8. P!Max(Members(g)) = Max(Sharing(rows, g))
  BY <1>2, SameMax
<1>9. cartons(i) = IF i # Max(Sharing(rows, g)) THEN part(i) ELSE groupTotal(g) - rest(g, i)
  <2> HIDE DEF part, groupTotal, rest, Members
  <2> QED BY <1>3, <1>8
<1>10. P!SharedCartons(rows)[i] = cartons(i)
  <2> HIDE DEF cartons
  <2> QED BY <1>1, <1>3
<1> HIDE DEF cartons, part, groupTotal, rest, Members
<1> QED BY <1>5, <1>6, <1>7, <1>9, <1>10

\* What rows that share cartons print.
LEMMA SharingRows ==
    ASSUME NEW rows \in Seq(PackRow), NEW g
    PROVE  /\ IsFiniteSet(Sharing(rows, g)) /\ Sharing(rows, g) \in SUBSET DOMAIN rows
           /\ Sharing(rows, g) \in SUBSET Int
           /\ \A i \in Sharing(rows, g) : /\ rows[i].carton \in Nat /\ rows[i].qty \in Int
                                          /\ rows[i].group = g
                                          /\ g[2] \in DOMAIN GroupRange \cup {NoGroup}
<1>1. PICK N \in Nat : DOMAIN rows = 1..N /\ \A k \in 1..N : rows[k] \in PackRow
  BY LenProperties, ElementOfSeq
<1>2. Sharing(rows, g) \in SUBSET DOMAIN rows
  BY DEF Sharing
<1>3. IsFiniteSet(Sharing(rows, g))
  BY <1>2, RowFigures, FS_Subset
<1>4. \A i \in DOMAIN rows : /\ i \in Int /\ rows[i].carton \in Nat /\ rows[i].qty \in Int
                            /\ rows[i].group[2] \in DOMAIN GroupRange \cup {NoGroup}
  <2>1. \A i \in DOMAIN rows : /\ i \in Int /\ rows[i].carton \in Nat /\ rows[i].qty \in Int
                              /\ rows[i].group \in GroupKey
    BY <1>1 DEF PackRow
  <2>2. \A g1 \in GroupKey : g1[2] \in DOMAIN GroupRange \cup {NoGroup}
    BY DEF GroupKey
  <2> QED BY <2>1, <2>2
<1>5. \A i \in Sharing(rows, g) : rows[i].group = g
  BY DEF Sharing
<1> QED BY <1>2, <1>3, <1>4, <1>5

\* The cartons of a group are not negative.
LEMMA BoxTyped ==
    ASSUME NEW rows \in Seq(PackRow), NEW g, g[2] # NoGroup, Sharing(rows, g) # {}
    PROVE  BoxOf(rows, g) \in Nat
<1>1. PICK S, f : S = Sharing(rows, g) /\ f = PrintedOf(rows, g)
  OBVIOUS
<1>2. PICK V : V = Range(f)
  OBVIOUS
<1>3. IsFiniteSet(S) /\ S # {} /\ DOMAIN f = S /\ \A i \in S : f[i] \in Nat
  BY <1>1, SharingRows DEF PrintedOf
<1>4. V = {f[i] : i \in S}
  BY <1>2, <1>3 DEF Range
<1>5. IsFiniteSet(V)
  <2>1. \A W : W = {f[j] : j \in S} => IsFiniteSet(W)
    BY <1>3, FewValues
  <2> QED BY <1>4, <2>1
<1>6. V # {} /\ V \in SUBSET Nat /\ V \in SUBSET Int
  BY <1>3, <1>4
<1>7. Max(V) \in Nat
  BY <1>5, <1>6, ExtremesOf
<1>8. SumFunction(f) \in Nat
  <2>1. Nats(f, S)
    BY <1>3 DEF Nats
  <2> QED BY <1>3, <2>1, SumNat DEF SumFunction, Sum
<1>9. GroupRange[g[2]] \in Int
  <2>1. g[2] \in DOMAIN GroupRange
    BY SharingRows
  <2> QED BY <2>1, GroupRangeAssumption
<1> QED BY <1>1, <1>2, <1>7, <1>8, <1>9 DEF BoxOf

\* A share of something by a part that is not negative is not negative.
LEMMA ShareNat ==
    ASSUME NEW total \in Nat, NEW part \in Nat, NEW whole \in Int, whole > 0
    PROVE  P!Share(total, part, whole) >= 0
<1>0. total \in Int /\ part \in Int
  OBVIOUS
<1>1. PICK s \in Int : s = P!Share(total, part, whole)
  BY <1>0, ShareNear
<1>2. total * (2 * part) - whole <= whole * (2 * s)
  BY <1>0, <1>1, ShareNear
<1>3. total * (2 * part) \in Nat
  BY TimesNat
<1>4. whole * (-1) <= whole * (2 * s)
  <2>1. PICK a \in Int, b \in Nat : a = whole * (2 * s) /\ b = total * (2 * part)
    BY <1>3
  <2> QED BY <1>2, <2>1
<1>5. -1 <= 2 * s
  <2>1. -1 \in Int /\ 2 * s \in Int
    OBVIOUS
  <2> QED BY <1>4, <2>1, CancelFactor
<1> QED BY <1>1, <1>5

\* The parts of a group's rows are near its cartons.
LEMMA GroupParts ==
    ASSUME NEW rows \in Seq(PackRow), NEW g, g[2] # NoGroup, NEW S, S = Sharing(rows, g), S # {},
           NEW part, \A i \in S : part[i] = RowPart(rows, g, i)
    PROVE  /\ Ints(part, S) /\ Near(Sum(part, S), BoxOf(rows, g), Cardinality(S))
           /\ (\A i \in S : rows[i].qty >= 0) => \A i \in S : part[i] >= 0
<1>1. IsFiniteSet(S) /\ \A i \in S : rows[i].qty \in Int
  BY SharingRows
<1>2. PICK box \in Nat : box = BoxOf(rows, g)
  BY BoxTyped
<1> DEFINE qty == [i \in S |-> rows[i].qty]
           ones == [i \in S |-> 1]
<1>3. Ints(qty, S) /\ Ints(ones, S) /\ \A i \in S : qty[i] = rows[i].qty /\ ones[i] = 1
  BY <1>1 DEF Ints
<1>4. GroupQty(rows, g) = Sum(qty, S)
  BY DEF GroupQty, SumFunction, Sum
<1> HIDE DEF qty, ones
<1>5. Sum(ones, S) = Cardinality(S) /\ Sum(ones, S) > 0 /\ Sum(ones, S) \in Int
  <2>1. PICK n \in Nat : n = Cardinality(S) /\ n # 0
    BY <1>1, FS_CardinalityType, FS_EmptySet
  <2>2. PICK one \in Int : one = 1
    OBVIOUS
  <2>3. Sum(ones, S) = one * Cardinality(S)
    BY <1>1, <1>3, <2>2, SumConst
  <2> QED BY <2>1, <2>2, <2>3
<1>6. Sum(qty, S) \in Int
  BY <1>1, <1>3, SumInt
<1>7. \A i \in S : part[i] = IF Sum(qty, S) > 0 THEN P!Share(box, qty[i], Sum(qty, S))
                             ELSE P!Share(box, ones[i], Sum(ones, S))
  BY <1>2, <1>3, <1>4, <1>5 DEF RowPart
<1>8. CASE Sum(qty, S) > 0
  <2>1. \A i \in S : part[i] = P!Share(box, qty[i], Sum(qty, S))
    BY <1>7, <1>8
  <2>2. Ints(part, S) /\ Near(Sum(part, S), box, Cardinality(S))
    BY <1>1, <1>3, <1>8, <2>1, SharesNear
  <2>3. ASSUME \A i \in S : rows[i].qty >= 0, NEW i \in S PROVE part[i] >= 0
    <3>1. PICK q \in Nat : q = qty[i]
      BY <1>1, <1>3, <2>3
    <3> QED BY <1>6, <1>8, <2>1, <3>1, ShareNat
  <2> QED BY <1>2, <2>2, <2>3
<1>9. CASE ~(Sum(qty, S) > 0)
  <2>1. \A i \in S : part[i] = P!Share(box, ones[i], Sum(ones, S))
    BY <1>7, <1>9
  <2>2. Ints(part, S) /\ Near(Sum(part, S), box, Cardinality(S))
    BY <1>1, <1>3, <1>5, <2>1, SharesNear
  <2>3. ASSUME NEW i \in S PROVE part[i] >= 0
    <3>1. PICK q \in Nat : q = ones[i]
      BY <1>3
    <3> QED BY <1>5, <2>1, <3>1, ShareNat
  <2> QED BY <1>2, <2>2, <2>3
<1> QED BY <1>8, <1>9

\* The rows of a group have its cartons, and any of them at least minus half a carton a row.
LEMMA GroupCounted ==
    ASSUME NEW rows \in Seq(PackRow), NEW g, g[2] # NoGroup, NEW S, S = Sharing(rows, g), S # {},
           NEW fig, fig = Figure(rows, "ctn")
    PROVE  /\ Sum(fig, S) = BoxOf(rows, g)
           /\ (\A i \in S : rows[i].qty >= 0) =>
                \A A \in SUBSET S : 2 * Sum(fig, A) >= -Cardinality(S)
<1>1. IsFiniteSet(S) /\ S \in SUBSET DOMAIN rows /\ S \in SUBSET Int
  BY SharingRows
<1>2. PICK box \in Nat : box = BoxOf(rows, g)
  BY BoxTyped
<1>3. PICK last : last = Max(S) /\ last \in S
  BY <1>1, ExtremesOf
<1>4. PICK part : part = [i \in S |-> RowPart(rows, g, i)]
  OBVIOUS
<1>5. /\ Ints(part, S) /\ Near(Sum(part, S), box, Cardinality(S))
      /\ (\A i \in S : rows[i].qty >= 0) => \A i \in S : part[i] >= 0
  <2>1. \A i \in S : part[i] = RowPart(rows, g, i)
    BY <1>4
  <2> QED BY <1>2, <2>1, GroupParts
<1>6. PICK others : others = S \ {last} /\ IsFiniteSet(others) /\ others \in SUBSET S
  <2>1. IsFiniteSet(S \ {last})
    BY <1>1, FS_Subset
  <2> QED BY <2>1
<1>7. Ints(fig, S)
  BY <1>1, RowFigures DEF Ints
<1>8. fig[last] = box - Sum(part, others)
  <2>1. fig[last] = P!SharedCartons(rows)[last]
    BY <1>1, <1>3 DEF Figure
  <2>2. PICK f : f = [j \in S \ {last} |-> RowPart(rows, g, j)]
    OBVIOUS
  <2>3. P!SharedCartons(rows)[last] = box - SumFunction(f)
    BY <1>2, <1>3, <2>2, SharesAre
  <2>4. SumFunction(f) = Sum(f, others)
    BY <1>6, <2>2 DEF SumFunction, Sum
  <2>5. \A j \in others : f[j] = part[j]
    BY <1>4, <1>6, <2>2
  <2>6. Sum(f, others) = Sum(part, others)
    BY <1>6, <2>5, SumSame
  <2> QED BY <2>1, <2>3, <2>4, <2>6
<1>9. \A i \in others : fig[i] = part[i]
  <2> TAKE i \in others
  <2>1. i \in S /\ i # last
    BY <1>6
  <2>2. fig[i] = P!SharedCartons(rows)[i]
    BY <1>1, <2>1 DEF Figure
  <2>3. P!SharedCartons(rows)[i] = RowPart(rows, g, i)
    BY <1>3, <2>1, SharesAre
  <2> QED BY <1>4, <2>1, <2>2, <2>3
<1>10. Sum(fig, others) = Sum(part, others)
  BY <1>6, <1>9, SumSame
<1>11. PICK r \in Int, p \in Int, n \in Nat :
           /\ r = Sum(part, others) /\ p = part[last] /\ n = Cardinality(S)
           /\ Sum(part, S) = p + r
  <2>1. Sum(part, S) = part[last] + Sum(part, others)
    BY <1>1, <1>3, <1>5, <1>6, SumRemove
  <2>2. Sum(part, others) \in Int
    BY <1>1, <1>5, <1>6, SumInt
  <2>3. part[last] \in Int
    BY <1>3, <1>5 DEF Ints
  <2> QED BY <1>1, <2>1, <2>2, <2>3, FS_CardinalityType
<1>12. Sum(fig, S) = box
  <2>1. Sum(fig, S) = fig[last] + Sum(fig, others)
    BY <1>1, <1>3, <1>6, <1>7, SumRemove
  <2> QED BY <1>8, <1>10, <1>11, <2>1
<1>13. ASSUME \A i \in S : rows[i].qty >= 0, NEW A \in SUBSET S
       PROVE  2 * Sum(fig, A) >= -n
  <2>1. \A i \in S : part[i] \in Nat
    BY <1>5, <1>13 DEF Ints
  <2>2. IsFiniteSet(A) /\ IsFiniteSet(A \ {last})
    BY <1>1, FS_Subset
  <2>3. Sum(fig, A \ {last}) \in Nat
    <3>1. \A i \in A \ {last} : fig[i] \in Nat
      BY <1>6, <1>9, <2>1
    <3> QED BY <2>2, <3>1, SumNat DEF Nats
  <2>4. CASE last \notin A
    <3>1. A \ {last} = A
      BY <2>4
    <3>2. PICK m \in Nat : m = Sum(fig, A)
      BY <2>3, <3>1
    <3> QED BY <1>11, <3>2
  <2>5. CASE last \in A
    <3>1. Sum(fig, A) = fig[last] + Sum(fig, A \ {last})
      BY <1>1, <1>7, <2>5, SumAdds
    <3>2. 2 * (p + r) <= 2 * box + n
      BY <1>5, <1>11 DEF Near
    <3>3. p \in Nat
      BY <1>3, <1>11, <2>1
    <3>4. PICK m \in Nat : m = Sum(fig, A \ {last})
      BY <2>3
    <3>5. fig[last] = box - r
      BY <1>8, <1>11
    <3>6. Sum(fig, A) = box - r + m
      BY <3>1, <3>4, <3>5
    <3>7. 2 * (box - r + m) >= -n
      BY <3>2, <3>3
    <3> QED BY <3>6, <3>7
  <2> QED BY <2>4, <2>5
<1> QED BY <1>2, <1>11, <1>12, <1>13

\* A row of no group, or without cartons, keeps what it prints.
LEMMA OwnCartons ==
    ASSUME NEW rows \in Seq(PackRow), NEW i \in DOMAIN rows,
           rows[i].group[2] = NoGroup \/ rows[i].carton = 0
    PROVE  P!SharedCartons(rows)[i] = rows[i].carton
<1> DEFINE Members(h) == {j \in DOMAIN rows : rows[j].group = h /\ rows[j].carton > 0}
           Figured(h) == {rows[j].carton : j \in Members(h)}
           all(h) == P!SumFunction([j \in Members(h) |-> rows[j].carton])
           groupTotal(h) ==
               IF P!Cardinality(Figured(h)) > 1 THEN all(h)
               ELSE IF GroupRange[h[2]] > 0 THEN GroupRange[h[2]]
               ELSE CHOOSE v \in Figured(h) : TRUE
           qty(h) == P!SumFunction([j \in Members(h) |-> rows[j].qty])
           part(k) ==
               LET h == rows[k].group
               IN  IF qty(h) > 0 THEN P!Share(groupTotal(h), rows[k].qty, qty(h))
                   ELSE P!Share(groupTotal(h), 1, P!Cardinality(Members(h)))
           rest(h, k) == P!SumFunction([j \in Members(h) \ {k} |-> part(j)])
           other(h, k) == IF k # P!Max(Members(h)) THEN part(k) ELSE groupTotal(h) - rest(h, k)
           cartons(k) ==
               LET h == rows[k].group
               IN  IF h[2] = NoGroup \/ rows[k].carton = 0 THEN rows[k].carton
                   ELSE IF k # P!Max(Members(h)) THEN part(k)
                   ELSE groupTotal(h) - rest(h, k)
<1>1. P!SharedCartons(rows) = [k \in DOMAIN rows |-> cartons(k)]
  BY Zenon DEF P!SharedCartons
<1>2. cartons(i) = IF rows[i].group[2] = NoGroup \/ rows[i].carton = 0 THEN rows[i].carton
                   ELSE other(rows[i].group, i)
  BY Zenon
<1>3. cartons(i) = rows[i].carton
  <2> HIDE DEF cartons, other
  <2> QED BY <1>2
<1> HIDE DEF cartons, other
<1> QED BY <1>1, <1>3

\* The groups of the rows that count, and the cartons of each.
CountedRows(rows) == {i \in DOMAIN rows : rows[i].carton > 0}
MarksOf(rows) == {g \in {rows[i].group : i \in CountedRows(rows)} : g[2] # NoGroup}
BoxesOf(rows) == [g \in MarksOf(rows) |-> BoxOf(rows, g)]

\* The rows of no group, and those without cartons, are one class; each group is another.
Alone == <<0, NoGroup>>
ClassOf(rows) ==
    [i \in DOMAIN rows |-> IF rows[i].carton = 0 \/ rows[i].group[2] = NoGroup THEN Alone
                           ELSE rows[i].group]

\* The rows of no group that print cartons.
AloneRows(rows) == {i \in DOMAIN rows : rows[i].group[2] = NoGroup /\ rows[i].carton > 0}
AlonePrinted(rows) == [i \in AloneRows(rows) |-> rows[i].carton]

Classed(rows, D1, M, K, cls, fig) ==
    /\ IsFiniteSet(D1) /\ IsFiniteSet(K) /\ IsFiniteSet(M) /\ Ints(fig, D1)
    /\ \A i \in D1 : cls[i] \in K
    /\ \A g \in M : /\ Class(cls, D1, g) = Sharing(rows, g)
                    /\ g[2] # NoGroup /\ Sharing(rows, g) # {}
    /\ \A i \in Class(cls, D1, Alone) : fig[i] = rows[i].carton /\ fig[i] \in Nat
    /\ AloneRows(rows) = {i \in Class(cls, D1, Alone) : fig[i] # 0}

LEMMA CartonClasses ==
    ASSUME NEW rows \in Seq(PackRow)
    PROVE  Classed(rows, DOMAIN rows, MarksOf(rows), MarksOf(rows) \cup {Alone}, ClassOf(rows),
                   Figure(rows, "ctn"))
<1>0. PICK K, D1, cls, fig : /\ K = MarksOf(rows) \cup {Alone} /\ D1 = DOMAIN rows
                             /\ cls = ClassOf(rows) /\ fig = Figure(rows, "ctn")
  OBVIOUS
<1>1. PICK N \in Nat : D1 = 1..N /\ \A k \in 1..N : rows[k] \in PackRow
  BY <1>0, LenProperties, ElementOfSeq
<1>2. IsFiniteSet(D1) /\ Ints(fig, D1)
  BY <1>0, RowFigures
<1>3. \A i \in D1 : rows[i].carton \in Nat
  BY <1>1 DEF PackRow, GroupKey
<1>4. \A i \in D1 : cls[i] = IF rows[i].carton = 0 \/ rows[i].group[2] = NoGroup THEN Alone
                           ELSE rows[i].group
  BY <1>0 DEF ClassOf
<1>5. IsFiniteSet(MarksOf(rows))
  <2>1. PICK C, grp : C = CountedRows(rows) /\ grp = [i \in C |-> rows[i].group]
    OBVIOUS
  <2>2. IsFiniteSet(C)
    BY <1>0, <1>2, <2>1, FS_Subset DEF CountedRows
  <2>3. \A W : W = {grp[i] : i \in C} => IsFiniteSet(W)
    BY <2>2, FewValues
  <2>4. MarksOf(rows) \subseteq {grp[i] : i \in C}
    BY <2>1 DEF MarksOf
  <2> QED BY <2>3, <2>4, FS_Subset
<1>6. IsFiniteSet(K)
  <2>1. IsFiniteSet({Alone})
    BY FS_Singleton
  <2> QED BY <1>0, <1>5, <2>1, FS_Union
<1>7. \A i \in D1 : cls[i] \in K
  BY <1>0, <1>3, <1>4 DEF MarksOf, CountedRows
<1>8. ASSUME NEW g \in MarksOf(rows)
      PROVE  Class(cls, D1, g) = Sharing(rows, g) /\ g[2] # NoGroup /\ Sharing(rows, g) # {}
  <2>1. g[2] # NoGroup /\ \E i \in D1 : rows[i].carton > 0 /\ rows[i].group = g
    BY <1>0 DEF MarksOf, CountedRows
  <2>2. \A i \in D1 : cls[i] = g <=> rows[i].group = g /\ rows[i].carton > 0
    BY <1>3, <1>4, <2>1 DEF Alone
  <2> QED BY <1>0, <2>1, <2>2 DEF Class, Sharing
<1>9. \A i \in Class(cls, D1, Alone) : fig[i] = rows[i].carton /\ fig[i] \in Nat
  <2> TAKE i \in Class(cls, D1, Alone)
  <2>1. i \in D1 /\ cls[i] = Alone
    BY DEF Class
  <2>2. rows[i].group[2] = NoGroup \/ rows[i].carton = 0
    BY <1>4, <2>1 DEF Alone
  <2>3. fig[i] = P!SharedCartons(rows)[i]
    BY <1>0, <2>1 DEF Figure
  <2>4. P!SharedCartons(rows)[i] = rows[i].carton
    BY <1>0, <2>1, <2>2, OwnCartons
  <2> QED BY <1>3, <2>1, <2>3, <2>4
<1>10. AloneRows(rows) = {i \in Class(cls, D1, Alone) : fig[i] # 0}
  <2>1. \A i \in D1 : rows[i].carton > 0 <=> rows[i].carton # 0
    BY <1>3
  <2>2. \A i \in D1 : cls[i] = Alone <=> rows[i].carton = 0 \/ rows[i].group[2] = NoGroup
    BY <1>4 DEF Alone
  <2> QED BY <1>0, <1>9, <2>1, <2>2 DEF Class, AloneRows
<1>11. Classed(rows, D1, MarksOf(rows), K, cls, fig)
  BY <1>2, <1>5, <1>6, <1>7, <1>8, <1>9, <1>10 DEF Classed
<1> QED BY <1>0, <1>11

\* The rows together have the cartons of no group, and each group's once.
LEMMA CartonsCounted ==
    ASSUME NEW rows \in Seq(PackRow), NEW D1, D1 = DOMAIN rows,
           NEW fig, fig = Figure(rows, "ctn")
    PROVE  Sum(fig, D1) = SumFunction(AlonePrinted(rows)) + SumFunction(BoxesOf(rows))
<1>1. PICK K, cls, M : /\ K = MarksOf(rows) \cup {Alone} /\ cls = ClassOf(rows)
                       /\ M = MarksOf(rows)
  OBVIOUS
<1>2. /\ IsFiniteSet(D1) /\ IsFiniteSet(K) /\ IsFiniteSet(M) /\ Ints(fig, D1)
      /\ \A i \in D1 : cls[i] \in K
      /\ \A g \in M : /\ Class(cls, D1, g) = Sharing(rows, g)
                      /\ g[2] # NoGroup /\ Sharing(rows, g) # {}
      /\ \A i \in Class(cls, D1, Alone) : fig[i] = rows[i].carton /\ fig[i] \in Nat
      /\ AloneRows(rows) = {i \in Class(cls, D1, Alone) : fig[i] # 0}
  <2>1. Classed(rows, D1, M, K, cls, fig)
    BY <1>1, CartonClasses
  <2> QED BY <2>1 DEF Classed
<1>3. K \ {Alone} = M /\ Alone \in K
  BY <1>1, <1>2 DEF Alone
<1>4. PICK sums : sums = ClassSums(fig, cls, D1, K)
  OBVIOUS
<1>5. Sum(fig, D1) = Sum(sums, K) /\ Ints(sums, K)
  BY <1>2, <1>4, SumOfClasses
<1>6. Sum(sums, K) = sums[Alone] + Sum(sums, M)
  BY <1>2, <1>3, <1>5, SumRemove
<1>7. Sum(sums, M) = SumFunction(BoxesOf(rows))
  <2>1. \A g \in M : sums[g] = BoxesOf(rows)[g]
    <3> TAKE g \in M
    <3>1. sums[g] = Sum(fig, Sharing(rows, g))
      BY <1>2, <1>3, <1>4 DEF ClassSums
    <3>2. Sum(fig, Sharing(rows, g)) = BoxOf(rows, g)
      BY <1>2, GroupCounted
    <3> QED BY <1>1, <3>1, <3>2 DEF BoxesOf
  <2>2. Sum(sums, M) = Sum(BoxesOf(rows), M)
    BY <1>2, <2>1, SumSame
  <2>3. DOMAIN BoxesOf(rows) = M
    BY <1>1 DEF BoxesOf
  <2> QED BY <2>2, <2>3 DEF SumFunction, Sum
<1>8. sums[Alone] = SumFunction(AlonePrinted(rows))
  <2>1. PICK rest, own : rest = Class(cls, D1, Alone) /\ own = AloneRows(rows)
    OBVIOUS
  <2>2. rest \in SUBSET D1 /\ IsFiniteSet(rest) /\ own \in SUBSET rest /\ IsFiniteSet(own)
        /\ IsFiniteSet(rest \ own)
    <3>1. rest \in SUBSET D1
      BY <2>1 DEF Class
    <3>2. own \in SUBSET rest
      BY <1>2, <2>1
    <3> QED BY <1>2, <3>1, <3>2, FS_Subset
  <2>3. Ints(fig, rest)
    BY <1>2, <2>2 DEF Ints
  <2>4. sums[Alone] = Sum(fig, rest)
    BY <1>3, <1>4, <2>1 DEF ClassSums
  <2>5. Sum(fig, rest) = Sum(fig, own) + Sum(fig, rest \ own)
    BY <2>2, <2>3, SumSplit
  <2>6. Sum(fig, rest \ own) = 0
    <3>1. \A i \in rest \ own : fig[i] = 0
      BY <1>2, <2>1
    <3>2. PICK zero \in Int : zero = 0
      OBVIOUS
    <3>3. Sum(fig, rest \ own) = zero * Cardinality(rest \ own)
      BY <2>2, <3>1, <3>2, SumConst
    <3> QED BY <2>2, <3>2, <3>3, FS_CardinalityType
  <2>7. PICK f : f = AlonePrinted(rows)
    OBVIOUS
  <2>8. DOMAIN f = own /\ \A i \in own : fig[i] = f[i]
    BY <1>2, <2>1, <2>2, <2>7 DEF AlonePrinted
  <2>9. Sum(fig, own) = Sum(f, own)
    BY <2>2, <2>8, SumSame
  <2>10. Sum(fig, own) \in Int
    BY <2>2, <2>3, SumInt
  <2> QED BY <2>4, <2>5, <2>6, <2>7, <2>8, <2>9, <2>10 DEF SumFunction, Sum
<1> QED BY <1>5, <1>6, <1>7, <1>8

\* Some of the rows have at least minus half a carton for each row there is: a share that is left
\* over may be below zero when the others were rounded up.
LEMMA FewCartons ==
    ASSUME NEW rows \in Seq(PackRow), NEW D1, D1 = DOMAIN rows,
           NEW fig, fig = Figure(rows, "ctn"), \A i \in CountedRows(rows) : rows[i].qty >= 0,
           NEW A \in SUBSET D1
    PROVE  2 * Sum(fig, A) >= -Cardinality(D1)
<1>1. PICK K, cls, M : /\ K = MarksOf(rows) \cup {Alone} /\ cls = ClassOf(rows)
                       /\ M = MarksOf(rows)
  OBVIOUS
<1>2. /\ IsFiniteSet(D1) /\ IsFiniteSet(K) /\ Ints(fig, D1)
      /\ \A i \in D1 : cls[i] \in K
      /\ \A g \in M : /\ Class(cls, D1, g) = Sharing(rows, g)
                      /\ g[2] # NoGroup /\ Sharing(rows, g) # {}
      /\ \A i \in Class(cls, D1, Alone) : fig[i] \in Nat
  <2>1. Classed(rows, D1, M, K, cls, fig)
    BY <1>1, CartonClasses
  <2> QED BY <2>1 DEF Classed
<1>3. IsFiniteSet(A) /\ Ints(fig, A) /\ \A i \in A : cls[i] \in K
  BY <1>2, FS_Subset DEF Ints
<1>4. PICK minus, mine, less : /\ minus = [i \in D1 |-> -1]
                               /\ mine = ClassSums(fig, cls, A, K)
                               /\ less = ClassSums(minus, cls, D1, K)
  OBVIOUS
<1>5. PICK m \in Int : m = -1
  OBVIOUS
<1>6. Ints(minus, D1) /\ \A s \in SUBSET D1 : Sum(minus, s) = -Cardinality(s) /\ IsFiniteSet(s)
                                             /\ Cardinality(s) \in Nat
  <2>1. Ints(minus, D1)
    BY <1>4 DEF Ints
  <2>2. ASSUME NEW s \in SUBSET D1
        PROVE  Sum(minus, s) = -Cardinality(s) /\ IsFiniteSet(s) /\ Cardinality(s) \in Nat
    <3>1. IsFiniteSet(s) /\ \A i \in s : minus[i] = m
      BY <1>2, <1>4, <1>5, FS_Subset
    <3>2. Sum(minus, s) = m * Cardinality(s)
      BY <3>1, SumConst
    <3> QED BY <1>5, <3>1, <3>2, FS_CardinalityType
  <2> QED BY <2>1, <2>2
<1>7. Sum(fig, A) = Sum(mine, K) /\ Ints(mine, K)
  BY <1>2, <1>3, <1>4, SumOfClasses
<1>8. Sum(minus, D1) = Sum(less, K) /\ Ints(less, K)
  BY <1>2, <1>4, <1>6, SumOfClasses
<1>9. PICK twice : twice = [g \in K |-> 2 * mine[g]]
  OBVIOUS
<1>10. Ints(twice, K) /\ Sum(twice, K) = 2 * Sum(mine, K)
  <2>1. PICK two \in Int : two = 2
    OBVIOUS
  <2>2. \A g \in K : twice[g] = two * mine[g] /\ twice[g] \in Int
    BY <1>7, <1>9, <2>1 DEF Ints
  <2>3. Sum(twice, K) = two * Sum(mine, K)
    BY <1>2, <1>7, <2>2, SumScale
  <2> QED BY <2>1, <2>2, <2>3 DEF Ints
<1>11. \A g \in K : less[g] <= twice[g]
  <2> TAKE g \in K
  <2>1. PICK part, all : part = Class(cls, A, g) /\ all = Class(cls, D1, g)
    OBVIOUS
  <2>2. part \in SUBSET all /\ all \in SUBSET D1 /\ part \in SUBSET A
    BY <2>1 DEF Class
  <2>3. mine[g] = Sum(fig, part) /\ less[g] = -Cardinality(all) /\ Cardinality(all) \in Nat
    BY <1>4, <1>6, <2>1, <2>2 DEF ClassSums
  <2>4. twice[g] = 2 * mine[g] /\ mine[g] \in Int
    BY <1>7, <1>9 DEF Ints
  <2>5. CASE g \in M
    <3>1. all = Sharing(rows, g) /\ all # {} /\ g[2] # NoGroup
      BY <1>2, <2>1, <2>5
    <3>2. \A i \in all : rows[i].qty >= 0
      BY <3>1 DEF Sharing, CountedRows
    <3>3. 2 * Sum(fig, part) >= -Cardinality(all)
      BY <2>2, <3>1, <3>2, GroupCounted
    <3> QED BY <2>3, <2>4, <3>3
  <2>6. CASE g = Alone
    <3>1. \A i \in part : fig[i] \in Nat
      BY <1>2, <2>1, <2>2, <2>6
    <3>2. IsFiniteSet(part)
      BY <1>3, <2>2, FS_Subset
    <3>3. Sum(fig, part) \in Nat
      BY <3>1, <3>2, SumNat DEF Nats
    <3> QED BY <2>3, <2>4, <3>3
  <2> QED BY <1>1, <2>5, <2>6
<1>12. Sum(less, K) <= Sum(twice, K)
  BY <1>2, <1>8, <1>10, <1>11, SumLe
<1>13. Sum(minus, D1) = -Cardinality(D1) /\ Cardinality(D1) \in Nat
  BY <1>6
<1>14. PICK a \in Int : a = Sum(fig, A)
  BY <1>3, SumInt
<1> QED BY <1>7, <1>8, <1>10, <1>12, <1>13, <1>14

-----------------------------------------------------------------------------
(* Every product of the packing lists goes to one text, and no two to one.  *)

\* The recursion a fold is defined by: h at s, when pick[s] is taken last.
Folding(base, g, pick, h, s) == IF s = {} THEN base ELSE g[<<pick[s], h[s \ {pick[s]}]>>]

\* Of every part of S, pick has one.
Picks(pick, S) == \A s \in SUBSET S : s # {} => pick[s] \in s

Solved(base, g, pick, S, V) ==
    \E h \in [SUBSET S -> V] : \A s \in SUBSET S : h[s] = Folding(base, g, pick, h, s)

\* Over a finite set it has a solution that stays where its steps stay.
LEMMA FoldingExists ==
    ASSUME NEW S, IsFiniteSet(S), NEW pick, Picks(pick, S),
           NEW V, NEW base \in V, NEW g \in [S \X V -> V]
    PROVE  Solved(base, g, pick, S, V)
<1> DEFINE Upto(h, n) == /\ h \in [SUBSET S -> V]
                         /\ \A s \in SUBSET S : Cardinality(s) <= n =>
                                h[s] = Folding(base, g, pick, h, s)
           Bad == {n \in Nat : ~\E h : Upto(h, n)}
<1>1. \A s \in SUBSET S : IsFiniteSet(s) /\ Cardinality(s) \in Nat
  BY FS_Subset, FS_CardinalityType
<1>2. Bad = {}
  <2> SUFFICES ASSUME Bad # {} PROVE FALSE
    OBVIOUS
  <2>1. PICK n \in Bad : \A m \in Bad : n <= m
    <3>1. Bad \in SUBSET Nat
      OBVIOUS
    <3> HIDE DEF Bad
    <3> QED BY <3>1, LeastOf
  <2>2. CASE n = 0
    <3>1. \A s \in SUBSET S : Cardinality(s) <= 0 => s = {}
      BY <1>1, FS_EmptySet
    <3>2. Upto([s \in SUBSET S |-> base], 0)
      BY <3>1 DEF Folding
    <3> QED BY <2>1, <2>2, <3>2
  <2>3. CASE n # 0
    <3>1. n - 1 \in Nat /\ n - 1 \notin Bad /\ n \in Nat
      <4>1. Bad \in SUBSET Nat
        OBVIOUS
      <4> HIDE DEF Bad
      <4> QED BY <2>1, <2>3, <4>1
    <3>2. PICK h : Upto(h, n - 1)
      BY <3>1
    <3> DEFINE k == [s \in SUBSET S |-> IF Cardinality(s) <= n - 1 THEN h[s]
                                        ELSE Folding(base, g, pick, h, s)]
    <3>3. ASSUME NEW s \in SUBSET S PROVE Folding(base, g, pick, h, s) \in V
      <4>1. CASE s = {}
        BY <4>1 DEF Folding
      <4>2. CASE s # {}
        <5>1. PICK x \in s : x = pick[s]
          BY <4>2 DEF Picks
        <5>2. h[s \ {x}] \in V
          BY <3>2
        <5> QED BY <4>2, <5>1, <5>2 DEF Folding
      <4> QED BY <4>1, <4>2
    <3>4. k \in [SUBSET S -> V]
      BY <3>2, <3>3
    <3>5. ASSUME NEW s \in SUBSET S, Cardinality(s) <= n PROVE k[s] = Folding(base, g, pick, k, s)
      <4>1. k[s] = Folding(base, g, pick, h, s)
        BY <3>2
      <4>2. CASE s = {}
        BY <4>1, <4>2 DEF Folding
      <4>3. CASE s # {}
        <5>1. PICK x \in s : x = pick[s]
          BY <4>3 DEF Picks
        <5>2. Cardinality(s \ {x}) <= n - 1
          BY <1>1, <3>1, <3>5, FS_RemoveElement
        <5>3. k[s \ {x}] = h[s \ {x}]
          BY <5>2
        <5> HIDE DEF k
        <5> QED BY <4>1, <4>3, <5>1, <5>3 DEF Folding
      <4> QED BY <4>2, <4>3
    <3> HIDE DEF k
    <3>6. Upto(k, n)
      BY <3>4, <3>5
    <3> QED BY <2>1, <3>6
  <2> QED BY <2>2, <2>3
<1>3. Cardinality(S) \in Nat
  BY FS_CardinalityType
<1>4. PICK h : Upto(h, Cardinality(S))
  BY <1>2, <1>3
<1>5. \A s \in SUBSET S : Cardinality(s) <= Cardinality(S)
  BY FS_Subset
<1> QED BY <1>4, <1>5 DEF Solved

\* The matches of some of the products of A with texts of F, no two with the same.
Pairings(A, F) ==
    {m \in UNION {[B -> F] : B \in SUBSET A} : \A p, q \in DOMAIN m : m[p] = m[q] => p = q}

LEMMA PairingIs ==
    ASSUME NEW A, NEW F, NEW m
    PROVE  m \in Pairings(A, F) <=>
             /\ m = [p \in DOMAIN m |-> m[p]] /\ DOMAIN m \subseteq A
             /\ \A p \in DOMAIN m : m[p] \in F
             /\ \A p, q \in DOMAIN m : m[p] = m[q] => p = q
<1>1. m \in Pairings(A, F) => /\ m = [p \in DOMAIN m |-> m[p]] /\ DOMAIN m \subseteq A
                              /\ \A p \in DOMAIN m : m[p] \in F
                              /\ \A p, q \in DOMAIN m : m[p] = m[q] => p = q
  <2> SUFFICES ASSUME m \in Pairings(A, F)
               PROVE  /\ m = [p \in DOMAIN m |-> m[p]] /\ DOMAIN m \subseteq A
                      /\ \A p \in DOMAIN m : m[p] \in F
                      /\ \A p, q \in DOMAIN m : m[p] = m[q] => p = q
    OBVIOUS
  <2>1. PICK B \in SUBSET A : m \in [B -> F]
    BY DEF Pairings
  <2>2. \A p, q \in DOMAIN m : m[p] = m[q] => p = q
    BY DEF Pairings
  <2> QED BY <2>1, <2>2
<1>2. ASSUME m = [p \in DOMAIN m |-> m[p]], DOMAIN m \subseteq A, \A p \in DOMAIN m : m[p] \in F,
             \A p, q \in DOMAIN m : m[p] = m[q] => p = q
      PROVE  m \in Pairings(A, F)
  <2>1. PICK B : B = DOMAIN m
    OBVIOUS
  <2>2. m \in [B -> F] /\ B \in SUBSET A
    BY <1>2, <2>1
  <2> QED BY <1>2, <2>2 DEF Pairings
<1> QED BY <1>1, <1>2

\* Two matchings with no text in common are one.
LEMMA PairingsJoin ==
    ASSUME NEW A, NEW F, NEW m \in Pairings(A, F), NEW more \in Pairings(A, F),
           \A p \in DOMAIN m : \A q \in DOMAIN more : m[p] # more[q]
    PROVE  P!Joined(m, more) \in Pairings(A, F)
<1>1. PICK j : j = P!Joined(m, more)
  OBVIOUS
<1>2. j = [p \in DOMAIN m \cup DOMAIN more |-> IF p \in DOMAIN m THEN m[p] ELSE more[p]]
  BY <1>1 DEF P!Joined
<1>3. /\ DOMAIN m \subseteq A /\ \A p \in DOMAIN m : m[p] \in F
      /\ \A p, q \in DOMAIN m : m[p] = m[q] => p = q
  BY PairingIs
<1>4. /\ DOMAIN more \subseteq A /\ \A p \in DOMAIN more : more[p] \in F
      /\ \A p, q \in DOMAIN more : more[p] = more[q] => p = q
  BY PairingIs
<1>5. /\ j = [p \in DOMAIN j |-> j[p]] /\ DOMAIN j \subseteq A
      /\ \A p \in DOMAIN j : j[p] \in F
      /\ \A p, q \in DOMAIN j : j[p] = j[q] => p = q
  <2>1. DOMAIN j = DOMAIN m \cup DOMAIN more /\ j = [p \in DOMAIN j |-> j[p]]
    BY <1>2
  <2>2. \A p \in DOMAIN j : /\ p \in DOMAIN m => j[p] = m[p]
                            /\ p \notin DOMAIN m => p \in DOMAIN more /\ j[p] = more[p]
    BY <1>2
  <2> QED BY <1>3, <1>4, <2>1, <2>2
<1> QED BY <1>1, <1>5, PairingIs

\* One match more.
LEMMA PairingGrows ==
    ASSUME NEW A, NEW F, NEW m \in Pairings(A, F), NEW p \in A, NEW t \in F,
           \A q \in DOMAIN m : m[q] # t
    PROVE  P!Joined([q \in {p} |-> t], m) \in Pairings(A, F)
<1>1. PICK one : one = [q \in {p} |-> t]
  OBVIOUS
<1>2. DOMAIN one = {p} /\ one[p] = t /\ one = [q \in DOMAIN one |-> one[q]]
  BY <1>1
<1>3. one \in Pairings(A, F)
  BY <1>2, PairingIs
<1>4. \A q \in DOMAIN one : \A r \in DOMAIN m : one[q] # m[r]
  BY <1>2
<1> QED BY <1>1, <1>3, <1>4, PairingsJoin

LEMMA NoPairs == ASSUME NEW A, NEW F PROVE << >> \in Pairings(A, F)
<1>1. << >> = [p \in DOMAIN << >> |-> << >>[p]] /\ DOMAIN << >> = {}
  OBVIOUS
<1> QED BY <1>1, PairingIs

\* The step of the second rung.
CodeHits(p, m, products, texts) ==
    {t \in (texts \ products) \ P!Range(m) : Meaning[t].codes \cap Meaning[p].codes # {}}
CodeStep(m, p, products, texts) ==
    IF p \in texts \/ P!Cardinality(CodeHits(p, m, products, texts)) # 1 THEN m
    ELSE P!Joined([q \in {p} |-> CHOOSE t \in CodeHits(p, m, products, texts) : TRUE], m)

CodeFold(order, products, texts, h) ==
    h = [s \in SUBSET DOMAIN order |->
            IF s = {} THEN << >>
            ELSE LET x == P!Max(s) IN CodeStep(h[s \ {x}], order[x], products, texts)]

LEMMA CodesAreFolded ==
    ASSUME NEW order, NEW products, NEW texts
    PROVE  P!CodeMatches(order, products, texts)
             = (CHOOSE h : CodeFold(order, products, texts, h))[DOMAIN order]
BY Zenon DEF P!CodeMatches, P!FoldLeft, P!MapThenFoldSet, CodeFold, CodeStep, CodeHits

\* The second rung leaves the texts of the first alone, and no text is claimed twice.
LEMMA CodeMatchesPair ==
    ASSUME NEW order, IsFiniteSet(DOMAIN order), DOMAIN order \in SUBSET Int,
           NEW products, NEW texts, IsFiniteSet(texts)
    PROVE  P!CodeMatches(order, products, texts)
             \in Pairings({order[x] : x \in DOMAIN order} \ texts, texts \ products)
<1> DEFINE S == DOMAIN order
           A == {order[x] : x \in S} \ texts
           F == texts \ products
           V == Pairings(A, F)
           g == [xm \in S \X V |-> CodeStep(xm[2], order[xm[1]], products, texts)]
           pick == [s \in SUBSET S |-> P!Max(s)]
<1>0. IsFiniteSet(S)
  OBVIOUS
<1>1. \A s \in SUBSET S : s # {} => pick[s] \in s
  <2> SUFFICES ASSUME NEW s \in SUBSET S, s # {} PROVE pick[s] \in s
    OBVIOUS
  <2>1. IsFiniteSet(s) /\ s \in SUBSET Int
    BY FS_Subset
  <2>2. P!Max(s) = Max(s) /\ Max(s) \in s
    BY <2>1, ExtremesOf, SameMax
  <2> QED BY <2>2
<1>2. ASSUME NEW x \in S, NEW m \in V PROVE CodeStep(m, order[x], products, texts) \in V
  <2>1. PICK p : p = order[x]
    OBVIOUS
  <2>2. PICK H : H = CodeHits(p, m, products, texts)
    OBVIOUS
  <2>3. H \subseteq texts \ products /\ \A t \in H : t \notin P!Range(m)
    BY <2>2 DEF CodeHits
  <2>4. CASE p \in texts \/ P!Cardinality(H) # 1
    <3>1. CodeStep(m, p, products, texts) = m
      BY <2>2, <2>4 DEF CodeStep
    <3> QED BY <2>1, <3>1
  <2>5. CASE ~(p \in texts \/ P!Cardinality(H) # 1)
    <3>1. IsFiniteSet(H) /\ Cardinality(H) = 1
      <4>1. IsFiniteSet(H)
        BY <2>3, FS_Subset
      <4> QED BY <2>5, <4>1, SameCardinality
    <3>2. PICK t : H = {t}
      BY <3>1, FS_Singleton
    <3>3. (CHOOSE u \in H : TRUE) = t
      BY <3>2
    <3>4. CodeStep(m, p, products, texts) = P!Joined([q \in {p} |-> t], m)
      <4>1. (CHOOSE u \in CodeHits(p, m, products, texts) : TRUE) = t
        BY <2>2, <3>3
      <4>2. PICK c : c = CHOOSE u \in CodeHits(p, m, products, texts) : TRUE
        OBVIOUS
      <4>3. CodeStep(m, p, products, texts) = P!Joined([q \in {p} |-> c], m)
        BY <2>2, <2>5, <4>2 DEF CodeStep
      <4>4. c = t
        BY <4>1, <4>2, Zenon
      <4> QED BY <4>3, <4>4
    <3>5. p \in A /\ t \in F /\ m \in Pairings(A, F)
      BY <2>1, <2>3, <2>5, <3>2
    <3>6. \A q \in DOMAIN m : m[q] # t
      <4>1. t \notin P!Range(m)
        BY <2>3, <3>2
      <4> QED BY <4>1 DEF P!Range
    <3>7. P!Joined([q \in {p} |-> t], m) \in Pairings(A, F)
      <4> HIDE DEF A, F
      <4> QED BY <3>5, <3>6, PairingGrows
    <3> QED BY <2>1, <3>4, <3>7
  <2> QED BY <2>4, <2>5
<1>3. g \in [S \X V -> V]
  <2> HIDE DEF V
  <2>1. \A xm \in S \X V : xm[1] \in S /\ xm[2] \in V
    OBVIOUS
  <2> QED BY <1>2, <2>1
<1>4. << >> \in V
  BY NoPairs
<1>5. PICK h \in [SUBSET S -> V] : \A s \in SUBSET S : h[s] = Folding(<< >>, g, pick, h, s)
  <2> HIDE DEF V, g, pick
  <2>1. PICK base \in V : base = << >>
    BY <1>4
  <2>2. Solved(base, g, pick, S, V)
    <3> HIDE DEF S
    <3>1. Picks(pick, S)
      BY <1>1 DEF Picks
    <3> QED BY <1>0, <1>3, <3>1, FoldingExists
  <2> QED BY <2>1, <2>2 DEF Solved
<1>6. ASSUME NEW k \in [SUBSET S -> V], NEW s \in SUBSET S, s # {}
      PROVE  g[<<pick[s], k[s \ {pick[s]}]>>]
               = CodeStep(k[s \ {P!Max(s)}], order[P!Max(s)], products, texts)
  <2>1. PICK x \in s : x = pick[s] /\ x = P!Max(s)
    BY <1>1, <1>6
  <2>2. PICK m \in V : m = k[s \ {x}]
    <3> HIDE DEF V
    <3> QED OBVIOUS
  <2>3. g[<<x, m>>] = CodeStep(m, order[x], products, texts)
    <3> HIDE DEF V
    <3>1. <<x, m>> \in S \X V
      OBVIOUS
    <3> QED BY <3>1
  <2> HIDE DEF g, pick, V
  <2> QED BY <2>1, <2>2, <2>3
<1>7. CodeFold(order, products, texts, h)
  <2> HIDE DEF g, pick, V
  <2>1. \A s \in SUBSET S : h[s] = IF s = {} THEN << >>
            ELSE LET x == P!Max(s) IN CodeStep(h[s \ {x}], order[x], products, texts)
    BY <1>5, <1>6 DEF Folding
  <2>2. h = [s \in SUBSET S |-> h[s]]
    BY <1>5
  <2> QED BY <2>1, <2>2 DEF CodeFold
<1>8. PICK k : /\ CodeFold(order, products, texts, k)
               /\ P!CodeMatches(order, products, texts) = k[S]
  <2> DEFINE k == CHOOSE h1 : CodeFold(order, products, texts, h1)
  <2>1. CodeFold(order, products, texts, k)
    BY <1>7
  <2> QED BY <2>1, CodesAreFolded
<1>9. \A s \in SUBSET S : k[s] = IF s = {} THEN << >>
            ELSE LET x == P!Max(s) IN CodeStep(k[s \ {x}], order[x], products, texts)
  BY <1>8 DEF CodeFold
<1> DEFINE Good == {s \in SUBSET S : k[s] \in V}
<1>10. {} \in Good
  BY <1>4, <1>9
<1>11. \A s \in SUBSET S : s # {} => \E x \in s : s \ {x} \in Good => s \in Good
  <2> TAKE s \in SUBSET S
  <2> SUFFICES ASSUME s # {} PROVE \E x \in s : s \ {x} \in Good => s \in Good
    OBVIOUS
  <2>1. PICK x \in s : x = P!Max(s)
    BY <1>1
  <2>2. k[s] = CodeStep(k[s \ {x}], order[x], products, texts)
    BY <1>9, <2>1
  <2>3. ASSUME s \ {x} \in Good PROVE s \in Good
    <3>1. k[s \ {x}] \in V
      BY <2>3
    <3> HIDE DEF V
    <3> QED BY <1>2, <2>1, <2>2, <3>1
  <2> QED BY <2>1, <2>3
<1>12. S \in Good
  <2> HIDE DEF Good
  <2>1. \A s \in SUBSET S : s \in Good
    BY <1>10, <1>11, FiniteInduction
  <2> QED BY <2>1
<1> QED BY <1>8, <1>12

\* The step of the third rung.
SimilarStep(was, p, t, taken, pairs, texts) ==
    LET rivals == {P!Similarity(p, o) : o \in {o \in texts \ (taken \cup {t}) : <<p, o>> \in pairs}}
    IN  IF p \in DOMAIN was.match \cup was.undecided \/ t \in taken THEN was
        ELSE IF P!Similarity(p, t) - P!Max(rivals \cup {0}) < P!MinMargin
        THEN [was EXCEPT !.undecided = @ \cup {p}]
        ELSE [was EXCEPT !.match = P!Joined([q \in {p} |-> t], was.match)]

SimilarPairs(products, texts, matched) ==
    {pt \in (products \ matched) \X texts : P!Similarity(pt[1], pt[2]) >= P!MinScore}

AtFirst == [match |-> << >>, undecided |-> {}]

SimilarFold(pairs, texts, claimed, h) ==
    h = [s \in SUBSET pairs |->
            IF s = {} THEN AtFirst
            ELSE LET x == P!Worst(s)
                     was == h[s \ {x}]
                 IN  SimilarStep(was, x[1], x[2], claimed \cup P!Range(was.match), pairs, texts)]

LEMMA SimilarAreFolded ==
    ASSUME NEW products, NEW texts, NEW matched, NEW claimed, NEW pairs,
           pairs = SimilarPairs(products, texts, matched)
    PROVE  P!SimilarityMatches(products, texts, matched, claimed)
             = (CHOOSE h : SimilarFold(pairs, texts, claimed, h))[pairs].match
<1> DEFINE prs == {pt \in (products \ matched) \X texts : P!Similarity(pt[1], pt[2]) >= P!MinScore}
<1>1. P!SimilarityMatches(products, texts, matched, claimed)
        = (CHOOSE h : SimilarFold(prs, texts, claimed, h))[prs].match
  BY Zenon DEF P!SimilarityMatches, P!MapThenFoldSet, SimilarFold, SimilarStep, AtFirst
<1> QED BY <1>1 DEF SimilarPairs

\* A similarity is a percentage.
LEMMA SimilarityTyped ==
    ASSUME NEW a \in Texts, NEW b \in Texts
    PROVE  P!Similarity(a, b) \in Int
<1>1. PICK wa, wb : wa = Meaning[a].words /\ wb = Meaning[b].words
  OBVIOUS
<1>2. IsFiniteSet(wa) /\ IsFiniteSet(wb)
  BY <1>1, MeaningAssumption
<1>3. IsFiniteSet(wa \cap wb) /\ IsFiniteSet(wa \cup wb)
  <2>1. wa \cap wb \subseteq wa
    OBVIOUS
  <2> QED BY <1>2, <2>1, FS_Subset, FS_Union
<1>4. PICK both \in Int, either \in Int :
          both = P!Cardinality(wa \cap wb) /\ either = P!Cardinality(wa \cup wb)
          /\ (wa # {} => either > 0)
  <2>1. Cardinality(wa \cap wb) \in Nat /\ Cardinality(wa \cup wb) \in Nat
    BY <1>3, FS_CardinalityType
  <2>2. wa # {} => Cardinality(wa \cup wb) # 0
    BY <1>3, FS_EmptySet
  <2> QED BY <2>1, <2>2, SameCardinality
<1>5. wa # {} => (100 * both) \div either \in Int
  BY <1>4
<1> QED BY <1>1, <1>4, <1>5 DEF P!Similarity

LEMMA RankTyped == ASSUME NEW t \in Texts PROVE P!TextRank(t) \in Int
<1>1. PICK k \in DOMAIN TextOrder : TextOrder[k] = t
  BY MeaningAssumption DEF Range
<1>2. P!TextRank(t) \in DOMAIN TextOrder
  BY <1>1 DEF P!TextRank
<1>3. DOMAIN TextOrder \subseteq Int
  BY MeaningAssumption, LenProperties
<1> QED BY <1>2, <1>3

\* Of two pairs one may be better than the other, by how alike they are and by the texts' order.
LEMMA BetterIs ==
    ASSUME NEW a \in Texts \X Texts, NEW b \in Texts \X Texts, NEW c \in Texts \X Texts
    PROVE  ~P!Better(a, a) /\ (P!Better(a, b) /\ P!Better(b, c) => P!Better(a, c))
<1>1. a[1] \in Texts /\ a[2] \in Texts /\ b[1] \in Texts /\ b[2] \in Texts /\ c[1] \in Texts /\ c[2] \in Texts
  OBVIOUS
<1>2. PICK sa \in Int, sb \in Int, sc \in Int :
        /\ sa = P!Similarity(a[1], a[2]) /\ sb = P!Similarity(b[1], b[2])
        /\ sc = P!Similarity(c[1], c[2])
  BY <1>1, SimilarityTyped
<1>3. PICK a1 \in Int, a2 \in Int : a1 = P!TextRank(a[1]) /\ a2 = P!TextRank(a[2])
  BY <1>1, RankTyped
<1>4. PICK b1 \in Int, b2 \in Int : b1 = P!TextRank(b[1]) /\ b2 = P!TextRank(b[2])
  BY <1>1, RankTyped
<1>5. PICK c1 \in Int, c2 \in Int : c1 = P!TextRank(c[1]) /\ c2 = P!TextRank(c[2])
  BY <1>1, RankTyped
<1>6. P!Better(a, b) <=> \/ sa > sb
                         \/ sa = sb /\ a1 < b1
                         \/ sa = sb /\ a[1] = b[1] /\ a2 < b2
  BY <1>2, <1>3, <1>4 DEF P!Better
<1>7. P!Better(b, c) <=> \/ sb > sc
                         \/ sb = sc /\ b1 < c1
                         \/ sb = sc /\ b[1] = c[1] /\ b2 < c2
  BY <1>2, <1>4, <1>5 DEF P!Better
<1>8. P!Better(a, c) <=> \/ sa > sc
                         \/ sa = sc /\ a1 < c1
                         \/ sa = sc /\ a[1] = c[1] /\ a2 < c2
  BY <1>2, <1>3, <1>5 DEF P!Better
<1>9. ~P!Better(a, a)
  BY <1>2, <1>3 DEF P!Better
<1>10. (a[1] = b[1] => a1 = b1) /\ (b[1] = c[1] => b1 = c1)
  BY <1>3, <1>4, <1>5
<1> QED BY <1>6, <1>7, <1>8, <1>9, <1>10

\* Of some pairs one comes last.
LEMMA WorstOf ==
    ASSUME NEW pairs \in SUBSET (Texts \X Texts), IsFiniteSet(pairs), pairs # {}
    PROVE  P!Worst(pairs) \in pairs
<1> DEFINE Good == {s \in SUBSET pairs : s = {} \/ \E x \in s : \A o \in s : ~P!Better(x, o)}
<1>1. {} \in Good
  OBVIOUS
<1>2. ASSUME NEW s \in SUBSET pairs, NEW x \in s, s \ {x} \in Good PROVE s \in Good
  <2>1. x \in Texts \X Texts /\ ~P!Better(x, x)
    BY BetterIs
  <2>2. CASE s \ {x} = {}
    <3>1. \A o \in s : o = x
      BY <2>2
    <3> QED BY <2>1, <3>1
  <2>3. CASE s \ {x} # {}
    <3>1. PICK y \in s \ {x} : \A o \in s \ {x} : ~P!Better(y, o)
      BY <1>2, <2>3
    <3>2. CASE ~P!Better(y, x)
      <4>1. \A o \in s : ~P!Better(y, o)
        BY <3>1, <3>2
      <4> QED BY <4>1
    <3>3. CASE P!Better(y, x)
      <4>1. ASSUME NEW o \in s PROVE ~P!Better(x, o)
        <5>1. CASE o = x
          BY <2>1, <5>1
        <5>2. CASE o # x
          <6>1. ~P!Better(y, o)
            BY <3>1, <5>2
          <6>2. y \in Texts \X Texts /\ o \in Texts \X Texts
            OBVIOUS
          <6> QED BY <2>1, <3>3, <6>1, <6>2, BetterIs
        <5> QED BY <5>1, <5>2
      <4> QED BY <4>1
    <3> QED BY <3>2, <3>3
  <2> QED BY <2>2, <2>3
<1>3. pairs \in Good
  <2> HIDE DEF Good
  <2> QED BY <1>1, <1>2, SumInduction
<1>4. \E x \in pairs : \A o \in pairs : ~P!Better(x, o)
  BY <1>3
<1> QED BY <1>4 DEF P!Worst

\* The states of the third rung.
Deciding(A, F, products) == [match : Pairings(A, F), undecided : SUBSET products]

LEMMA SimilarStepKeeps ==
    ASSUME NEW products, NEW texts, NEW matched, NEW claimed, NEW pairs,
           pairs = SimilarPairs(products, texts, matched), NEW pt \in pairs,
           NEW was \in Deciding(products \ matched, texts \ claimed, products)
    PROVE  SimilarStep(was, pt[1], pt[2], claimed \cup P!Range(was.match), pairs, texts)
             \in Deciding(products \ matched, texts \ claimed, products)
<1>1. PICK A, F, V : /\ A = products \ matched /\ F = texts \ claimed
                     /\ V = Deciding(A, F, products)
  OBVIOUS
<1>2. PICK p, t, taken : p = pt[1] /\ t = pt[2] /\ taken = claimed \cup P!Range(was.match)
  OBVIOUS
<1>3. p \in A /\ t \in texts
  BY <1>1, <1>2 DEF SimilarPairs
<1>4. was.match \in Pairings(A, F) /\ was.undecided \in SUBSET products
      /\ was = [match |-> was.match, undecided |-> was.undecided]
  BY <1>1 DEF Deciding
<1>5. PICK rivals : rivals = {P!Similarity(p, o) :
                                o \in {o \in texts \ (taken \cup {t}) : <<p, o>> \in pairs}}
  OBVIOUS
<1>6. PICK step : step = SimilarStep(was, p, t, taken, pairs, texts)
  OBVIOUS
<1>7. CASE p \in DOMAIN was.match \cup was.undecided \/ t \in taken
  <2>1. step = was
    BY <1>6, <1>7 DEF SimilarStep
  <2> QED BY <1>1, <1>2, <1>6, <2>1
<1>8. CASE ~(p \in DOMAIN was.match \cup was.undecided \/ t \in taken)
  <2>1. \/ step = [was EXCEPT !.undecided = @ \cup {p}]
        \/ step = [was EXCEPT !.match = P!Joined([q \in {p} |-> t], was.match)]
    BY <1>5, <1>6, <1>8 DEF SimilarStep
  <2>2. P!Joined([q \in {p} |-> t], was.match) \in Pairings(A, F)
    <3>1. t \in F /\ \A q \in DOMAIN was.match : was.match[q] # t
      BY <1>1, <1>2, <1>3, <1>8 DEF P!Range
    <3> QED BY <1>3, <1>4, <3>1, PairingGrows
  <2>3. [was EXCEPT !.undecided = @ \cup {p}] \in V
    <3>1. was.undecided \cup {p} \in SUBSET products
      BY <1>1, <1>3, <1>4
    <3> QED BY <1>1, <3>1 DEF Deciding
  <2>4. [was EXCEPT !.match = P!Joined([q \in {p} |-> t], was.match)] \in V
    <3>1. PICK m \in Pairings(A, F) : m = P!Joined([q \in {p} |-> t], was.match)
      BY <2>2
    <3>2. [was EXCEPT !.match = m] \in V
      BY <1>1 DEF Deciding
    <3> QED BY <3>1, <3>2
  <2>5. step \in V
    BY <2>1, <2>3, <2>4
  <2> QED BY <1>1, <1>2, <1>6, <2>5
<1> QED BY <1>7, <1>8

\* The third rung matches products that are left with texts that are left, none twice.
LEMMA SimilarMatchesPair ==
    ASSUME NEW products \in SUBSET Texts, IsFiniteSet(products),
           NEW texts \in SUBSET Texts, IsFiniteSet(texts), NEW matched, NEW claimed
    PROVE  P!SimilarityMatches(products, texts, matched, claimed)
             \in Pairings(products \ matched, texts \ claimed)
<1>1. PICK S, V : /\ S = SimilarPairs(products, texts, matched)
                  /\ V = Deciding(products \ matched, texts \ claimed, products)
  OBVIOUS
<1> DEFINE pick == [s \in SUBSET S |-> P!Worst(s)]
           of(was, x) == SimilarStep(was, x[1], x[2], claimed \cup P!Range(was.match), S, texts)
           g == [xm \in S \X V |-> of(xm[2], xm[1])]
<1>2. S \in SUBSET (Texts \X Texts) /\ IsFiniteSet(S)
  <2>1. S \subseteq (products \ matched) \X texts
    BY <1>1 DEF SimilarPairs
  <2>2. S \subseteq products \X texts
    BY <2>1
  <2>3. IsFiniteSet(products \X texts)
    BY FS_Product
  <2>4. S \subseteq Texts \X Texts
    BY <2>2
  <2> QED BY <2>2, <2>3, <2>4, FS_Subset
<1>3. ASSUME NEW s \in SUBSET S, s # {} PROVE P!Worst(s) \in s
  <2>1. s \in SUBSET (Texts \X Texts) /\ IsFiniteSet(s)
    BY <1>2, FS_Subset
  <2> QED BY <1>3, <2>1, WorstOf
<1>4. Picks(pick, S)
  BY <1>3 DEF Picks
<1>5. \A was \in V, x \in S : of(was, x) \in V
  BY <1>1, SimilarStepKeeps
<1>6. g \in [S \X V -> V]
  <2> HIDE DEF of
  <2>1. \A xm \in S \X V : xm[1] \in S /\ xm[2] \in V
    OBVIOUS
  <2> QED BY <1>5, <2>1
<1>7. AtFirst \in V
  <2>1. << >> \in Pairings(products \ matched, texts \ claimed) /\ {} \in SUBSET products
    BY NoPairs
  <2>2. PICK e \in Pairings(products \ matched, texts \ claimed) : e = << >>
    BY <2>1
  <2>3. [match |-> e, undecided |-> {}] \in V
    BY <1>1, <2>1 DEF Deciding
  <2> QED BY <2>2, <2>3 DEF AtFirst
<1>8. PICK h \in [SUBSET S -> V] : \A s \in SUBSET S : h[s] = Folding(AtFirst, g, pick, h, s)
  <2>1. PICK base \in V : base = AtFirst
    BY <1>7
  <2>2. Solved(base, g, pick, S, V)
    <3> HIDE DEF g, pick
    <3> QED BY <1>2, <1>4, <1>6, FoldingExists
  <2> HIDE DEF g, pick
  <2> QED BY <2>1, <2>2 DEF Solved
<1>9. \A k \in [SUBSET S -> V], s \in SUBSET S : s # {} =>
         g[<<pick[s], k[s \ {pick[s]}]>>] = of(k[s \ {P!Worst(s)}], P!Worst(s))
  <2> SUFFICES ASSUME NEW k \in [SUBSET S -> V], NEW s \in SUBSET S, s # {}
               PROVE  g[<<pick[s], k[s \ {pick[s]}]>>] = of(k[s \ {P!Worst(s)}], P!Worst(s))
    OBVIOUS
  <2>1. PICK x \in s : x = pick[s] /\ x = P!Worst(s)
    BY <1>3
  <2>2. PICK m \in V : m = k[s \ {x}]
    OBVIOUS
  <2>3. g[<<x, m>>] = of(m, x)
    <3> HIDE DEF of
    <3>1. <<x, m>> \in S \X V
      OBVIOUS
    <3> QED BY <3>1
  <2> HIDE DEF g, pick, of
  <2> QED BY <2>1, <2>2, <2>3
<1>10. SimilarFold(S, texts, claimed, h)
  <2> HIDE DEF g, pick, of
  <2>1. \A s \in SUBSET S : h[s] = IF s = {} THEN AtFirst ELSE of(h[s \ {P!Worst(s)}], P!Worst(s))
    BY <1>8, <1>9 DEF Folding
  <2>2. h = [s \in SUBSET S |-> h[s]]
    BY <1>8
  <2>3. h = [s \in SUBSET S |-> IF s = {} THEN AtFirst
                                ELSE of(h[s \ {P!Worst(s)}], P!Worst(s))]
    BY <2>1, <2>2
  <2> QED BY <2>3, Zenon DEF SimilarFold, of
<1>11. PICK k : /\ SimilarFold(S, texts, claimed, k)
                /\ P!SimilarityMatches(products, texts, matched, claimed) = k[S].match
  <2> DEFINE k == CHOOSE h1 : SimilarFold(S, texts, claimed, h1)
  <2>1. SimilarFold(S, texts, claimed, k)
    BY <1>10
  <2>2. P!SimilarityMatches(products, texts, matched, claimed) = k[S].match
    BY <1>1, SimilarAreFolded
  <2> HIDE DEF k
  <2> QED BY <2>1, <2>2
<1>12. \A s \in SUBSET S : k[s] = IF s = {} THEN AtFirst
                                  ELSE of(k[s \ {P!Worst(s)}], P!Worst(s))
  <2>1. k = [s \in SUBSET S |-> IF s = {} THEN AtFirst
                                ELSE of(k[s \ {P!Worst(s)}], P!Worst(s))]
    BY <1>11, Zenon DEF SimilarFold, of
  <2> HIDE DEF of
  <2> QED BY <2>1
<1> DEFINE Good == {s \in SUBSET S : k[s] \in V}
<1>13. {} \in Good
  BY <1>7, <1>12
<1>14. \A s \in SUBSET S : s # {} => \E x \in s : s \ {x} \in Good => s \in Good
  <2> TAKE s \in SUBSET S
  <2> SUFFICES ASSUME s # {} PROVE \E x \in s : s \ {x} \in Good => s \in Good
    OBVIOUS
  <2> HIDE DEF of
  <2>1. PICK x \in s : x = P!Worst(s)
    BY <1>3
  <2>2. k[s] = of(k[s \ {x}], x)
    BY <1>12, <2>1
  <2>3. ASSUME s \ {x} \in Good PROVE s \in Good
    <3>1. k[s \ {x}] \in V
      BY <2>3
    <3> QED BY <1>5, <2>1, <2>2, <3>1
  <2> QED BY <2>1, <2>3
<1>15. k[S] \in V
  <2> HIDE DEF Good
  <2>1. \A s \in SUBSET S : s \in Good
    BY <1>2, <1>13, <1>14, FiniteInduction
  <2> QED BY <2>1 DEF Good
<1> QED BY <1>1, <1>11, <1>15 DEF Deciding

\* Every rung adds to the ones above it: no text of the items is matched twice.
LEMMA MatchesPair ==
    ASSUME NEW rows \in Seq(PackRow), NEW texts \in SUBSET Texts, IsFiniteSet(texts)
    PROVE  OneToOne(P!Matches(rows, texts), texts)
<1>1. PICK products : products = P!Products(rows)
  OBVIOUS
<1>2. products \in SUBSET Texts /\ IsFiniteSet(products)
  <2>1. PICK N \in Nat : DOMAIN rows = 1..N /\ \A i \in 1..N : rows[i] \in PackRow
    BY LenProperties, ElementOfSeq
  <2>2. PICK f : f = [i \in DOMAIN rows |-> rows[i].text]
    OBVIOUS
  <2>3. products = {f[i] : i \in DOMAIN rows}
    BY <1>1, <2>2 DEF P!Products
  <2>4. \A W : W = {f[i] : i \in DOMAIN rows} => IsFiniteSet(W)
    BY RowFigures, FewValues
  <2>5. \A i \in DOMAIN rows : f[i] \in Texts
    BY <2>1, <2>2 DEF PackRow, GroupKey
  <2> QED BY <2>3, <2>4, <2>5
<1>3. PICK order : order = P!ProductOrder(rows)
  OBVIOUS
<1>4. IsFiniteSet(DOMAIN order) /\ DOMAIN order \in SUBSET Int
  <2>1. PICK n \in Nat : n = P!Cardinality(products)
    BY <1>2, SameCardinality, FS_CardinalityType
  <2>2. DOMAIN order = 1..n
    BY <1>1, <1>3, <2>1 DEF P!ProductOrder
  <2>3. IsFiniteSet(1..n) /\ 1..n \subseteq Int
    BY FS_Interval
  <2> QED BY <2>2, <2>3
<1>5. PICK A : A = products \cup {order[x] : x \in DOMAIN order}
  OBVIOUS
<1>6. PICK exact, codes : /\ exact = P!ExactMatches(products, texts)
                          /\ codes = P!CodeMatches(order, products, texts)
  OBVIOUS
<1>7. exact \in Pairings(A, texts) /\ \A p \in DOMAIN exact : exact[p] \in products
  <2>1. exact = [p \in products \cap texts |-> p]
    BY <1>6 DEF P!ExactMatches
  <2>2. exact = [p \in DOMAIN exact |-> exact[p]] /\ DOMAIN exact = products \cap texts
        /\ \A p \in DOMAIN exact : exact[p] = p
    BY <2>1
  <2> QED BY <1>5, <2>2, PairingIs
<1>8. codes \in Pairings(A, texts) /\ \A p \in DOMAIN codes : codes[p] \notin products
  <2>1. codes \in Pairings({order[x] : x \in DOMAIN order} \ texts, texts \ products)
    BY <1>4, <1>6, CodeMatchesPair
  <2>2. /\ codes = [p \in DOMAIN codes |-> codes[p]]
        /\ DOMAIN codes \subseteq {order[x] : x \in DOMAIN order} \ texts
        /\ \A p \in DOMAIN codes : codes[p] \in texts \ products
        /\ \A p, q \in DOMAIN codes : codes[p] = codes[q] => p = q
    BY <2>1, PairingIs
  <2> QED BY <1>5, <2>2, PairingIs
<1>9. PICK m \in Pairings(A, texts) : m = P!Joined(exact, codes)
  <2>1. \A p \in DOMAIN exact : \A q \in DOMAIN codes : exact[p] # codes[q]
    BY <1>7, <1>8
  <2> QED BY <1>7, <1>8, <2>1, PairingsJoin
<1>10. PICK more : more = P!SimilarityMatches(products, texts, DOMAIN m, P!Range(m))
  OBVIOUS
<1>11. more \in Pairings(A, texts) /\ \A q \in DOMAIN more : more[q] \notin P!Range(m)
  <2>1. more \in Pairings(products \ DOMAIN m, texts \ P!Range(m))
    BY <1>2, <1>10, SimilarMatchesPair
  <2>2. /\ more = [p \in DOMAIN more |-> more[p]]
        /\ DOMAIN more \subseteq products \ DOMAIN m
        /\ \A p \in DOMAIN more : more[p] \in texts \ P!Range(m)
        /\ \A p, q \in DOMAIN more : more[p] = more[q] => p = q
    BY <2>1, PairingIs
  <2> QED BY <1>5, <2>2, PairingIs
<1>12. P!Joined(m, more) \in Pairings(A, texts)
  <2>1. \A p \in DOMAIN m : \A q \in DOMAIN more : m[p] # more[q]
    BY <1>11 DEF P!Range
  <2> QED BY <1>11, <2>1, PairingsJoin
<1>13. P!Matches(rows, texts) = P!Joined(m, more)
  BY <1>1, <1>3, <1>6, <1>9, <1>10 DEF P!Matches, P!WithSimilar
<1>14. OneToOne(P!Joined(m, more), texts)
  BY <1>12, PairingIs DEF OneToOne
<1> QED BY <1>13, <1>14

-----------------------------------------------------------------------------
(* What the packing lists print is neither lost nor counted twice.          *)

\* What is near by halves is no further apart than that.
LEMMA NearIsApart ==
    ASSUME NEW a \in Int, NEW b \in Int, NEW n \in Int, Near(a, b, n)
    PROVE  2 * (IF a > b THEN a - b ELSE b - a) <= n
BY DEF Near

\* The figures of matched items are those of their rows.
LEMMA TakenNear ==
    ASSUME NEW c, Countable(c.items), c.rows \in Seq(PackRow),
           c.evidence = P!MatchPacking(c.items, c.rows),
           \A k \in DOMAIN c.items : c.items[k].text \in Texts,
           NEW match, match = P!Matches(c.rows, {c.items[k].text : k \in DOMAIN c.items}),
           NEW fld \in {"gross", "net", "ctn"},
           NEW taken, taken = [k \in DOMAIN c.items |-> c.evidence[k][fld]],
           NEW own, own = MatchedRows(c.rows, match),
           NEW fig, fig = Figure(c.rows, fld)
    PROVE  /\ SumFunction(taken) \in Int /\ Sum(fig, own) \in Int
           /\ Near(SumFunction(taken), Sum(fig, own), Cardinality(DOMAIN c.items))
<1>1. PICK items, rows, S : items = c.items /\ rows = c.rows /\ S = DOMAIN items
  OBVIOUS
<1>2. PICK texts : texts = {items[k].text : k \in S}
  OBVIOUS
<1>3. Countable(items) /\ rows \in Seq(PackRow) /\ IsFiniteSet(S)
  BY <1>1 DEF Countable
<1>4. texts \in SUBSET Texts
  BY <1>1, <1>2
<1>5. IsFiniteSet(texts)
  <2>1. PICK f : f = [k \in S |-> items[k].text]
    OBVIOUS
  <2>2. \A W : W = {f[k] : k \in S} => IsFiniteSet(W)
    BY <1>3, FewValues
  <2>3. texts = {f[k] : k \in S}
    BY <1>2, <2>1
  <2> QED BY <2>2, <2>3
<1>6. match = P!Matches(rows, texts)
  BY <1>1, <1>2
<1>7. OneToOne(match, texts)
  BY <1>3, <1>4, <1>5, <1>6, MatchesPair
<1>8. \A k \in DOMAIN items : taken[k] = P!MatchPacking(items, rows)[k][fld]
  BY <1>1
<1>9. Ints(taken, S) /\ Near(Sum(taken, S), Sum(fig, own), Cardinality(S))
  <2>1. texts = {items[k].text : k \in DOMAIN items}
    BY <1>1, <1>2
  <2>2. own = MatchedRows(rows, match) /\ fig = Figure(rows, fld)
    BY <1>1
  <2>3. Ints(taken, DOMAIN items)
    BY <1>3, <1>6, <1>7, <1>8, <2>1, EvidenceNear
  <2>4. Near(Sum(taken, DOMAIN items), Sum(Figure(rows, fld), MatchedRows(rows, match)),
             Cardinality(DOMAIN items))
    BY <1>3, <1>6, <1>7, <1>8, <2>1, EvidenceNear
  <2> QED BY <1>1, <2>2, <2>3, <2>4
<1>10. DOMAIN taken = S
  BY <1>1
<1>11. SumFunction(taken) = Sum(taken, S)
  BY <1>10 DEF Sum, SumFunction
<1>12. Sum(taken, S) \in Int
  BY <1>3, <1>9, SumInt
<1>13. Sum(fig, own) \in Int
  <2>1. IsFiniteSet(DOMAIN rows) /\ Ints(fig, DOMAIN rows) /\ own \in SUBSET DOMAIN rows
    BY <1>1, <1>3, RowFigures DEF MatchedRows
  <2>2. IsFiniteSet(own) /\ Ints(fig, own)
    BY <2>1, FS_Subset DEF Ints
  <2> QED BY <2>2, SumInt
<1> QED BY <1>1, <1>9, <1>11, <1>12, <1>13

\* The cartons of the rows: of those of no group, and of each group once.
CartonsOf(rows) == SumFunction(AlonePrinted(rows)) + SumFunction(BoxesOf(rows))

\* What Conserved asks, of the rows as they are read.
RowsConserved(c) ==
    LET n == Cardinality(DOMAIN c.items)
        taken(fld) == SumFunction([k \in DOMAIN c.items |-> c.evidence[k][fld]])
        match == P!Matches(c.rows, {c.items[k].text : k \in DOMAIN c.items})
        own == {i \in DOMAIN c.rows : c.rows[i].text \in DOMAIN match}
        weight(fld) == SumFunction([i \in own |-> c.rows[i][fld]])
        cartons == CartonsOf(c.rows)
        apart(a, b) == 2 * (IF a > b THEN a - b ELSE b - a)
    IN  /\ \A fld \in {"gross", "net"} : apart(taken(fld), weight(fld)) <= n
        /\ own = DOMAIN c.rows => apart(taken("ctn"), cartons) <= n
        /\ (\A i \in CountedRows(c.rows) : c.rows[i].qty >= 0) =>
               2 * taken("ctn") <= 2 * cartons + n + Cardinality(DOMAIN c.rows)

LEMMA EvidenceConserves ==
    ASSUME NEW c, Countable(c.items), c.rows \in Seq(PackRow),
           c.evidence = P!MatchPacking(c.items, c.rows),
           \A k \in DOMAIN c.items : c.items[k].text \in Texts
    PROVE  RowsConserved(c)
<1> DEFINE n == Cardinality(DOMAIN c.items)
           taken(fld) == SumFunction([k \in DOMAIN c.items |-> c.evidence[k][fld]])
           match == P!Matches(c.rows, {c.items[k].text : k \in DOMAIN c.items})
           own == {i \in DOMAIN c.rows : c.rows[i].text \in DOMAIN match}
           weight(fld) == SumFunction([i \in own |-> c.rows[i][fld]])
           cartons == CartonsOf(c.rows)
           apart(a, b) == 2 * (IF a > b THEN a - b ELSE b - a)
           weights == \A fld \in {"gross", "net"} : apart(taken(fld), weight(fld)) <= n
           whole == own = DOMAIN c.rows => apart(taken("ctn"), cartons) <= n
           most == (\A i \in CountedRows(c.rows) : c.rows[i].qty >= 0) =>
                       2 * taken("ctn") <= 2 * cartons + n + Cardinality(DOMAIN c.rows)
<1>1. own = MatchedRows(c.rows, match)
  BY DEF MatchedRows
<1>2. n \in Nat
  BY FS_CardinalityType DEF Countable
<1>3. ASSUME NEW fld \in {"gross", "net", "ctn"}
      PROVE  /\ taken(fld) \in Int /\ Sum(Figure(c.rows, fld), own) \in Int
             /\ Near(taken(fld), Sum(Figure(c.rows, fld), own), n)
  <2>1. PICK m, o, f, t : /\ m = match /\ o = own /\ f = Figure(c.rows, fld)
                          /\ t = [k \in DOMAIN c.items |-> c.evidence[k][fld]]
    OBVIOUS
  <2>2. o = MatchedRows(c.rows, m)
    BY <1>1, <2>1
  <2>3. m = P!Matches(c.rows, {c.items[k].text : k \in DOMAIN c.items})
    BY <2>1
  <2>4. /\ SumFunction(t) \in Int /\ Sum(f, o) \in Int
        /\ Near(SumFunction(t), Sum(f, o), Cardinality(DOMAIN c.items))
    <3> HIDE DEF match, own
    <3> QED BY <2>1, <2>2, <2>3, TakenNear
  <2> HIDE DEF match, own
  <2> QED BY <2>1, <2>4
<1>4. weights
  <2> SUFFICES ASSUME NEW fld \in {"gross", "net"} PROVE apart(taken(fld), weight(fld)) <= n
    BY DEF weights
  <2>1. weight(fld) = Sum(Figure(c.rows, fld), own)
    <3>1. PICK w, f, o : /\ w = [i \in own |-> c.rows[i][fld]] /\ f = Figure(c.rows, fld)
                         /\ o = own
      OBVIOUS
    <3>2. o \in SUBSET DOMAIN c.rows /\ DOMAIN w = o
      BY <3>1
    <3>3. \A i \in o : w[i] = f[i]
      <4> HIDE DEF own
      <4> QED BY <3>1, <3>2 DEF Figure
    <3>4. SumFunction(w) = Sum(w, o)
      BY <3>2 DEF Sum, SumFunction
    <3>5. IsFiniteSet(o) /\ Ints(f, o)
      <4>1. IsFiniteSet(DOMAIN c.rows) /\ Ints(f, DOMAIN c.rows)
        BY <3>1, RowFigures
      <4> QED BY <3>2, <4>1, FS_Subset DEF Ints
    <3>6. Sum(w, o) = Sum(f, o)
      BY <3>3, <3>5, SumSame DEF Ints
    <3> HIDE DEF own
    <3> QED BY <3>1, <3>4, <3>6
  <2>2. PICK a \in Int, b \in Int, m \in Int : a = taken(fld) /\ b = weight(fld) /\ m = n
    <3> HIDE DEF taken, weight, n, own
    <3> QED BY <1>2, <1>3, <2>1
  <2>3. Near(a, b, m)
    <3> HIDE DEF taken, weight, n, own
    <3> QED BY <1>3, <2>1, <2>2
  <2>4. 2 * (IF a > b THEN a - b ELSE b - a) <= m
    BY <2>3, NearIsApart
  <2> HIDE DEF taken, weight, n, own
  <2> QED BY <2>2, <2>4
<1>5. cartons = Sum(Figure(c.rows, "ctn"), DOMAIN c.rows)
  <2>1. PICK rows, D1, fig : /\ rows = c.rows /\ D1 = DOMAIN rows /\ fig = Figure(rows, "ctn")
    OBVIOUS
  <2>2. Sum(fig, D1) = CartonsOf(rows)
    BY <2>1, CartonsCounted DEF CartonsOf
  <2> QED BY <2>1, <2>2
<1>6. PICK t, m, f, o :
          /\ t \in Int /\ m \in Nat
          /\ t = taken("ctn") /\ m = n /\ f = Figure(c.rows, "ctn") /\ o = own
          /\ Sum(f, o) \in Int /\ Near(t, Sum(f, o), m)
  <2> HIDE DEF taken, n, own
  <2> QED BY <1>2, <1>3
<1>7. PICK D1 : D1 = DOMAIN c.rows /\ IsFiniteSet(D1) /\ Ints(f, D1)
  BY <1>6, RowFigures
<1>8. PICK b \in Int : b = cartons /\ b = Sum(f, D1)
  <2>1. Sum(f, D1) \in Int
    BY <1>7, SumInt
  <2> HIDE DEF cartons
  <2> QED BY <1>5, <1>6, <1>7, <2>1
<1>9. t \in Int /\ m \in Int
  BY <1>6
<1>10. whole
  <2> SUFFICES ASSUME own = DOMAIN c.rows PROVE apart(taken("ctn"), cartons) <= n
    BY DEF whole
  <2>1. Near(t, b, m)
    <3> HIDE DEF own
    <3> QED BY <1>6, <1>7, <1>8
  <2>2. 2 * (IF t > b THEN t - b ELSE b - t) <= m
    BY <1>9, <2>1, NearIsApart
  <2> HIDE DEF taken, cartons, n, own
  <2> QED BY <1>6, <1>8, <2>2
<1>11. most
  <2> SUFFICES ASSUME \A i \in CountedRows(c.rows) : c.rows[i].qty >= 0
               PROVE  2 * taken("ctn") <= 2 * cartons + n + Cardinality(DOMAIN c.rows)
    BY DEF most
  <2>1. \A i \in CountedRows(c.rows) : c.rows[i].qty >= 0
    OBVIOUS
  <2>2. o \in SUBSET D1
    BY <1>6, <1>7
  <2>3. PICK rest : rest = D1 \ o
    OBVIOUS
  <2>4. 2 * Sum(f, rest) >= -Cardinality(D1)
    <3>1. PICK rows : rows = c.rows
      OBVIOUS
    <3>2. /\ rows \in Seq(PackRow) /\ D1 = DOMAIN rows /\ f = Figure(rows, "ctn")
          /\ \A i \in CountedRows(rows) : rows[i].qty >= 0
      BY <1>6, <1>7, <2>1, <3>1
    <3>3. rest \in SUBSET D1
      BY <2>3
    <3> QED BY <3>2, <3>3, FewCartons
  <2>5. Sum(f, D1) = Sum(f, o) + Sum(f, rest)
    BY <1>7, <2>2, <2>3, SumSplit
  <2>6. PICK x \in Int, y \in Int, d \in Nat :
            x = Sum(f, o) /\ y = Sum(f, rest) /\ d = Cardinality(D1)
    <3>1. IsFiniteSet(rest) /\ Ints(f, rest)
      BY <1>7, <2>3, FS_Subset DEF Ints
    <3>2. Sum(f, rest) \in Int /\ Cardinality(D1) \in Nat
      BY <1>7, <3>1, SumInt, FS_CardinalityType
    <3> QED BY <1>6, <3>2
  <2>7. 2 * t <= 2 * b + m + d
    <3>1. Near(t, x, m)
      BY <1>6, <2>6
    <3>2. b = x + y /\ 2 * y >= -d
      BY <1>8, <2>4, <2>5, <2>6
    <3> QED BY <1>9, <3>1, <3>2 DEF Near
  <2> HIDE DEF taken, cartons, n
  <2> QED BY <1>6, <1>7, <1>8, <2>6, <2>7
<1> HIDE DEF weights, whole, most
<1>12. weights /\ whole /\ most
  BY <1>4, <1>10, <1>11
<1> USE DEF weights, whole, most
<1> QED BY <1>12, Zenon DEF RowsConserved

-----------------------------------------------------------------------------
(* The rows that are read are the lines of the lists, each once.            *)

PrintedLines(lists) == UNION {{k} \X DOMAIN lists[k].rows : k \in DOMAIN lists}
LineOf(lists, x) == lists[x[1]].rows[x[2]]

\* Row i is read from the line at[i], and every line is read once.
ComesFrom(rows, lists, at) ==
    /\ \A i \in DOMAIN rows : /\ at[i] \in PrintedLines(lists)
                             /\ ReadOf(rows[i], LineOf(lists, at[i]), at[i][1])
    /\ \A x \in PrintedLines(lists) : \E i \in DOMAIN rows : at[i] = x
    /\ \A i, j \in DOMAIN rows : at[i] = at[j] => i = j

LEMMA RowsComeFrom ==
    ASSUME NEW lists \in Seq(Doc!PackingListChunk), NEW rows, rows = P!RowsRead(lists)
    PROVE  \E at : ComesFrom(rows, lists, at)
<1>1. PICK N \in Nat : DOMAIN lists = 1..N
  BY LenProperties
<1> DEFINE ss == [k \in DOMAIN lists |-> ListRead(lists, k)]
<1>2. rows = FlattenSeq(ss)
  BY SameFlattening DEF P!RowsRead, ListRead
<1>3. \A k \in 1..N : /\ ss[k] \in Seq(PackRow) /\ 1..Len(ss[k]) = DOMAIN lists[k].rows
                      /\ \A j \in DOMAIN lists[k].rows : ReadOf(ss[k][j], lists[k].rows[j], k)
  <2> TAKE k \in 1..N
  <2>1. ListRead(lists, k) \in Seq(PackRow)
    BY <1>1, ListReadTyped
  <2>2. DOMAIN ListRead(lists, k) = 1..Len(ListRead(lists, k))
    BY <2>1, LenProperties
  <2>3. /\ DOMAIN ListRead(lists, k) = DOMAIN lists[k].rows
        /\ \A j \in DOMAIN lists[k].rows : ReadOf(ListRead(lists, k)[j], lists[k].rows[j], k)
    BY <1>1, ListReadTyped
  <2>4. ss[k] = ListRead(lists, k)
    BY <1>1
  <2> HIDE DEF ss
  <2> QED BY <2>1, <2>2, <2>3, <2>4
<1>4. DOMAIN ss = 1..N /\ ss = [k \in 1..N |-> ss[k]]
  BY <1>1
<1> HIDE DEF ss
<1>5. PICK a, b : Joins(rows, ss, N, a, b)
  BY <1>2, <1>3, <1>4, FlattenPlaces
<1>6. PICK L : L = Len(rows) /\ DOMAIN rows = 1..L /\ 1..L \in SUBSET Int
  <2>1. rows \in Seq(PackRow)
    BY <1>2, <1>3, <1>4, FlattenTyped
  <2> QED BY <2>1, LenProperties
<1>7. /\ \A i \in 1..L : /\ a[i] \in 1..N /\ b[i] \in 1..Len(ss[a[i]])
                         /\ rows[i] = ss[a[i]][b[i]]
      /\ \A k \in 1..N : \A j \in 1..Len(ss[k]) : \E i \in 1..L : a[i] = k /\ b[i] = j
      /\ \A i, j \in 1..L : i < j => a[i] < a[j] \/ (a[i] = a[j] /\ b[i] < b[j])
      /\ \A i \in 1..L : a[i] \in Int /\ b[i] \in Int
  <2>1. a \in [1..L -> 1..N] /\ b \in [1..L -> Nat]
    BY <1>5, <1>6 DEF Joins
  <2>2. \A i \in 1..L : b[i] \in 1..Len(ss[a[i]]) /\ rows[i] = ss[a[i]][b[i]]
    BY <1>5, <1>6 DEF Joins
  <2>3. \A k \in 1..N : \A j \in 1..Len(ss[k]) : \E i \in 1..L : a[i] = k /\ b[i] = j
    BY <1>5, <1>6 DEF Joins
  <2>4. \A i, j \in 1..L : i < j => a[i] < a[j] \/ (a[i] = a[j] /\ b[i] < b[j])
    BY <1>5, <1>6 DEF Joins
  <2> QED BY <2>1, <2>2, <2>3, <2>4
<1>8. PICK at : at = [i \in 1..L |-> <<a[i], b[i]>>]
  OBVIOUS
<1>9. ASSUME NEW i \in 1..L
      PROVE  at[i] \in PrintedLines(lists) /\ ReadOf(rows[i], LineOf(lists, at[i]), at[i][1])
  <2>1. PICK k, j : /\ k = a[i] /\ j = b[i] /\ k \in DOMAIN lists /\ j \in DOMAIN lists[k].rows
                    /\ rows[i] = ss[k][j] /\ ReadOf(ss[k][j], lists[k].rows[j], k)
    BY <1>1, <1>3, <1>7
  <2>2. at[i] = <<k, j>> /\ at[i][1] = k /\ at[i][2] = j
    BY <1>8, <2>1
  <2>3. <<k, j>> \in {k} \X DOMAIN lists[k].rows
    BY <2>1
  <2> QED BY <2>1, <2>2, <2>3 DEF PrintedLines, LineOf
<1>10. ASSUME NEW x \in PrintedLines(lists) PROVE \E i \in 1..L : at[i] = x
  <2>1. PICK k \in DOMAIN lists : x \in {k} \X DOMAIN lists[k].rows
    BY DEF PrintedLines
  <2>2. PICK j \in DOMAIN lists[k].rows : x = <<k, j>>
    BY <2>1
  <2>3. PICK i \in 1..L : a[i] = k /\ b[i] = j
    <3>1. k \in 1..N /\ j \in 1..Len(ss[k])
      BY <1>1, <1>3
    <3> QED BY <1>7, <3>1
  <2> QED BY <1>8, <2>2, <2>3
<1>11. ASSUME NEW i \in 1..L, NEW j \in 1..L, at[i] = at[j] PROVE i = j
  <2>1. a[i] = a[j] /\ b[i] = b[j]
    BY <1>8, <1>11
  <2> QED BY <1>6, <1>7, <2>1
<1> QED BY <1>6, <1>9, <1>10, <1>11 DEF ComesFrom

\* The lines that print cartons, those of no group, and those of a group.
CountedLines(lists) == {x \in PrintedLines(lists) : LineOf(lists, x).carton > 0}
AloneLines(lists) == {x \in CountedLines(lists) : LineOf(lists, x).group = NoGroup}
Inside(lists, b) ==
    {x \in CountedLines(lists) : x[1] = b[1] /\ LineOf(lists, x).group = b[2]}
InsidePrinted(lists, b) == [x \in Inside(lists, b) |-> LineOf(lists, x).carton]
BoxKeys(lists) ==
    {<<x[1], LineOf(lists, x).group>> : x \in CountedLines(lists) \ AloneLines(lists)}
BoxListed(lists, b) ==
    IF Cardinality(Range(InsidePrinted(lists, b))) > 1 THEN SumFunction(InsidePrinted(lists, b))
    ELSE IF GroupRange[b[2]] > 0 THEN GroupRange[b[2]] ELSE Max(Range(InsidePrinted(lists, b)))

\* Rows that print the same as the lines they come from add up to the same.
Moves(S, K, at, g, f) ==
    /\ IsFiniteSet(S) /\ K = {at[i] : i \in S} /\ \A i, j \in S : at[i] = at[j] => i = j
    /\ DOMAIN g = S /\ Ints(g, S) /\ DOMAIN f = K /\ \A i \in S : g[i] = f[at[i]]

LEMMA SameMoved ==
    ASSUME NEW S, NEW K, NEW at, NEW g, NEW f, Moves(S, K, at, g, f)
    PROVE  SumFunction(g) = SumFunction(f) /\ Range(g) = Range(f)
<1> USE DEF Moves
<1>1. Sum(g, S) = Sum(f, K)
  BY SumMoved
<1>2. Range(g) = Range(f)
  BY DEF Range
<1> QED BY <1>1, <1>2 DEF Sum, SumFunction

\* The cartons of the rows are those of the lines: the mark of a box is one of its list.
LEMMA SameCartons ==
    ASSUME NEW lists, NEW rows \in Seq(PackRow), NEW at, ComesFrom(rows, lists, at)
    PROVE  /\ MarksOf(rows) = BoxKeys(lists)
           /\ \A b \in BoxKeys(lists) : BoxOf(rows, b) = BoxListed(lists, b)
           /\ SumFunction(AlonePrinted(rows))
                = SumFunction([x \in AloneLines(lists) |-> LineOf(lists, x).carton])
           /\ Cardinality(DOMAIN rows) = Cardinality(PrintedLines(lists))
<1>1. /\ \A i \in DOMAIN rows :
            /\ at[i] \in PrintedLines(lists)
            /\ rows[i].group = <<at[i][1], LineOf(lists, at[i]).group>>
            /\ rows[i].carton = LineOf(lists, at[i]).carton
      /\ \A x \in PrintedLines(lists) : \E i \in DOMAIN rows : at[i] = x
      /\ \A i, j \in DOMAIN rows : at[i] = at[j] => i = j
  BY Zenon DEF ComesFrom, ReadOf
<1>2. /\ IsFiniteSet(DOMAIN rows)
      /\ \A i \in DOMAIN rows : rows[i].carton \in Int /\ rows[i].carton \in Nat
  <2>1. PICK N \in Nat : DOMAIN rows = 1..N /\ \A k \in 1..N : rows[k] \in PackRow
    BY LenProperties, ElementOfSeq
  <2>2. \A i \in DOMAIN rows : rows[i].carton \in Nat
    BY <2>1 DEF PackRow
  <2>3. IsFiniteSet(DOMAIN rows)
    BY RowFigures
  <2> QED BY <2>2, <2>3
<1>3. \A i \in DOMAIN rows :
          /\ rows[i].group[1] = at[i][1] /\ rows[i].group[2] = LineOf(lists, at[i]).group
          /\ at[i] \in CountedLines(lists) <=> rows[i].carton > 0
  BY <1>1 DEF CountedLines
<1>4. MarksOf(rows) = BoxKeys(lists)
  <2>1. ASSUME NEW b \in MarksOf(rows) PROVE b \in BoxKeys(lists)
    <3>1. PICK i \in DOMAIN rows : rows[i].carton > 0 /\ b = rows[i].group /\ b[2] # NoGroup
      BY DEF MarksOf, CountedRows
    <3>2. at[i] \in CountedLines(lists) /\ at[i] \notin AloneLines(lists)
      BY <1>3, <3>1 DEF AloneLines
    <3>3. b = <<at[i][1], LineOf(lists, at[i]).group>>
      BY <1>1, <3>1
    <3> QED BY <3>2, <3>3 DEF BoxKeys
  <2>2. ASSUME NEW b \in BoxKeys(lists) PROVE b \in MarksOf(rows)
    <3>1. PICK x \in CountedLines(lists) \ AloneLines(lists) :
              b = <<x[1], LineOf(lists, x).group>>
      BY DEF BoxKeys
    <3>2. PICK i \in DOMAIN rows : at[i] = x
      BY <1>1 DEF CountedLines
    <3>3. rows[i].carton > 0 /\ b = rows[i].group /\ b[2] # NoGroup
      BY <1>1, <1>3, <3>1, <3>2 DEF AloneLines
    <3> QED BY <3>3 DEF MarksOf, CountedRows
  <2> QED BY <2>1, <2>2
<1>5. ASSUME NEW b \in BoxKeys(lists) PROVE BoxOf(rows, b) = BoxListed(lists, b)
  <2>1. PICK S, K : S = Sharing(rows, b) /\ K = Inside(lists, b)
    OBVIOUS
  <2>2. S \in SUBSET DOMAIN rows /\ IsFiniteSet(S)
    BY <1>2, <2>1, FS_Subset DEF Sharing
  <2>3. b = <<b[1], b[2]>>
    BY DEF BoxKeys
  <2>4. \A i \in DOMAIN rows : i \in S <=> at[i] \in K
    <3> TAKE i \in DOMAIN rows
    <3>1. rows[i].group = b <=> at[i][1] = b[1] /\ LineOf(lists, at[i]).group = b[2]
      BY <1>1, <1>3, <2>3
    <3> QED BY <1>3, <2>1, <3>1 DEF Sharing, Inside
  <2>5. K = {at[i] : i \in S}
    <3>1. \A x \in K : \E i \in DOMAIN rows : at[i] = x
      BY <1>1, <2>1 DEF Inside, CountedLines
    <3> QED BY <2>2, <2>4, <3>1
  <2>6. PICK g, f : g = PrintedOf(rows, b) /\ f = InsidePrinted(lists, b)
    OBVIOUS
  <2>7. /\ DOMAIN g = S /\ DOMAIN f = K /\ Ints(g, S)
        /\ \A i \in S : g[i] = rows[i].carton
    BY <1>2, <2>1, <2>2, <2>6 DEF PrintedOf, InsidePrinted, Ints
  <2>8. \A i \in S : g[i] = f[at[i]]
    <3>1. \A x \in K : f[x] = LineOf(lists, x).carton
      BY <2>1, <2>6 DEF InsidePrinted
    <3> QED BY <1>1, <2>2, <2>4, <2>7, <3>1
  <2>9. \A i, j \in S : at[i] = at[j] => i = j
    BY <1>1, <2>2
  <2>10. SumFunction(g) = SumFunction(f) /\ Range(g) = Range(f)
    <3>1. Moves(S, K, at, g, f)
      BY <2>2, <2>5, <2>7, <2>8, <2>9 DEF Moves
    <3> QED BY <3>1, SameMoved
  <2> QED BY <2>6, <2>10, Zenon DEF BoxOf, BoxListed
<1>6. SumFunction(AlonePrinted(rows))
        = SumFunction([x \in AloneLines(lists) |-> LineOf(lists, x).carton])
  <2>1. PICK S, K, g, f : /\ S = AloneRows(rows) /\ K = AloneLines(lists)
                          /\ g = AlonePrinted(rows)
                          /\ f = [x \in AloneLines(lists) |-> LineOf(lists, x).carton]
    OBVIOUS
  <2>2. S \in SUBSET DOMAIN rows /\ IsFiniteSet(S)
    BY <1>2, <2>1, FS_Subset DEF AloneRows
  <2>3. \A i \in DOMAIN rows : i \in S <=> at[i] \in K
    BY <1>3, <2>1 DEF AloneRows, AloneLines
  <2>4. K = {at[i] : i \in S}
    <3>1. \A x \in K : \E i \in DOMAIN rows : at[i] = x
      BY <1>1, <2>1 DEF AloneLines, CountedLines
    <3> QED BY <2>2, <2>3, <3>1
  <2>5. /\ DOMAIN g = S /\ DOMAIN f = K /\ Ints(g, S)
        /\ \A i \in S : g[i] = rows[i].carton
    BY <1>2, <2>1, <2>2 DEF AlonePrinted, Ints
  <2>6. \A i \in S : g[i] = f[at[i]]
    BY <1>1, <2>1, <2>2, <2>3, <2>5
  <2>7. \A i, j \in S : at[i] = at[j] => i = j
    BY <1>1, <2>2
  <2>8. Moves(S, K, at, g, f)
    BY <2>2, <2>4, <2>5, <2>6, <2>7 DEF Moves
  <2> QED BY <2>1, <2>8, SameMoved
<1>7. Cardinality(DOMAIN rows) = Cardinality(PrintedLines(lists))
  <2>1. PICK h, S, K : h = [i \in DOMAIN rows |-> at[i]] /\ S = DOMAIN rows /\ K = PrintedLines(lists)
    OBVIOUS
  <2>2. h \in [S -> K] /\ \A i \in S : h[i] = at[i]
    BY <1>1, <2>1
  <2>3. h \in Injection(S, K)
    BY <1>1, <2>1, <2>2 DEF Injection, IsInjective
  <2>4. h \in Surjection(S, K)
    BY <1>1, <2>1, <2>2 DEF Surjection
  <2>5. ExistsBijection(S, K)
    BY <2>3, <2>4 DEF Bijection, ExistsBijection
  <2>6. Cardinality(K) = Cardinality(S)
    BY <1>2, <2>1, <2>5, FS_Bijection
  <2> QED BY <2>1, <2>6
<1> QED BY <1>4, <1>5, <1>6, <1>7

\* What holds of the rows as they are read holds of the lines of their lists.
LEMMA LinesConserved ==
    ASSUME NEW c, NEW lists, c.rows \in Seq(PackRow), NEW at, ComesFrom(c.rows, lists, at),
           RowsConserved(c)
    PROVE  Conserved(c, lists)
<1> DEFINE n == Cardinality(DOMAIN c.items)
           taken(fld) == SumFunction([k \in DOMAIN c.items |-> c.evidence[k][fld]])
           match == P!Matches(c.rows, {c.items[k].text : k \in DOMAIN c.items})
           own == {i \in DOMAIN c.rows : c.rows[i].text \in DOMAIN match}
           weight(fld) == SumFunction([i \in own |-> c.rows[i][fld]])
           apart(a, b) == 2 * (IF a > b THEN a - b ELSE b - a)
           weights == \A fld \in {"gross", "net"} : apart(taken(fld), weight(fld)) <= n
           lines == UNION {{k} \X DOMAIN lists[k].rows : k \in DOMAIN lists}
           line(x) == lists[x[1]].rows[x[2]]
           counted == {x \in lines : line(x).carton > 0}
           alone == {x \in counted : line(x).group = NoGroup}
           boxes == {<<x[1], line(x).group>> : x \in counted \ alone}
           inside(b) == {x \in counted : x[1] = b[1] /\ line(x).group = b[2]}
           printed(b) == [x \in inside(b) |-> line(x).carton]
           box(b) == IF Cardinality(Range(printed(b))) > 1 THEN SumFunction(printed(b))
                     ELSE IF GroupRange[b[2]] > 0 THEN GroupRange[b[2]]
                     ELSE Max(Range(printed(b)))
           cartons == SumFunction([x \in alone |-> line(x).carton])
                      + SumFunction([b \in boxes |-> box(b)])
           whole == own = DOMAIN c.rows => apart(taken("ctn"), cartons) <= n
           most == (\A x \in counted : line(x).qty >= 0) =>
                       2 * taken("ctn") <= 2 * cartons + n + Cardinality(lines)
<1>1. /\ lines = PrintedLines(lists) /\ counted = CountedLines(lists)
      /\ alone = AloneLines(lists) /\ boxes = BoxKeys(lists)
      /\ \A x : line(x) = LineOf(lists, x)
      /\ \A b : box(b) = BoxListed(lists, b)
  BY Zenon DEF PrintedLines, LineOf, CountedLines, AloneLines, BoxKeys, Inside, InsidePrinted, BoxListed
<1>2. cartons = CartonsOf(c.rows) /\ Cardinality(lines) = Cardinality(DOMAIN c.rows)
  <2>1. PICK rows : rows = c.rows
    OBVIOUS
  <2>2. /\ MarksOf(rows) = BoxKeys(lists)
        /\ \A b \in BoxKeys(lists) : BoxOf(rows, b) = BoxListed(lists, b)
        /\ SumFunction(AlonePrinted(rows))
             = SumFunction([x \in AloneLines(lists) |-> LineOf(lists, x).carton])
        /\ Cardinality(DOMAIN rows) = Cardinality(PrintedLines(lists))
    BY <2>1, SameCartons
  <2>3. [b \in boxes |-> box(b)] = BoxesOf(rows)
    <3> HIDE DEF boxes, box
    <3> QED BY <1>1, <2>2 DEF BoxesOf
  <2>4. [x \in alone |-> line(x).carton] = [x \in AloneLines(lists) |-> LineOf(lists, x).carton]
    <3> HIDE DEF alone, line
    <3> QED BY <1>1
  <2>5. cartons = SumFunction(AlonePrinted(rows)) + SumFunction(BoxesOf(rows))
    <3> HIDE DEF alone, line, boxes, box
    <3> QED BY <2>2, <2>3, <2>4
  <2> HIDE DEF cartons, lines
  <2> QED BY <1>1, <2>1, <2>2, <2>5 DEF CartonsOf
<1>3. (\A x \in counted : line(x).qty >= 0) => \A i \in CountedRows(c.rows) : c.rows[i].qty >= 0
  <2>1. \A i \in CountedRows(c.rows) : /\ i \in DOMAIN c.rows /\ c.rows[i].carton > 0
    BY DEF CountedRows
  <2>2. \A i \in DOMAIN c.rows : /\ at[i] \in PrintedLines(lists)
                                 /\ c.rows[i].carton = LineOf(lists, at[i]).carton
                                 /\ c.rows[i].qty = LineOf(lists, at[i]).qty
    BY Zenon DEF ComesFrom, ReadOf
  <2>3. \A i \in CountedRows(c.rows) : at[i] \in CountedLines(lists)
    BY <2>1, <2>2 DEF CountedLines
  <2> HIDE DEF counted, line
  <2> QED BY <1>1, <2>1, <2>2, <2>3
<1>4. /\ weights
      /\ own = DOMAIN c.rows => apart(taken("ctn"), CartonsOf(c.rows)) <= n
      /\ (\A i \in CountedRows(c.rows) : c.rows[i].qty >= 0) =>
             2 * taken("ctn") <= 2 * CartonsOf(c.rows) + n + Cardinality(DOMAIN c.rows)
  BY Zenon DEF RowsConserved
<1>5. whole /\ most
  <2> HIDE DEF taken, cartons, n, own, counted, line, lines
  <2> QED BY <1>2, <1>3, <1>4
<1> HIDE DEF weights, whole, most
<1>6. weights /\ whole /\ most
  BY <1>4, <1>5
<1> USE DEF weights, whole, most
<1> QED BY <1>6, Zenon DEF Conserved

\* What the context of a job's documents holds is what its lists print.
LEMMA ContextConserves ==
    ASSUME NEW files \in Seq(DOMAIN Document), NEW ov, EntriesOK(ov), NEW hist,
           NEW c, c = Context(files, ov, hist)
    PROVE  Conserved(c, Trusted(ListsOf(files)))
<1>1. ContextOK(c)
  BY ContextTyped
<1>2. Countable(c.items) /\ \A k \in DOMAIN c.items : c.items[k].text \in Texts
  <2>1. FiguresOK(c.items, c.evidence)
    BY <1>1 DEF ContextOK
  <2> QED BY <1>1, <2>1 DEF ContextOK, FiguresOK, Countable
<1>3. ListsOf(files) \in Seq(Doc!PackingListChunk)
  BY PayloadsTyped, DocumentsAssumption DEF ListsOf
<1>4. c.rows = TrustedRows(ListsOf(files)) /\ c.evidence = P!MatchPacking(c.items, c.rows)
  BY ContextIs
<1>5. c.rows \in Seq(PackRow)
  BY <1>3, <1>4, RowsTyped
<1>6. RowsConserved(c)
  BY <1>2, <1>4, <1>5, EvidenceConserves
<1>7. PICK lists : lists = Trusted(ListsOf(files)) /\ lists \in Seq(Doc!PackingListChunk)
  <2>1. << >> \in Seq(Doc!PackingListChunk)
    OBVIOUS
  <2> QED BY <1>3, <2>1 DEF Trusted
<1>8. PICK at : ComesFrom(c.rows, lists, at)
  <2>1. PICK rows : rows = c.rows /\ rows = P!RowsRead(lists)
    BY <1>4, <1>7 DEF TrustedRows
  <2>2. \E at : ComesFrom(rows, lists, at)
    BY <1>7, <2>1, RowsComeFrom
  <2> QED BY <2>1, <2>2
<1>9. Conserved(c, lists)
  BY <1>5, <1>6, <1>8, LinesConserved
<1> QED BY <1>7, <1>9
================================================================================
