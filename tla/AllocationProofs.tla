--------------------------- MODULE AllocationProofs ---------------------------
(***************************************************************************)
(* Proofs about Allocation, for items of any number, figures of any size and *)
(* totals of any size: the table of an allocation is exact or says why not. *)
(*                                                                         *)
(* Sums are the folds of the community modules, of which nothing is known   *)
(* here but their definition: the first part derives what the rest needs,   *)
(* by minimal counterexamples.  Then, bottom up: the largest-remainder      *)
(* method, floors and ceilings, the bases and the net ladder, the gross     *)
(* weights, the cartons, the table.  Last, what the proofs that build on    *)
(* this one need of concatenations.                                         *)
(***************************************************************************)
EXTENDS Allocation, SequencesExt, FiniteSetTheorems, FunctionTheorems, SequenceTheorems,
        WellFoundedInduction, TLAPS

-----------------------------------------------------------------------------
(* Sums.                                                                    *)

\* A nonempty set of numbers has a least one.
LEMMA LeastOf ==
    ASSUME NEW S \in SUBSET Nat, S # {}
    PROVE  \E n \in S : \A m \in S : n <= m
<1>1. IsWellFoundedOn({ss \in Nat \X Nat : ss[1] < ss[2]}, Nat)
  BY NatLessThanWellFounded DEF OpToRel
<1>2. PICK n \in S : \A m \in S : <<m, n>> \notin {ss \in Nat \X Nat : ss[1] < ss[2]}
  BY <1>1, WFMin
<1>3. ASSUME NEW m \in S PROVE n <= m
  <2>1. ~(m < n)
    BY <1>2
  <2> QED BY <2>1
<1> QED BY <1>3

\* What holds of the empty set, and of a set when it holds without one of its
\* elements, holds of every part of a finite set.
LEMMA FiniteInduction ==
    ASSUME NEW S, IsFiniteSet(S), NEW Good, {} \in Good,
           \A s \in SUBSET S : s # {} => \E x \in s : s \ {x} \in Good => s \in Good
    PROVE  \A s \in SUBSET S : s \in Good
<1> DEFINE Bad == {n \in Nat : \E s \in SUBSET S : Cardinality(s) = n /\ s \notin Good}
<1>1. \A s \in SUBSET S : IsFiniteSet(s) /\ Cardinality(s) \in Nat
  BY FS_Subset, FS_CardinalityType
<1>2. Bad = {}
  <2> SUFFICES ASSUME Bad # {} PROVE FALSE
    OBVIOUS
  <2>1. PICK n \in Bad : \A m \in Bad : n <= m
    BY LeastOf
  <2>2. PICK s \in SUBSET S : Cardinality(s) = n /\ s \notin Good
    BY <2>1
  <2>3. PICK x \in s : s \ {x} \in Good => s \in Good
    BY <2>2
  <2>4. Cardinality(s \ {x}) = n - 1 /\ n \in Nat
    BY <1>1, <2>2, FS_RemoveElement
  <2>5. n - 1 \in Nat
    BY <1>1, <2>4
  <2>6. n - 1 \notin Bad
    BY <2>1, <2>4, <2>5
  <2> QED BY <2>2, <2>3, <2>4, <2>5, <2>6
<1> QED BY <1>1, <1>2

\* The recursions a sum and a product are defined by: step[s] for h at s.
Base(op) == IF op = "sum" THEN 0 ELSE 1
Both(op, a, b) == IF op = "sum" THEN a + b ELSE a * b
Step(op, f, h, s) ==
    IF s = {} THEN Base(op)
    ELSE Both(op, f[CHOOSE x \in s : TRUE], h[s \ {CHOOSE x \in s : TRUE}])

\* h solves the recursion of op over the parts of S.
Solves(h, op, f, S) == h = [s \in SUBSET S |-> Step(op, f, h, s)]

\* Over a finite set the recursion has a solution.
LEMMA FoldsExist ==
    ASSUME NEW op, NEW f, NEW S, IsFiniteSet(S)
    PROVE  \E h : Solves(h, op, f, S)
<1> DEFINE Upto(h, n) == \A s \in SUBSET S : Cardinality(s) <= n => h[s] = Step(op, f, h, s)
           Bad == {n \in Nat : ~\E h : Upto(h, n)}
<1>1. \A s \in SUBSET S : IsFiniteSet(s) /\ Cardinality(s) \in Nat
  BY FS_Subset, FS_CardinalityType
<1>2. Bad = {}
  <2> SUFFICES ASSUME Bad # {} PROVE FALSE
    OBVIOUS
  <2>1. PICK n \in Bad : \A m \in Bad : n <= m
    BY LeastOf
  <2>2. CASE n = 0
    <3>1. \A s \in SUBSET S : Cardinality(s) <= 0 => s = {}
      BY <1>1, FS_EmptySet
    <3>2. Upto([s \in SUBSET S |-> Base(op)], 0)
      BY <3>1 DEF Step
    <3> QED BY <2>1, <2>2, <3>2
  <2>3. CASE n # 0
    <3>1. n - 1 \in Nat /\ n - 1 \notin Bad
      BY <2>1, <2>3
    <3>2. PICK h : Upto(h, n - 1)
      BY <3>1
    <3> DEFINE g == [s \in SUBSET S |-> IF Cardinality(s) <= n - 1 THEN h[s] ELSE Step(op, f, h, s)]
    <3>3. ASSUME NEW s \in SUBSET S, Cardinality(s) <= n PROVE g[s] = Step(op, f, g, s)
      <4>1. g[s] = Step(op, f, h, s)
        BY <3>2
      <4>2. CASE s = {}
        BY <4>1, <4>2 DEF Step
      <4>3. CASE s # {}
        <5> DEFINE x == CHOOSE x \in s : TRUE
        <5>1. x \in s
          BY <4>3
        <5> HIDE DEF x
        <5>2. Cardinality(s \ {x}) <= n - 1
          BY <1>1, <3>1, <3>3, <5>1, FS_RemoveElement
        <5>3. g[s \ {x}] = h[s \ {x}]
          BY <5>2
        <5> HIDE DEF g
        <5>4. /\ Step(op, f, h, s) = Both(op, f[x], h[s \ {x}])
             /\ Step(op, f, g, s) = Both(op, f[x], g[s \ {x}])
          BY <4>3 DEF Step, x
        <5> QED BY <4>1, <5>3, <5>4
      <4> QED BY <4>2, <4>3
    <3>4. Upto(g, n)
      BY <3>3
    <3> QED BY <2>1, <3>4
  <2> QED BY <2>2, <2>3
<1>3. Cardinality(S) \in Nat
  BY FS_CardinalityType
<1>4. PICK h : Upto(h, Cardinality(S))
  BY <1>2, <1>3
<1> DEFINE g == [s \in SUBSET S |-> h[s]]
<1>5. ASSUME NEW s \in SUBSET S PROVE g[s] = Step(op, f, g, s)
  <2>1. Cardinality(s) <= Cardinality(S)
    BY FS_Subset
  <2>2. h[s] = Step(op, f, h, s)
    BY <1>4, <2>1
  <2>3. Step(op, f, h, s) = Step(op, f, g, s)
    <3>1. CASE s = {}
      BY <3>1 DEF Step
    <3>2. CASE s # {}
      <4> DEFINE x == CHOOSE x \in s : TRUE
      <4>1. s \ {x} \in SUBSET S
        OBVIOUS
      <4>2. g[s \ {x}] = h[s \ {x}]
        BY <4>1
      <4> HIDE DEF g
      <4> QED BY <3>2, <4>2 DEF Step
    <3> QED BY <3>1, <3>2
  <2> QED BY <2>2, <2>3
<1>6. g = [s \in SUBSET S |-> Step(op, f, g, s)]
  <2>1. g = [s \in SUBSET S |-> g[s]]
    OBVIOUS
  <2> HIDE DEF g
  <2> QED BY <1>5, <2>1
<1> QED BY <1>6 DEF Solves

Adds(f, h, s) ==
    IF s = {} THEN 0 ELSE f[CHOOSE x \in s : TRUE] + h[s \ {CHOOSE x \in s : TRUE}]
SumsUp(f, S, h) == h = [s \in SUBSET S |-> Adds(f, h, s)]

\* Over a finite set the recursion of a sum has a solution.
LEMMA SumsExist ==
    ASSUME NEW f, NEW S, IsFiniteSet(S)
    PROVE  \E h : SumsUp(f, S, h)
<1>0. PICK h : Solves(h, "sum", f, S)
  BY FoldsExist
<1>1. h = [s \in SUBSET S |-> Step("sum", f, h, s)]
  BY <1>0 DEF Solves
<1>2. \A s \in SUBSET S : Step("sum", f, h, s) = Adds(f, h, s)
  BY DEF Step, Base, Both, Adds
<1>3. h = [s \in SUBSET S |-> Adds(f, h, s)]
  BY <1>1, <1>2
<1> QED BY <1>3 DEF SumsUp

Alike(f, g, S) == \A x \in S : f[x] = g[x]

\* Two of them agree where both are defined.
LEMMA SumsAgree ==
    ASSUME NEW f, NEW g, NEW S, NEW Q, IsFiniteSet(S), S \subseteq Q, NEW h, NEW k,
           SumsUp(f, S, h), SumsUp(g, Q, k), Alike(f, g, S)
    PROVE  \A s \in SUBSET S : h[s] = k[s]
<1>1. \A s \in SUBSET S : h[s] = Adds(f, h, s)
  BY DEF SumsUp
<1>2. \A s \in SUBSET S : k[s] = Adds(g, k, s)
  <2>1. \A s \in SUBSET Q : k[s] = Adds(g, k, s)
    BY DEF SumsUp
  <2> QED BY <2>1
<1> DEFINE Good == {s \in SUBSET S : h[s] = k[s]}
<1>3. {} \in Good
  BY <1>1, <1>2 DEF Adds
<1>4. ASSUME NEW s \in SUBSET S, s # {} PROVE \E x \in s : s \ {x} \in Good => s \in Good
  <2> DEFINE x == CHOOSE x \in s : TRUE
  <2>1. x \in s
    BY <1>4
  <2>2. h[s] = f[x] + h[s \ {x}] /\ k[s] = g[x] + k[s \ {x}]
    BY <1>1, <1>2, <1>4 DEF Adds
  <2> HIDE DEF x
  <2> QED BY <2>1, <2>2 DEF Alike
<1>5. \A s \in SUBSET S : s \in Good
  <2> HIDE DEF Good
  <2> QED BY <1>3, <1>4, FiniteInduction
<1> QED BY <1>5

Sum(f, S) == SumFunctionOnSet(f, S)

\* A fold that adds f up is the sum of f.
LEMMA SumIs ==
    ASSUME NEW f, NEW S, IsFiniteSet(S)
    PROVE  \E h : SumsUp(f, S, h) /\ Sum(f, S) = h[S]
<1> DEFINE h == CHOOSE iter : iter =
            [s \in SUBSET S |-> IF s = {} THEN 0
                                ELSE LET x == CHOOSE x \in s : TRUE IN f[x] + iter[s \ {x}]]
<1>1. Sum(f, S) = h[S]
  BY DEF Sum, SumFunctionOnSet, FoldFunctionOnSet, MapThenFoldSet
<1>2. PICK k : SumsUp(f, S, k)
  BY SumsExist
<1>3. k = [s \in SUBSET S |-> IF s = {} THEN 0
                              ELSE LET x == CHOOSE x \in s : TRUE IN f[x] + k[s \ {x}]]
  BY <1>2 DEF SumsUp, Adds
<1>4. h = [s \in SUBSET S |-> IF s = {} THEN 0
                              ELSE LET x == CHOOSE x \in s : TRUE IN f[x] + h[s \ {x}]]
  BY <1>3
<1>5. SumsUp(f, S, h)
  <2> HIDE DEF h
  <2> QED BY <1>4 DEF SumsUp, Adds
<1> HIDE DEF h
<1> QED BY <1>1, <1>5

\* The sum over nothing is zero.
LEMMA SumEmpty == ASSUME NEW f PROVE Sum(f, {}) = 0
<1>1. IsFiniteSet({})
  BY FS_EmptySet
<1>2. PICK h : SumsUp(f, {}, h) /\ Sum(f, {}) = h[{}]
  BY <1>1, SumIs
<1>3. h[{}] = Adds(f, h, {})
  BY <1>2 DEF SumsUp
<1> QED BY <1>2, <1>3 DEF Adds

\* Only the values matter.
LEMMA SumSame ==
    ASSUME NEW S, IsFiniteSet(S), NEW f, NEW g, \A x \in S : f[x] = g[x]
    PROVE  Sum(f, S) = Sum(g, S)
<1>1. PICK h : SumsUp(f, S, h) /\ Sum(f, S) = h[S]
  BY SumIs
<1>2. PICK k : SumsUp(g, S, k) /\ Sum(g, S) = k[S]
  BY SumIs
<1>3. \A s \in SUBSET S : h[s] = k[s]
  BY <1>1, <1>2, SumsAgree DEF Alike
<1> QED BY <1>1, <1>2, <1>3

\* The sum over a set is one of its elements and the sum over the others.
LEMMA SumPicks ==
    ASSUME NEW f, NEW S, IsFiniteSet(S), S # {}
    PROVE  \E x \in S : Sum(f, S) = f[x] + Sum(f, S \ {x})
<1>1. PICK h : SumsUp(f, S, h) /\ Sum(f, S) = h[S]
  BY SumIs
<1> DEFINE x == CHOOSE x \in S : TRUE
<1>2. x \in S
  OBVIOUS
<1>3. h[S] = f[x] + h[S \ {x}]
  <2>1. h[S] = Adds(f, h, S)
    BY <1>1 DEF SumsUp
  <2> QED BY <2>1 DEF Adds
<1> HIDE DEF x
<1>4. IsFiniteSet(S \ {x})
  BY FS_RemoveElement
<1>5. PICK k : SumsUp(f, S \ {x}, k) /\ Sum(f, S \ {x}) = k[S \ {x}]
  BY <1>4, SumIs
<1>6. k[S \ {x}] = h[S \ {x}]
  <2> DEFINE s == S \ {x}
  <2>1. \A t \in SUBSET s : k[t] = h[t]
    <3>1. IsFiniteSet(s) /\ s \subseteq S /\ SumsUp(f, s, k) /\ SumsUp(f, S, h) /\ Alike(f, f, s)
      BY <1>1, <1>4, <1>5 DEF Alike
    <3> HIDE DEF s
    <3> QED BY <3>1, SumsAgree
  <2> QED BY <2>1
<1> QED BY <1>1, <1>2, <1>3, <1>5, <1>6

Ints(f, S) == \A x \in S : f[x] \in Int

\* Over every part, a sum of integers is an integer.
LEMMA SumInt ==
    ASSUME NEW S, IsFiniteSet(S), NEW f, Ints(f, S)
    PROVE  \A s \in SUBSET S : Sum(f, s) \in Int
<1> DEFINE Good == {s \in SUBSET S : Sum(f, s) \in Int}
<1>1. {} \in Good
  BY SumEmpty
<1>2. ASSUME NEW s \in SUBSET S, s # {} PROVE \E x \in s : s \ {x} \in Good => s \in Good
  <2>1. IsFiniteSet(s)
    BY FS_Subset
  <2>2. PICK x \in s : Sum(f, s) = f[x] + Sum(f, s \ {x})
    BY <1>2, <2>1, SumPicks
  <2>3. Sum(f, s \ {x}) \in Int => Sum(f, s) \in Int
    BY <2>2 DEF Ints
  <2>4. s \ {x} \in Good => s \in Good
    BY <2>3
  <2> QED BY <2>4
<1>3. \A s \in SUBSET S : s \in Good
  <2> HIDE DEF Good
  <2> QED BY <1>1, <1>2, FiniteInduction
<1> QED BY <1>3

\* Any element may be taken out first.
LEMMA SumRemove ==
    ASSUME NEW S, IsFiniteSet(S), NEW f, Ints(f, S), NEW y \in S
    PROVE  Sum(f, S) = f[y] + Sum(f, S \ {y})
<1> DEFINE Good(s) == \A z \in s : Sum(f, s) = f[z] + Sum(f, s \ {z})
           Bad == {n \in Nat : \E s \in SUBSET S : Cardinality(s) = n /\ ~Good(s)}
<1>1. \A s \in SUBSET S : Sum(f, s) \in Int /\ IsFiniteSet(s) /\ Cardinality(s) \in Nat
  BY SumInt, FS_Subset, FS_CardinalityType
<1>2. ASSUME Bad # {} PROVE FALSE
  <2>1. PICK n \in Bad : \A m \in Bad : n <= m
    BY <1>2, LeastOf
  <2>2. PICK s \in SUBSET S : Cardinality(s) = n /\ ~Good(s)
    BY <2>1
  <2>3. ASSUME NEW z \in s PROVE Good(s \ {z})
    <3>1. Cardinality(s \ {z}) = n - 1 /\ n \in Nat /\ s \ {z} \in SUBSET S
      BY <1>1, <2>2, FS_RemoveElement
    <3>2. n - 1 \in Nat /\ n - 1 \notin Bad
      BY <1>1, <2>1, <3>1
    <3> HIDE DEF Good
    <3> QED BY <3>1, <3>2
  <2>4. PICK z \in s : Sum(f, s) # f[z] + Sum(f, s \ {z})
    BY <2>2
  <2>5. PICK x \in s : Sum(f, s) = f[x] + Sum(f, s \ {x})
    BY <1>1, <2>4, SumPicks
  <2>6. x # z
    BY <2>4, <2>5
  <2>7. Sum(f, s \ {x}) = f[z] + Sum(f, (s \ {x}) \ {z})
    BY <2>3, <2>6
  <2>8. Sum(f, s \ {z}) = f[x] + Sum(f, (s \ {z}) \ {x})
    BY <2>3, <2>6
  <2>9. (s \ {z}) \ {x} = (s \ {x}) \ {z}
    OBVIOUS
  <2>10. f[x] \in Int /\ f[z] \in Int /\ Sum(f, (s \ {x}) \ {z}) \in Int
    BY <1>1 DEF Ints
  <2>11. f[z] + Sum(f, s \ {z}) = f[x] + Sum(f, s \ {x})
    <3> DEFINE t == Sum(f, (s \ {x}) \ {z})
    <3>1. Sum(f, s \ {x}) = f[z] + t /\ Sum(f, s \ {z}) = f[x] + t /\ t \in Int
      BY <2>7, <2>8, <2>9, <2>10
    <3> HIDE DEF t
    <3> QED BY <2>10, <3>1
  <2> QED BY <2>4, <2>5, <2>11
<1>3. Cardinality(S) \in Nat
  BY <1>1
<1> HIDE DEF Good
<1>4. Good(S)
  BY <1>2, <1>3
<1> QED BY <1>4 DEF Good

\* Induction with that: one element more.
LEMMA SumInduction ==
    ASSUME NEW S, IsFiniteSet(S), NEW Good, {} \in Good,
           \A s \in SUBSET S : \A x \in s : s \ {x} \in Good => s \in Good
    PROVE  S \in Good
<1>1. \A s \in SUBSET S : s # {} => \E x \in s : s \ {x} \in Good => s \in Good
  OBVIOUS
<1>2. \A s \in SUBSET S : s \in Good
  BY <1>1, FiniteInduction
<1> QED BY <1>2

\* Which element the sum takes first does not matter.
LEMMA SumAdds ==
    ASSUME NEW S, IsFiniteSet(S), NEW f, Ints(f, S), NEW s \in SUBSET S, NEW x \in s
    PROVE  Sum(f, s) = f[x] + Sum(f, s \ {x})
<1>1. IsFiniteSet(s) /\ Ints(f, s)
  BY FS_Subset DEF Ints
<1> QED BY <1>1, SumRemove

\* The terms of the previous lemma are integers.
LEMMA SumTerms ==
    ASSUME NEW S, IsFiniteSet(S), NEW f, Ints(f, S), NEW s \in SUBSET S, NEW x \in s
    PROVE  Sum(f, s) \in Int /\ Sum(f, s \ {x}) \in Int /\ f[x] \in Int
BY SumInt DEF Ints

\* The sum of two functions.
LEMMA SumPlus ==
    ASSUME NEW S, IsFiniteSet(S), NEW f, Ints(f, S), NEW g, Ints(g, S), NEW h,
           \A x \in S : h[x] = f[x] + g[x]
    PROVE  Sum(h, S) = Sum(f, S) + Sum(g, S)
<1> DEFINE Good == {s \in SUBSET S : Sum(h, s) = Sum(f, s) + Sum(g, s)}
<1>0. Ints(f, S) /\ Ints(g, S)
  OBVIOUS
<1>1. {} \in Good
  BY SumEmpty
<1>2. Ints(h, S)
  BY DEF Ints
<1>3. ASSUME NEW s \in SUBSET S, NEW x \in s, s \ {x} \in Good PROVE s \in Good
  <2>1. /\ Sum(h, s) = h[x] + Sum(h, s \ {x}) /\ Sum(f, s) = f[x] + Sum(f, s \ {x})
        /\ Sum(g, s) = g[x] + Sum(g, s \ {x}) /\ h[x] = f[x] + g[x]
        /\ f[x] \in Int /\ g[x] \in Int /\ Sum(f, s \ {x}) \in Int /\ Sum(g, s \ {x}) \in Int
    <3> HIDE DEF Good
    <3>1. Sum(h, s) = h[x] + Sum(h, s \ {x})
      BY <1>2, SumAdds
    <3>2. Sum(f, s) = f[x] + Sum(f, s \ {x})
      BY <1>0, SumAdds
    <3>3. Sum(g, s) = g[x] + Sum(g, s \ {x})
      BY <1>0, SumAdds
    <3>4. f[x] \in Int /\ Sum(f, s \ {x}) \in Int
      BY <1>0, SumTerms
    <3>5. g[x] \in Int /\ Sum(g, s \ {x}) \in Int
      BY <1>0, SumTerms
    <3> QED BY <3>1, <3>2, <3>3, <3>4, <3>5
  <2>2. Sum(h, s \ {x}) = Sum(f, s \ {x}) + Sum(g, s \ {x})
    BY <1>3
  <2> QED BY <2>1, <2>2
<1>4. S \in Good
  <2> HIDE DEF Good
  <2> QED BY <1>1, <1>3, SumInduction
<1> QED BY <1>4

\* The sum of a multiple.
LEMMA SumScale ==
    ASSUME NEW S, IsFiniteSet(S), NEW f, Ints(f, S), NEW c \in Int, NEW h,
           \A x \in S : h[x] = c * f[x]
    PROVE  Sum(h, S) = c * Sum(f, S)
<1> DEFINE Good == {s \in SUBSET S : Sum(h, s) = c * Sum(f, s)}
<1>1. {} \in Good
  BY SumEmpty
<1>2. Ints(h, S)
  BY DEF Ints
<1>3. ASSUME NEW s \in SUBSET S, NEW x \in s, s \ {x} \in Good PROVE s \in Good
  <2>1. /\ Sum(h, s) = h[x] + Sum(h, s \ {x}) /\ Sum(f, s) = f[x] + Sum(f, s \ {x})
        /\ h[x] = c * f[x]
        /\ f[x] \in Int /\ Sum(f, s \ {x}) \in Int
    <3> HIDE DEF Good
    <3>1. Sum(h, s) = h[x] + Sum(h, s \ {x})
      BY <1>2, SumAdds
    <3>2. Sum(f, s) = f[x] + Sum(f, s \ {x})
      BY SumAdds
    <3>3. f[x] \in Int /\ Sum(f, s \ {x}) \in Int
      BY SumTerms
    <3> QED BY <3>1, <3>2, <3>3
  <2>2. Sum(h, s \ {x}) = c * Sum(f, s \ {x})
    BY <1>3
  <2>3. c * (f[x] + Sum(f, s \ {x})) = c * f[x] + c * Sum(f, s \ {x})
    BY <2>1
  <2> QED BY <2>1, <2>2, <2>3
<1>4. S \in Good
  <2> HIDE DEF Good
  <2> QED BY <1>1, <1>3, SumInduction
<1> QED BY <1>4

\* Greater values have a greater sum.
LEMMA SumLe ==
    ASSUME NEW S, IsFiniteSet(S), NEW f, Ints(f, S), NEW g, Ints(g, S),
           \A x \in S : f[x] <= g[x]
    PROVE  Sum(f, S) <= Sum(g, S)
<1> DEFINE Good == {s \in SUBSET S : Sum(f, s) <= Sum(g, s)}
<1>0. Ints(f, S) /\ Ints(g, S)
  OBVIOUS
<1>1. {} \in Good
  BY SumEmpty
<1>3. ASSUME NEW s \in SUBSET S, NEW x \in s, s \ {x} \in Good PROVE s \in Good
  <2>1. /\ Sum(f, s) = f[x] + Sum(f, s \ {x})
        /\ Sum(g, s) = g[x] + Sum(g, s \ {x}) /\ f[x] <= g[x]
        /\ f[x] \in Int /\ g[x] \in Int /\ Sum(f, s \ {x}) \in Int /\ Sum(g, s \ {x}) \in Int
    <3> HIDE DEF Good
    <3>2. Sum(f, s) = f[x] + Sum(f, s \ {x})
      BY <1>0, SumAdds
    <3>3. Sum(g, s) = g[x] + Sum(g, s \ {x})
      BY <1>0, SumAdds
    <3>4. f[x] \in Int /\ Sum(f, s \ {x}) \in Int
      BY <1>0, SumTerms
    <3>5. g[x] \in Int /\ Sum(g, s \ {x}) \in Int
      BY <1>0, SumTerms
    <3> QED BY <3>2, <3>3, <3>4, <3>5
  <2>2. Sum(f, s \ {x}) <= Sum(g, s \ {x})
    BY <1>3
  <2> QED BY <2>1, <2>2
<1>4. S \in Good
  <2> HIDE DEF Good
  <2> QED BY <1>1, <1>3, SumInduction
<1> QED BY <1>4

\* The sum of a constant.
LEMMA SumConst ==
    ASSUME NEW S, IsFiniteSet(S), NEW f, NEW c \in Int, \A x \in S : f[x] = c
    PROVE  Sum(f, S) = c * Cardinality(S)
<1> DEFINE Good == {s \in SUBSET S : Sum(f, s) = c * Cardinality(s)}
<1>1. {} \in Good
  BY SumEmpty, FS_EmptySet
<1>2. Ints(f, S)
  BY DEF Ints
<1>3. ASSUME NEW s \in SUBSET S, NEW x \in s, s \ {x} \in Good PROVE s \in Good
  <2>1. Sum(f, s) = c + Sum(f, s \ {x})
    BY <1>2, SumAdds
  <2>2. IsFiniteSet(s) /\ Cardinality(s) \in Nat /\ Cardinality(s \ {x}) = Cardinality(s) - 1
    BY FS_Subset, FS_CardinalityType, FS_RemoveElement
  <2>3. Sum(f, s \ {x}) = c * (Cardinality(s) - 1)
    BY <1>3, <2>2
  <2>4. c * Cardinality(s) = c + c * (Cardinality(s) - 1)
    BY <2>2
  <2> QED BY <2>1, <2>3, <2>4
<1>4. S \in Good
  <2> HIDE DEF Good
  <2> QED BY <1>1, <1>3, SumInduction
<1> QED BY <1>4

\* A sum of ones counts.
LEMMA SumCounts ==
    ASSUME NEW S, IsFiniteSet(S), NEW f, \A x \in S : f[x] \in {0, 1}
    PROVE  Sum(f, S) = Cardinality({x \in S : f[x] = 1})
<1> DEFINE ones(s) == {x \in s : f[x] = 1}
           Good == {s \in SUBSET S : Sum(f, s) = Cardinality(ones(s))}
<1>1. {} \in Good
  <2>1. ones({}) = {}
    OBVIOUS
  <2> QED BY <2>1, SumEmpty, FS_EmptySet
<1>2. Ints(f, S)
  BY DEF Ints
<1>3. ASSUME NEW s \in SUBSET S, NEW x \in s, s \ {x} \in Good PROVE s \in Good
  <2>1. Sum(f, s) = f[x] + Sum(f, s \ {x})
    BY <1>2, SumAdds
  <2>2. Sum(f, s \ {x}) = Cardinality(ones(s \ {x}))
    BY <1>3
  <2>3. IsFiniteSet(ones(s)) /\ IsFiniteSet(ones(s \ {x}))
    BY FS_Subset
  <2>4. Cardinality(ones(s \ {x})) \in Nat
    BY <2>3, FS_CardinalityType
  <2>5. CASE f[x] = 0
    <3>1. ones(s) = ones(s \ {x})
      BY <2>5
    <3> QED BY <2>1, <2>2, <2>4, <2>5, <3>1
  <2>6. CASE f[x] = 1
    <3>1. ones(s) = ones(s \ {x}) \cup {x} /\ x \notin ones(s \ {x})
      BY <2>6
    <3> HIDE DEF ones
    <3>2. Cardinality(ones(s)) = Cardinality(ones(s \ {x})) + 1
      BY <2>3, <3>1, FS_AddElement
    <3> QED BY <2>1, <2>2, <2>4, <2>6, <3>2
  <2> QED BY <2>5, <2>6
<1>4. S \in Good
  <2> HIDE DEF Good
  <2> QED BY <1>1, <1>3, SumInduction
<1> QED BY <1>4

\* A set and the rest of it.
LEMMA SumSplit ==
    ASSUME NEW S, IsFiniteSet(S), NEW f, Ints(f, S), NEW A \in SUBSET S
    PROVE  Sum(f, S) = Sum(f, A) + Sum(f, S \ A)
<1> DEFINE Good == {s \in SUBSET A : Sum(f, S \ s) = Sum(f, S) - Sum(f, s)}
<1>1. {} \in Good
  <2>1. S \ {} = S /\ Sum(f, S) \in Int
    BY SumInt
  <2> QED BY <2>1, SumEmpty
<1>2. ASSUME NEW s \in SUBSET A, NEW x \in s, s \ {x} \in Good PROVE s \in Good
  <2>1. Sum(f, S \ (s \ {x})) = Sum(f, S) - Sum(f, s \ {x})
    BY <1>2
  <2>2. (S \ (s \ {x})) \ {x} = S \ s /\ x \in S \ (s \ {x})
    OBVIOUS
  <2>3. Sum(f, S \ (s \ {x})) = f[x] + Sum(f, S \ s)
    BY <2>2, SumAdds
  <2>4. s \in SUBSET S /\ S \ s \in SUBSET S
    OBVIOUS
  <2>5. /\ Sum(f, s) = f[x] + Sum(f, s \ {x})
        /\ f[x] \in Int /\ Sum(f, s \ {x}) \in Int /\ Sum(f, s) \in Int
    <3> HIDE DEF Good
    <3>1. Sum(f, s) = f[x] + Sum(f, s \ {x})
      BY <2>4, SumAdds
    <3> QED BY <2>4, <3>1, SumTerms
  <2>6. Sum(f, S \ s) \in Int /\ Sum(f, S) \in Int
    BY <2>4, SumInt
  <2> QED BY <2>1, <2>3, <2>5, <2>6
<1>3. A \in Good
  <2> HIDE DEF Good
  <2>1. IsFiniteSet(A)
    BY FS_Subset
  <2> QED BY <1>1, <1>2, <2>1, SumInduction
<1>4. Sum(f, A) \in Int /\ Sum(f, S) \in Int
  BY SumInt
<1> QED BY <1>3, <1>4

-----------------------------------------------------------------------------
(* Handing out whole units by the largest remainder.                        *)

\* ahead[i] are those served before i, in one order of all.
Linear(S, ahead) ==
    /\ ahead \in [S -> SUBSET S]
    /\ \A i \in S : i \notin ahead[i]
    /\ \A i, j \in S : i # j => i \in ahead[j] \/ j \in ahead[i]
    /\ \A i, j, k \in S : k \in ahead[j] /\ j \in ahead[i] => k \in ahead[i]

\* In a finite line everybody has a rank of their own.
LEMMA Ranks ==
    ASSUME NEW S, IsFiniteSet(S), NEW ahead, Linear(S, ahead),
           NEW rank, rank = [i \in S |-> Cardinality(ahead[i])]
    PROVE  /\ Cardinality(S) \in Nat
           /\ rank \in Injection(S, 0..Cardinality(S)-1)
           /\ rank \in Surjection(S, 0..Cardinality(S)-1)
           /\ \A i \in S : \A j \in ahead[i] : rank[j] < rank[i]
<1> DEFINE n == Cardinality(S)
<1>1. n \in Nat
  BY FS_CardinalityType
<1>2. ASSUME NEW i \in S PROVE IsFiniteSet(ahead[i]) /\ rank[i] \in 0..n-1
  <2>1. ahead[i] \subseteq S \ {i}
    BY DEF Linear
  <2>2. IsFiniteSet(S \ {i}) /\ Cardinality(S \ {i}) = n - 1
    BY FS_RemoveElement
  <2>3. IsFiniteSet(ahead[i]) /\ Cardinality(ahead[i]) <= n - 1
    BY <2>1, <2>2, FS_Subset
  <2>4. Cardinality(ahead[i]) \in Nat
    BY <2>3, FS_CardinalityType
  <2> QED BY <1>1, <2>3, <2>4
<1>3. ASSUME NEW i \in S, NEW j \in ahead[i] PROVE rank[j] < rank[i]
  <2>1. j \in S
    BY DEF Linear
  <2>2. ahead[j] \subseteq ahead[i] \ {j}
    BY <2>1 DEF Linear
  <2>3. IsFiniteSet(ahead[i] \ {j}) /\ Cardinality(ahead[i] \ {j}) = rank[i] - 1
    BY <1>2, FS_RemoveElement
  <2>4. Cardinality(ahead[j]) <= rank[i] - 1
    BY <2>2, <2>3, FS_Subset
  <2>5. rank[i] \in Int /\ rank[j] \in Int
    BY <1>1, <1>2, <2>1
  <2> QED BY <2>1, <2>4, <2>5
<1>4. ASSUME NEW i \in S, NEW j \in S, rank[i] = rank[j] PROVE i = j
  <2>1. rank[i] \in Int
    BY <1>1, <1>2
  <2>2. i = j \/ i \in ahead[j] \/ j \in ahead[i]
    BY DEF Linear
  <2> QED BY <1>3, <1>4, <2>1, <2>2
<1>5. IsFiniteSet(0..n-1) /\ Cardinality(0..n-1) = n
  <2> HIDE DEF n
  <2>1. n - 1 \in Int /\ 0 \in Int /\ (0 > n - 1 => n = 0)
    BY <1>1
  <2>2. /\ IsFiniteSet(0..n-1)
        /\ Cardinality(0..n-1) = IF 0 > n - 1 THEN 0 ELSE (n - 1) - 0 + 1
    BY <2>1, FS_Interval
  <2> QED BY <1>1, <2>1, <2>2
<1>6. rank \in Injection(S, 0..n-1)
  <2>1. rank \in [S -> 0..n-1]
    BY <1>2
  <2> QED BY <1>4, <2>1 DEF Injection, IsInjective
<1>7. rank \in Surjection(S, 0..n-1)
  BY <1>5, <1>6, FS_Injection
<1> QED BY <1>1, <1>3, <1>6, <1>7

\* Of a finite line, exactly u have fewer than u before them.
LEMMA RankCounts ==
    ASSUME NEW S, IsFiniteSet(S), NEW ahead, Linear(S, ahead), NEW u \in 0..Cardinality(S)
    PROVE  Cardinality({i \in S : Cardinality(ahead[i]) < u}) = u
<1> DEFINE n == Cardinality(S)
           rank == [i \in S |-> Cardinality(ahead[i])]
           low == {i \in S : rank[i] < u}
           lowRank == [i \in low |-> rank[i]]
<1>1. n \in Nat /\ rank \in Injection(S, 0..n-1) /\ rank \in Surjection(S, 0..n-1)
  <2>1. PICK r : r = [i \in S |-> Cardinality(ahead[i])]
    OBVIOUS
  <2>2. /\ Cardinality(S) \in Nat /\ r \in Injection(S, 0..Cardinality(S)-1)
        /\ r \in Surjection(S, 0..Cardinality(S)-1)
    BY <2>1, Ranks
  <2> QED BY <2>1, <2>2
<1> HIDE DEF rank
<1>2. ASSUME NEW i \in S PROVE rank[i] \in 0..n-1
  BY <1>1 DEF Injection
<1>3. ASSUME NEW i \in S, NEW j \in S, rank[i] = rank[j] PROVE i = j
  BY <1>1, <1>3 DEF Injection, IsInjective
<1>4. lowRank \in Injection(low, 0..u-1)
  <2>1. \A i \in low : rank[i] \in 0..u-1
    BY <1>1, <1>2
  <2> QED BY <1>3, <2>1 DEF Injection, IsInjective
<1>5. lowRank \in Surjection(low, 0..u-1)
  <2>1. ASSUME NEW k \in 0..u-1 PROVE \E i \in low : lowRank[i] = k
    <3>1. k \in 0..n-1
      BY <1>1
    <3>2. PICK i \in S : rank[i] = k
      BY <1>1, <3>1 DEF Surjection
    <3> QED BY <3>2
  <2>2. lowRank \in [low -> 0..u-1]
    BY <1>4 DEF Injection
  <2> HIDE DEF low, lowRank
  <2> QED BY <2>1, <2>2 DEF Surjection
<1>6. IsFiniteSet(0..u-1) /\ Cardinality(0..u-1) = u
  <2>1. u - 1 \in Int /\ 0 \in Int /\ u \in Nat /\ (0 > u - 1 => u = 0)
    BY <1>1
  <2>2. /\ IsFiniteSet(0..u-1)
        /\ Cardinality(0..u-1) = IF 0 > u - 1 THEN 0 ELSE (u - 1) - 0 + 1
    BY <2>1, FS_Interval
  <2> QED BY <2>1, <2>2
<1>7. Cardinality(low) = u
  <2> HIDE DEF low, lowRank
  <2> QED BY <1>4, <1>5, <1>6, FS_Injection
<1> QED BY <1>7 DEF rank

\* The line of HandOut.
Served(rest, first) ==
    [i \in DOMAIN rest |-> {j \in DOMAIN rest : \/ rest[j] > rest[i]
                                                \/ rest[j] = rest[i] /\ j \in first[i]}]

\* What first must be, to break ties: an order itself.
Ties(S, first) ==
    /\ \A i \in S : i \notin first[i]
    /\ \A i, j \in S : i # j => i \in first[j] \/ j \in first[i]
    /\ \A i, j, k \in S : k \in first[j] /\ j \in first[i] => k \in first[i]

\* The order in which the remainders are served is linear, whatever breaks the ties.
LEMMA ServedLinear ==
    ASSUME NEW rest, Ints(rest, DOMAIN rest), NEW first, Ties(DOMAIN rest, first)
    PROVE  Linear(DOMAIN rest, Served(rest, first))
<1> DEFINE S == DOMAIN rest
           ahead == Served(rest, first)
<1>1. \A i, j \in S : j \in ahead[i] <=> \/ rest[j] > rest[i]
                                         \/ rest[j] = rest[i] /\ j \in first[i]
  <2> TAKE i, j \in S
  <2>1. ahead[i] = {k \in S : \/ rest[k] > rest[i]
                              \/ rest[k] = rest[i] /\ k \in first[i]}
    BY DEF Served
  <2> HIDE DEF ahead
  <2> QED BY <2>1
<1>2. ahead \in [S -> SUBSET S]
  BY DEF Served
<1>3. \A i \in S : i \notin ahead[i]
  BY <1>1 DEF Ints, Ties
<1>4. \A i, j \in S : i # j => i \in ahead[j] \/ j \in ahead[i]
  BY <1>1 DEF Ints, Ties
<1>5. ASSUME NEW i \in S, NEW j \in S, NEW k \in S, k \in ahead[j], j \in ahead[i]
      PROVE k \in ahead[i]
  <2>1. rest[i] \in Int /\ rest[j] \in Int /\ rest[k] \in Int
    BY DEF Ints
  <2> HIDE DEF ahead
  <2> QED BY <1>1, <1>5, <2>1 DEF Ties
<1> HIDE DEF ahead
<1>6. Linear(S, ahead)
  BY <1>2, <1>3, <1>4, <1>5 DEF Linear
<1> QED BY <1>6 DEF ahead

\* out: down with units handed out, at most one to each of S.
HandedOut(out, down, units, S) ==
    /\ DOMAIN out = S /\ Ints(out, S)
    /\ \A i \in S : out[i] \in {down[i], down[i] + 1}
    /\ units = 0 => \A i \in S : out[i] = down[i]
    /\ Sum(out, S) = Sum(down, S) + units

\* Every unit is handed out, and nobody is given two.
LEMMA HandOutGives ==
    ASSUME NEW down, NEW S, S = DOMAIN down, IsFiniteSet(S), Ints(down, S),
           NEW rest, DOMAIN rest = S, Ints(rest, S), NEW first, Ties(S, first),
           NEW units \in 0..Cardinality(S)
    PROVE  HandedOut(HandOut(down, rest, units, first), down, units, S)
<1> DEFINE ahead == Served(rest, first)
           given == [i \in S |-> IF Cardinality(ahead[i]) < units THEN 1 ELSE 0]
           out == HandOut(down, rest, units, first)
<1>1. Linear(S, ahead)
  BY ServedLinear
<1>2. DOMAIN out = S /\ \A i \in S : out[i] = down[i] + given[i]
  <2>1. DOMAIN out = S
    BY DEF HandOut
  <2>2. ASSUME NEW i \in S PROVE out[i] = down[i] + given[i]
    <3>1. ahead[i] = {j \in DOMAIN down : \/ rest[j] > rest[i]
                                          \/ rest[j] = rest[i] /\ j \in first[i]}
      BY DEF Served
    <3>2. out[i] = down[i] + (IF Cardinality({j \in DOMAIN down :
                                \/ rest[j] > rest[i]
                                \/ rest[j] = rest[i] /\ j \in first[i]}) < units
                             THEN 1 ELSE 0)
      BY DEF HandOut
    <3> QED BY <3>1, <3>2
  <2> QED BY <2>1, <2>2
<1>3. \A i \in S : given[i] \in {0, 1}
  OBVIOUS
<1>4. Sum(given, S) = Cardinality({i \in S : given[i] = 1})
  BY <1>3, SumCounts
<1>5. {i \in S : given[i] = 1} = {i \in S : Cardinality(ahead[i]) < units}
  OBVIOUS
<1>6. Sum(given, S) = units
  <2> HIDE DEF given, ahead
  <2> QED BY <1>1, <1>4, <1>5, RankCounts
<1>7. ASSUME units = 0, NEW i \in S PROVE given[i] = 0
  <2>1. ahead[i] \subseteq S
    BY <1>1 DEF Linear
  <2>2. Cardinality(ahead[i]) \in Nat
    BY <2>1, FS_Subset, FS_CardinalityType
  <2> QED BY <1>7, <2>2
<1> HIDE DEF given, out
<1>8. Ints(given, S) /\ Ints(out, S)
  BY <1>2, <1>3 DEF Ints
<1>9. Sum(out, S) = Sum(down, S) + Sum(given, S)
  BY <1>2, <1>8, SumPlus
<1>10. \A i \in S : out[i] \in {down[i], down[i] + 1}
  BY <1>2, <1>3 DEF Ints
<1>11. units = 0 => \A i \in S : out[i] = down[i]
  BY <1>2, <1>7 DEF Ints
<1> QED BY <1>2, <1>6, <1>8, <1>9, <1>10, <1>11 DEF out, HandedOut

\* Whole division: what it leaves is less than the divisor.
LEMMA DivMod ==
    ASSUME NEW a \in Int, NEW b \in Nat, b > 0
    PROVE  a \div b \in Int /\ (a % b) \in 0..b-1 /\ a = b * (a \div b) + (a % b)
OBVIOUS

\* Whole division stays within the naturals.
LEMMA DivNat ==
    ASSUME NEW a \in Nat, NEW b \in Nat, b > 0
    PROVE  a \div b \in Nat
<1> DEFINE q == a \div b
           r == a % b
<1>1. q \in Int /\ r \in 0..b-1 /\ a = b * q + r
  BY DivMod
<1> HIDE DEF q, r
<1>2. q < 0 => b * q <= -b
  BY <1>1
<1>3. q >= 0
  BY <1>1, <1>2
<1>4. q \in Nat
  BY <1>1, <1>3
<1> QED BY <1>4 DEF q

\* A share of t, of W in all, is no more than a share of the whole.
LEMMA ShareBelow ==
    ASSUME NEW t \in Nat, NEW w \in Nat, NEW W \in Nat, W > 0, t < W, w > 0
    PROVE  (t * w) \div W < w
<1> DEFINE q == (t * w) \div W
           r == (t * w) % W
<1>0. t * w \in Int
  OBVIOUS
<1>1. q \in Int /\ r \in 0..W-1 /\ t * w = W * q + r
  BY <1>0, DivMod
<1> HIDE DEF q, r
<1>2. t * w < W * w
  OBVIOUS
<1>3. W * q < W * w
  BY <1>1, <1>2, <1>0
<1>4. q >= w => W * q >= W * w
  BY <1>1
<1>5. q < w
  BY <1>1, <1>3, <1>4
<1> QED BY <1>5 DEF q

\* What divides evenly leaves no remainder.
LEMMA ShareWhole ==
    ASSUME NEW w \in Nat, NEW W \in Nat, W > 0
    PROVE  (W * w) \div W = w /\ (W * w) % W = 0
<1> DEFINE q == (W * w) \div W
           r == (W * w) % W
<1>0. W * w \in Int
  OBVIOUS
<1>1. q \in Int /\ r \in 0..W-1 /\ W * w = W * q + r
  BY <1>0, DivMod
<1> HIDE DEF q, r
<1>2. W * (w - q) = r
  BY <1>1
<1>3. w - q \in Int
  BY <1>1
<1>4. w - q >= 1 => W * (w - q) >= W
  BY <1>3
<1>5. w - q <= -1 => W * (w - q) <= -W
  BY <1>3
<1>6. w - q = 0
  BY <1>1, <1>2, <1>3, <1>4, <1>5
<1>7. q = w /\ r = 0
  BY <1>1, <1>2, <1>6
<1> QED BY <1>7 DEF q, r

\* What largest remainder leaves to hand out: one unit each at most.
LEMMA UnitsLeft ==
    ASSUME NEW n \in Nat, NEW W \in Nat, W > 0, NEW u \in Int, NEW Q \in Int,
           W * u = Q, 0 <= Q, Q <= (W - 1) * n
    PROVE  u \in 0..n
<1>1. u >= 0
  <2>1. u <= -1 => W * u <= -W
    OBVIOUS
  <2> QED BY <2>1
<1>2. u <= n
  <2>1. u >= n + 1 => W * u >= W * (n + 1)
    OBVIOUS
  <2>2. W * (n + 1) > (W - 1) * n
    OBVIOUS
  <2>3. W * (n + 1) \in Int /\ (W - 1) * n \in Int
    OBVIOUS
  <2> QED BY <2>1, <2>2, <2>3
<1> QED BY <1>1, <1>2

Nats(f, S) == \A x \in S : f[x] \in Nat

\* A sum of naturals is a natural.
LEMMA SumNat ==
    ASSUME NEW S, IsFiniteSet(S), NEW f, Nats(f, S)
    PROVE  Sum(f, S) \in Nat
<1> DEFINE zero == [x \in S |-> 0]
<1>1. Ints(f, S) /\ Ints(zero, S) /\ \A x \in S : zero[x] <= f[x]
  BY DEF Nats, Ints
<1>2. \A x \in S : zero[x] = 0
  OBVIOUS
<1> HIDE DEF zero
<1>3. Sum(zero, S) <= Sum(f, S)
  BY <1>1, SumLe
<1>4. Sum(zero, S) = 0 * Cardinality(S) /\ Cardinality(S) \in Nat
  BY <1>2, SumConst, FS_CardinalityType
<1>5. Sum(f, S) \in Int
  BY <1>1, SumInt
<1> QED BY <1>3, <1>4, <1>5

\* q: total, divided over S by w; nobody gets more than w when w suffices.
Divided(q, total, w, S) ==
    /\ DOMAIN q = S /\ Nats(q, S) /\ Sum(q, S) = total
    /\ total <= Sum(w, S) /\ (\A i \in S : w[i] > 0) => \A i \in S : q[i] <= w[i]

\* Every total is divided to the last unit.
LEMMA QuotasGive ==
    ASSUME NEW w, NEW S, S = DOMAIN w, IsFiniteSet(S), S # {}, Nats(w, S),
           NEW W, W = Sum(w, S), W > 0, NEW total \in Nat, NEW first, Ties(S, first)
    PROVE  Divided(Quotas(total, w, W, first), total, w, S)
<1> DEFINE down == [i \in S |-> (total * w[i]) \div W]
           rest == [i \in S |-> (total * w[i]) % W]
           units == total - Sum(down, S)
           part == [i \in S |-> W * down[i]]
           all == [i \in S |-> total * w[i]]
           n == Cardinality(S)
           q == Quotas(total, w, W, first)
<1>1. W \in Nat /\ n \in Nat /\ Ints(w, S)
  BY SumNat, FS_CardinalityType DEF Nats, Ints
<1>2. ASSUME NEW i \in S
      PROVE  down[i] \in Nat /\ rest[i] \in 0..W-1 /\ all[i] = part[i] + rest[i]
             /\ all[i] = total * w[i] /\ part[i] = W * down[i] /\ rest[i] <= W - 1
  <2>1. w[i] \in Nat /\ total * w[i] \in Nat
    BY DEF Nats
  <2>2. (total * w[i]) \div W \in Nat
    BY <1>1, <2>1, DivNat
  <2>3. /\ ((total * w[i]) % W) \in 0..W-1
        /\ total * w[i] = W * ((total * w[i]) \div W) + ((total * w[i]) % W)
    BY <1>1, <2>1, DivMod
  <2> QED BY <1>1, <2>2, <2>3
<1>3. q = HandOut(down, rest, units, first)
  BY DEF Quotas, Sum, SumFunction
<1>4. DOMAIN down = S /\ DOMAIN rest = S
  OBVIOUS
<1> HIDE DEF down, rest, part, all, q, n
<1>5. Ints(down, S) /\ Ints(rest, S) /\ Ints(part, S) /\ Ints(all, S) /\ Nats(rest, S) /\ Nats(down, S)
  <2>1. ASSUME NEW i \in S PROVE down[i] \in Nat /\ rest[i] \in Nat /\ part[i] \in Int /\ all[i] \in Int
    <3>1. W * down[i] \in Int
      BY <1>1, <1>2
    <3> QED BY <1>1, <1>2, <3>1
  <2> QED BY <2>1 DEF Ints, Nats
<1>6. Sum(all, S) = total * W
  BY <1>1, <1>2, SumScale
<1>7. Sum(part, S) = W * Sum(down, S)
  <2>1. W \in Int /\ \A i \in S : part[i] = W * down[i]
    BY <1>1, <1>2
  <2> QED BY <1>5, <2>1, SumScale
<1>8. Sum(all, S) = Sum(part, S) + Sum(rest, S)
  BY <1>2, <1>5, SumPlus
<1>9. 0 <= Sum(rest, S) /\ Sum(rest, S) \in Int /\ Sum(down, S) \in Int
  BY <1>5, SumNat, SumInt
<1>10. Sum(rest, S) <= (W - 1) * n
  <2> DEFINE top == [i \in S |-> W - 1]
  <2>1. \A i \in S : top[i] = W - 1
    OBVIOUS
  <2>2. Ints(top, S)
    BY <1>1 DEF Ints
  <2>3. \A i \in S : rest[i] <= top[i]
    BY <1>2
  <2> HIDE DEF top
  <2>4. Sum(rest, S) <= Sum(top, S)
    BY <1>5, <2>2, <2>3, SumLe
  <2>5. Sum(top, S) = (W - 1) * n
    BY <1>1, <2>1, SumConst DEF n
  <2> QED BY <2>4, <2>5
<1>11. units \in 0..n
  <2>1. W * units = Sum(rest, S) /\ units \in Int
    BY <1>1, <1>6, <1>7, <1>8, <1>9
  <2> HIDE DEF units
  <2> QED BY <1>1, <1>9, <1>10, <2>1, UnitsLeft
<1>12. /\ DOMAIN q = S /\ Ints(q, S) /\ \A i \in S : q[i] \in {down[i], down[i] + 1}
       /\ units = 0 => \A i \in S : q[i] = down[i]
       /\ Sum(q, S) = Sum(down, S) + units
  <2> HIDE DEF units
  <2>1. units \in 0..Cardinality(S) /\ DOMAIN down = S /\ DOMAIN rest = S
    BY <1>4, <1>11 DEF n
  <2>2. HandedOut(HandOut(down, rest, units, first), down, units, S)
    BY <1>5, <2>1, HandOutGives
  <2> QED BY <1>3, <2>2 DEF HandedOut
<1>13. Sum(q, S) = total
  BY <1>9, <1>12
<1>14. Nats(q, S)
  <2>1. \A i \in S : q[i] \in Nat
    BY <1>2, <1>12
  <2> QED BY <2>1 DEF Nats
<1>15. ASSUME total <= W, \A i \in S : w[i] > 0, NEW i \in S PROVE q[i] <= w[i]
  <2>1. CASE total = W
    <3>1. ASSUME NEW j \in S PROVE down[j] = w[j]
      <4>1. w[j] \in Nat
        BY DEF Nats
      <4>2. down[j] = (W * w[j]) \div W
        BY <2>1 DEF down
      <4> QED BY <1>1, <4>1, <4>2, ShareWhole
    <3>2. Sum(down, S) = Sum(w, S)
      BY <3>1, SumSame
    <3>3. units = 0
      BY <1>1, <2>1, <3>2
    <3>4. q[i] = down[i]
      BY <1>12, <3>3
    <3>5. w[i] \in Nat
      BY DEF Nats
    <3> QED BY <3>1, <3>4, <3>5
  <2>2. CASE total < W
    <3>1. w[i] \in Nat /\ w[i] > 0
      BY <1>15 DEF Nats
    <3>2. down[i] < w[i]
      BY <1>1, <2>2, <3>1, ShareBelow DEF down
    <3> QED BY <1>2, <1>12, <3>1, <3>2
  <2> QED BY <1>1, <1>15, <2>1, <2>2
<1>16. (total <= W /\ (\A i \in S : w[i] > 0)) => \A i \in S : q[i] <= w[i]
  BY <1>15
<1> QED BY <1>12, <1>13, <1>14, <1>16 DEF q, Divided

\* A sum of positive numbers is positive.
LEMMA SumPositive ==
    ASSUME NEW S, IsFiniteSet(S), S # {}, NEW f, Nats(f, S), \A x \in S : f[x] > 0
    PROVE  Sum(f, S) > 0
<1> DEFINE ones == [x \in S |-> 1]
<1>1. Ints(f, S) /\ Ints(ones, S) /\ \A x \in S : ones[x] <= f[x]
  BY DEF Nats, Ints
<1>2. \A x \in S : ones[x] = 1
  OBVIOUS
<1> HIDE DEF ones
<1>3. Sum(ones, S) <= Sum(f, S)
  BY <1>1, SumLe
<1>4. Sum(ones, S) = 1 * Cardinality(S) /\ Cardinality(S) \in Nat /\ Cardinality(S) # 0
  BY <1>2, SumConst, FS_CardinalityType, FS_EmptySet
<1>5. Sum(f, S) \in Int
  BY <1>1, SumInt
<1> QED BY <1>3, <1>4, <1>5

\* The largest-remainder method gives out exactly the total, in proportion to the weights.
LEMMA HamiltonGives ==
    ASSUME NEW w, NEW S, S = DOMAIN w, IsFiniteSet(S), S # {}, Nats(w, S),
           NEW total \in Nat, NEW first, Ties(S, first)
    PROVE  Divided(Hamilton(total, w, first), total, w, S)
<1>1. SumFunction(w) = Sum(w, S)
  BY DEF Sum, SumFunction
<1>2. CASE Sum(w, S) > 0
  <2>1. Divided(Quotas(total, w, Sum(w, S), first), total, w, S)
    BY <1>2, QuotasGive
  <2> QED BY <1>1, <1>2, <2>1 DEF Hamilton
<1>3. CASE ~(Sum(w, S) > 0)
  <2> DEFINE even == [i \in S |-> 1]
             n == Cardinality(S)
  <2>1. Hamilton(total, w, first) = Quotas(total, even, n, first)
    BY <1>1, <1>3 DEF Hamilton
  <2>2. Nats(even, S) /\ (\A i \in S : even[i] = 1) /\ DOMAIN even = S
    BY DEF Nats
  <2> HIDE DEF even
  <2>3. n = Sum(even, S) /\ n > 0
    BY <2>2, SumConst, FS_CardinalityType, FS_EmptySet
  <2> HIDE DEF n
  <2>4. Divided(Quotas(total, even, n, first), total, even, S)
    BY <2>2, <2>3, QuotasGive
  <2>5. ~\A i \in S : w[i] > 0
    BY <1>3, SumPositive
  <2> QED BY <2>1, <2>4, <2>5 DEF Divided
<1> QED BY <1>2, <1>3

\* With the ties broken by position, the same (_largest_remainder).
LEMMA LargestRemainderGives ==
    ASSUME NEW w, NEW S \in SUBSET Int, S = DOMAIN w, IsFiniteSet(S), S # {}, Nats(w, S),
           NEW total \in Nat
    PROVE  Divided(LargestRemainder(total, w), total, w, S)
<1> DEFINE first == [i \in S |-> {j \in S : j < i}]
<1>1. Ties(S, first)
  BY DEF Ties
<1> HIDE DEF first
<1>2. Divided(Hamilton(total, w, first), total, w, S)
  BY <1>1, HamiltonGives
<1> QED BY <1>2 DEF LargestRemainder, first

\* With the ties broken by weight, the same (_spread_units).
LEMMA SpreadUnitsGives ==
    ASSUME NEW w, NEW S \in SUBSET Int, S = DOMAIN w, IsFiniteSet(S), S # {}, Nats(w, S),
           NEW total \in Nat
    PROVE  Divided(SpreadUnits(total, w), total, w, S)
<1> DEFINE first == [i \in S |-> {j \in S : w[j] > w[i] \/ (w[j] = w[i] /\ j < i)}]
<1>1. Ties(S, first)
  <2>1. \A i \in S : w[i] \in Int /\ i \in Int
    BY DEF Nats
  <2> QED BY <2>1 DEF Ties
<1>2. SpreadUnits(total, w) = Hamilton(total, w, first)
  BY DEF SpreadUnits
<1> HIDE DEF first
<1>3. Divided(Hamilton(total, w, first), total, w, S)
  BY <1>1, HamiltonGives
<1> QED BY <1>2, <1>3

\* The shares of S: total in all, and no share below its floor.
FloorsKept(q, total, floor, S) ==
    /\ DOMAIN q = S /\ Nats(q, S) /\ Sum(q, S) = total
    /\ \A i \in S : q[i] >= floor[i]

\* Split gives out exactly the total and nobody less than the floor.
LEMMA SplitGives ==
    ASSUME NEW w, NEW S \in SUBSET Int, S = DOMAIN w, IsFiniteSet(S), S # {}, Nats(w, S),
           NEW floor, DOMAIN floor = S, Nats(floor, S), NEW total \in Nat,
           Sum(floor, S) <= total
    PROVE  FloorsKept(Split(total, w, floor), total, floor, S)
<1> DEFINE plain == LargestRemainder(total, w)
           above == LargestRemainder(total - Sum(floor, S), w)
           raised == [i \in S |-> floor[i] + above[i]]
<1>1. Split(total, w, floor) = IF \A i \in S : plain[i] >= floor[i] THEN plain ELSE raised
  BY DEF Split, FloorsFirst, Sum, SumFunction
<1>2. Divided(plain, total, w, S)
  BY LargestRemainderGives
<1>3. Sum(floor, S) \in Nat
  BY SumNat
<1>4. Divided(above, total - Sum(floor, S), w, S)
  <2>1. total - Sum(floor, S) \in Nat
    BY <1>3
  <2> QED BY <2>1, LargestRemainderGives
<1>5. \A i \in S : raised[i] = floor[i] + above[i]
  OBVIOUS
<1>6. DOMAIN raised = S
  OBVIOUS
<1> HIDE DEF plain, above, raised
<1>7. Nats(raised, S) /\ \A i \in S : raised[i] >= floor[i]
  BY <1>4, <1>5 DEF Nats, Divided
<1>8. Ints(floor, S) /\ Ints(above, S)
  BY <1>4 DEF Nats, Ints, Divided
<1>9. Sum(raised, S) = Sum(floor, S) + Sum(above, S)
  BY <1>5, <1>8, SumPlus
<1>10. Sum(raised, S) = total
  BY <1>3, <1>4, <1>9 DEF Divided
<1>11. FloorsKept(raised, total, floor, S)
  BY <1>6, <1>7, <1>10 DEF FloorsKept
<1>12. (\A i \in S : plain[i] >= floor[i]) => FloorsKept(plain, total, floor, S)
  BY <1>2 DEF FloorsKept, Divided
<1> QED BY <1>1, <1>11, <1>12

-----------------------------------------------------------------------------
(* Floors and ceilings: Apportion.                                          *)

\* Outside stop, at least one more of the items is settled.
Progress(Items, stop, more) ==
    \A s \in SUBSET Items : s \notin stop => more[s] \subseteq Items \ s /\ more[s] # {}

Settling(Items, stop, val, more, c) ==
    c = [s \in SUBSET Items |-> IF s \in stop THEN val[s] ELSE c[s \cup more[s]]]

\* Items are settled some at a time until none is left to settle: that ends.
LEMMA SettlesExist ==
    ASSUME NEW Items, IsFiniteSet(Items), NEW stop, NEW val, NEW more,
           Progress(Items, stop, more)
    PROVE  \E c : Settling(Items, stop, val, more, c)
<1> DEFINE Body(c, s) == IF s \in stop THEN val[s] ELSE c[s \cup more[s]]
           left == [s \in SUBSET Items |-> Cardinality(Items \ s)]
           Upto(c, n) == \A s \in SUBSET Items : left[s] <= n => c[s] = Body(c, s)
           Bad == {n \in Nat : ~\E c : Upto(c, n)}
<1>1. \A s \in SUBSET Items : IsFiniteSet(Items \ s) /\ left[s] \in Nat
  BY FS_Subset, FS_CardinalityType
<1>2. ASSUME NEW s \in SUBSET Items, s \notin stop
      PROVE  /\ s \cup more[s] \in SUBSET Items /\ left[s \cup more[s]] <= left[s] - 1
             /\ left[s] >= 1
  <2>1. more[s] \subseteq Items \ s /\ more[s] # {}
    BY <1>2 DEF Progress
  <2>2. PICK x \in more[s] : TRUE
    BY <2>1
  <2>3. Items \ (s \cup more[s]) \subseteq (Items \ s) \ {x}
    BY <2>2
  <2>4. x \in Items \ s
    BY <2>1, <2>2
  <2>5. IsFiniteSet((Items \ s) \ {x}) /\ Cardinality((Items \ s) \ {x}) = left[s] - 1
    BY <1>1, <2>4, FS_RemoveElement
  <2>7. s \cup more[s] \in SUBSET Items
    BY <2>1
  <2>6. left[s \cup more[s]] <= left[s] - 1
    BY <2>3, <2>5, <2>7, FS_Subset
  <2> HIDE DEF left
  <2>8. left[s \cup more[s]] \in Nat /\ left[s] \in Nat
    BY <1>1, <2>7
  <2> QED BY <2>6, <2>7, <2>8
<1> HIDE DEF left
<1>0. \A s \in SUBSET Items : left[s] \in Nat
  BY <1>1
<1>9. \A s \in SUBSET Items : s \notin stop => left[s] >= 1
  BY <1>2
<1>3. Bad = {}
  <2> SUFFICES ASSUME Bad # {} PROVE FALSE
    OBVIOUS
  <2>1. PICK n \in Bad : \A m \in Bad : n <= m
    BY LeastOf
  <2>2. CASE n = 0
    <3> DEFINE c == [s \in SUBSET Items |-> val[s]]
    <3>1. ASSUME NEW s \in SUBSET Items, left[s] <= 0 PROVE c[s] = Body(c, s)
      <4>1. s \in stop
        BY <1>0, <1>9, <3>1
      <4> QED BY <4>1
    <3>2. Upto(c, 0)
      BY <3>1
    <3> QED BY <2>1, <2>2, <3>2
  <2>3. CASE n # 0
    <3>0. n \in Nat
      OBVIOUS
    <3>1. n - 1 \in Nat /\ n - 1 \notin Bad
      <4> HIDE DEF Bad
      <4> QED BY <2>1, <2>3, <3>0
    <3>2. PICK c : Upto(c, n - 1)
      BY <3>1
    <3> DEFINE d == [s \in SUBSET Items |-> IF left[s] <= n - 1 THEN c[s] ELSE Body(c, s)]
    <3>3. ASSUME NEW s \in SUBSET Items, left[s] <= n PROVE d[s] = Body(d, s)
      <4>1. d[s] = Body(c, s)
        BY <3>2
      <4>2. CASE s \in stop
        BY <4>1, <4>2
      <4>3. CASE s \notin stop
        <5> DEFINE u == s \cup more[s]
        <5>3. u \in SUBSET Items /\ left[u] <= left[s] - 1
          BY <1>2, <4>3
        <5> HIDE DEF u
        <5>4. left[u] \in Nat /\ left[s] \in Nat
          BY <1>0, <5>3
        <5>1. left[u] <= n - 1
          BY <3>0, <3>3, <5>3, <5>4
        <5>2. d[u] = c[u]
          BY <5>1, <5>3
        <5> HIDE DEF d
        <5> QED BY <4>1, <4>3, <5>2 DEF u
      <4> QED BY <4>2, <4>3
    <3>4. Upto(d, n)
      BY <3>3
    <3>5. n \notin Bad
      <4> HIDE DEF Upto
      <4> QED BY <3>4
    <3> QED BY <3>5
  <2> QED BY <2>2, <2>3
<1>4. Cardinality(Items) \in Nat
  BY FS_CardinalityType
<1>5. PICK c : Upto(c, Cardinality(Items))
  <2> HIDE DEF Upto
  <2> QED BY <1>3, <1>4
<1> DEFINE d == [s \in SUBSET Items |-> c[s]]
<1>6. ASSUME NEW s \in SUBSET Items PROVE d[s] = Body(d, s)
  <2>1. left[s] <= Cardinality(Items)
    BY FS_Subset DEF left
  <2>2. c[s] = Body(c, s)
    BY <1>5, <2>1
  <2>3. CASE s \in stop
    BY <2>2, <2>3
  <2>4. CASE s \notin stop
    <3> DEFINE u == s \cup more[s]
    <3>1. u \in SUBSET Items
      BY <1>2, <2>4
    <3> HIDE DEF u
    <3>2. d[u] = c[u]
      BY <3>1
    <3>3. d[s] = c[s]
      OBVIOUS
    <3> HIDE DEF d
    <3> QED BY <2>2, <2>4, <3>2, <3>3 DEF u
  <2> QED BY <2>3, <2>4
<1>7. d = [s \in SUBSET Items |-> Body(d, s)]
  <2>1. d = [s \in SUBSET Items |-> d[s]]
    OBVIOUS
  <2> HIDE DEF d, Body
  <2> QED BY <1>6, <2>1
<1> QED BY <1>7 DEF Settling

\* What Apportion recurs by, with c for cap.
CapBody(total, w, floor, ceiling, c, settled) ==
    LET Items == DOMAIN w
        over(shares) == {i \in DOMAIN shares : ceiling[i] > 0 /\ shares[i] > ceiling[i]}
        free == Items \ settled
        settle(shares) ==
            IF over(shares) = {}
            THEN [i \in Items |-> IF i \in free THEN shares[i] ELSE ceiling[i]]
            ELSE IF \E i \in over(shares) : ceiling[i] < floor[i]
            THEN Impossible
            ELSE c[settled \cup over(shares)]
    IN  IF \/ free = {}
           \/ SumFunctionOnSet(ceiling, settled) > total
        THEN Impossible
        ELSE settle(Split(total - SumFunctionOnSet(ceiling, settled),
                          Restrict(w, free), Restrict(floor, free)))

Caps(total, w, floor, ceiling) ==
    CHOOSE cap : cap = [settled \in SUBSET DOMAIN w |->
                            CapBody(total, w, floor, ceiling, cap, settled)]

\* Apportion is the recursive function from nobody settled, unless the floors alone exceed
\* the total.
LEMMA ApportionIs ==
    ASSUME NEW total, NEW w, NEW floor, NEW ceiling
    PROVE  Apportion(total, w, floor, ceiling)
             = IF SumFunction(floor) > total THEN Impossible
               ELSE Caps(total, w, floor, ceiling)[{}]
BY DEF Apportion, Caps, CapBody

\* Split gives a share to each.
LEMMA SplitDomain ==
    ASSUME NEW t, NEW w, NEW floor, DOMAIN floor = DOMAIN w
    PROVE  DOMAIN Split(t, w, floor) = DOMAIN w
<1>1. \A x : DOMAIN LargestRemainder(x, w) = DOMAIN w
  BY DEF LargestRemainder, Hamilton, Quotas, HandOut
<1>2. DOMAIN LargestRemainder(t, w) = DOMAIN w
  BY <1>1
<1> QED BY <1>2 DEF Split, FloorsFirst

\* The shares of the items that are free, and those of them over their ceiling.
FreeShares(total, w, floor, ceiling, s) ==
    Split(total - Sum(ceiling, s), Restrict(w, DOMAIN w \ s), Restrict(floor, DOMAIN w \ s))
OverCeiling(ceiling, shares, free) == {i \in free : ceiling[i] > 0 /\ shares[i] > ceiling[i]}

\* The recursion has a solution.
LEMMA CapsSolve ==
    ASSUME NEW total, NEW w, IsFiniteSet(DOMAIN w), NEW floor, NEW ceiling
    PROVE  \A s \in SUBSET DOMAIN w :
               Caps(total, w, floor, ceiling)[s]
                 = CapBody(total, w, floor, ceiling, Caps(total, w, floor, ceiling), s)
<1> DEFINE Items == DOMAIN w
           shares == [s \in SUBSET Items |-> FreeShares(total, w, floor, ceiling, s)]
           over == [s \in SUBSET Items |-> OverCeiling(ceiling, shares[s], Items \ s)]
           dead == {s \in SUBSET Items : Items \ s = {} \/ Sum(ceiling, s) > total}
           low == {s \in SUBSET Items : \E i \in over[s] : ceiling[i] < floor[i]}
           fair == {s \in SUBSET Items : over[s] = {}}
           stop == dead \cup low \cup fair
           val == [s \in SUBSET Items |-> IF s \in dead THEN Impossible
                     ELSE IF s \in fair
                     THEN [i \in Items |-> IF i \in Items \ s THEN shares[s][i] ELSE ceiling[i]]
                     ELSE Impossible]
<1>1. Progress(Items, stop, over)
  BY DEF OverCeiling, Progress
<1>2. ASSUME NEW c, NEW s \in SUBSET Items
      PROVE  CapBody(total, w, floor, ceiling, c, s)
               = IF s \in stop THEN val[s] ELSE c[s \cup over[s]]
  <2>1. DOMAIN shares[s] = Items \ s
    <3>1. DOMAIN Restrict(w, Items \ s) = Items \ s /\ DOMAIN Restrict(floor, Items \ s) = Items \ s
      BY DEF Restrict
    <3> QED BY <3>1, SplitDomain DEF FreeShares
  <2>2. {i \in DOMAIN shares[s] : ceiling[i] > 0 /\ shares[s][i] > ceiling[i]} = over[s]
    BY <2>1 DEF OverCeiling
  <2>3. shares[s] = Split(total - SumFunctionOnSet(ceiling, s), Restrict(w, Items \ s),
                          Restrict(floor, Items \ s))
    BY DEF FreeShares, Sum
  <2>4. (s \in dead) <=> (Items \ s = {} \/ SumFunctionOnSet(ceiling, s) > total)
    BY DEF Sum
  <2>5. CapBody(total, w, floor, ceiling, c, s)
          = IF s \in dead THEN Impossible
            ELSE IF over[s] = {}
            THEN [i \in Items |-> IF i \in Items \ s THEN shares[s][i] ELSE ceiling[i]]
            ELSE IF \E i \in over[s] : ceiling[i] < floor[i] THEN Impossible
            ELSE c[s \cup over[s]]
    <3> HIDE DEF dead, over, shares
    <3> QED BY <2>2, <2>3, <2>4 DEF CapBody
  <2>6. (s \in fair <=> over[s] = {}) /\ (s \in low <=> \E i \in over[s] : ceiling[i] < floor[i])
    OBVIOUS
  <2>7. val[s] = IF s \in dead THEN Impossible
                 ELSE IF s \in fair
                 THEN [i \in Items |-> IF i \in Items \ s THEN shares[s][i] ELSE ceiling[i]]
                 ELSE Impossible
    OBVIOUS
  <2> HIDE DEF dead, over, shares, fair, low, val
  <2> QED BY <2>5, <2>6, <2>7
<1> HIDE DEF shares, over, stop, val
<1>3. PICK c : Settling(Items, stop, val, over, c)
  BY <1>1, SettlesExist
<1>4. c = [s \in SUBSET Items |-> CapBody(total, w, floor, ceiling, c, s)]
  BY <1>2, <1>3 DEF Settling
<1> DEFINE C == Caps(total, w, floor, ceiling)
<1>5. C = [s \in SUBSET Items |-> CapBody(total, w, floor, ceiling, C, s)]
  BY <1>4 DEF Caps
<1> HIDE DEF C
<1>6. \A s \in SUBSET Items : C[s] = CapBody(total, w, floor, ceiling, C, s)
  BY <1>5
<1> QED BY <1>6 DEF C

\* The shares of all, and nobody below the floor or above a ceiling.
Apportioned(q, total, floor, ceiling, S) ==
    /\ FloorsKept(q, total, floor, S)
    /\ \A i \in S : ceiling[i] > 0 => q[i] <= ceiling[i]

\* What is true of the items that are settled whenever Apportion goes round.
SettledWell(s, total, floor, ceiling, S) ==
    /\ s \subseteq S
    /\ \A i \in s : ceiling[i] > 0 /\ ceiling[i] >= floor[i]
    /\ Sum(ceiling, s) + Sum(floor, S \ s) <= total

\* While the settled are held to their ceilings, the others share exactly what is left.
LEMMA FreeSharesGive ==
    ASSUME NEW w, NEW S \in SUBSET Int, S = DOMAIN w, IsFiniteSet(S), Nats(w, S),
           NEW floor, DOMAIN floor = S, Nats(floor, S), NEW ceiling, Nats(ceiling, S),
           NEW total \in Nat, NEW s, SettledWell(s, total, floor, ceiling, S), S \ s # {}
    PROVE  FloorsKept(FreeShares(total, w, floor, ceiling, s), total - Sum(ceiling, s), floor, S \ s)
<1> DEFINE free == S \ s
           t == total - Sum(ceiling, s)
           wf == Restrict(w, free)
           ff == Restrict(floor, free)
<1>1. IsFiniteSet(s) /\ IsFiniteSet(free) /\ s \subseteq S
  BY FS_Subset DEF SettledWell
<1>2. Nats(ceiling, s) /\ Nats(floor, free)
  BY <1>1 DEF Nats
<1>3. Sum(ceiling, s) \in Nat /\ Sum(floor, free) \in Nat
  BY <1>1, <1>2, SumNat
<1>4. t \in Nat /\ Sum(floor, free) <= t
  BY <1>3 DEF SettledWell
<1>5. /\ DOMAIN wf = free /\ Nats(wf, free) /\ DOMAIN ff = free /\ Nats(ff, free)
      /\ \A i \in free : ff[i] = floor[i]
  BY DEF Restrict, Nats
<1>6. FreeShares(total, w, floor, ceiling, s) = Split(t, wf, ff)
  BY DEF FreeShares
<1>7. free \in SUBSET Int /\ free # {}
  OBVIOUS
<1> HIDE DEF free, t, wf, ff
<1>8. Sum(ff, free) = Sum(floor, free)
  BY <1>1, <1>5, SumSame
<1>9. FloorsKept(Split(t, wf, ff), t, ff, free)
  BY <1>1, <1>4, <1>5, <1>7, <1>8, SplitGives
<1>10. FloorsKept(Split(t, wf, ff), t, floor, free)
  BY <1>5, <1>9 DEF FloorsKept
<1> QED BY <1>6, <1>10 DEF free, t

\* What is over its ceiling may be settled there.
LEMMA SettlingOn ==
    ASSUME NEW S, IsFiniteSet(S), NEW floor, Nats(floor, S), NEW ceiling, Nats(ceiling, S),
           NEW total \in Nat, NEW s, SettledWell(s, total, floor, ceiling, S),
           NEW q, FloorsKept(q, total - Sum(ceiling, s), floor, S \ s),
           NEW over, over = OverCeiling(ceiling, q, S \ s),
           ~\E i \in over : ceiling[i] < floor[i]
    PROVE  SettledWell(s \cup over, total, floor, ceiling, S)
<1> DEFINE free == S \ s
           rest == S \ (s \cup over)
<1>1. s \subseteq S /\ over \subseteq free /\ free \subseteq S
  BY DEF SettledWell, OverCeiling
<1>2. IsFiniteSet(s) /\ IsFiniteSet(over) /\ IsFiniteSet(free) /\ IsFiniteSet(s \cup over)
      /\ IsFiniteSet(rest)
  BY <1>1, FS_Subset
<1>3. free \ over = rest /\ (s \cup over) \ s = over /\ rest \subseteq free
  BY <1>1
<1>4. /\ Ints(ceiling, s \cup over) /\ Ints(ceiling, over) /\ Ints(floor, rest)
      /\ Ints(ceiling, s)
  <2>1. \A i \in S : ceiling[i] \in Int /\ floor[i] \in Int
    BY DEF Nats
  <2>2. s \cup over \subseteq S /\ over \subseteq S /\ rest \subseteq S
    BY <1>1
  <2> HIDE DEF rest
  <2> QED BY <1>1, <2>1, <2>2 DEF Ints
<1>5. /\ Ints(q, free) /\ Ints(q, over) /\ Ints(q, rest)
      /\ \A i \in over : ceiling[i] <= q[i] /\ ceiling[i] > 0 /\ ceiling[i] >= floor[i]
      /\ \A i \in rest : floor[i] <= q[i]
  <2>1. \A i \in free : q[i] \in Nat /\ q[i] >= floor[i] /\ floor[i] \in Nat /\ ceiling[i] \in Nat
    BY <1>1 DEF FloorsKept, Nats
  <2>2. \A i \in over : ceiling[i] > 0 /\ q[i] > ceiling[i] /\ ~(ceiling[i] < floor[i]) /\ i \in free
    BY DEF OverCeiling
  <2>3. \A i \in over : ceiling[i] <= q[i] /\ ceiling[i] > 0 /\ ceiling[i] >= floor[i]
    BY <2>1, <2>2
  <2>4. \A i \in rest : floor[i] <= q[i]
    BY <1>3, <2>1
  <2>5. Ints(q, free) /\ Ints(q, over) /\ Ints(q, rest)
    <3> HIDE DEF free, rest
    <3>1. \A i \in free : q[i] \in Int
      BY <2>1
    <3>2. (\A i \in over : q[i] \in Int) /\ (\A i \in rest : q[i] \in Int)
      BY <1>1, <1>3, <3>1
    <3> QED BY <3>1, <3>2 DEF Ints
  <2> HIDE DEF free, rest
  <2> QED BY <2>3, <2>4, <2>5
<1> HIDE DEF free, rest
<1>6. Sum(ceiling, s \cup over) = Sum(ceiling, s) + Sum(ceiling, over)
  <2> DEFINE u == s \cup over
  <2>1. s \in SUBSET u /\ IsFiniteSet(u) /\ Ints(ceiling, u) /\ u \ s = over
    BY <1>2, <1>3, <1>4
  <2> HIDE DEF u
  <2>2. Sum(ceiling, u) = Sum(ceiling, s) + Sum(ceiling, u \ s)
    BY <2>1, SumSplit
  <2> QED BY <2>1, <2>2 DEF u
<1>7. Sum(q, free) = Sum(q, over) + Sum(q, rest)
  <2>1. over \in SUBSET free /\ IsFiniteSet(free) /\ Ints(q, free)
    BY <1>1, <1>2, <1>5
  <2>2. Sum(q, free) = Sum(q, over) + Sum(q, free \ over)
    BY <2>1, SumSplit
  <2> QED BY <1>3, <2>2
<1>8. Sum(ceiling, over) <= Sum(q, over)
  BY <1>2, <1>4, <1>5, SumLe
<1>9. Sum(floor, rest) <= Sum(q, rest)
  BY <1>2, <1>4, <1>5, SumLe
<1>10. Sum(q, free) = total - Sum(ceiling, s)
  BY DEF FloorsKept, free
<1>11. /\ Sum(ceiling, s) \in Int /\ Sum(ceiling, over) \in Int /\ Sum(q, over) \in Int
       /\ Sum(q, rest) \in Int /\ Sum(floor, rest) \in Int
  BY <1>2, <1>4, <1>5, SumInt
<1>12. Sum(ceiling, s \cup over) + Sum(floor, rest) <= total
  BY <1>6, <1>7, <1>8, <1>9, <1>10, <1>11
<1>13. \A i \in s \cup over : ceiling[i] > 0 /\ ceiling[i] >= floor[i]
  BY <1>5 DEF SettledWell
<1>14. s \cup over \subseteq S
  BY <1>1
<1> QED BY <1>12, <1>13, <1>14 DEF SettledWell, rest

\* When nothing is over its ceiling, all the shares are as they should be.
LEMMA AllSettled ==
    ASSUME NEW S, IsFiniteSet(S), NEW floor, Nats(floor, S), NEW ceiling, Nats(ceiling, S),
           NEW total \in Nat, NEW s, SettledWell(s, total, floor, ceiling, S),
           NEW q, FloorsKept(q, total - Sum(ceiling, s), floor, S \ s),
           OverCeiling(ceiling, q, S \ s) = {}
    PROVE  Apportioned([i \in S |-> IF i \in S \ s THEN q[i] ELSE ceiling[i]],
                       total, floor, ceiling, S)
<1> DEFINE free == S \ s
           r == [i \in S |-> IF i \in S \ s THEN q[i] ELSE ceiling[i]]
<1>1. s \subseteq S /\ s \in SUBSET S /\ S \ s = free
  BY DEF SettledWell
<1>2. IsFiniteSet(s) /\ IsFiniteSet(free)
  BY <1>1, FS_Subset
<1>3. (\A i \in s : r[i] = ceiling[i]) /\ (\A i \in free : r[i] = q[i]) /\ DOMAIN r = S
  BY <1>1
<1> HIDE DEF r
<1>4. /\ \A i \in s : r[i] \in Nat /\ r[i] >= floor[i] /\ r[i] <= ceiling[i]
      /\ \A i \in free : /\ r[i] \in Nat /\ r[i] >= floor[i]
                         /\ ceiling[i] > 0 => r[i] <= ceiling[i]
  <2>1. ASSUME NEW i \in s PROVE r[i] \in Nat /\ r[i] >= floor[i] /\ r[i] <= ceiling[i]
    <3>1. ceiling[i] \in Nat /\ ceiling[i] >= floor[i]
      BY <1>1 DEF Nats, SettledWell
    <3> QED BY <1>3, <3>1
  <2>2. ASSUME NEW i \in free PROVE /\ r[i] \in Nat /\ r[i] >= floor[i]
                                    /\ ceiling[i] > 0 => r[i] <= ceiling[i]
    <3>1. q[i] \in Nat /\ q[i] >= floor[i] /\ ceiling[i] \in Nat
      BY DEF FloorsKept, Nats
    <3>2. ~(ceiling[i] > 0 /\ q[i] > ceiling[i])
      BY DEF OverCeiling
    <3> QED BY <1>3, <3>1, <3>2
  <2> QED BY <2>1, <2>2
<1>5. Nats(r, S) /\ (\A i \in S : r[i] >= floor[i])
      /\ (\A i \in S : ceiling[i] > 0 => r[i] <= ceiling[i])
  <2>1. \A i \in S : i \in s \/ i \in free
    OBVIOUS
  <2> HIDE DEF free
  <2> QED BY <1>4, <2>1 DEF Nats
<1>6. Sum(r, S) = Sum(r, s) + Sum(r, free)
  <2>1. Ints(r, S)
    BY <1>5 DEF Nats, Ints
  <2> QED BY <1>1, <2>1, SumSplit
<1>7. Sum(r, s) = Sum(ceiling, s) /\ Sum(r, free) = Sum(q, free)
  <2> HIDE DEF free
  <2>1. Sum(r, s) = Sum(ceiling, s)
    BY <1>2, <1>3, SumSame
  <2>2. Sum(r, free) = Sum(q, free)
    BY <1>2, <1>3, SumSame
  <2> QED BY <2>1, <2>2
<1>8. Sum(q, free) = total - Sum(ceiling, s) /\ Sum(ceiling, s) \in Int
  <2>1. Ints(ceiling, s)
    BY <1>1 DEF Nats, Ints
  <2> QED BY <1>2, <2>1, SumInt DEF FloorsKept
<1>9. Sum(r, S) = total
  BY <1>6, <1>7, <1>8
<1> QED BY <1>3, <1>5, <1>9 DEF Apportioned, FloorsKept, r

\* Whatever is settled so far, Apportion ends well or finds it impossible.
LEMMA CapsGive ==
    ASSUME NEW w, NEW S \in SUBSET Int, S = DOMAIN w, IsFiniteSet(S), Nats(w, S),
           NEW floor, DOMAIN floor = S, Nats(floor, S), NEW ceiling, Nats(ceiling, S),
           NEW total \in Nat, NEW C, C = Caps(total, w, floor, ceiling)
    PROVE  \A s \in SUBSET S : SettledWell(s, total, floor, ceiling, S) =>
               C[s] = Impossible \/ Apportioned(C[s], total, floor, ceiling, S)
<1> DEFINE ok == {s \in SUBSET S : SettledWell(s, total, floor, ceiling, S) =>
                    C[s] = Impossible \/ Apportioned(C[s], total, floor, ceiling, S)}
           left == [s \in SUBSET S |-> Cardinality(S \ s)]
           Bad == {n \in Nat : \E s \in SUBSET S : left[s] = n /\ s \notin ok}
<1>1. \A s \in SUBSET S : IsFiniteSet(S \ s) /\ left[s] \in Nat
  BY FS_Subset, FS_CardinalityType
<1>2. \A s \in SUBSET S : C[s] = CapBody(total, w, floor, ceiling, C, s)
  <2>1. \A s \in SUBSET DOMAIN w :
            Caps(total, w, floor, ceiling)[s]
              = CapBody(total, w, floor, ceiling, Caps(total, w, floor, ceiling), s)
    BY CapsSolve
  <2> QED BY <2>1
<1>3. ASSUME NEW s \in SUBSET S,
             \A u \in SUBSET S : left[u] < left[s] => u \in ok
      PROVE  s \in ok
  <2> SUFFICES ASSUME SettledWell(s, total, floor, ceiling, S)
               PROVE  C[s] = Impossible \/ Apportioned(C[s], total, floor, ceiling, S)
    OBVIOUS
  <2> DEFINE free == S \ s
             q == FreeShares(total, w, floor, ceiling, s)
             over == OverCeiling(ceiling, q, free)
             r == [i \in S |-> IF i \in S \ s THEN q[i] ELSE ceiling[i]]
  <2>1. CASE free = {} \/ Sum(ceiling, s) > total
    <3>1. C[s] = Impossible
      BY <1>2, <2>1 DEF CapBody, Sum
    <3> QED BY <3>1
  <2>2. CASE free # {} /\ ~(Sum(ceiling, s) > total)
    <3>1. FloorsKept(q, total - Sum(ceiling, s), floor, free)
      BY <2>2, FreeSharesGive
    <3>2. {i \in DOMAIN q : ceiling[i] > 0 /\ q[i] > ceiling[i]} = over
      BY <3>1 DEF FloorsKept, OverCeiling
    <3>3. C[s] = IF over = {} THEN r
                 ELSE IF \E i \in over : ceiling[i] < floor[i] THEN Impossible
                 ELSE C[s \cup over]
      <4>1. q = Split(total - SumFunctionOnSet(ceiling, s), Restrict(w, S \ s),
                      Restrict(floor, S \ s))
        BY DEF FreeShares, Sum
      <4>2. ~(S \ s = {} \/ SumFunctionOnSet(ceiling, s) > total)
        BY <2>2 DEF Sum
      <4>3. C[s] = CapBody(total, w, floor, ceiling, C, s)
        BY <1>2
      <4> HIDE DEF q, over
      <4> QED BY <3>2, <4>1, <4>2, <4>3 DEF CapBody
    <3>4. CASE over = {}
      <4>1. Apportioned(r, total, floor, ceiling, S)
        <5> HIDE DEF q
        <5> QED BY <3>1, <3>4, AllSettled
      <4> QED BY <3>3, <3>4, <4>1
    <3>5. CASE over # {} /\ ~\E i \in over : ceiling[i] < floor[i]
      <4> DEFINE u == s \cup over
      <4>1. SettledWell(u, total, floor, ceiling, S)
        <5> HIDE DEF q, over
        <5>1. over = OverCeiling(ceiling, q, S \ s)
          BY DEF over
        <5> QED BY <3>1, <3>5, <5>1, SettlingOn
      <4>2. u \in SUBSET S
        BY <4>1 DEF SettledWell
      <4>3. left[u] < left[s]
        <5>1. PICK x \in over : TRUE
          BY <3>5
        <5>2. x \in S \ s /\ S \ u \subseteq (S \ s) \ {x}
          BY <5>1 DEF OverCeiling
        <5>3. IsFiniteSet((S \ s) \ {x}) /\ Cardinality((S \ s) \ {x}) = left[s] - 1
          <6> DEFINE others == S \ s
          <6>1. IsFiniteSet(others) /\ x \in others /\ left[s] = Cardinality(others)
            BY <1>1, <5>2
          <6> HIDE DEF others, left
          <6>2. IsFiniteSet(others \ {x}) /\ Cardinality(others \ {x}) = Cardinality(others) - 1
            BY <6>1, FS_RemoveElement
          <6> QED BY <6>1, <6>2 DEF others
        <5> HIDE DEF u
        <5>4. left[u] <= left[s] - 1
          BY <4>2, <5>2, <5>3, FS_Subset
        <5>5. left[u] \in Nat /\ left[s] \in Nat
          BY <1>1, <4>2
        <5> HIDE DEF left
        <5> QED BY <5>4, <5>5
      <4>4. u \in ok
        <5> HIDE DEF u, ok, left
        <5> QED BY <1>3, <4>2, <4>3
      <4>5. C[u] = Impossible \/ Apportioned(C[u], total, floor, ceiling, S)
        <5> HIDE DEF u
        <5> QED BY <4>1, <4>4
      <4> QED BY <3>3, <3>5, <4>5
    <3>6. CASE over # {} /\ \E i \in over : ceiling[i] < floor[i]
      BY <3>3, <3>6
    <3> QED BY <3>4, <3>5, <3>6
  <2> QED BY <2>1, <2>2
<1>4. ASSUME Bad # {} PROVE FALSE
  <2> HIDE DEF ok, left
  <2>0. Bad \subseteq Nat
    OBVIOUS
  <2>1. PICK n \in Bad : \A m \in Bad : n <= m
    BY <1>4, <2>0, LeastOf
  <2>2. PICK s \in SUBSET S : left[s] = n /\ s \notin ok
    BY <2>1
  <2>3. ASSUME NEW u \in SUBSET S, left[u] < left[s] PROVE u \in ok
    <3>1. left[u] \in Nat /\ n \in Nat
      BY <1>1, <2>0
    <3>2. ~(n <= left[u])
      BY <2>2, <2>3, <3>1
    <3>3. left[u] \notin Bad
      <4> HIDE DEF Bad
      <4> QED BY <2>1, <3>2
    <3> QED BY <3>1, <3>3
  <2> QED BY <1>3, <2>2, <2>3
<1>5. \A s \in SUBSET S : s \in ok
  <2> HIDE DEF ok, left
  <2> QED BY <1>1, <1>4
<1> QED BY <1>5

\* What Apportion promises.
LEMMA ApportionGives ==
    ASSUME NEW w, NEW S \in SUBSET Int, S = DOMAIN w, IsFiniteSet(S), Nats(w, S),
           NEW floor, DOMAIN floor = S, Nats(floor, S), NEW ceiling, Nats(ceiling, S),
           NEW total \in Nat, Apportion(total, w, floor, ceiling) # Impossible
    PROVE  Apportioned(Apportion(total, w, floor, ceiling), total, floor, ceiling, S)
<1> DEFINE C == Caps(total, w, floor, ceiling)
<1>1. Apportion(total, w, floor, ceiling) = C[{}] /\ ~(Sum(floor, S) > total)
  BY ApportionIs DEF Sum, SumFunction
<1>2. Sum(floor, S) \in Nat
  BY SumNat
<1> HIDE DEF C
<1>3. SettledWell({}, total, floor, ceiling, S)
  <2>1. S \ {} = S
    OBVIOUS
  <2>2. Sum(ceiling, {}) = 0
    BY SumEmpty
  <2>3. Sum(ceiling, {}) + Sum(floor, S \ {}) <= total
    BY <1>1, <1>2, <2>1, <2>2
  <2> QED BY <2>3 DEF SettledWell
<1>4. C = Caps(total, w, floor, ceiling)
  BY DEF C
<1>5. {} \in SUBSET S
  OBVIOUS
<1>6. C[{}] = Impossible \/ Apportioned(C[{}], total, floor, ceiling, S)
  BY <1>3, <1>4, <1>5, CapsGive
<1> QED BY <1>1, <1>6

-----------------------------------------------------------------------------
(* The bases of an allocation.                                              *)

\* The product of positive numbers is positive.
LEMMA ProductPositive ==
    ASSUME NEW f, IsFiniteSet(DOMAIN f), \A x \in DOMAIN f : f[x] \in Nat /\ f[x] > 0
    PROVE  LET p == FoldFunction(LAMBDA a, b : a * b, 1, f) IN p \in Nat /\ p > 0
<1> DEFINE S == DOMAIN f
           h == CHOOSE iter : iter =
            [s \in SUBSET S |-> IF s = {} THEN 1
                                ELSE LET x == CHOOSE x \in s : TRUE IN f[x] * iter[s \ {x}]]
<1>1. FoldFunction(LAMBDA a, b : a * b, 1, f) = h[S]
  BY DEF FoldFunction, FoldFunctionOnSet, MapThenFoldSet
<1>0. PICK k : Solves(k, "product", f, S)
  BY FoldsExist
<1>2. k = [s \in SUBSET S |-> Step("product", f, k, s)]
  BY <1>0 DEF Solves
<1>3. k = [s \in SUBSET S |-> IF s = {} THEN 1
                              ELSE LET x == CHOOSE x \in s : TRUE IN f[x] * k[s \ {x}]]
  <2>1. \A s \in SUBSET S : Step("product", f, k, s)
            = IF s = {} THEN 1 ELSE LET x == CHOOSE x \in s : TRUE IN f[x] * k[s \ {x}]
    BY DEF Step, Base, Both
  <2> QED BY <1>2, <2>1
<1>4. h = [s \in SUBSET S |-> IF s = {} THEN 1
                              ELSE LET x == CHOOSE x \in s : TRUE IN f[x] * h[s \ {x}]]
  BY <1>3
<1> DEFINE Good == {s \in SUBSET S : h[s] \in Nat /\ h[s] > 0}
<1> HIDE DEF h
<1>5. {} \in Good
  BY <1>4
<1>6. ASSUME NEW s \in SUBSET S, s # {} PROVE \E x \in s : s \ {x} \in Good => s \in Good
  <2> DEFINE x == CHOOSE x \in s : TRUE
  <2>1. x \in s
    BY <1>6
  <2>2. h[s] = f[x] * h[s \ {x}]
    BY <1>4, <1>6
  <2> HIDE DEF x
  <2>3. f[x] \in Nat /\ f[x] > 0
    BY <2>1
  <2>4. ASSUME s \ {x} \in Good PROVE s \in Good
    <3>1. h[s \ {x}] \in Nat /\ h[s \ {x}] > 0
      BY <2>4
    <3>2. \A a, b \in Nat : a > 0 /\ b > 0 => a * b \in Nat /\ a * b > 0
      OBVIOUS
    <3>3. h[s] \in Nat /\ h[s] > 0
      BY <2>2, <2>3, <3>1, <3>2
    <3> QED BY <3>3
  <2> HIDE DEF Good
  <2> QED BY <2>1, <2>4
<1>7. \A s \in SUBSET S : s \in Good
  <2> HIDE DEF Good
  <2> QED BY <1>5, <1>6, FiniteInduction
<1> QED BY <1>1, <1>7

\* A basis: what each of S would get, as fractions.
Basis(b, S) == DOMAIN b = S /\ \A i \in S : b[i] \in Fraction

\* The denominators of a basis have a positive product.
LEMMA CommonDenominatorPositive ==
    ASSUME NEW S, IsFiniteSet(S), NEW b, Basis(b, S)
    PROVE  CommonDenominator(b) \in Nat /\ CommonDenominator(b) > 0
<1> DEFINE f == [i \in DOMAIN b |-> b[i][2]]
<1>1. IsFiniteSet(DOMAIN f) /\ \A x \in DOMAIN f : f[x] \in Nat /\ f[x] > 0
  BY DEF Basis, Fraction
<1>2. CommonDenominator(b) = FoldFunction(LAMBDA x, y : x * y, 1, f)
  BY DEF CommonDenominator
<1> HIDE DEF f
<1> QED BY <1>1, <1>2, ProductPositive

\* Over a common denominator the numerators of a basis are naturals.
LEMMA OverCommonGives ==
    ASSUME NEW S, NEW b, Basis(b, S), NEW common \in Nat
    PROVE  DOMAIN OverCommon(b, common) = S /\ Nats(OverCommon(b, common), S)
<1>1. ASSUME NEW i \in S PROVE b[i][1] * (common \div b[i][2]) \in Nat
  <2>1. b[i][1] \in Nat /\ b[i][2] \in Nat /\ b[i][2] > 0
    BY DEF Basis, Fraction
  <2>2. (common \div b[i][2]) \in Nat
    BY <2>1, DivNat
  <2>3. \A x, y \in Nat : x * y \in Nat
    OBVIOUS
  <2> QED BY <2>1, <2>2, <2>3
<1> QED BY <1>1 DEF OverCommon, Nats, Basis

\* The integer weights of a basis are naturals.
LEMMA ScaledGives ==
    ASSUME NEW S, IsFiniteSet(S), NEW b, Basis(b, S)
    PROVE  DOMAIN Scaled(b) = S /\ Nats(Scaled(b), S)
BY CommonDenominatorPositive, OverCommonGives DEF Scaled

\* A product of naturals is a natural.
LEMMA TimesNat == \A a, b \in Nat : a * b \in Nat
OBVIOUS

\* A product of positive naturals is positive.
LEMMA PositiveTimes == \A a, b \in Nat : a > 0 /\ b > 0 => a * b \in Nat /\ a * b > 0
OBVIOUS

\* Rounding half up a fraction of naturals gives a natural.
LEMMA HalfUpNat ==
    ASSUME NEW num \in Nat, NEW den \in Nat, den > 0
    PROVE  HalfUp(num, den) \in Nat
<1>1. 2 * num + den \in Nat /\ 2 * den \in Nat /\ 2 * den > 0
  OBVIOUS
<1> QED BY <1>1, DivNat DEF HalfUp

\* OrOne is positive.
LEMMA OrOnePositive ==
    ASSUME NEW x \in Int
    PROVE  OrOne(x) \in Nat /\ OrOne(x) > 0
BY StepsAssumption DEF OrOne

\* A basis completed by estimates is one fraction per item (basis_with_estimates).
LEMMA EstimatesGive ==
    ASSUME NEW S, IsFiniteSet(S), NEW evidence, DOMAIN evidence = S, Ints(evidence, S),
           NEW fallback, Nats(fallback, S), NEW group, \E i \in S : evidence[i] > 0
    PROVE  Basis(BasisWithEstimates(evidence, fallback, group), S)
<1> DEFINE matched == {i \in S : evidence[i] > 0}
           kin(i) == {j \in matched : group[j] = group[i]}
           Ev(U) == SumFunctionOnSet(evidence, U)
           Fb(U) == SumFunctionOnSet(fallback, U)
           estimate(i) ==
             IF Fb(kin(i)) > 0 /\ fallback[i] > 0
             THEN <<Ev(kin(i)) * fallback[i], Fb(kin(i))>>
             ELSE IF Fb(matched) > 0
             THEN <<Ev(matched) * fallback[i], Fb(matched)>>
             ELSE <<Ev(matched), Cardinality(matched)>>
           out == BasisWithEstimates(evidence, fallback, group)
<1>1. ASSUME NEW U, U \subseteq matched PROVE Ev(U) \in Nat /\ Fb(U) \in Nat
  <2>1. IsFiniteSet(U) /\ Nats(evidence, U) /\ Nats(fallback, U)
    BY <1>1, FS_Subset DEF Nats, Ints
  <2> QED BY <2>1, SumNat DEF Sum
<1>2. matched \subseteq S /\ IsFiniteSet(matched) /\ matched # {}
  BY FS_Subset
<1>3. Cardinality(matched) \in Nat /\ Cardinality(matched) > 0
  BY <1>2, FS_CardinalityType, FS_EmptySet
<1>4. ASSUME NEW i \in S PROVE estimate(i) \in Fraction
  <2>1. kin(i) \subseteq matched
    OBVIOUS
  <2>2. Ev(kin(i)) \in Nat /\ Fb(kin(i)) \in Nat /\ Ev(matched) \in Nat /\ Fb(matched) \in Nat
    BY <1>1, <1>2, <2>1
  <2>3. fallback[i] \in Nat
    BY DEF Nats
  <2>4. Ev(kin(i)) * fallback[i] \in Nat /\ Ev(matched) * fallback[i] \in Nat
    BY <2>2, <2>3, TimesNat
  <2> HIDE DEF kin, matched, Ev, Fb
  <2> QED BY <1>3, <2>2, <2>4 DEF Fraction
<1>5. DOMAIN out = S
  BY DEF BasisWithEstimates
<1>6. ASSUME NEW i \in S
      PROVE  out[i] = IF i \in matched THEN <<evidence[i], 1>>
                      ELSE IF estimate(i)[1] > 0 THEN estimate(i) ELSE <<One, 1>>
  BY DEF BasisWithEstimates
<1>7. ASSUME NEW i \in S PROVE out[i] \in Fraction
  <2>1. One \in Nat /\ (i \in matched => evidence[i] \in Nat)
    BY StepsAssumption DEF Ints
  <2>2. (i \in matched => <<evidence[i], 1>> \in Fraction) /\ <<One, 1>> \in Fraction
    BY <2>1 DEF Fraction
  <2> HIDE DEF estimate, matched, out
  <2> QED BY <1>4, <1>6, <2>2
<1> QED BY <1>5, <1>7 DEF Basis

\* The basis of the first pass is one fraction per item, whatever evidence there is.
LEMMA ProvisionalBasisGives ==
    ASSUME NEW items, NEW ev, FiguresOK(items, ev), NEW packing, IsFiniteSet(DOMAIN items)
    PROVE  Basis(ProvisionalBasis(items, ev, packing), DOMAIN items)
<1> DEFINE S == DOMAIN items
           share(i) == OrOne(IF packing = "full" THEN items[i].value ELSE items[i].qty)
           packed == [i \in S |-> PackingValue(ev, i)]
           shares == [i \in S |-> share(i)]
           units == [i \in S |-> items[i].uom]
<1>1. ASSUME NEW i \in S PROVE share(i) \in Nat /\ share(i) > 0
  <2>1. items[i].value \in Int /\ items[i].qty \in Int
    BY DEF FiguresOK
  <2> QED BY <2>1, OrOnePositive
<1>2. CASE HaveGross(ev) \/ HaveCarton(ev)
  <2>1. Ints(packed, S)
    BY DEF Ints, PackingValue, FiguresOK
  <2>2. \E i \in S : packed[i] > 0
    BY <1>2 DEF HaveGross, HaveCarton, PackingValue, FiguresOK
  <2>3. Nats(shares, S)
    BY <1>1 DEF Nats
  <2>4. DOMAIN packed = S
    OBVIOUS
  <2>5. ProvisionalBasis(items, ev, packing) = BasisWithEstimates(packed, shares, units)
    BY <1>2 DEF ProvisionalBasis
  <2> HIDE DEF packed, shares, units
  <2> QED BY <2>1, <2>2, <2>3, <2>4, <2>5, EstimatesGive
<1>3. CASE ~(HaveGross(ev) \/ HaveCarton(ev))
  <2>1. ProvisionalBasis(items, ev, packing) = [i \in S |-> <<share(i), 1>>]
    BY <1>3 DEF ProvisionalBasis
  <2>2. \A i \in S : <<share(i), 1>> \in Fraction
    BY <1>1 DEF Fraction
  <2> HIDE DEF share
  <2> QED BY <2>1, <2>2 DEF Basis
<1> QED BY <1>2, <1>3

-----------------------------------------------------------------------------
(* The net ladder and the gross weights.                                    *)

\* A net of the ladder is a natural, and a net the reviewer pinned stands.
LEMMA NetLadderNat ==
    ASSUME NEW items, NEW ev, FiguresOK(items, ev), NEW i \in DOMAIN items
    PROVE  /\ NetLadder(items[i], ev[i]).net \in Nat
           /\ items[i].pinNet > 0 => /\ NetLadder(items[i], ev[i]).net = items[i].pinNet
                                     /\ NetLadder(items[i], ev[i]).src = Reviewer
<1>1. /\ items[i].qty \in Int /\ items[i].invWeight \in Int /\ items[i].desc \in Int
      /\ items[i].pinNet \in Int /\ ev[i].net \in Int
  BY DEF FiguresOK
<1>2. InvoiceStates(items[i]) => InvoiceNet(items[i]) \in Nat
  <2>1. CASE items[i].perUnit /\ InvoiceStates(items[i])
    <3>1. items[i].invWeight \in Nat /\ items[i].qty \in Nat /\ One \in Nat /\ One > 0
      BY <1>1, <2>1, StepsAssumption DEF InvoiceStates
    <3>2. HalfUp(items[i].invWeight * items[i].qty, One) \in Nat
      BY <3>1, TimesNat, HalfUpNat
    <3> QED BY <2>1, <3>2 DEF InvoiceNet
  <2>2. CASE ~items[i].perUnit /\ InvoiceStates(items[i])
    BY <1>1, <2>2 DEF InvoiceNet, InvoiceStates
  <2> QED BY <2>1, <2>2
<1>3. NetFromUomQuantity(items[i]) \in Int
  <2>1. CASE items[i].uom \in DOMAIN UnitMass
    <3> DEFINE m == UnitMass[items[i].uom]
    <3>1. m \in Fraction
      BY <2>1, UnitMassAssumption
    <3>2. m[1] \in Nat /\ m[2] \in Nat /\ m[2] > 0
      BY <3>1 DEF Fraction
    <3> HIDE DEF m
    <3>3. m[1] * items[i].qty \in Int
      BY <1>1, <3>2
    <3>4. HalfUp(m[1] * items[i].qty, m[2]) \in Int
      BY <3>2, <3>3 DEF HalfUp
    <3> QED BY <2>1, <3>4 DEF NetFromUomQuantity, m
  <2>2. CASE items[i].uom \notin DOMAIN UnitMass
    BY <2>2 DEF NetFromUomQuantity
  <2> QED BY <2>1, <2>2
<1> HIDE DEF InvoiceStates, InvoiceNet, NetFromUomQuantity
<1> QED BY <1>1, <1>2, <1>3 DEF NetLadder

\* Every rung states a net.
Nets(rungs, S) == \A i \in S : rungs[i].net \in Nat

\* The basis of the second pass is one fraction per item.
LEMMA FinalBasisGives ==
    ASSUME NEW items, NEW ev, FiguresOK(items, ev), IsFiniteSet(DOMAIN items),
           NEW prov, Basis(prov, DOMAIN items), NEW rungs, Nets(rungs, DOMAIN items),
           NEW unpinned, unpinned \subseteq DOMAIN items, NEW rejected
    PROVE  Basis(FinalBasis(items, ev, prov, rungs, unpinned, rejected), DOMAIN items)
<1> DEFINE S == DOMAIN items
           own(i) == IF i \in rejected \/ rungs[i].src \in {PackingNet, Ratio} \/ i \notin unpinned
                     THEN prov[i] ELSE <<TimesTwelveTenths(rungs[i].net), 1>>
           packed(i) == (HaveGross(ev) \/ HaveCarton(ev)) /\ PackingValue(ev, i) > 0
           onQty == {i \in rejected : ~packed(i)}
           ref == unpinned \ onQty
           basis == [i \in S |-> own(i)]
           common == CommonDenominator(basis)
           over == OverCommon(basis, common)
           refBasis == SumFunctionOnSet(over, ref)
           qtys == [i \in ref |-> OrOne(items[i].qty)]
           refQty == SumFunction(qtys)
           out == FinalBasis(items, ev, prov, rungs, unpinned, rejected)
<1>1. ASSUME NEW i \in S PROVE own(i) \in Fraction
  <2>1. prov[i] \in Fraction /\ rungs[i].net \in Nat
    BY DEF Basis, Nets
  <2>2. TimesTwelveTenths(rungs[i].net) \in Nat
    <3>1. 12 * rungs[i].net \in Nat
      BY <2>1
    <3> QED BY <3>1, HalfUpNat DEF TimesTwelveTenths
  <2>3. <<TimesTwelveTenths(rungs[i].net), 1>> \in Fraction
    BY <2>2 DEF Fraction
  <2> QED BY <2>1, <2>3
<1>2. Basis(basis, S)
  BY <1>1 DEF Basis
<1>3. ref \subseteq S
  OBVIOUS
<1>4. /\ DOMAIN out = S
      /\ \A i \in S : out[i] = IF i \notin onQty THEN own(i)
                               ELSE IF refBasis > 0 /\ refQty > 0
                               THEN <<OrOne(items[i].qty) * refBasis, refQty * common>>
                               ELSE <<OrOne(items[i].qty), 1>>
  BY DEF FinalBasis
<1> HIDE DEF basis, own, out, onQty, ref
<1>5. common \in Nat /\ common > 0
  BY <1>2, CommonDenominatorPositive
<1>6. IsFiniteSet(ref)
  BY <1>3, FS_Subset
<1>7. refBasis \in Nat
  <2>1. Nats(over, S)
    BY <1>2, <1>5, OverCommonGives
  <2> HIDE DEF over
  <2>2. Nats(over, ref)
    BY <1>3, <2>1 DEF Nats
  <2> QED BY <1>6, <2>2, SumNat DEF Sum
<1>8. \A i \in S : OrOne(items[i].qty) \in Nat
  BY OrOnePositive DEF FiguresOK
<1>9. refQty \in Nat
  <2>1. Nats(qtys, ref)
    BY <1>3, <1>8 DEF Nats
  <2>2. DOMAIN qtys = ref
    OBVIOUS
  <2> HIDE DEF qtys
  <2> QED BY <1>6, <2>1, <2>2, SumNat DEF Sum, SumFunction
<1> HIDE DEF common, refBasis, refQty
<1>10. ASSUME NEW i \in S PROVE out[i] \in Fraction
  <2>1. CASE i \notin onQty
    BY <1>1, <1>4, <2>1
  <2>2. CASE i \in onQty /\ refBasis > 0 /\ refQty > 0
    <3>1. OrOne(items[i].qty) * refBasis \in Nat
      BY <1>7, <1>8, TimesNat
    <3>2. refQty * common \in Nat /\ refQty * common > 0
      BY <1>5, <1>9, <2>2, PositiveTimes
    <3>3. <<OrOne(items[i].qty) * refBasis, refQty * common>> \in Fraction
      BY <3>1, <3>2 DEF Fraction
    <3> QED BY <1>4, <2>2, <3>3
  <2>3. CASE i \in onQty /\ ~(refBasis > 0 /\ refQty > 0)
    <3>1. <<OrOne(items[i].qty), 1>> \in Fraction
      BY <1>8 DEF Fraction
    <3> QED BY <1>4, <2>3, <3>1
  <2> QED BY <2>1, <2>2, <2>3
<1> QED BY <1>4, <1>10 DEF Basis, out

\* The basis of the cartons is one fraction per item.
LEMMA CartonBasisGives ==
    ASSUME NEW items, NEW ev, FiguresOK(items, ev), IsFiniteSet(DOMAIN items),
           NEW gross, Nats(gross, DOMAIN items), NEW basis, Basis(basis, DOMAIN items)
    PROVE  Basis(CartonBasis(items, ev, gross, basis), DOMAIN items)
<1> DEFINE S == DOMAIN items
           known == {i \in S : gross[i] > 0}
           weight == [i \in S |-> IF i \in known THEN <<gross[i], 1>> ELSE basis[i]]
           qtys == [i \in known |-> OrOne(items[i].qty)]
           refQty == SumFunction(qtys)
           refGross == SumFunctionOnSet(gross, known)
           ctns == [i \in S |-> ev[i].ctn]
           alls == [i \in S |-> "all"]
           out == CartonBasis(items, ev, gross, basis)
<1>1. \A i \in S : <<gross[i], 1>> \in Fraction /\ basis[i] \in Fraction
  BY DEF Nats, Fraction, Basis
<1>2. CASE HaveCarton(ev)
  <2>1. Basis(weight, S)
    BY <1>1 DEF Basis
  <2>2. DOMAIN ctns = S /\ Ints(ctns, S) /\ \E i \in S : ctns[i] > 0
    BY <1>2 DEF FiguresOK, Ints, HaveCarton
  <2>3. out = BasisWithEstimates(ctns, Scaled(weight), alls)
    BY <1>2 DEF CartonBasis
  <2> HIDE DEF weight, ctns, alls, out
  <2>4. Nats(Scaled(weight), S)
    BY <2>1, ScaledGives
  <2>5. Basis(out, S)
    BY <2>2, <2>3, <2>4, EstimatesGive
  <2> QED BY <2>5 DEF out
<1>3. CASE ~HaveCarton(ev)
  <2>1. /\ DOMAIN out = S
        /\ \A i \in S : out[i] = IF i \in known THEN <<gross[i], 1>>
                                 ELSE IF refGross > 0 THEN <<OrOne(items[i].qty) * refGross, refQty>>
                                 ELSE <<OrOne(items[i].qty), 1>>
    BY <1>3 DEF CartonBasis
  <2>2. known \subseteq S /\ IsFiniteSet(known)
    BY FS_Subset
  <2>3. \A i \in S : OrOne(items[i].qty) \in Nat /\ OrOne(items[i].qty) > 0
    BY OrOnePositive DEF FiguresOK
  <2>4. Nats(gross, known) /\ Nats(qtys, known) /\ DOMAIN qtys = known
        /\ \A i \in known : qtys[i] > 0
    BY <2>2, <2>3 DEF Nats
  <2> HIDE DEF out, known, qtys
  <2>5. refGross \in Nat /\ refQty \in Nat
    BY <2>2, <2>4, SumNat DEF Sum, SumFunction
  <2>6. refGross > 0 => known # {}
    BY SumEmpty DEF Sum
  <2>7. refGross > 0 => refQty > 0
    BY <2>2, <2>4, <2>6, SumPositive DEF Sum, SumFunction
  <2> HIDE DEF refGross, refQty
  <2>8. ASSUME NEW i \in S PROVE out[i] \in Fraction
    <3>1. OrOne(items[i].qty) * refGross \in Nat
      BY <2>3, <2>5, TimesNat
    <3>2. refGross > 0 => <<OrOne(items[i].qty) * refGross, refQty>> \in Fraction
      BY <2>5, <2>7, <3>1 DEF Fraction
    <3>3. <<OrOne(items[i].qty), 1>> \in Fraction
      BY <2>3 DEF Fraction
    <3> QED BY <1>1, <2>1, <3>2, <3>3
  <2> QED BY <2>1, <2>8 DEF Basis, out
<1> QED BY <1>2, <1>3

\* What the ladder says of the items.
LadderOK(l, items) ==
    /\ l.unpinned = {i \in DOMAIN items : items[i].pinGross = 0}
    /\ l.pinSum = Sum([i \in DOMAIN items |-> items[i].pinGross], DOMAIN items)
    /\ Nets(l.rungs, DOMAIN items)
    /\ \A i \in DOMAIN items : items[i].pinNet > 0 => /\ l.rungs[i].net = items[i].pinNet
                                                      /\ l.rungs[i].src = Reviewer
    /\ Basis(l.basis, DOMAIN items)

\* The ladder: every net a natural, pinned nets unchanged, the rejected read out of a description.
LEMMA LadderGives ==
    ASSUME NEW items, NEW ev, FiguresOK(items, ev), IsFiniteSet(DOMAIN items),
           NEW prov, Basis(prov, DOMAIN items), NEW auth
    PROVE  LadderOK(Ladder(items, ev, prov, auth), items)
<1> DEFINE S == DOMAIN items
           unpinned == {i \in S : items[i].pinGross = 0}
           pins == [i \in S |-> items[i].pinGross]
           pinSum == SumFunction(pins)
           first == [i \in S |-> NetLadder(items[i], ev[i])]
           rejected == RejectedDescriptions(first, unpinned, auth - pinSum)
           rungs == [i \in S |-> IF i \in rejected THEN [src |-> Ratio, net |-> 0] ELSE first[i]]
           basis == FinalBasis(items, ev, prov, first, unpinned, rejected)
           l == Ladder(items, ev, prov, auth)
<1>1. l = [rungs |-> rungs, rejected |-> rejected, unpinned |-> unpinned, pinSum |-> pinSum,
           basis |-> basis]
  BY DEF Ladder, Standing
<1>2. \A i \in rejected : first[i].src = Description
  <2> HIDE DEF first, unpinned, pinSum
  <2> QED BY DEF RejectedDescriptions
<1>3. Nets(first, S)
  BY NetLadderNat DEF Nets
<1>4. Basis(basis, S)
  <2>1. unpinned \subseteq S
    OBVIOUS
  <2> HIDE DEF unpinned, rejected, first
  <2> QED BY <1>3, <2>1, FinalBasisGives
<1>5. ASSUME NEW i \in S
      PROVE  /\ rungs[i].net \in Nat
             /\ items[i].pinNet > 0 => rungs[i].net = items[i].pinNet /\ rungs[i].src = Reviewer
  <2>1. rungs[i] = IF i \in rejected THEN [src |-> Ratio, net |-> 0] ELSE first[i]
    OBVIOUS
  <2>2. first[i].net \in Nat
    BY <1>3 DEF Nets
  <2>3. items[i].pinNet > 0 => first[i].net = items[i].pinNet /\ first[i].src = Reviewer
    BY NetLadderNat
  <2>4. Reviewer # Description
    BY DEF Reviewer, Description
  <2> HIDE DEF first, rejected, rungs
  <2> QED BY <1>2, <2>1, <2>2, <2>3, <2>4
<1>6. pinSum = Sum(pins, S)
  BY DEF Sum, SumFunction
<1> HIDE DEF rungs, rejected, pinSum, basis, l
<1>7. Nets(l.rungs, S) /\ Basis(l.basis, S) /\ l.unpinned = unpinned /\ l.pinSum = Sum(pins, S)
  BY <1>1, <1>4, <1>5, <1>6 DEF Nets
<1>8. \A i \in S : items[i].pinNet > 0 => /\ l.rungs[i].net = items[i].pinNet
                                          /\ l.rungs[i].src = Reviewer
  BY <1>1, <1>5
<1> QED BY <1>7, <1>8 DEF LadderOK, l

\* What the gross allocation promises when it does not block.
GrossGiven(g, items, l, auth) ==
    /\ DOMAIN g.gross = DOMAIN items /\ Nats(g.gross, DOMAIN items)
    /\ g.codes \subseteq GrossCodes
    /\ g.codes = {} =>
         /\ Sum(g.gross, DOMAIN items) = auth
         /\ \A i \in DOMAIN items :
                /\ items[i].pinGross > 0 => g.gross[i] = items[i].pinGross
                /\ items[i].pinGross = 0 => g.gross[i] >= FloorOf(l.rungs[i])

\* out: the shares q of the free, and the pins of the others.
Beside(out, q, free, pin, S) == \A i \in S : out[i] = IF i \in free THEN q[i] ELSE pin[i]
SharedOut(out, total, S) == Nats(out, S) /\ Sum(out, S) = total

\* Shares of the unpinned beside the pins.
LEMMA GrossAddsUp ==
    ASSUME NEW S, IsFiniteSet(S), NEW pin, Nats(pin, S), NEW free,
           free = {i \in S : pin[i] = 0}, NEW auth \in Nat, NEW q, Nats(q, free),
           Sum(q, free) = auth - Sum(pin, S), NEW out,
           Beside(out, q, free, pin, S)
    PROVE  SharedOut(out, auth, S)
<1> DEFINE rest == S \ free
<1>1. free \in SUBSET S /\ IsFiniteSet(free) /\ rest \in SUBSET S /\ IsFiniteSet(rest)
  BY FS_Subset
<1>2. (\A i \in free : out[i] = q[i] /\ pin[i] = 0) /\ \A i \in rest : out[i] = pin[i]
  BY DEF Beside
<1>3. Nats(out, S) /\ Ints(out, S) /\ Ints(pin, S)
  BY DEF Nats, Ints, Beside
<1> HIDE DEF rest
<1>4. Sum(out, S) = Sum(out, free) + Sum(out, S \ free)
  BY <1>1, <1>3, SumSplit
<1>5. Sum(pin, S) = Sum(pin, free) + Sum(pin, S \ free)
  BY <1>1, <1>3, SumSplit
<1>6. Sum(pin, free) = 0
  <2>1. Sum(pin, free) = 0 * Cardinality(free)
    BY <1>1, <1>2, SumConst
  <2> QED BY <1>1, <2>1, FS_CardinalityType
<1>7. Sum(out, free) = Sum(q, free)
  BY <1>1, <1>2, SumSame
<1>8. Sum(out, rest) = Sum(pin, rest)
  BY <1>1, <1>2, SumSame
<1>9. Sum(pin, rest) \in Int
  BY <1>1, <1>3, SumInt
<1> QED BY <1>3, <1>4, <1>5, <1>6, <1>7, <1>8, <1>9 DEF rest, SharedOut

\* The shares of the rows whose gross is not pinned are exactly the room that is left.
LEMMA GrossSharesGive ==
    ASSUME NEW w, NEW S \in SUBSET Int, S = DOMAIN w, IsFiniteSet(S), Nats(w, S),
           NEW floor, DOMAIN floor = S, Nats(floor, S), NEW cap, Nats(cap, S),
           NEW room \in Nat, GrossShares(room, w, floor, cap) # Impossible
    PROVE  FloorsKept(GrossShares(room, w, floor, cap), room, floor, S)
<1> DEFINE capped == Apportion(room, w, floor, cap)
           none == [i \in S |-> 0]
           plain == Apportion(room, w, floor, none)
<1>1. GrossShares(room, w, floor, cap) = IF capped = Impossible THEN plain ELSE capped
  BY DEF GrossShares, CappedElsePlain
<1>2. Nats(none, S)
  BY DEF Nats
<1> HIDE DEF none
<1>3. capped # Impossible => Apportioned(capped, room, floor, cap, S)
  BY ApportionGives
<1>4. plain # Impossible => Apportioned(plain, room, floor, none, S)
  BY <1>2, ApportionGives
<1> HIDE DEF capped, plain
<1> QED BY <1>1, <1>3, <1>4 DEF Apportioned

\* The gross weights add up to the authority and keep the pins, or a code says why not.
LEMMA AllocateGrossGives ==
    ASSUME NEW items, NEW ev, FiguresOK(items, ev), IsFiniteSet(DOMAIN items),
           DOMAIN items \subseteq Int, NEW l, LadderOK(l, items), NEW auth \in Nat
    PROVE  GrossGiven(AllocateGross(items, l, auth), items, l, auth)
<1> DEFINE S == DOMAIN items
           free == l.unpinned
           kept == [i \in S |-> items[i].pinGross]
           room == auth - l.pinSum
           floors == [i \in free |-> FloorOf(l.rungs[i])]
           weight == Restrict(Scaled(l.basis), free)
           caps == [i \in free |-> InvoiceGrossCap(l.rungs[i])]
           shares == GrossShares(room, weight, floors, caps)
           out == [i \in S |-> IF i \in free THEN shares[i] ELSE kept[i]]
           g == AllocateGross(items, l, auth)
<1>1. /\ free = {i \in S : kept[i] = 0} /\ free \subseteq S
      /\ l.pinSum = Sum(kept, S) /\ Nats(kept, S) /\ DOMAIN kept = S
      /\ Nets(l.rungs, S) /\ Basis(l.basis, S)
      /\ \A i \in S : kept[i] = items[i].pinGross
  BY DEF LadderOK, FiguresOK, Nats
<1>2. \/ /\ free = {} /\ l.pinSum = auth
         /\ g = [gross |-> kept, codes |-> {}, need |-> 0]
      \/ /\ g.gross = kept /\ DOMAIN kept = S /\ g.codes # {} /\ g.codes \subseteq GrossCodes
      \/ /\ free # {} /\ ~(room < 0) /\ shares # Impossible
         /\ g = [gross |-> out, codes |-> {}, need |-> 0]
  <2>1. CASE free = {}
    BY <1>1, <2>1 DEF AllocateGross, GrossCodes
  <2>2. CASE free # {} /\ room < 0
    BY <1>1, <2>2 DEF AllocateGross, GrossCodes
  <2>3. CASE free # {} /\ ~(room < 0) /\ shares = Impossible
    BY <1>1, <2>3 DEF AllocateGross, GrossCodes
  <2>4. CASE free # {} /\ ~(room < 0) /\ shares # Impossible
    BY <1>1, <2>4 DEF AllocateGross, GrossCodes
  <2> QED BY <2>1, <2>2, <2>3, <2>4
<1>3. CASE free = {} /\ l.pinSum = auth /\ g = [gross |-> kept, codes |-> {}, need |-> 0]
  <2>1. \A i \in S : items[i].pinGross # 0
    BY <1>1, <1>3
  <2>2. g.gross = kept /\ g.codes = {}
    BY <1>3
  <2> HIDE DEF kept, g
  <2> QED BY <1>1, <1>3, <2>1, <2>2 DEF GrossGiven, g
<1>4. CASE g.gross = kept /\ g.codes # {} /\ g.codes \subseteq GrossCodes
  <2> HIDE DEF kept, g
  <2> QED BY <1>1, <1>4 DEF GrossGiven, g
<1>5. CASE /\ free # {} /\ ~(room < 0) /\ shares # Impossible
           /\ g = [gross |-> out, codes |-> {}, need |-> 0]
  <2>1. IsFiniteSet(free) /\ free \in SUBSET Int
    BY <1>1, FS_Subset
  <2>2. Sum(kept, S) \in Nat
    BY <1>1, SumNat
  <2>3. room \in Nat
    BY <1>1, <1>5, <2>2
  <2>4. ASSUME NEW i \in free PROVE floors[i] \in Nat /\ floors[i] = FloorOf(l.rungs[i]) /\ caps[i] \in Nat
    <3>1. l.rungs[i].net \in Nat
      BY <1>1 DEF Nets
    <3>2. TimesTwelveTenths(l.rungs[i].net) \in Nat
      <4>1. 12 * l.rungs[i].net \in Nat
        BY <3>1
      <4> QED BY <4>1, HalfUpNat DEF TimesTwelveTenths
    <3> QED BY <3>1, <3>2 DEF FloorOf, Eps, InvoiceGrossCap
  <2>5. DOMAIN Scaled(l.basis) = S /\ Nats(Scaled(l.basis), S)
    BY <1>1, ScaledGives
  <2>6. DOMAIN weight = free /\ Nats(weight, free)
    BY <1>1, <2>5 DEF Restrict, Nats
  <2>7. DOMAIN floors = free /\ Nats(floors, free) /\ Nats(caps, free)
    BY <2>4 DEF Nats
  <2>8. (\A i \in S : out[i] = IF i \in free THEN shares[i] ELSE kept[i]) /\ DOMAIN out = S
    OBVIOUS
  <2>9. g.gross = out /\ g.codes = {}
    BY <1>5
  <2> HIDE DEF kept, g, out, room, weight, floors, caps
  <2>10. FloorsKept(shares, room, floors, free)
    BY <1>5, <2>1, <2>3, <2>6, <2>7, GrossSharesGive
  <2> HIDE DEF shares
  <2>11. Nats(shares, free) /\ Sum(shares, free) = auth - Sum(kept, S)
    BY <1>1, <2>10 DEF FloorsKept, room
  <2>12. Sum(out, S) = auth /\ Nats(out, S)
    <3>1. Beside(out, shares, free, kept, S)
      BY <2>8 DEF Beside
    <3>2. free = {i \in S : kept[i] = 0} /\ Nats(kept, S)
      BY <1>1
    <3> HIDE DEF free
    <3>3. SharedOut(out, auth, S)
      BY <2>11, <3>1, <3>2, GrossAddsUp
    <3> QED BY <3>3 DEF SharedOut
  <2>13. ASSUME NEW i \in S
         PROVE  /\ items[i].pinGross > 0 => out[i] = items[i].pinGross
                /\ items[i].pinGross = 0 => out[i] >= FloorOf(l.rungs[i])
    <3>1. kept[i] = items[i].pinGross /\ kept[i] \in Nat
      BY <1>1 DEF Nats
    <3>2. CASE i \in free
      <4>1. kept[i] = 0
        BY <1>1, <3>2
      <4>2. out[i] = shares[i]
        BY <2>8, <3>2
      <4>3. shares[i] >= floors[i]
        BY <2>10, <3>2 DEF FloorsKept
      <4> QED BY <2>4, <3>1, <3>2, <4>1, <4>2, <4>3
    <3>3. CASE i \notin free
      <4>1. kept[i] # 0
        BY <1>1, <3>3
      <4> QED BY <2>8, <3>1, <3>3, <4>1
    <3> QED BY <3>2, <3>3
  <2> QED BY <2>8, <2>9, <2>12, <2>13 DEF GrossGiven, g
<1> QED BY <1>2, <1>3, <1>4, <1>5

-----------------------------------------------------------------------------
(* Cartons.                                                                 *)

\* The least of two.
LEMMA MinOfTwo ==
    ASSUME NEW a \in Int, NEW b \in Int
    PROVE  Min({a, b}) \in {a, b} /\ Min({a, b}) <= a /\ Min({a, b}) <= b
<1>1. \E x \in {a, b} : \A y \in {a, b} : x <= y
  BY DEF Min
<1> QED BY <1>1 DEF Min

\* The least of three.
LEMMA MinOfThree ==
    ASSUME NEW a \in Int, NEW b \in Int, NEW c \in Int
    PROVE  /\ Min({a, b, c}) \in {a, b, c} /\ Min({a, b, c}) <= a
           /\ Min({a, b, c}) <= b /\ Min({a, b, c}) <= c
<1>1. \E x \in {a, b, c} : \A y \in {a, b, c} : x <= y
  OBVIOUS
<1> QED BY <1>1 DEF Min

\* The k rows with the most cartons are k rows.
LEMMA HighestFirstCounts ==
    ASSUME NEW S \in SUBSET Int, IsFiniteSet(S), NEW base, Ints(base, S),
           NEW k \in 0..Cardinality(S)
    PROVE  HighestFirst(base, S, k) \subseteq S /\ Cardinality(HighestFirst(base, S, k)) = k
<1> DEFINE ahead == [i \in S |-> {j \in S : base[j] > base[i] \/ (base[j] = base[i] /\ j < i)}]
<1>1. \A i, j \in S : j \in ahead[i] <=> (base[j] > base[i] \/ (base[j] = base[i] /\ j < i))
  OBVIOUS
<1>2. ahead \in [S -> SUBSET S]
  OBVIOUS
<1>3. HighestFirst(base, S, k) = {i \in S : Cardinality(ahead[i]) < k}
  BY DEF HighestFirst
<1>4. \A i \in S : base[i] \in Int /\ i \in Int
  BY DEF Ints
<1> HIDE DEF ahead
<1>5. \A i \in S : i \notin ahead[i]
  BY <1>1, <1>4
<1>6. \A i, j \in S : i # j => i \in ahead[j] \/ j \in ahead[i]
  <2> TAKE i, j \in S
  <2>1. base[i] \in Int /\ base[j] \in Int /\ i \in Int /\ j \in Int
    BY <1>4
  <2>2. /\ i \in ahead[j] <=> (base[i] > base[j] \/ (base[i] = base[j] /\ i < j))
        /\ j \in ahead[i] <=> (base[j] > base[i] \/ (base[j] = base[i] /\ j < i))
    BY <1>1
  <2> QED BY <2>1, <2>2
<1>7. \A i, j, m \in S : m \in ahead[j] /\ j \in ahead[i] => m \in ahead[i]
  <2> TAKE i, j, m \in S
  <2>1. /\ base[i] \in Int /\ base[j] \in Int /\ base[m] \in Int
        /\ i \in Int /\ j \in Int /\ m \in Int
    BY <1>4
  <2>2. /\ m \in ahead[j] <=> (base[m] > base[j] \/ (base[m] = base[j] /\ m < j))
        /\ j \in ahead[i] <=> (base[j] > base[i] \/ (base[j] = base[i] /\ j < i))
        /\ m \in ahead[i] <=> (base[m] > base[i] \/ (base[m] = base[i] /\ m < i))
    BY <1>1
  <2> QED BY <2>1, <2>2
<1>8. Linear(S, ahead)
  BY <1>2, <1>5, <1>6, <1>7 DEF Linear
<1>9. Cardinality({i \in S : Cardinality(ahead[i]) < k}) = k
  BY <1>8, RankCounts
<1> QED BY <1>3, <1>9

\* Of the highest k there is at least one.
LEMMA HighestFirstSome ==
    ASSUME NEW S \in SUBSET Int, IsFiniteSet(S), NEW base, Ints(base, S),
           NEW k \in Int, 1 <= k, k <= Cardinality(S)
    PROVE  HighestFirst(base, S, k) \subseteq S /\ HighestFirst(base, S, k) # {}
<1>1. k \in 0..Cardinality(S)
  BY FS_CardinalityType
<1>2. HighestFirst(base, S, k) \subseteq S /\ Cardinality(HighestFirst(base, S, k)) = k
  BY <1>1, HighestFirstCounts
<1> QED BY <1>2, FS_EmptySet

\* out: base, with sign times q for those of U, which est holds.
MovedOK(out, base, sign, q, U, est, S) ==
    /\ DOMAIN out = S
    /\ \A i \in S : out[i] = IF i \in U THEN base[i] + sign * q[i] ELSE base[i]
    /\ Sum(out, est) = Sum(base, est) + sign * Sum(q, U)

\* Cartons moved within est: what the others have is left alone.
LEMMA MovedGives ==
    ASSUME NEW S, IsFiniteSet(S), NEW base, DOMAIN base = S, Ints(base, S),
           NEW est \in SUBSET S, NEW U \in SUBSET est, NEW q, DOMAIN q = U, Nats(q, U),
           NEW sign \in {-1, 1}
    PROVE  MovedOK(Moved(base, sign, q), base, sign, q, U, est, S)
<1> DEFINE out == Moved(base, sign, q)
           moved == [i \in S |-> IF i \in U THEN sign * q[i] ELSE 0]
           rest == est \ U
<1>1. DOMAIN out = S /\ \A i \in S : out[i] = IF i \in U THEN base[i] + sign * q[i] ELSE base[i]
  BY DEF Moved
<1>2. (\A i \in U : q[i] \in Int /\ moved[i] = sign * q[i]) /\ (\A i \in rest : moved[i] = 0)
  BY DEF Nats
<1>3. IsFiniteSet(est) /\ IsFiniteSet(U) /\ IsFiniteSet(rest)
  BY FS_Subset
<1>4. \A i \in est : out[i] = base[i] + moved[i] /\ moved[i] \in Int /\ base[i] \in Int
  <2>1. \A i \in est : base[i] \in Int
    BY DEF Ints
  <2>2. \A i \in U : sign * q[i] \in Int
    <3>1. \A x \in Int : 1 * x \in Int /\ (-1) * x \in Int
      OBVIOUS
    <3> QED BY <1>2, <3>1
  <2> QED BY <1>1, <2>1, <2>2
<1> HIDE DEF out, moved
<1>5. Ints(moved, est) /\ Ints(base, est) /\ Ints(q, U)
  BY <1>2, <1>4 DEF Ints
<1>6. Sum(out, est) = Sum(base, est) + Sum(moved, est)
  BY <1>3, <1>4, <1>5, SumPlus
<1>7. Sum(moved, est) = Sum(moved, U) + Sum(moved, est \ U)
  BY <1>3, <1>5, SumSplit
<1>8. Sum(moved, rest) = 0
  <2>0. (\A i \in rest : moved[i] = 0) /\ 0 \in Int
    BY <1>2
  <2> HIDE DEF rest
  <2>1. Sum(moved, rest) = 0 * Cardinality(rest)
    BY <1>3, <2>0, SumConst
  <2> QED BY <1>3, <2>1, FS_CardinalityType
<1>9. Sum(moved, U) = sign * Sum(q, U)
  BY <1>2, <1>3, <1>5, SumScale
<1>10. Sum(q, U) \in Int
  BY <1>3, <1>5, SumInt
<1>11. Sum(moved, est) = sign * Sum(q, U)
  BY <1>7, <1>8, <1>9, <1>10
<1> QED BY <1>1, <1>6, <1>11 DEF out, MovedOK

\* Cartons: at least the least one to each row.
RowsKept(ctn, S) == \A i \in S : ctn[i] \in Nat /\ ctn[i] >= MinCtn

\* The estimates took delta from the others, but for what is left.
AbsorbedOK(r, base, est, delta, S) ==
    /\ DOMAIN r.ctn = S /\ r.left \in Int
    /\ \A i \in S \ est : r.ctn[i] = base[i]
    /\ RowsKept(r.ctn, est)
    /\ Sum(r.ctn, est) = Sum(base, est) - (delta - r.left)

\* Units added to some estimated rows are absorbed.
LEMMA AddedToGives ==
    ASSUME NEW S \in SUBSET Int, IsFiniteSet(S), NEW base, DOMAIN base = S, RowsKept(base, S),
           NEW est \in SUBSET S, NEW adders \in SUBSET est, adders # {}, NEW units \in Nat
    PROVE  AbsorbedOK(AddedTo(base, adders, units), base, est, -units, S)
<1> DEFINE w == Restrict(base, adders)
           q == SpreadUnits(units, w)
           out == Moved(base, 1, q)
           r == AddedTo(base, adders, units)
<1>1. r.left = 0 /\ r.ctn = out
  BY DEF AddedTo
<1>2. DOMAIN w = adders /\ Nats(w, adders) /\ IsFiniteSet(adders) /\ adders \in SUBSET Int
  BY FS_Subset DEF Restrict, Nats, RowsKept
<1> HIDE DEF w, r
<1>3. Divided(q, units, w, adders)
  BY <1>2, SpreadUnitsGives
<1> HIDE DEF q
<1>4. DOMAIN q = adders /\ Nats(q, adders) /\ Sum(q, adders) = units
  BY <1>3 DEF Divided
<1>5. Ints(base, S) /\ 1 \in {-1, 1}
  BY DEF RowsKept, Ints
<1>13. MovedOK(out, base, 1, q, adders, est, S)
  BY <1>4, <1>5, MovedGives
<1> HIDE DEF out
<1>6. DOMAIN out = S
  BY <1>13 DEF MovedOK
<1>7. \A i \in S : out[i] = IF i \in adders THEN base[i] + 1 * q[i] ELSE base[i]
  BY <1>13 DEF MovedOK
<1>8. Sum(out, est) = Sum(base, est) + 1 * Sum(q, adders)
  BY <1>13 DEF MovedOK
<1>9. RowsKept(out, est)
  <2> SUFFICES ASSUME NEW i \in est PROVE out[i] \in Nat /\ out[i] >= MinCtn
    BY DEF RowsKept
  <2>1. base[i] \in Nat /\ base[i] >= MinCtn /\ MinCtn = 1 /\ i \in S
    BY DEF RowsKept, MinCtn
  <2>2. i \in adders => q[i] \in Nat
    BY <1>4 DEF Nats
  <2> QED BY <1>7, <2>1, <2>2
<1>10. \A i \in S \ est : out[i] = base[i]
  BY <1>7
<1>11. Sum(base, est) \in Int
  <2>1. IsFiniteSet(est) /\ Ints(base, est)
    BY <1>5, FS_Subset DEF Ints
  <2> QED BY <2>1, SumInt
<1>12. Sum(out, est) = Sum(base, est) - (-units - 0)
  BY <1>4, <1>8, <1>11
<1> QED BY <1>1, <1>6, <1>9, <1>10, <1>12 DEF AbsorbedOK, r

\* Units taken from donors above the least are absorbed, and no row falls below the least.
LEMMA TakenFromGives ==
    ASSUME NEW S \in SUBSET Int, IsFiniteSet(S), NEW base, DOMAIN base = S, RowsKept(base, S),
           NEW est \in SUBSET S, NEW donors \in SUBSET est, donors # {},
           \A i \in donors : base[i] > MinCtn, NEW delta \in Nat
    PROVE  AbsorbedOK(TakenFrom(base, donors, delta), base, est, delta, S)
<1> DEFINE w == [i \in donors |-> base[i] - MinCtn]
           room == Room(base, donors)
           take == Min({delta, room})
           q == SpreadUnits(take, w)
           out == Moved(base, -1, q)
           r == TakenFrom(base, donors, delta)
<1>1. r.left = delta - take /\ r.ctn = out
  BY DEF TakenFrom
<1>2. DOMAIN w = donors /\ Nats(w, donors) /\ IsFiniteSet(donors) /\ donors \in SUBSET Int
      /\ \A i \in donors : w[i] > 0 /\ w[i] = base[i] - 1 /\ base[i] \in Nat
  <2>1. IsFiniteSet(donors) /\ donors \subseteq S
    BY FS_Subset
  <2>2. \A i \in donors : w[i] > 0 /\ w[i] = base[i] - 1 /\ base[i] \in Nat /\ w[i] \in Nat
    BY <2>1 DEF RowsKept, MinCtn
  <2> QED BY <2>1, <2>2 DEF Nats
<1>3. room = Sum(w, donors)
  BY DEF Room, Sum, SumFunction
<1>4. room \in Nat
  <2> HIDE DEF w, room
  <2> QED BY <1>2, <1>3, SumNat
<1>5. take \in Nat /\ take <= room
  <2> HIDE DEF room
  <2> QED BY <1>4, MinOfTwo
<1> HIDE DEF w, r, take, room
<1>6. Divided(q, take, w, donors)
  BY <1>2, <1>5, SpreadUnitsGives
<1> HIDE DEF q
<1>7. DOMAIN q = donors /\ Nats(q, donors) /\ Sum(q, donors) = take
  BY <1>6 DEF Divided
<1>8. \A i \in donors : q[i] <= w[i]
  BY <1>2, <1>3, <1>5, <1>6 DEF Divided
<1>9. Ints(base, S) /\ -1 \in {-1, 1}
  BY DEF RowsKept, Ints
<1>18. MovedOK(out, base, -1, q, donors, est, S)
  BY <1>7, <1>9, MovedGives
<1> HIDE DEF out
<1>10. DOMAIN out = S
  BY <1>18 DEF MovedOK
<1>11. \A i \in S : out[i] = IF i \in donors THEN base[i] + (-1) * q[i] ELSE base[i]
  BY <1>18 DEF MovedOK
<1>12. Sum(out, est) = Sum(base, est) + (-1) * Sum(q, donors)
  BY <1>18 DEF MovedOK
<1>13. RowsKept(out, est)
  <2> SUFFICES ASSUME NEW i \in est PROVE out[i] \in Nat /\ out[i] >= MinCtn
    BY DEF RowsKept
  <2>1. base[i] \in Nat /\ base[i] >= MinCtn /\ MinCtn = 1 /\ i \in S
    BY DEF RowsKept, MinCtn
  <2>2. i \in donors => q[i] \in Nat /\ q[i] <= base[i] - 1
    BY <1>2, <1>7, <1>8 DEF Nats
  <2> QED BY <1>11, <2>1, <2>2
<1>14. \A i \in S \ est : out[i] = base[i]
  BY <1>11
<1>15. Sum(base, est) \in Int
  <2>1. IsFiniteSet(est) /\ Ints(base, est)
    BY <1>9, FS_Subset DEF Ints
  <2> QED BY <2>1, SumInt
<1>16. Sum(out, est) = Sum(base, est) - (delta - (delta - take))
  BY <1>5, <1>7, <1>12, <1>15
<1>17. delta - take \in Int
  BY <1>5
<1> QED BY <1>1, <1>10, <1>13, <1>14, <1>16, <1>17 DEF AbsorbedOK, r

\* There is a donor as long as there is a row to take from.
LEMMA DonorsGive ==
    ASSUME NEW pool \in SUBSET Int, IsFiniteSet(pool), pool # {}, NEW base, Ints(base, pool),
           NEW delta \in Nat, delta > 0
    PROVE  DonorsOf(base, pool, delta) \subseteq pool /\ DonorsOf(base, pool, delta) # {}
<1> DEFINE n == Cardinality(pool)
           lo == Min({CtnDonorMax, n, delta})
           enough == {k \in lo..n : \/ k = n
                                    \/ Room(base, HighestFirst(base, pool, k)) >= delta}
           k == Min(enough)
<1>1. n \in Nat /\ n > 0
  BY FS_CardinalityType, FS_EmptySet
<1>2. DonorsOf(base, pool, delta) = HighestFirst(base, pool, k)
  BY DEF DonorsOf
<1>3. lo \in Nat /\ 1 <= lo /\ lo <= n
  <2> HIDE DEF n
  <2>1. CtnDonorMax \in Nat /\ CtnDonorMax > 0
    BY CtnDonorMaxAssumption
  <2>2. CtnDonorMax \in Int /\ n \in Int /\ delta \in Int
    BY <1>1, <2>1
  <2>3. lo \in {CtnDonorMax, n, delta}
    BY <2>2, MinOfThree
  <2>4. lo <= n
    BY <2>2, MinOfThree
  <2> QED BY <1>1, <2>1, <2>3, <2>4
<1> HIDE DEF lo, n
<1>4. enough \in SUBSET Nat /\ enough # {} /\ \A x \in enough : 1 <= x /\ x <= n
  BY <1>1, <1>3
<1> HIDE DEF enough
<1>5. \E x \in enough : \A y \in enough : x <= y
  BY <1>4, LeastOf
<1>6. k \in enough
  BY <1>5 DEF Min
<1> HIDE DEF k
<1>7. k \in Int /\ 1 <= k /\ k <= n
  <2>1. k \in Nat
    BY <1>4, <1>6
  <2> QED BY <1>4, <1>6, <2>1
<1> QED BY <1>2, <1>7, HighestFirstSome DEF n

\* What the pins move, the estimated rows absorb, down to the least a row may have.
LEMMA AbsorbedGives ==
    ASSUME NEW S \in SUBSET Int, IsFiniteSet(S), NEW base, DOMAIN base = S, RowsKept(base, S),
           NEW est \in SUBSET S, NEW delta \in Int
    PROVE  AbsorbedOK(Absorbed(base, est, delta), base, est, delta, S)
<1> DEFINE pool == {i \in est : base[i] > MinCtn}
           same == [left |-> delta, ctn |-> base]
           n == Cardinality(est)
           k == Min({CtnDonorMax, n, -delta})
           adders == HighestFirst(base, est, k)
           donors == DonorsOf(base, pool, delta)
<1>1. IsFiniteSet(est) /\ est \in SUBSET Int /\ pool \in SUBSET est /\ IsFiniteSet(pool)
  BY FS_Subset
<1>2. Ints(base, S) /\ Ints(base, est) /\ Ints(base, pool) /\ RowsKept(base, est)
  BY DEF RowsKept, Ints
<1>3. AbsorbedOK(same, base, est, delta, S)
  <2>1. Sum(base, est) \in Int
    BY <1>1, <1>2, SumInt
  <2>2. Sum(base, est) = Sum(base, est) - (delta - delta)
    BY <2>1
  <2>3. same.left = delta /\ same.ctn = base
    OBVIOUS
  <2> HIDE DEF same
  <2> QED BY <1>2, <2>2, <2>3 DEF AbsorbedOK
<1>4. CASE ~(delta # 0 /\ est # {})
  <2>1. Absorbed(base, est, delta) = same
    BY <1>4 DEF Absorbed
  <2> QED BY <1>3, <2>1
<1>5. CASE delta < 0 /\ est # {}
  <2>1. n \in Nat /\ n >= 1
    BY <1>1, <1>5, FS_CardinalityType, FS_EmptySet
  <2>2. CtnDonorMax \in Int /\ n \in Int /\ -delta \in Int /\ CtnDonorMax >= 1 /\ -delta >= 1
    BY <1>5, <2>1, CtnDonorMaxAssumption
  <2>3. k \in {CtnDonorMax, n, -delta}
    BY <2>2, MinOfThree
  <2>4. k <= n
    BY <2>2, MinOfThree
  <2>5. k \in Int /\ 1 <= k
    BY <2>1, <2>2, <2>3
  <2> HIDE DEF k
  <2>6. adders \subseteq est /\ adders # {}
    BY <1>1, <1>2, <2>4, <2>5, HighestFirstSome
  <2>7. Absorbed(base, est, delta) = AddedTo(base, adders, -delta)
    BY <1>5 DEF Absorbed, AbsorbIntoEstimates, k
  <2> HIDE DEF adders
  <2> DEFINE units == -delta
  <2>8. units \in Nat /\ delta = -units
    BY <1>5
  <2> HIDE DEF units
  <2>9. AbsorbedOK(AddedTo(base, adders, units), base, est, -units, S)
    BY <2>6, <2>8, AddedToGives
  <2> QED BY <2>7, <2>8, <2>9 DEF units
<1>6. CASE delta > 0 /\ est # {} /\ pool = {}
  <2>1. Absorbed(base, est, delta) = same
    BY <1>6 DEF Absorbed, AbsorbIntoEstimates
  <2> QED BY <1>3, <2>1
<1>7. CASE delta > 0 /\ est # {} /\ pool # {}
  <2>1. Absorbed(base, est, delta) = TakenFrom(base, donors, delta)
    BY <1>7 DEF Absorbed, AbsorbIntoEstimates
  <2>2. delta \in Nat /\ delta > 0
    BY <1>7
  <2>7. pool \in SUBSET Int
    BY <1>1
  <2>3. \A i \in pool : base[i] > MinCtn
    OBVIOUS
  <2> HIDE DEF pool
  <2>4. donors \subseteq pool /\ donors # {}
    BY <1>1, <1>2, <1>7, <2>2, <2>7, DonorsGive
  <2>5. donors \in SUBSET est /\ \A i \in donors : base[i] > MinCtn
    BY <1>1, <2>3, <2>4
  <2> HIDE DEF donors
  <2>6. AbsorbedOK(TakenFrom(base, donors, delta), base, est, delta, S)
    BY <2>2, <2>4, <2>5, TakenFromGives
  <2> QED BY <2>1, <2>6
<1> QED BY <1>4, <1>5, <1>6, <1>7

Parts(S, pins, est, stated) ==
    /\ pins \in SUBSET S /\ stated \in SUBSET S /\ est \in SUBSET S
    /\ est = S \ (pins \cup stated) /\ pins \cap stated = {}

\* The pins, the estimates and the rows the list states.
LEMMA PartsAddUp ==
    ASSUME NEW S, IsFiniteSet(S), NEW base, Ints(base, S), NEW pin, Ints(pin, S),
           NEW pins, NEW est, NEW stated, Parts(S, pins, est, stated),
           NEW out, Ints(out, S), Alike(out, pin, pins), NEW left \in Int,
           Sum(out, stated) = Sum(base, stated) - left,
           Sum(out, est) = Sum(base, est) - ((Sum(pin, pins) - Sum(base, pins)) - left)
    PROVE  Sum(out, S) = Sum(base, S)
<1> DEFINE rest == S \ pins
<1>0. /\ pins \in SUBSET S /\ stated \in SUBSET S /\ est \in SUBSET S
      /\ est = S \ (pins \cup stated) /\ pins \cap stated = {}
  BY DEF Parts
<1>1. /\ IsFiniteSet(pins) /\ IsFiniteSet(est) /\ IsFiniteSet(stated) /\ IsFiniteSet(rest)
      /\ rest \in SUBSET S
  BY <1>0, FS_Subset
<1>2. rest \ stated = est /\ stated \in SUBSET rest
  BY <1>0
<1>3. \A f : Ints(f, S) => Ints(f, pins) /\ Ints(f, est) /\ Ints(f, stated) /\ Ints(f, rest)
  BY <1>0 DEF Ints
<1>4. ASSUME NEW f, Ints(f, S)
      PROVE  /\ Sum(f, S) = Sum(f, pins) + (Sum(f, stated) + Sum(f, est))
             /\ Sum(f, pins) \in Int /\ Sum(f, stated) \in Int /\ Sum(f, est) \in Int
  <2>1. Ints(f, pins) /\ Ints(f, est) /\ Ints(f, stated) /\ Ints(f, rest)
    BY <1>3, <1>4
  <2>2. Sum(f, S) = Sum(f, pins) + Sum(f, S \ pins)
    BY <1>0, <1>4, SumSplit
  <2> HIDE DEF rest
  <2>3. Sum(f, rest) = Sum(f, stated) + Sum(f, rest \ stated)
    BY <1>1, <1>2, <2>1, SumSplit
  <2>4. Sum(f, pins) \in Int /\ Sum(f, stated) \in Int /\ Sum(f, est) \in Int
    BY <1>1, <2>1, SumInt
  <2> QED BY <1>2, <2>2, <2>3, <2>4 DEF rest
<1>5. Sum(out, pins) = Sum(pin, pins)
  BY <1>1, SumSame DEF Alike
<1>6. Sum(pin, pins) \in Int
  BY <1>4
<1>7. /\ Sum(out, S) = Sum(out, pins) + (Sum(out, stated) + Sum(out, est))
      /\ Sum(base, S) = Sum(base, pins) + (Sum(base, stated) + Sum(base, est))
      /\ Sum(base, pins) \in Int /\ Sum(base, stated) \in Int /\ Sum(base, est) \in Int
  BY <1>4
<1> QED BY <1>5, <1>6, <1>7

\* What the carton allocation promises when it does not block.
CartonsGiven(c, pin, auth, S) ==
    /\ c.codes \subseteq CartonCodes
    /\ c.codes = {} =>
         /\ DOMAIN c.ctn = S /\ RowsKept(c.ctn, S) /\ Sum(c.ctn, S) = auth
         /\ \A i \in S : pin[i] > 0 => c.ctn[i] = pin[i]
    /\ "CARTON_ALLOCATION_IMPOSSIBLE" \in c.codes => DOMAIN c.ctn = S /\ RowsKept(c.ctn, S)

\* Whatever the total, shares that are given are at least one carton each.
StatedGiven(shares, total, U) ==
    DOMAIN shares = U /\ RowsKept(shares, U) /\ Sum(shares, U) = total

\* Without ceilings, what Apportion gives keeps the least of each row.
LEMMA ApportionRows ==
    ASSUME NEW w, NEW U \in SUBSET Int, U = DOMAIN w, IsFiniteSet(U), Nats(w, U),
           NEW total \in Int, NEW floor, floor = [i \in U |-> MinCtn],
           NEW none, none = [i \in U |-> 0], Apportion(total, w, floor, none) # Impossible
    PROVE  StatedGiven(Apportion(total, w, floor, none), total, U)
<1> DEFINE q == Apportion(total, w, floor, none)
<1>1. /\ DOMAIN floor = U /\ Nats(floor, U) /\ Nats(none, U)
      /\ \A i \in U : floor[i] = MinCtn
  BY DEF Nats, MinCtn
<1>2. Sum(floor, U) \in Nat
  BY <1>1, SumNat
<1>3. ~(Sum(floor, U) > total)
  BY <1>1, ApportionIs DEF Sum, SumFunction
<1>4. total \in Nat
  BY <1>2, <1>3
<1>5. Apportioned(q, total, floor, none, U)
  BY <1>1, <1>4, ApportionGives
<1> HIDE DEF q
<1>6. DOMAIN q = U /\ Sum(q, U) = total /\ RowsKept(q, U)
  BY <1>1, <1>5 DEF Apportioned, FloorsKept, RowsKept, Nats
<1> QED BY <1>6 DEF StatedGiven, q

\* The cartons without pins add up to the total.
LEMMA NoPinBaselineGives ==
    ASSUME NEW w, NEW S \in SUBSET Int, S = DOMAIN w, IsFiniteSet(S), Nats(w, S),
           NEW auth \in Int, NoPinBaseline(w, auth) # Impossible
    PROVE  StatedGiven(NoPinBaseline(w, auth), auth, S)
<1> DEFINE floor == [i \in S |-> MinCtn]
           none == [i \in S |-> 0]
<1>1. NoPinBaseline(w, auth) = Apportion(auth, w, floor, none)
  BY DEF NoPinBaseline
<1>2. floor = [i \in S |-> MinCtn] /\ none = [i \in S |-> 0]
  OBVIOUS
<1> HIDE DEF floor, none
<1> QED BY <1>1, <1>2, ApportionRows

\* What the estimated rows could not absorb, the stated ones do.
LEMMA StatedSharesGive ==
    ASSUME NEW base, NEW S \in SUBSET Int, IsFiniteSet(S), RowsKept(base, S),
           NEW U \in SUBSET S, NEW left \in Int, StatedShares(base, U, left) # Impossible
    PROVE  StatedGiven(StatedShares(base, U, left), Sum(base, U) - left, U)
<1> DEFINE floor == [i \in U |-> MinCtn]
           none == [i \in U |-> 0]
           w == Restrict(base, U)
           total == Sum(base, U) - left
<1>1. U # {} /\ StatedShares(base, U, left) = Apportion(total, w, floor, none)
  BY DEF StatedShares, Sum
<1>2. floor = [i \in U |-> MinCtn] /\ none = [i \in U |-> 0]
  OBVIOUS
<1>3. DOMAIN w = U /\ Nats(w, U) /\ IsFiniteSet(U) /\ U \in SUBSET Int
  BY FS_Subset DEF Restrict, Nats, RowsKept
<1>4. total \in Int
  <2>1. Ints(base, U)
    BY DEF Ints, RowsKept
  <2> QED BY <1>3, <2>1, SumInt
<1> HIDE DEF floor, none, w, total
<1>5. StatedGiven(Apportion(total, w, floor, none), total, U)
  BY <1>1, <1>2, <1>3, <1>4, ApportionRows
<1> QED BY <1>1, <1>5 DEF total

\* Pins, stated and estimated rows together: the total and the pins are kept.
LEMMA AfterEstimatesGives ==
    ASSUME NEW S \in SUBSET Int, IsFiniteSet(S), NEW base, DOMAIN base = S, RowsKept(base, S),
           NEW pin, DOMAIN pin = S, Nats(pin, S), NEW pins, pins = {i \in S : pin[i] > 0},
           NEW stated, stated \in SUBSET S, pins \cap stated = {},
           NEW est, est = S \ (pins \cup stated),
           NEW delta, delta = Sum(pin, pins) - Sum(base, pins),
           NEW r, AbsorbedOK(r, base, est, delta, S)
    PROVE  CartonsGiven(AfterEstimates(base, pin, stated, r), pin, Sum(base, S), S)
<1> DEFINE shares == StatedShares(base, stated, r.left)
           c == AfterEstimates(base, pin, stated, r)
<1>0. /\ Ints(base, S) /\ Ints(pin, S) /\ pins \in SUBSET S /\ est \in SUBSET S
      /\ r.left \in Int /\ DOMAIN r.ctn = S /\ RowsKept(r.ctn, est)
      /\ \A i \in S \ est : r.ctn[i] = base[i]
      /\ Sum(r.ctn, est) = Sum(base, est) - (delta - r.left)
      /\ IsFiniteSet(est) /\ IsFiniteSet(stated)
  <2>1. Ints(base, S) /\ Ints(pin, S) /\ pins \in SUBSET S /\ est \in SUBSET S
    BY DEF Ints, RowsKept, Nats
  <2>2. IsFiniteSet(est) /\ IsFiniteSet(stated)
    BY <2>1, FS_Subset
  <2> QED BY <2>1, <2>2 DEF AbsorbedOK
<1>1. ASSUME NEW z, RowsKept(z, stated), Sum(z, stated) = Sum(base, stated) - r.left,
             NEW out, DOMAIN out = S,
             \A i \in S : out[i] = IF pin[i] > 0 THEN pin[i]
                                   ELSE IF i \in stated THEN z[i] ELSE r.ctn[i]
      PROVE  CartonsGiven(Cartons(out), pin, Sum(base, S), S)
  <2>1. (\A i \in pins : out[i] = pin[i]) /\ (\A i \in stated : out[i] = z[i])
        /\ (\A i \in est : out[i] = r.ctn[i])
    BY <1>1
  <2>2. RowsKept(out, S)
    <3> SUFFICES ASSUME NEW i \in S PROVE out[i] \in Nat /\ out[i] >= MinCtn
      BY DEF RowsKept
    <3>1. CASE i \in pins
      <4>1. pin[i] \in Nat /\ pin[i] > 0
        BY <3>1 DEF Nats
      <4> QED BY <2>1, <3>1, <4>1 DEF MinCtn
    <3>2. CASE i \in stated
      BY <1>1, <2>1, <3>2 DEF RowsKept
    <3>3. CASE i \in est
      BY <1>0, <2>1, <3>3 DEF RowsKept
    <3> QED BY <3>1, <3>2, <3>3
  <2>3. Ints(out, S)
    BY <2>2 DEF RowsKept, Ints
  <2>4. Sum(out, est) = Sum(r.ctn, est)
    BY <1>0, <2>1, SumSame
  <2>5. Sum(out, stated) = Sum(z, stated)
    BY <1>0, <2>1, SumSame
  <2>6. Sum(out, S) = Sum(base, S)
    <3>1. Alike(out, pin, pins)
      BY <2>1 DEF Alike
    <3>4. PICK left : left = r.left
      OBVIOUS
    <3>2. Sum(out, est) = Sum(base, est) - ((Sum(pin, pins) - Sum(base, pins)) - left)
      BY <1>0, <2>4, <3>4
    <3>3. Sum(out, stated) = Sum(base, stated) - left
      BY <1>1, <2>5, <3>4
    <3>5. left \in Int /\ Ints(base, S) /\ Ints(pin, S)
      BY <1>0, <3>4
    <3>6. Parts(S, pins, est, stated)
      BY <1>0 DEF Parts
    <3> QED BY <2>3, <3>1, <3>2, <3>3, <3>5, <3>6, PartsAddUp
  <2>7. \A i \in S : pin[i] > 0 => out[i] = pin[i]
    BY <1>1
  <2>8. Cartons(out).ctn = out /\ Cartons(out).codes = {}
    BY DEF Cartons
  <2> QED BY <1>1, <2>2, <2>6, <2>7, <2>8 DEF CartonsGiven
<1>2. CASE r.left = 0
  <2> DEFINE out == Pinned(pin, r.ctn)
  <2>1. c = Cartons(out)
    BY <1>2 DEF AfterEstimates
  <2>2. DOMAIN out = S /\ \A i \in S : out[i] = IF pin[i] > 0 THEN pin[i] ELSE r.ctn[i]
    BY DEF Pinned
  <2> HIDE DEF out
  <2>3. \A i \in stated : r.ctn[i] = base[i]
    BY <1>0
  <2>4. \A i \in S : out[i] = IF pin[i] > 0 THEN pin[i]
                              ELSE IF i \in stated THEN base[i] ELSE r.ctn[i]
    BY <2>2, <2>3
  <2>5. RowsKept(base, stated) /\ Sum(base, stated) = Sum(base, stated) - r.left
    <3>1. Ints(base, stated)
      BY <1>0 DEF Ints
    <3>2. Sum(base, stated) \in Int
      BY <1>0, <3>1, SumInt
    <3> QED BY <1>2, <3>2 DEF RowsKept
  <2>6. CartonsGiven(Cartons(out), pin, Sum(base, S), S)
    BY <1>1, <2>2, <2>4, <2>5
  <2> QED BY <2>1, <2>6
<1>3. CASE r.left # 0 /\ shares = Impossible
  <2>1. c = CartonsBlocked(Pinned(pin, r.ctn), "REVIEWED_CTN_EXCEEDS_AUTHORITY", 0)
    BY <1>3 DEF AfterEstimates, WithStated
  <2>2. c.codes = {"REVIEWED_CTN_EXCEEDS_AUTHORITY"}
    BY <2>1 DEF CartonsBlocked
  <2> HIDE DEF c
  <2>3. CartonsGiven(c, pin, Sum(base, S), S)
    BY <2>2 DEF CartonsGiven, CartonCodes
  <2> QED BY <2>3 DEF c
<1>4. CASE r.left # 0 /\ shares # Impossible
  <2> DEFINE mixed == [i \in DOMAIN pin |-> IF i \in stated THEN shares[i] ELSE r.ctn[i]]
             out == Pinned(pin, mixed)
  <2>1. c = Cartons(out)
    BY <1>4 DEF AfterEstimates, WithStated
  <2>2. DOMAIN out = S /\ \A i \in S : out[i] = IF pin[i] > 0 THEN pin[i]
                                ELSE IF i \in stated THEN shares[i] ELSE r.ctn[i]
    BY DEF Pinned
  <2>3. StatedGiven(shares, Sum(base, stated) - r.left, stated)
    BY <1>0, <1>4, StatedSharesGive
  <2> HIDE DEF out, shares
  <2>4. RowsKept(shares, stated) /\ Sum(shares, stated) = Sum(base, stated) - r.left
    BY <2>3 DEF StatedGiven
  <2>5. CartonsGiven(Cartons(out), pin, Sum(base, S), S)
    BY <1>1, <2>2, <2>4
  <2> QED BY <2>1, <2>5
<1> QED BY <1>2, <1>3, <1>4

\* The cartons add up to the total, keep the pins and the least of each row, or a code says
\* why not (_allocate_cartons).
LEMMA AllocateCartonsGives ==
    ASSUME NEW w, NEW S \in SUBSET Int, S = DOMAIN w, IsFiniteSet(S), Nats(w, S),
           NEW evidence \in SUBSET S, NEW pin, DOMAIN pin = S, Nats(pin, S), NEW auth \in Nat
    PROVE  CartonsGiven(AllocateCartons(w, evidence, pin, auth), pin, auth, S)
<1> DEFINE unpinned == {i \in S : pin[i] = 0}
           pins == {i \in S : pin[i] > 0}
           pinSum == Sum(pin, S)
           base == NoPinBaseline(w, auth)
           c == AllocateCartons(w, evidence, pin, auth)
           stated == evidence \ pins
           est == S \ (pins \cup evidence)
           moved == [i \in pins |-> pin[i] - base[i]]
           delta == SumFunction(moved)
           r == Absorbed(base, est, delta)
<1>1. \/ unpinned = {} /\ pinSum = auth /\ c = Cartons(pin)
      \/ /\ c.codes # {} /\ c.codes \subseteq CartonCodes
         /\ \/ "CARTON_ALLOCATION_IMPOSSIBLE" \notin c.codes
            \/ c.ctn = [i \in S |-> MinCtn]
      \/ base # Impossible /\ c = AfterEstimates(base, pin, stated, r)
  <2>1. SumFunction(pin) = pinSum
    BY DEF Sum, SumFunction
  <2>2. CASE unpinned = {}
    BY <2>1, <2>2 DEF AllocateCartons, CartonsBlocked, CartonCodes
  <2>3. CASE unpinned # {} /\ pinSum > 0 /\ auth - pinSum < MinCtn * Cardinality(unpinned)
    BY <2>1, <2>3 DEF AllocateCartons, CartonsBlocked, CartonCodes
  <2>4. CASE /\ unpinned # {}
             /\ ~(pinSum > 0 /\ auth - pinSum < MinCtn * Cardinality(unpinned))
    <3>1. c = FromBaseline(base, evidence, pin)
      BY <2>1, <2>4 DEF AllocateCartons
    <3>2. CASE base = Impossible
      BY <3>1, <3>2 DEF FromBaseline, CartonsBlocked, CartonCodes
    <3>3. CASE base # Impossible
      BY <3>1, <3>3 DEF FromBaseline
    <3> QED BY <3>2, <3>3
  <2> QED BY <2>2, <2>3, <2>4
<1>2. CASE unpinned = {} /\ pinSum = auth /\ c = Cartons(pin)
  <2>1. c.ctn = pin /\ c.codes = {}
    BY <1>2 DEF Cartons
  <2>2. RowsKept(pin, S)
    BY <1>2 DEF RowsKept, Nats, MinCtn
  <2> HIDE DEF c
  <2>3. CartonsGiven(c, pin, auth, S)
    BY <1>2, <2>1, <2>2 DEF CartonsGiven
  <2> QED BY <2>3 DEF c
<1>3. CASE /\ c.codes # {} /\ c.codes \subseteq CartonCodes
           /\ \/ "CARTON_ALLOCATION_IMPOSSIBLE" \notin c.codes
              \/ c.ctn = [i \in S |-> MinCtn]
  <2> DEFINE least == [i \in S |-> MinCtn]
  <2>1. DOMAIN least = S /\ RowsKept(least, S)
    BY DEF RowsKept, MinCtn
  <2> HIDE DEF c, least
  <2>2. CartonsGiven(c, pin, auth, S)
    BY <1>3, <2>1 DEF CartonsGiven, least
  <2> QED BY <2>2 DEF c
<1>4. CASE base # Impossible /\ c = AfterEstimates(base, pin, stated, r)
  <2>1. StatedGiven(base, auth, S)
    BY <1>4, NoPinBaselineGives
  <2> HIDE DEF base, c, r
  <2>2. DOMAIN base = S /\ RowsKept(base, S) /\ Sum(base, S) = auth
    BY <2>1 DEF StatedGiven
  <2>3. est \in SUBSET S /\ stated \in SUBSET S /\ pins \cap stated = {}
        /\ est = S \ (pins \cup stated) /\ pins \in SUBSET S /\ IsFiniteSet(pins)
    BY FS_Subset
  <2>4. delta = Sum(pin, pins) - Sum(base, pins) /\ delta \in Int
    <3>1. \A i \in pins : moved[i] = pin[i] - base[i] /\ pin[i] \in Int /\ base[i] \in Int
      BY <2>2 DEF Nats, RowsKept
    <3>2. delta = Sum(moved, pins)
      BY DEF Sum, SumFunction
    <3> HIDE DEF moved, delta, pins
    <3>3. Ints(moved, pins) /\ Ints(pin, pins) /\ Ints(base, pins)
      BY <3>1 DEF Ints
    <3>4. \A i \in pins : pin[i] = moved[i] + base[i]
      BY <3>1
    <3>5. Sum(pin, pins) = Sum(moved, pins) + Sum(base, pins)
      BY <2>3, <3>3, <3>4, SumPlus
    <3>6. Sum(moved, pins) \in Int /\ Sum(base, pins) \in Int
      BY <2>3, <3>3, SumInt
    <3> QED BY <3>2, <3>5, <3>6
  <2> HIDE DEF delta, est, stated
  <2>5. AbsorbedOK(r, base, est, delta, S)
    BY <2>2, <2>3, <2>4, AbsorbedGives DEF r
  <2>6. CartonsGiven(AfterEstimates(base, pin, stated, r), pin, Sum(base, S), S)
    BY <2>2, <2>3, <2>4, <2>5, AfterEstimatesGives
  <2>7. CartonsGiven(c, pin, auth, S)
    BY <1>4, <2>2, <2>6
  <2> QED BY <2>7 DEF c
<1> QED BY <1>1, <1>2, <1>3, <1>4

-----------------------------------------------------------------------------
(* The table of an allocation.                                              *)

\* The authority an allocation goes by is a number of steps.
LEMMA AuthorityGives ==
    ASSUME NEW S, IsFiniteSet(S), NEW prov, Basis(prov, S), NEW ev, NEW gross \in Int
    PROVE  /\ AuthorisedGross(ev, prov, gross) \in Nat
           /\ gross > 0 => AuthorisedGross(ev, prov, gross) = gross
<1> DEFINE scaled == Scaled(prov)
           total == SumFunction(scaled)
           common == CommonDenominator(prov)
<1>1. DOMAIN scaled = S /\ Nats(scaled, S)
  BY ScaledGives
<1>2. common \in Nat /\ common > 0
  BY CommonDenominatorPositive
<1> HIDE DEF scaled, common
<1>3. total \in Nat
  BY <1>1, SumNat DEF Sum, SumFunction
<1> HIDE DEF total
<1>4. /\ total * One \in Nat /\ common * CtnOne \in Nat /\ common * CtnOne > 0
  BY <1>2, <1>3, StepsAssumption, TimesNat, PositiveTimes
<1>5. HalfUp(total * One, common * CtnOne) \in Nat /\ HalfUp(total, common) \in Nat
  BY <1>2, <1>3, <1>4, HalfUpNat
<1>6. AuthorisedGross(ev, prov, gross)
        = IF gross > 0 THEN gross
          ELSE IF HaveCarton(ev) /\ ~HaveGross(ev) THEN HalfUp(total * One, common * CtnOne)
          ELSE HalfUp(total, common)
  BY DEF AuthorisedGross, total, common, scaled
<1> QED BY <1>5, <1>6

\* The parts of a table: its ladder, its gross weights, its cartons.
Made(t, items, l, g, c) ==
    /\ t.gross = g.gross /\ t.net = FinalNets(items, l, g.gross) /\ t.ctn = c.ctn
    /\ g.codes \cup c.codes \subseteq t.codes
    /\ t.codes = {} => \A i \in DOMAIN items : ~(t.gross[i] > 0 /\ t.net[i] >= t.gross[i])
    /\ "WEIGHT_RECONCILIATION_IMPOSSIBLE" \notin t.codes =>
            \A i \in DOMAIN items : ~(t.gross[i] > 0 /\ t.net[i] >= t.gross[i])

\* The figures of a table are those of its parts, and its codes contain theirs.
LEMMA TableIsMade ==
    ASSUME NEW items, NEW ev, NEW auth, NEW l, NEW g, NEW nets, nets = FinalNets(items, l, g.gross),
           NEW weight, NEW c, NEW authCtn
    PROVE  Made(AllocationTable(items, ev, auth, l, g, nets, weight, c, authCtn), items, l, g, c)
<1> DEFINE t == AllocationTable(items, ev, auth, l, g, nets, weight, c, authCtn)
           inverted == {i \in DOMAIN items : g.gross[i] > 0 /\ nets[i] >= g.gross[i]}
           check == IF authCtn = 0 THEN {}
                    ELSE CartonLatticeCheck(c.ctn, authCtn, g.codes \cup c.codes # {})
<1>1. /\ t.gross = g.gross /\ t.net = nets /\ t.ctn = c.ctn
      /\ t.codes = g.codes \cup c.codes
                     \cup (IF inverted # {} THEN {"WEIGHT_RECONCILIATION_IMPOSSIBLE"} ELSE {})
                     \cup check
  BY DEF AllocationTable
<1> HIDE DEF t, check
<1>2. "WEIGHT_RECONCILIATION_IMPOSSIBLE" \notin t.codes => inverted = {}
  BY <1>1
<1>3. inverted = {} => \A i \in DOMAIN items : ~(t.gross[i] > 0 /\ t.net[i] >= t.gross[i])
  BY <1>1
<1>4. t.codes = {} => "WEIGHT_RECONCILIATION_IMPOSSIBLE" \notin t.codes
  OBVIOUS
<1>5. g.codes \cup c.codes \subseteq t.codes
  BY <1>1
<1> HIDE DEF inverted
<1> QED BY <1>1, <1>2, <1>3, <1>4, <1>5 DEF Made, t

\* What a table promises whatever the authority: nothing, zero or a total.
TableGives(t, items, gross, packages) ==
    /\ t.codes \cap GrossCodes = {} =>
         /\ DOMAIN t.gross = DOMAIN items
         /\ gross > 0 => SumFunction(t.gross) = gross
    /\ "WEIGHT_RECONCILIATION_IMPOSSIBLE" \notin t.codes /\ t.codes \cap GrossCodes = {}
         => \A i \in DOMAIN items : t.net[i] < t.gross[i]
    /\ t.codes \cap CartonCodes = {} /\ packages > 0 =>
         /\ DOMAIN t.ctn = DOMAIN items
         /\ SumFunction(t.ctn) = packages
    /\ t.codes \cap CartonCodes \subseteq {"CARTON_ALLOCATION_IMPOSSIBLE"} /\ packages > 0 =>
         /\ DOMAIN t.ctn = DOMAIN items
         /\ RowsKept(t.ctn, DOMAIN items)

\* In a row whose gross was found, the net that is printed stays below it unless the gross was
\* pinned, and pins stand.
LEMMA NetsStayBelow ==
    ASSUME NEW items, NEW ev, FiguresOK(items, ev), NEW l, LadderOK(l, items), NEW g, NEW auth,
           GrossGiven(g, items, l, auth), g.codes = {}, NEW i \in DOMAIN items,
           NEW nets, nets = FinalNets(items, l, g.gross)
    PROVE  /\ g.gross[i] > 0 /\ g.gross[i] \in Nat /\ nets[i] \in Int
           /\ items[i].pinGross > 0 => g.gross[i] = items[i].pinGross
           /\ items[i].pinNet > 0 => nets[i] = items[i].pinNet
           /\ nets[i] < g.gross[i] \/ items[i].pinGross > 0
<1>1. /\ items[i].pinGross \in Nat /\ g.gross[i] \in Nat /\ l.rungs[i].net \in Nat
      /\ items[i].pinGross > 0 => g.gross[i] = items[i].pinGross
      /\ items[i].pinGross = 0 => g.gross[i] >= l.rungs[i].net + 1
      /\ items[i].pinNet > 0 => l.rungs[i].net = items[i].pinNet /\ l.rungs[i].src = Reviewer
  BY DEF FiguresOK, LadderOK, GrossGiven, Nats, Nets, FloorOf, Eps
<1>2. g.gross[i] > 0
  BY <1>1
<1>3. nets[i] = IF l.rungs[i].src = Ratio THEN RatioNet(g.gross[i]) ELSE l.rungs[i].net
  BY <1>1, <1>2 DEF FinalNets
<1>4. RatioNet(g.gross[i]) \in Nat /\ RatioNet(g.gross[i]) < g.gross[i]
  <2>1. PICK w \in Nat : w = g.gross[i] /\ w > 0
    BY <1>1, <1>2
  <2>2. (7 * w) \div 10 < w /\ (7 * w) \div 10 \in Nat
    BY <2>1
  <2> QED BY <2>1, <2>2 DEF RatioNet
<1>5. items[i].pinNet > 0 => nets[i] = items[i].pinNet
  BY <1>1, <1>3 DEF Reviewer, Ratio
<1> QED BY <1>1, <1>2, <1>3, <1>4, <1>5

\* An allocation is exact or says why not, for items of any number, weights and evidence:
\* the gross weights and the cartons add up to the authorised totals to the last step, nets stay
\* below gross weights and what was pinned stands (allocate_weights_and_cartons).
THEOREM AllocationReconciles ==
    ASSUME NEW items, NEW ev, FiguresOK(items, ev), items # << >>, NEW packing,
           NEW gross \in Int, NEW packages \in Int
    PROVE  /\ gross > 0 => ExactOrBlocked(Allocate(items, ev, packing, gross, packages),
                                          items, gross, packages)
           /\ TableGives(Allocate(items, ev, packing, gross, packages), items, gross, packages)
<1> DEFINE S == DOMAIN items
           prov == ProvisionalBasis(items, ev, packing)
           auth == AuthorisedGross(ev, prov, gross)
           l == Ladder(items, ev, prov, auth)
           g == AllocateGross(items, l, auth)
           nets == FinalNets(items, l, g.gross)
           basis == CartonBasis(items, ev, g.gross, l.basis)
           weight == Scaled(basis)
           pin == [i \in S |-> items[i].pinCtn]
           stated == {i \in S : ev[i].ctn > 0}
           c == IF packages = 0 THEN Cartons(pin) ELSE AllocateCartons(weight, stated, pin, packages)
           t == Allocate(items, ev, packing, gross, packages)
<1>1. t = AllocationTable(items, ev, auth, l, g, nets, weight, c, packages)
  BY DEF Allocate, BasisStep, AuthorityStep, LadderStep, GrossStep, CartonStep
<1>2. IsFiniteSet(S) /\ S \in SUBSET Int /\ S \subseteq Int
  BY DEF FiguresOK
<1> HIDE DEF t, c, weight, basis, nets, g, l, auth, prov, stated
<1>3. Basis(prov, S)
  BY <1>2, ProvisionalBasisGives DEF prov
<1>4. auth \in Nat /\ (gross > 0 => auth = gross)
  BY <1>2, <1>3, AuthorityGives DEF auth
<1>5. LadderOK(l, items)
  BY <1>2, <1>3, LadderGives DEF l
<1>6. GrossGiven(g, items, l, auth)
  BY <1>2, <1>4, <1>5, AllocateGrossGives DEF g
<1>7. Made(t, items, l, g, c)
  BY <1>1, TableIsMade DEF nets
<1>8. t.gross = g.gross /\ t.net = nets /\ t.ctn = c.ctn /\ g.codes \cup c.codes \subseteq t.codes
  BY <1>7 DEF Made, nets
<1>9. ASSUME t.codes \cap GrossCodes = {}
      PROVE  /\ g.codes = {} /\ DOMAIN t.gross = S
             /\ gross > 0 => SumFunction(t.gross) = gross
             /\ \A i \in S : /\ t.gross[i] > 0 /\ t.gross[i] \in Nat /\ t.net[i] \in Int
                             /\ items[i].pinGross > 0 => t.gross[i] = items[i].pinGross
                             /\ items[i].pinNet > 0 => t.net[i] = items[i].pinNet
                             /\ t.net[i] < t.gross[i] \/ items[i].pinGross > 0
  <2>1. g.codes = {}
    BY <1>6, <1>8, <1>9 DEF GrossGiven
  <2>2. DOMAIN g.gross = S /\ Sum(g.gross, S) = auth
    BY <1>6, <2>1 DEF GrossGiven
  <2>3. (gross > 0 => SumFunction(t.gross) = gross) /\ DOMAIN t.gross = S
    BY <1>4, <1>8, <2>2 DEF Sum, SumFunction
  <2>4. ASSUME NEW i \in S
        PROVE  /\ g.gross[i] > 0 /\ g.gross[i] \in Nat /\ nets[i] \in Int
               /\ items[i].pinGross > 0 => g.gross[i] = items[i].pinGross
               /\ items[i].pinNet > 0 => nets[i] = items[i].pinNet
               /\ nets[i] < g.gross[i] \/ items[i].pinGross > 0
    BY <1>5, <1>6, <2>1, <2>4, NetsStayBelow DEF nets
  <2> QED BY <1>8, <2>1, <2>3, <2>4
<1>10. ASSUME t.codes \cap GrossCodes = {}, "WEIGHT_RECONCILIATION_IMPOSSIBLE" \notin t.codes
       PROVE  \A i \in S : t.net[i] < t.gross[i]
  <2> SUFFICES ASSUME NEW i \in S PROVE t.net[i] < t.gross[i]
    OBVIOUS
  <2>1. ~(t.gross[i] > 0 /\ t.net[i] >= t.gross[i])
    BY <1>7, <1>10 DEF Made
  <2>2. t.gross[i] > 0 /\ t.gross[i] \in Nat /\ t.net[i] \in Int
    BY <1>9, <1>10
  <2> QED BY <2>1, <2>2
<1>11. ASSUME packages > 0
       PROVE  CartonsGiven(c, pin, packages, S) /\ \A i \in S : pin[i] = items[i].pinCtn
  <2>1. Nats(g.gross, S)
    BY <1>6 DEF GrossGiven
  <2>2. Basis(l.basis, S)
    BY <1>5 DEF LadderOK
  <2>3. PICK gg, bb : gg = g.gross /\ bb = l.basis
    OBVIOUS
  <2>4. Basis(CartonBasis(items, ev, gg, bb), S)
    BY <1>2, <2>1, <2>2, <2>3, CartonBasisGives
  <2>5. DOMAIN weight = S /\ Nats(weight, S)
    BY <1>2, <2>3, <2>4, ScaledGives DEF weight, basis
  <2>6. DOMAIN pin = S /\ Nats(pin, S) /\ \A i \in S : pin[i] = items[i].pinCtn
    BY DEF FiguresOK, Nats
  <2>7. stated \in SUBSET S
    BY DEF stated
  <2> HIDE DEF pin, S
  <2>8. packages \in Nat /\ c = AllocateCartons(weight, stated, pin, packages)
    BY <1>11 DEF c
  <2>9. CartonsGiven(c, pin, packages, S)
    BY <1>2, <2>5, <2>6, <2>7, <2>8, AllocateCartonsGives
  <2> QED BY <2>6, <2>9
<1> HIDE DEF pin
<1>12. ASSUME t.codes \cap CartonCodes = {}, packages > 0
       PROVE  /\ DOMAIN t.ctn = S /\ SumFunction(t.ctn) = packages
              /\ \A i \in S : /\ t.ctn[i] >= MinCtn
                              /\ items[i].pinCtn > 0 => t.ctn[i] = items[i].pinCtn
  <2>1. c.codes = {}
    BY <1>8, <1>11, <1>12 DEF CartonsGiven
  <2>2. DOMAIN c.ctn = S /\ RowsKept(c.ctn, S) /\ Sum(c.ctn, S) = packages
        /\ \A i \in S : pin[i] > 0 => c.ctn[i] = pin[i]
    BY <1>11, <1>12, <2>1 DEF CartonsGiven
  <2>3. SumFunction(t.ctn) = packages /\ DOMAIN t.ctn = S
    BY <1>8, <2>2 DEF Sum, SumFunction
  <2>4. ASSUME NEW i \in S
        PROVE  t.ctn[i] >= MinCtn /\ (items[i].pinCtn > 0 => t.ctn[i] = items[i].pinCtn)
    BY <1>8, <1>11, <1>12, <2>2 DEF RowsKept
  <2> QED BY <2>3, <2>4
<1>13. ASSUME t.codes \cap CartonCodes \subseteq {"CARTON_ALLOCATION_IMPOSSIBLE"}, packages > 0
       PROVE  DOMAIN t.ctn = S /\ RowsKept(t.ctn, S)
  <2>1. c.codes = {} \/ "CARTON_ALLOCATION_IMPOSSIBLE" \in c.codes
    <3>1. c.codes \subseteq CartonCodes /\ c.codes \subseteq t.codes
      BY <1>8, <1>11, <1>13 DEF CartonsGiven
    <3> QED BY <1>13, <3>1
  <2>2. DOMAIN c.ctn = S /\ RowsKept(c.ctn, S)
    BY <1>11, <1>13, <2>1 DEF CartonsGiven
  <2> QED BY <1>8, <2>2
<1>14. t.codes = {} => \A i \in S : t.net[i] < t.gross[i]
  BY <1>10
<1>15. gross > 0 => ExactOrBlocked(t, items, gross, packages)
  BY <1>9, <1>14, <1>12 DEF ExactOrBlocked
<1>16. TableGives(t, items, gross, packages)
  BY <1>9, <1>10, <1>12, <1>13 DEF TableGives
<1> QED BY <1>15, <1>16 DEF t

-----------------------------------------------------------------------------
(* Descriptions yield until the floors fit.                                 *)

\* What the unpinned items need at least while the descriptions in `out' are rejected.
Floors(rungs, unpinned, out) ==
    [j \in unpinned |-> IF j \in out THEN Eps ELSE FloorOf(rungs[j])]

\* The floors are positive numbers, and the more is rejected the lower they are.
LEMMA FloorsFall ==
    ASSUME NEW S, IsFiniteSet(S), NEW rungs, Nets(rungs, S), NEW out, NEW more, out \subseteq more
    PROVE  /\ Nats(Floors(rungs, S, out), S) /\ Ints(Floors(rungs, S, out), S)
           /\ Sum(Floors(rungs, S, more), S) <= Sum(Floors(rungs, S, out), S)
<1>1. \A i \in S : FloorOf(rungs[i]) \in Nat /\ FloorOf(rungs[i]) >= 1
  BY DEF Nets, FloorOf, Eps
<1>2. \A x, i : i \in S => Floors(rungs, S, x)[i] = IF i \in x THEN 1 ELSE FloorOf(rungs[i])
  BY DEF Floors, Eps
<1>3. \A x : Nats(Floors(rungs, S, x), S) /\ Ints(Floors(rungs, S, x), S)
  BY <1>1, <1>2 DEF Nats, Ints
<1>4. \A i \in S : Floors(rungs, S, more)[i] <= Floors(rungs, S, out)[i]
  BY <1>1, <1>2
<1> QED BY <1>3, <1>4, SumLe

\* Of descriptions, the ones read as heavier come first.
Heavier(rungs, read) ==
    [i \in read |-> {j \in read : \/ rungs[j].net > rungs[i].net
                                  \/ rungs[j].net = rungs[i].net /\ j < i}]

Described(rungs, S) == {i \in S : rungs[i].src = Description}

\* Which descriptions are rejected.
LEMMA RejectedAre ==
    ASSUME NEW rungs, NEW unpinned, NEW room \in Int, room >= 0,
           NEW read, read = Described(rungs, unpinned)
    PROVE  RejectedDescriptions(rungs, unpinned, room)
             = {i \in read : Sum(Floors(rungs, unpinned, Heavier(rungs, read)[i]), unpinned) > room}
<1> DEFINE before(i) == {j \in read : \/ rungs[j].net > rungs[i].net
                                      \/ rungs[j].net = rungs[i].net /\ j < i}
           need(i) == SumFunction([j \in unpinned |-> IF j \in before(i) THEN Eps
                                                      ELSE FloorOf(rungs[j])])
<1>1. RejectedDescriptions(rungs, unpinned, room)
        = IF room < 0 THEN {} ELSE {i \in read : need(i) > room}
  BY DEF RejectedDescriptions, Described
<1>2. ASSUME NEW i \in read
      PROVE  need(i) = Sum(Floors(rungs, unpinned, Heavier(rungs, read)[i]), unpinned)
  <2>1. Heavier(rungs, read)[i] = before(i)
    BY DEF Heavier
  <2> HIDE DEF before
  <2>2. Floors(rungs, unpinned, Heavier(rungs, read)[i])
          = [j \in unpinned |-> IF j \in before(i) THEN Eps ELSE FloorOf(rungs[j])]
    BY <2>1 DEF Floors
  <2> QED BY <2>2 DEF Sum, SumFunction
<1> HIDE DEF need
<1> QED BY <1>1, <1>2

LEMMA HeavierIs ==
    ASSUME NEW rungs, NEW read
    PROVE  \A x \in read : Heavier(rungs, read)[x]
             = {k \in read : \/ rungs[k].net > rungs[x].net
                             \/ rungs[k].net = rungs[x].net /\ k < x}
BY DEF Heavier

\* Of two descriptions one is heavier, and what is heavier than it is fewer.
LEMMA HeavierFalls ==
    ASSUME NEW read \in SUBSET Int, IsFiniteSet(read), NEW rungs, Nets(rungs, read),
           NEW i \in read, NEW j \in Heavier(rungs, read)[i]
    PROVE  /\ j \in read /\ Cardinality(Heavier(rungs, read)[j]) \in Nat
           /\ Cardinality(Heavier(rungs, read)[i]) \in Nat
           /\ Cardinality(Heavier(rungs, read)[j]) < Cardinality(Heavier(rungs, read)[i])
<1> DEFINE hj == Heavier(rungs, read)[j]
           hi == Heavier(rungs, read)[i]
<1>0. \A x \in read : Heavier(rungs, read)[x]
        = {k \in read : \/ rungs[k].net > rungs[x].net
                        \/ rungs[k].net = rungs[x].net /\ k < x}
  BY HeavierIs
<1>1. hi = {k \in read : \/ rungs[k].net > rungs[i].net
                         \/ rungs[k].net = rungs[i].net /\ k < i}
  BY <1>0
<1>2. j \in read
  BY <1>1
<1>3. hj = {k \in read : \/ rungs[k].net > rungs[j].net
                         \/ rungs[k].net = rungs[j].net /\ k < j}
  BY <1>0, <1>2
<1>4. \A k \in read : rungs[k].net \in Int /\ k \in Int
  BY DEF Nets
<1>5. hj \subseteq hi
  <2> SUFFICES ASSUME NEW k \in hj PROVE k \in hi
    OBVIOUS
  <2>1. /\ k \in read /\ j \in read /\ i \in read
        /\ rungs[k].net \in Int /\ rungs[j].net \in Int /\ rungs[i].net \in Int
        /\ k \in Int /\ j \in Int /\ i \in Int
    BY <1>2, <1>3, <1>4
  <2>2. rungs[k].net > rungs[j].net \/ (rungs[k].net = rungs[j].net /\ k < j)
    BY <1>3
  <2>3. rungs[j].net > rungs[i].net \/ (rungs[j].net = rungs[i].net /\ j < i)
    BY <1>1
  <2>4. rungs[k].net > rungs[i].net \/ (rungs[k].net = rungs[i].net /\ k < i)
    BY <2>1, <2>2, <2>3
  <2> QED BY <1>1, <2>1, <2>4
<1>6. j \in hi /\ j \notin hj
  BY <1>2, <1>3, <1>4
<1>7. IsFiniteSet(hi) /\ IsFiniteSet(hj)
  BY <1>1, <1>3, FS_Subset
<1> HIDE DEF hi, hj
<1>8. Cardinality(hj) < Cardinality(hi)
  <2>1. hj \subseteq hi /\ hj # hi
    BY <1>5, <1>6
  <2>2. Cardinality(hj) <= Cardinality(hi) /\ Cardinality(hi) # Cardinality(hj)
    BY <1>7, <2>1, FS_Subset
  <2>3. Cardinality(hj) \in Nat /\ Cardinality(hi) \in Nat
    BY <1>7, FS_CardinalityType
  <2> QED BY <2>2, <2>3
<1>9. Cardinality(hi) \in Nat /\ Cardinality(hj) \in Nat
  BY <1>7, FS_CardinalityType
<1> QED BY <1>2, <1>8, <1>9 DEF hi, hj

\* Once every description may yield, enough of them do: what is left fits (step 3b).
LEMMA RejectionFits ==
    ASSUME NEW S \in SUBSET Int, IsFiniteSet(S), NEW rungs, Nets(rungs, S),
           NEW room \in Int, room >= 0,
           NEW read, read = Described(rungs, S),
           Sum(Floors(rungs, S, read), S) <= room,
           NEW out, out = RejectedDescriptions(rungs, S, room)
    PROVE  Sum(Floors(rungs, S, out), S) <= room
<1> DEFINE h == Heavier(rungs, read)
<1>1. out = {i \in read : Sum(Floors(rungs, S, h[i]), S) > room}
  <2> SUFFICES out = {i \in read : Sum(Floors(rungs, S, Heavier(rungs, read)[i]), S) > room}
    OBVIOUS
  <2> HIDE DEF h
  <2>1. RejectedDescriptions(rungs, S, room)
          = {i \in read : Sum(Floors(rungs, S, Heavier(rungs, read)[i]), S) > room}
    BY RejectedAre
  <2> QED BY <2>1
<1>2. CASE read \subseteq out
  <2>1. out = read
    BY <1>1, <1>2
  <2> QED BY <2>1
<1>3. CASE ~(read \subseteq out)
  <2> DEFINE kept == read \ out
             ranks == {Cardinality(h[i]) : i \in kept}
  <2>0. read \in SUBSET S
    BY DEF Described
  <2>1. kept # {} /\ read \in SUBSET Int /\ IsFiniteSet(read) /\ Nets(rungs, read)
    BY <1>3, <2>0, FS_Subset DEF Nets
  <2>2. \A i \in read : Cardinality(h[i]) \in Nat
    <3> SUFFICES ASSUME NEW i \in read PROVE Cardinality(h[i]) \in Nat
      OBVIOUS
    <3>1. h[i] \subseteq read
      BY DEF Heavier
    <3> HIDE DEF h
    <3> QED BY <2>1, <3>1, FS_Subset, FS_CardinalityType
  <2>3. PICK n \in ranks : \A m \in ranks : n <= m
    <3> HIDE DEF h
    <3>1. ranks \in SUBSET Nat /\ ranks # {}
      BY <2>1, <2>2
    <3> HIDE DEF ranks
    <3> QED BY <3>1, LeastOf
  <2>4. PICK i \in kept : n = Cardinality(h[i])
    OBVIOUS
  <2>5. h[i] \subseteq out
    <3> SUFFICES ASSUME NEW j \in h[i], j \notin out PROVE FALSE
      OBVIOUS
    <3>1. j \in read /\ Cardinality(h[j]) < Cardinality(h[i])
      BY <2>1, HeavierFalls
    <3>2. Cardinality(h[j]) \in ranks
      BY <3>1
    <3>3. n <= Cardinality(h[j])
      BY <2>3, <3>2
    <3> HIDE DEF h
    <3> QED BY <2>2, <2>4, <3>1, <3>3
  <2>6. Sum(Floors(rungs, S, out), S) <= Sum(Floors(rungs, S, h[i]), S)
    <3> HIDE DEF h
    <3> QED BY <2>5, FloorsFall
  <2>7. ~(Sum(Floors(rungs, S, h[i]), S) > room)
    BY <1>1, <2>4
  <2>8. Sum(Floors(rungs, S, out), S) \in Int /\ Sum(Floors(rungs, S, h[i]), S) \in Int
    <3> HIDE DEF h
    <3>1. Ints(Floors(rungs, S, out), S) /\ Ints(Floors(rungs, S, h[i]), S)
      BY FloorsFall
    <3> QED BY <3>1, SumInt
  <2> HIDE DEF h, ranks, kept
  <2> QED BY <2>6, <2>7, <2>8
<1> QED BY <1>2, <1>3

-----------------------------------------------------------------------------
(* What can be apportioned, and what the ladder is made of.                 *)

\* Without ceilings nothing but the floors can make an apportionment impossible.
LEMMA ApportionFits ==
    ASSUME NEW w, NEW S \in SUBSET Int, S = DOMAIN w, IsFiniteSet(S), S # {},
           NEW floor, DOMAIN floor = S, Nats(floor, S), NEW total \in Nat,
           Sum(floor, S) <= total, NEW none, none = [i \in S |-> 0]
    PROVE  Apportion(total, w, floor, none) # Impossible
<1> DEFINE C == Caps(total, w, floor, none)
           q == FreeShares(total, w, floor, none, {})
           over == {i \in DOMAIN q : none[i] > 0 /\ q[i] > none[i]}
           r == [i \in S |-> IF i \in S \ {} THEN q[i] ELSE none[i]]
<1>1. Apportion(total, w, floor, none) = C[{}]
  <2>1. SumFunction(floor) = Sum(floor, S)
    BY DEF Sum, SumFunction
  <2>2. Sum(floor, S) \in Int
    BY SumNat
  <2> HIDE DEF C
  <2>3. Apportion(total, w, floor, none)
          = IF SumFunction(floor) > total THEN Impossible ELSE C[{}]
    BY ApportionIs DEF C
  <2>4. ~(SumFunction(floor) > total)
    BY <2>1, <2>2
  <2> QED BY <2>3, <2>4
<1>2. C[{}] = CapBody(total, w, floor, none, C, {})
  <2>1. {} \in SUBSET DOMAIN w
    OBVIOUS
  <2> QED BY <2>1, CapsSolve
<1>3. over = {}
  <2>1. DOMAIN q = S
    <3>1. DOMAIN Restrict(w, DOMAIN w \ {}) = S /\ DOMAIN Restrict(floor, DOMAIN w \ {}) = S
      BY DEF Restrict
    <3>2. PICK ww, ff : ww = Restrict(w, DOMAIN w \ {}) /\ ff = Restrict(floor, DOMAIN w \ {})
      OBVIOUS
    <3>3. q = Split(total - Sum(none, {}), ww, ff)
      BY <3>2 DEF FreeShares
    <3>4. DOMAIN ww = S /\ DOMAIN ff = S
      BY <3>1, <3>2
    <3> QED BY <3>3, <3>4, SplitDomain
  <2>2. \A i \in S : ~(none[i] > 0)
    OBVIOUS
  <2> HIDE DEF q
  <2> QED BY <2>1, <2>2
<1>4. ~(S \ {} = {} \/ SumFunctionOnSet(none, {}) > total)
  <2>1. SumFunctionOnSet(none, {}) = 0
    BY SumEmpty DEF Sum
  <2> QED BY <2>1
<1>5. C[{}] = r
  <2>1. q = Split(total - SumFunctionOnSet(none, {}), Restrict(w, S \ {}), Restrict(floor, S \ {}))
    BY DEF FreeShares, Sum
  <2>2. over = {i \in DOMAIN q : none[i] > 0 /\ q[i] > none[i]}
    OBVIOUS
  <2>3. r = [i \in S |-> IF i \in S \ {} THEN q[i] ELSE none[i]]
    OBVIOUS
  <2> HIDE DEF q, over, C, r
  <2> QED BY <1>2, <1>3, <1>4, <2>1, <2>2, <2>3 DEF CapBody
<1>6. DOMAIN r = S
  OBVIOUS
<1> HIDE DEF r, C
<1>7. DOMAIN Impossible = {}
  BY DEF Impossible
<1> QED BY <1>1, <1>5, <1>6, <1>7

\* The same of the gross weights, whatever the invoices cap.
LEMMA GrossSharesFit ==
    ASSUME NEW w, NEW S \in SUBSET Int, S = DOMAIN w, IsFiniteSet(S), S # {},
           NEW floor, DOMAIN floor = S, Nats(floor, S), NEW room \in Nat,
           Sum(floor, S) <= room, NEW cap
    PROVE  GrossShares(room, w, floor, cap) # Impossible
<1> DEFINE none == [i \in S |-> 0]
<1>1. [i \in DOMAIN floor |-> 0] = none
  OBVIOUS
<1>2. PICK z : z = none
  OBVIOUS
<1>3. Apportion(room, w, floor, z) # Impossible
  BY <1>2, ApportionFits
<1>4. GrossShares(room, w, floor, cap)
        = IF Apportion(room, w, floor, cap) = Impossible
          THEN Apportion(room, w, floor, none) ELSE Apportion(room, w, floor, cap)
  BY <1>1 DEF GrossShares, CappedElsePlain
<1> HIDE DEF none
<1> QED BY <1>2, <1>3, <1>4

\* The rungs before any description is rejected.
First(items, ev) == [i \in DOMAIN items |-> NetLadder(items[i], ev[i])]

\* What the ladder is made of.
LadderIs(l, items, ev, auth) ==
    /\ l.unpinned = {i \in DOMAIN items : items[i].pinGross = 0}
    /\ l.pinSum = Sum([i \in DOMAIN items |-> items[i].pinGross], DOMAIN items)
    /\ l.rejected = RejectedDescriptions(First(items, ev), l.unpinned, auth - l.pinSum)
    /\ \A i \in DOMAIN items : l.rungs[i] = IF i \in l.rejected THEN [src |-> Ratio, net |-> 0]
                                            ELSE First(items, ev)[i]
    /\ \A i \in l.rejected : /\ i \in l.unpinned
                             /\ First(items, ev)[i].src = Description

\* The ladder stands as it was climbed, but for descriptions that were rejected.
LEMMA LadderMade ==
    ASSUME NEW items, NEW ev, NEW prov, NEW auth, NEW l, l = Ladder(items, ev, prov, auth)
    PROVE  LadderIs(l, items, ev, auth)
<1> DEFINE S == DOMAIN items
           unpinned == {i \in S : items[i].pinGross = 0}
           pins == [i \in S |-> items[i].pinGross]
           pinSum == SumFunction(pins)
           first == [i \in S |-> NetLadder(items[i], ev[i])]
           rejected == RejectedDescriptions(first, unpinned, auth - pinSum)
           rungs == [i \in S |-> IF i \in rejected THEN [src |-> Ratio, net |-> 0] ELSE first[i]]
           basis == FinalBasis(items, ev, prov, first, unpinned, rejected)
<1>1. l = [rungs |-> rungs, rejected |-> rejected, unpinned |-> unpinned, pinSum |-> pinSum,
           basis |-> basis]
  BY DEF Ladder, Standing
<1>2. pinSum = Sum(pins, S)
  BY DEF Sum, SumFunction
<1>3. first = First(items, ev)
  BY DEF First
<1> HIDE DEF first, pinSum
<1>4. \A i \in rejected : i \in unpinned /\ first[i].src = Description
  <2> HIDE DEF unpinned
  <2> QED BY DEF RejectedDescriptions
<1>5. \A i \in S : rungs[i] = IF i \in rejected THEN [src |-> Ratio, net |-> 0] ELSE first[i]
  OBVIOUS
<1> HIDE DEF rungs, rejected, basis
<1>6. l.rungs = rungs /\ l.rejected = rejected /\ l.unpinned = unpinned /\ l.pinSum = pinSum
  BY <1>1
<1>7. l.rejected = RejectedDescriptions(First(items, ev), l.unpinned, auth - l.pinSum)
  BY <1>3, <1>6 DEF rejected
<1> QED BY <1>2, <1>3, <1>4, <1>5, <1>6, <1>7 DEF LadderIs

-----------------------------------------------------------------------------
(* The remedy of a blocked gross allocation.                                *)

\* The least that the items need whose gross weight is not pinned: every description may yield.
LeastNeed(items, ev, U) ==
    Sum(Floors(First(items, ev), U, Described(First(items, ev), U)), U)

\* The unpinned, their rungs and their pins are those of the items.
LEMMA UnpinnedGiven ==
    ASSUME NEW items, NEW ev, FiguresOK(items, ev), NEW auth, NEW l, LadderIs(l, items, ev, auth)
    PROVE  /\ l.unpinned \in SUBSET DOMAIN items /\ l.unpinned \in SUBSET Int
           /\ IsFiniteSet(l.unpinned) /\ Nets(First(items, ev), l.unpinned) /\ l.pinSum \in Nat
           /\ LeastNeed(items, ev, l.unpinned) \in Nat
           /\ l.rejected \subseteq Described(First(items, ev), l.unpinned)
           /\ \A i \in l.unpinned :
                FloorOf(l.rungs[i]) = Floors(First(items, ev), l.unpinned, l.rejected)[i]
<1> DEFINE S == DOMAIN items
           first == First(items, ev)
           pins == [i \in S |-> items[i].pinGross]
           U == l.unpinned
<1>1. U \in SUBSET S /\ l.pinSum = Sum(pins, S)
  BY DEF LadderIs
<1>2. IsFiniteSet(S) /\ S \subseteq Int
  BY DEF FiguresOK
<1>3. IsFiniteSet(U)
  BY <1>1, <1>2, FS_Subset
<1>4. \A i \in S : first[i] = NetLadder(items[i], ev[i])
  BY DEF First
<1>5. Nets(first, U)
  BY <1>1, <1>4, NetLadderNat DEF Nets
<1>6. l.pinSum \in Nat
  <2>1. Nats(pins, S)
    BY DEF Nats, FiguresOK
  <2> HIDE DEF pins
  <2> QED BY <1>1, <1>2, <2>1, SumNat
<1> HIDE DEF first, pins
<1>7. l.rejected \subseteq Described(first, U)
  BY DEF LadderIs, Described, first
<1>8. ASSUME NEW i \in U
      PROVE  FloorOf(l.rungs[i]) = Floors(first, U, l.rejected)[i]
  <2>1. l.rungs[i] = IF i \in l.rejected THEN [src |-> Ratio, net |-> 0] ELSE first[i]
    BY <1>1 DEF LadderIs, first
  <2>2. Floors(first, U, l.rejected)[i] = IF i \in l.rejected THEN Eps ELSE FloorOf(first[i])
    BY DEF Floors
  <2>3. FloorOf([src |-> Ratio, net |-> 0]) = Eps
    BY DEF FloorOf, Eps
  <2> QED BY <2>1, <2>2, <2>3
<1>9. LeastNeed(items, ev, U) \in Nat
  <2> DEFINE least == Floors(first, U, Described(first, U))
  <2>1. Nats(least, U)
    BY <1>3, <1>5, FloorsFall
  <2> HIDE DEF least
  <2>2. Sum(least, U) \in Nat
    BY <1>3, <2>1, SumNat
  <2> QED BY <2>2 DEF LeastNeed, least, first
<1> HIDE DEF U
<1> QED BY <1>1, <1>2, <1>3, <1>5, <1>6, <1>7, <1>8, <1>9 DEF U, first

\* With room for the least of every item the gross is allocated.
LEMMA GrossFits ==
    ASSUME NEW items, NEW ev, FiguresOK(items, ev), NEW prov, Basis(prov, DOMAIN items),
           NEW auth \in Nat, NEW l, l = Ladder(items, ev, prov, auth),
           \/ l.unpinned = {} /\ l.pinSum = auth
           \/ l.unpinned # {} /\ auth - l.pinSum >= LeastNeed(items, ev, l.unpinned)
    PROVE  AllocateGross(items, l, auth).codes = {}
<1> DEFINE U == l.unpinned
           first == First(items, ev)
           room == auth - l.pinSum
           floors == [i \in U |-> FloorOf(l.rungs[i])]
           weight == Restrict(Scaled(l.basis), U)
           caps == [i \in U |-> InvoiceGrossCap(l.rungs[i])]
           shares == GrossShares(room, weight, floors, caps)
<1>1. LadderIs(l, items, ev, auth) /\ LadderOK(l, items)
  <2>1. IsFiniteSet(DOMAIN items)
    BY DEF FiguresOK
  <2> QED BY <2>1, LadderMade, LadderGives
<1>2. /\ U \in SUBSET DOMAIN items /\ U \in SUBSET Int /\ IsFiniteSet(U) /\ Nets(first, U)
      /\ l.pinSum \in Nat /\ LeastNeed(items, ev, U) \in Nat
      /\ l.rejected \subseteq Described(first, U)
      /\ \A i \in U : FloorOf(l.rungs[i]) = Floors(first, U, l.rejected)[i]
  <2>1. PICK ll : ll = l
    OBVIOUS
  <2>2. LadderIs(ll, items, ev, auth)
    BY <1>1, <2>1
  <2> HIDE DEF first, U
  <2>3. /\ ll.unpinned \in SUBSET DOMAIN items /\ ll.unpinned \in SUBSET Int
        /\ IsFiniteSet(ll.unpinned) /\ Nets(First(items, ev), ll.unpinned) /\ ll.pinSum \in Nat
        /\ LeastNeed(items, ev, ll.unpinned) \in Nat
        /\ ll.rejected \subseteq Described(First(items, ev), ll.unpinned)
        /\ \A i \in ll.unpinned :
             FloorOf(ll.rungs[i]) = Floors(First(items, ev), ll.unpinned, ll.rejected)[i]
    BY <2>2, UnpinnedGiven
  <2> QED BY <2>1, <2>3 DEF first, U
<1>3. CASE U = {}
  BY <1>3 DEF AllocateGross
<1>4. CASE U # {}
  <2>1. room \in Nat /\ room >= LeastNeed(items, ev, U)
    BY <1>2, <1>4
  <2>2. l.rejected = RejectedDescriptions(first, U, room)
    BY <1>1 DEF LadderIs
  <2>3. Sum(Floors(first, U, l.rejected), U) <= room
    <3>1. Sum(Floors(first, U, Described(first, U)), U) <= room
      BY <2>1 DEF LeastNeed
    <3> HIDE DEF room, first, U
    <3> QED BY <1>2, <2>1, <2>2, <3>1, RejectionFits
  <2>4. Sum(floors, U) <= room /\ DOMAIN floors = U /\ Nats(floors, U)
    <3>1. \A i \in U : floors[i] = Floors(first, U, l.rejected)[i]
      BY <1>2
    <3>2. DOMAIN floors = U
      OBVIOUS
    <3> HIDE DEF floors, first, U
    <3>3. Nats(Floors(first, U, l.rejected), U)
      BY <1>2, FloorsFall
    <3>4. Sum(floors, U) = Sum(Floors(first, U, l.rejected), U)
      BY <1>2, <3>1, SumSame
    <3> QED BY <2>3, <3>1, <3>2, <3>3, <3>4 DEF Nats
  <2>5. DOMAIN weight = U
    <3>1. DOMAIN Scaled(l.basis) = DOMAIN items
      BY <1>1, ScaledGives DEF LadderOK, FiguresOK
    <3> QED BY <1>2, <3>1 DEF Restrict
  <2>6. shares # Impossible
    <3> HIDE DEF room, weight, floors, caps, U
    <3> QED BY <1>2, <1>4, <2>1, <2>4, <2>5, GrossSharesFit
  <2>7. ~(room < 0)
    BY <2>1
  <2> QED BY <1>4, <2>6, <2>7 DEF AllocateGross
<1> HIDE DEF U
<1> QED BY <1>3, <1>4

\* A total that is proposed leaves room for the least of every item.
LEMMA GrossProposed ==
    ASSUME NEW items, NEW ev, FiguresOK(items, ev), NEW prov, Basis(prov, DOMAIN items),
           NEW auth \in Nat, NEW l, l = Ladder(items, ev, prov, auth),
           NEW need, need = AllocateGross(items, l, auth).need, need > 0
    PROVE  /\ need \in Nat
           /\ \/ l.unpinned = {} /\ l.pinSum = need
              \/ l.unpinned # {} /\ need - l.pinSum >= LeastNeed(items, ev, l.unpinned)
<1> DEFINE U == l.unpinned
           first == First(items, ev)
           room == auth - l.pinSum
           floors == [i \in U |-> FloorOf(l.rungs[i])]
           weight == Restrict(Scaled(l.basis), U)
           caps == [i \in U |-> InvoiceGrossCap(l.rungs[i])]
           shares == GrossShares(room, weight, floors, caps)
           stated == [i \in U |-> IF l.rungs[i].src = Description THEN Eps
                                  ELSE FloorOf(l.rungs[i])]
<1>1. LadderIs(l, items, ev, auth)
  BY LadderMade
<1>2. /\ U \in SUBSET DOMAIN items /\ U \in SUBSET Int /\ IsFiniteSet(U) /\ Nets(first, U)
      /\ l.pinSum \in Nat /\ LeastNeed(items, ev, U) \in Nat
      /\ l.rejected \subseteq Described(first, U)
      /\ \A i \in U : FloorOf(l.rungs[i]) = Floors(first, U, l.rejected)[i]
  <2>1. PICK ll : ll = l
    OBVIOUS
  <2>2. LadderIs(ll, items, ev, auth)
    BY <1>1, <2>1
  <2> HIDE DEF first, U
  <2>3. /\ ll.unpinned \in SUBSET DOMAIN items /\ ll.unpinned \in SUBSET Int
        /\ IsFiniteSet(ll.unpinned) /\ Nets(First(items, ev), ll.unpinned) /\ ll.pinSum \in Nat
        /\ LeastNeed(items, ev, ll.unpinned) \in Nat
        /\ ll.rejected \subseteq Described(First(items, ev), ll.unpinned)
        /\ \A i \in ll.unpinned :
             FloorOf(ll.rungs[i]) = Floors(First(items, ev), ll.unpinned, ll.rejected)[i]
    BY <2>2, UnpinnedGiven
  <2> QED BY <2>1, <2>3 DEF first, U
<1>3. \/ U = {} /\ need = l.pinSum
      \/ U # {} /\ room < 0 /\ need = l.pinSum + SumFunction(stated)
      \/ U # {} /\ ~(room < 0) /\ need = l.pinSum + SumFunction(floors)
  <2>1. CASE U = {}
    <3>1. l.pinSum = auth => need = 0
      BY <2>1 DEF AllocateGross
    <3>2. l.pinSum # auth => need = l.pinSum
      BY <2>1 DEF AllocateGross
    <3> QED BY <2>1, <3>1, <3>2
  <2>2. CASE U # {} /\ room < 0
    BY <2>2 DEF AllocateGross
  <2>3. CASE U # {} /\ ~(room < 0)
    <3>1. shares # Impossible => need = 0
      BY <2>3 DEF AllocateGross
    <3>2. shares = Impossible => need = l.pinSum + SumFunction(floors)
      BY <2>3 DEF AllocateGross
    <3> QED BY <2>3, <3>1, <3>2
  <2> QED BY <2>1, <2>2, <2>3
<1>4. CASE U = {} /\ need = l.pinSum
  BY <1>2, <1>4
<1>5. CASE U # {} /\ room < 0 /\ need = l.pinSum + SumFunction(stated)
  <2>1. l.rejected = {}
    BY <1>1, <1>5 DEF LadderIs, RejectedDescriptions
  <2>2. ASSUME NEW i \in U
        PROVE  stated[i] = Floors(first, U, Described(first, U))[i]
    <3>1. l.rungs[i] = first[i]
      BY <1>1, <1>2, <2>1 DEF LadderIs
    <3> HIDE DEF first
    <3> QED BY <3>1 DEF Floors, Described
  <2>3. SumFunction(stated) = Sum(stated, U)
    BY DEF Sum, SumFunction
  <2>4. Sum(stated, U) = LeastNeed(items, ev, U)
    <3> HIDE DEF stated, first, U
    <3>1. Sum(stated, U) = Sum(Floors(first, U, Described(first, U)), U)
      BY <1>2, <2>2, SumSame
    <3> QED BY <3>1 DEF LeastNeed, first
  <2> HIDE DEF stated, U
  <2> QED BY <1>2, <1>5, <2>3, <2>4 DEF U
<1>6. CASE U # {} /\ ~(room < 0) /\ need = l.pinSum + SumFunction(floors)
  <2>1. SumFunction(floors) = Sum(floors, U)
    BY DEF Sum, SumFunction
  <2>2. Sum(floors, U) = Sum(Floors(first, U, l.rejected), U)
    <3>1. \A i \in U : floors[i] = Floors(first, U, l.rejected)[i]
      BY <1>2
    <3> HIDE DEF floors, first, U
    <3> QED BY <1>2, <3>1, SumSame
  <2>3. LeastNeed(items, ev, U) <= Sum(Floors(first, U, l.rejected), U)
    <3> HIDE DEF U
    <3>1. Sum(Floors(first, U, Described(first, U)), U) <= Sum(Floors(first, U, l.rejected), U)
      BY <1>2, FloorsFall
    <3> QED BY <3>1 DEF LeastNeed
  <2>4. Sum(Floors(first, U, l.rejected), U) \in Nat
    <3> HIDE DEF U, first
    <3>1. Nats(Floors(first, U, l.rejected), U)
      BY <1>2, FloorsFall
    <3> QED BY <1>2, <3>1, SumNat
  <2> HIDE DEF floors, U, first
  <2>5. need = l.pinSum + Sum(Floors(first, U, l.rejected), U)
    BY <1>6, <2>1, <2>2
  <2> QED BY <1>2, <1>6, <2>3, <2>4, <2>5 DEF U
<1> HIDE DEF U
<1> QED BY <1>3, <1>4, <1>5, <1>6

\* The total a blocked gross proposes is enough (the remedies of REVIEWED_GROSS_TOTAL_MISMATCH,
\* REVIEWED_GROSS_EXCEEDS_AUTHORITY and GROSS_ALLOCATION_IMPOSSIBLE).
LEMMA GrossRemedy ==
    ASSUME NEW items, NEW ev, FiguresOK(items, ev), NEW prov, Basis(prov, DOMAIN items),
           NEW auth \in Nat, NEW l, l = Ladder(items, ev, prov, auth),
           NEW need, need = AllocateGross(items, l, auth).need, need > 0,
           NEW after, after = Ladder(items, ev, prov, need)
    PROVE  need \in Nat /\ AllocateGross(items, after, need).codes = {}
<1>1. /\ need \in Nat
      /\ \/ l.unpinned = {} /\ l.pinSum = need
         \/ l.unpinned # {} /\ need - l.pinSum >= LeastNeed(items, ev, l.unpinned)
  BY GrossProposed
<1>2. LadderIs(l, items, ev, auth) /\ LadderIs(after, items, ev, need)
  BY LadderMade
<1>3. after.unpinned = l.unpinned /\ after.pinSum = l.pinSum
  BY <1>2 DEF LadderIs
<1> QED BY <1>1, <1>3, GrossFits

-----------------------------------------------------------------------------
(* Estimated rows give before stated ones.                                  *)

\* Numbers that are nowhere above others, and add up to as much, are the same.
LEMMA SumEqual ==
    ASSUME NEW S, IsFiniteSet(S), NEW f, Ints(f, S), NEW g, Ints(g, S),
           \A x \in S : f[x] <= g[x], Sum(f, S) = Sum(g, S), NEW x \in S
    PROVE  f[x] = g[x]
<1>1. Sum(f, S) = f[x] + Sum(f, S \ {x}) /\ Sum(g, S) = g[x] + Sum(g, S \ {x})
  BY SumRemove
<1>2. IsFiniteSet(S \ {x}) /\ Ints(f, S \ {x}) /\ Ints(g, S \ {x})
  BY FS_Subset DEF Ints
<1>3. Sum(f, S \ {x}) <= Sum(g, S \ {x})
  BY <1>2, SumLe
<1>4. Sum(f, S \ {x}) \in Int /\ Sum(g, S \ {x}) \in Int
  BY <1>2, SumInt
<1>5. f[x] \in Int /\ g[x] \in Int /\ f[x] <= g[x]
  BY DEF Ints
<1>6. PICK a \in Int, b \in Int : a = Sum(f, S \ {x}) /\ b = Sum(g, S \ {x})
  BY <1>4
<1>7. a <= b /\ f[x] + a = g[x] + b
  BY <1>1, <1>3, <1>6
<1> QED BY <1>5, <1>7

\* The donors cover what is asked, or they are all there are.
LEMMA DonorsCover ==
    ASSUME NEW pool \in SUBSET Int, IsFiniteSet(pool), pool # {}, NEW base, Ints(base, pool),
           NEW delta \in Nat, delta > 0
    PROVE  \/ DonorsOf(base, pool, delta) = pool
           \/ Room(base, DonorsOf(base, pool, delta)) >= delta
<1> DEFINE n == Cardinality(pool)
           lo == Min({CtnDonorMax, n, delta})
           enough == {k \in lo..n : \/ k = n
                                    \/ Room(base, HighestFirst(base, pool, k)) >= delta}
           k == Min(enough)
<1>1. n \in Nat /\ n > 0
  BY FS_CardinalityType, FS_EmptySet
<1>2. DonorsOf(base, pool, delta) = HighestFirst(base, pool, k)
  BY DEF DonorsOf
<1>3. lo \in Nat /\ lo <= n
  <2> HIDE DEF n
  <2>1. CtnDonorMax \in Nat /\ CtnDonorMax > 0
    BY CtnDonorMaxAssumption
  <2>2. CtnDonorMax \in Int /\ n \in Int /\ delta \in Int
    BY <1>1, <2>1
  <2>3. lo \in {CtnDonorMax, n, delta}
    BY <2>2, MinOfThree
  <2>4. lo <= n
    BY <2>2, MinOfThree
  <2> QED BY <1>1, <2>1, <2>3, <2>4
<1> HIDE DEF lo, n
<1>4. enough \in SUBSET Nat /\ n \in enough
  BY <1>1, <1>3
<1>5. \A x \in enough : x = n \/ Room(base, HighestFirst(base, pool, x)) >= delta
  OBVIOUS
<1> HIDE DEF enough
<1>6. \E x \in enough : \A y \in enough : x <= y
  BY <1>4, LeastOf
<1>7. k \in enough
  BY <1>6 DEF Min
<1> HIDE DEF k
<1>8. CASE k = n
  <2>1. n \in 0..Cardinality(pool)
    BY <1>1 DEF n
  <2>2. HighestFirst(base, pool, n) \subseteq pool /\ Cardinality(HighestFirst(base, pool, n)) = n
    BY <2>1, HighestFirstCounts
  <2>3. HighestFirst(base, pool, n) = pool
    BY <2>2, FS_Subset DEF n
  <2> QED BY <1>2, <1>8, <2>3
<1> QED BY <1>2, <1>5, <1>7, <1>8

\* If something is left, the donors have given all they had.
LEMMA TakenToTheLast ==
    ASSUME NEW pool \in SUBSET Int, IsFiniteSet(pool), pool # {}, NEW base, RowsKept(base, pool),
           pool \subseteq DOMAIN base, \A i \in pool : base[i] > MinCtn,
           NEW delta \in Nat, delta > 0, NEW donors, donors = DonorsOf(base, pool, delta),
           NEW r, r = TakenFrom(base, donors, delta), r.left # 0
    PROVE  r.left > 0 /\ \A i \in pool : r.ctn[i] = MinCtn
<1> DEFINE w == [i \in donors |-> base[i] - MinCtn]
           room == Room(base, donors)
           take == Min({delta, room})
           q == SpreadUnits(take, w)
<1>1. Ints(base, pool) /\ \A i \in pool : base[i] \in Nat
  BY DEF Ints, RowsKept
<1>2. donors \subseteq pool /\ donors # {}
  BY <1>1, DonorsGive
<1>3. IsFiniteSet(donors) /\ donors \in SUBSET Int
  BY <1>2, FS_Subset
<1>4. r.left = delta - take /\ r.ctn = Moved(base, -1, q)
  BY DEF TakenFrom
<1>5. DOMAIN w = donors /\ Nats(w, donors) /\ Ints(w, donors)
      /\ \A i \in donors : w[i] > 0 /\ w[i] = base[i] - 1
  <2>1. \A i \in donors : w[i] = base[i] - 1 /\ base[i] \in Nat /\ base[i] > 1
    BY <1>1, <1>2 DEF MinCtn
  <2> HIDE DEF w
  <2>2. \A i \in donors : w[i] \in Nat /\ w[i] > 0
    BY <2>1
  <2> QED BY <2>1, <2>2 DEF Nats, Ints, w
<1>6. room = Sum(w, donors)
  BY DEF Room, Sum, SumFunction
<1> HIDE DEF w, room
<1>7. room \in Nat
  BY <1>3, <1>5, <1>6, SumNat
<1>8. take = room /\ room < delta
  <2>1. take \in {delta, room} /\ take <= delta /\ take <= room
    <3>1. room \in Int /\ delta \in Int
      BY <1>7
    <3> QED BY <3>1, MinOfTwo
  <2> HIDE DEF take
  <2> QED BY <1>4, <1>7, <2>1
<1> HIDE DEF take
<1>9. donors = pool
  BY <1>1, <1>7, <1>8, DonorsCover DEF room
<1>10. Divided(q, take, w, donors)
  BY <1>3, <1>5, <1>7, <1>8, <1>2, SpreadUnitsGives
<1> HIDE DEF q
<1>11. DOMAIN q = donors /\ Nats(q, donors) /\ Ints(q, donors) /\ Sum(q, donors) = Sum(w, donors)
       /\ \A i \in donors : q[i] <= w[i]
  BY <1>5, <1>6, <1>7, <1>8, <1>10 DEF Divided, Nats, Ints
<1>12. \A i \in donors : q[i] = w[i]
  BY <1>3, <1>5, <1>11, SumEqual
<1>13. ASSUME NEW i \in pool
       PROVE  r.ctn[i] = MinCtn
  <2>1. r.ctn[i] = base[i] + (-1) * q[i]
    BY <1>4, <1>9, <1>11 DEF Moved
  <2>2. q[i] = base[i] - 1 /\ base[i] \in Nat
    BY <1>1, <1>5, <1>9, <1>12
  <2> QED BY <2>1, <2>2 DEF MinCtn
<1>14. r.left > 0
  <2>1. PICK k \in Int : k = room /\ k < delta
    BY <1>7, <1>8
  <2>2. r.left = delta - k
    BY <1>4, <1>8, <2>1, Zenon
  <2> QED BY <2>1, <2>2
<1> QED BY <1>13, <1>14

\* Whatever is left, the estimates are at the least then.
LeftLast(r, est, delta) ==
    r.left # 0 => /\ \A i \in est : r.ctn[i] = MinCtn
                  /\ est # {} => r.left > 0
                  /\ est = {} => r.left = delta

\* The estimates leave nothing before every one of them is down to the least.
LEMMA AbsorbedLast ==
    ASSUME NEW S \in SUBSET Int, IsFiniteSet(S), NEW base, DOMAIN base = S, RowsKept(base, S),
           NEW est \in SUBSET S, NEW delta \in Int
    PROVE  LeftLast(Absorbed(base, est, delta), est, delta)
<1> SUFFICES ASSUME NEW r, r = Absorbed(base, est, delta), r.left # 0
             PROVE  /\ \A i \in est : r.ctn[i] = MinCtn
                    /\ est # {} => r.left > 0
                    /\ est = {} => r.left = delta
  BY DEF LeftLast
<1> DEFINE pool == {i \in est : base[i] > MinCtn}
           donors == DonorsOf(base, pool, delta)
<1>1. CASE ~(delta # 0 /\ est # {})
  BY <1>1 DEF Absorbed
<1>2. CASE delta < 0 /\ est # {}
  BY <1>2 DEF Absorbed, AbsorbIntoEstimates, AddedTo
<1>3. CASE delta > 0 /\ est # {} /\ pool = {}
  <2>1. r = [left |-> delta, ctn |-> base]
    BY <1>3 DEF Absorbed, AbsorbIntoEstimates
  <2>2. ASSUME NEW i \in est PROVE base[i] = MinCtn
    <3>1. base[i] \in Nat /\ base[i] >= 1 /\ ~(base[i] > 1)
      BY <1>3 DEF RowsKept, MinCtn
    <3> QED BY <3>1 DEF MinCtn
  <2> QED BY <1>3, <2>1, <2>2
<1>4. CASE delta > 0 /\ est # {} /\ pool # {}
  <2>1. r = TakenFrom(base, donors, delta)
    BY <1>4 DEF Absorbed, AbsorbIntoEstimates
  <2>2. pool \in SUBSET S /\ pool \in SUBSET Int /\ \A i \in pool : base[i] > MinCtn
    OBVIOUS
  <2>3. IsFiniteSet(pool) /\ RowsKept(base, pool)
    BY <2>2, FS_Subset DEF RowsKept
  <2>4. \A i \in est \ pool : base[i] = MinCtn
    <3> SUFFICES ASSUME NEW i \in est \ pool PROVE base[i] = MinCtn
      OBVIOUS
    <3>1. base[i] \in Nat /\ base[i] >= 1 /\ ~(base[i] > 1)
      BY DEF RowsKept, MinCtn
    <3> QED BY <3>1 DEF MinCtn
  <2> HIDE DEF pool
  <2>5. r.left > 0 /\ \A i \in pool : r.ctn[i] = MinCtn
    <3>1. delta \in Nat
      BY <1>4
    <3>2. pool \subseteq DOMAIN base
      BY <2>2
    <3> QED BY <1>4, <2>1, <2>2, <2>3, <3>1, <3>2, TakenToTheLast
  <2>6. ASSUME NEW i \in est \ pool PROVE r.ctn[i] = MinCtn
    <3>1. Ints(base, pool) /\ delta \in Nat /\ pool \in SUBSET Int
      BY <1>4, <2>2, <2>3 DEF RowsKept, Ints
    <3>2. donors \subseteq pool /\ donors # {}
      BY <1>4, <2>3, <3>1, DonorsGive
    <3> HIDE DEF donors
    <3>3. r.ctn[i] = base[i]
      <4> DEFINE w == [j \in donors |-> base[j] - MinCtn]
                 take == Min({delta, Room(base, donors)})
                 q == SpreadUnits(take, w)
      <4>1. r.ctn = Moved(base, -1, q)
        BY <2>1 DEF TakenFrom
      <4>2. DOMAIN q = donors
        <5>1. IsFiniteSet(donors) /\ donors \in SUBSET Int
          BY <2>3, <3>1, <3>2, FS_Subset
        <5>2. DOMAIN w = donors /\ Nats(w, donors)
          <6>1. ASSUME NEW j \in donors PROVE w[j] \in Nat
            <7>1. base[j] \in Nat /\ base[j] > 1 /\ w[j] = base[j] - 1
              BY <2>2, <2>3, <3>2 DEF RowsKept, MinCtn
            <7> QED BY <7>1
          <6> QED BY <6>1 DEF Nats
        <5>3. Room(base, donors) = Sum(w, donors)
          BY DEF Room, Sum, SumFunction
        <5> HIDE DEF w
        <5>4. Sum(w, donors) \in Nat
          BY <5>1, <5>2, SumNat
        <5>5. take \in Nat
          <6>1. PICK room \in Int : room = Room(base, donors) /\ room >= 0
            BY <5>3, <5>4
          <6>2. Min({delta, room}) \in {delta, room} /\ delta \in Nat
            BY <3>1, MinOfTwo
          <6> QED BY <6>1, <6>2
        <5> HIDE DEF take
        <5>6. Divided(q, take, w, donors)
          BY <3>2, <5>1, <5>2, <5>5, SpreadUnitsGives
        <5> QED BY <5>6 DEF Divided
      <4> HIDE DEF q
      <4> QED BY <3>2, <4>1, <4>2 DEF Moved
    <3> QED BY <2>4, <3>3
  <2> QED BY <1>4, <2>5, <2>6
<1>5. \/ ~(delta # 0 /\ est # {}) \/ (delta < 0 /\ est # {})
      \/ (delta > 0 /\ est # {} /\ pool = {}) \/ (delta > 0 /\ est # {} /\ pool # {})
  <2> HIDE DEF pool
  <2>1. delta < 0 \/ delta = 0 \/ delta > 0
    OBVIOUS
  <2> QED BY <2>1
<1> HIDE DEF pool, donors
<1> QED BY <1>1, <1>2, <1>3, <1>4, <1>5

\* With a carton for every row a total can be divided.
LEMMA BaselineFits ==
    ASSUME NEW w, NEW S \in SUBSET Int, S = DOMAIN w, IsFiniteSet(S), S # {},
           NEW total \in Int, Cardinality(S) <= total,
           NEW floor, floor = [i \in S |-> MinCtn], NEW none, none = [i \in S |-> 0]
    PROVE  Apportion(total, w, floor, none) # Impossible
<1>1. DOMAIN floor = S /\ \A i \in S : floor[i] = 1
  BY DEF MinCtn
<1>2. Nats(floor, S) /\ Sum(floor, S) = 1 * Cardinality(S)
  BY <1>1, SumConst DEF Nats
<1>3. Cardinality(S) \in Nat
  BY FS_CardinalityType
<1>4. total \in Nat /\ Sum(floor, S) <= total
  BY <1>2, <1>3
<1> QED BY <1>1, <1>2, <1>4, ApportionFits

LEMMA SumOnes ==
    ASSUME NEW S, IsFiniteSet(S), NEW f, \A x \in S : f[x] = 1
    PROVE  Sum(f, S) = Cardinality(S)
<1>1. 1 \in Int /\ Cardinality(S) \in Nat
  BY FS_CardinalityType
<1>2. Sum(f, S) = 1 * Cardinality(S)
  BY <1>1, SumConst
<1> QED BY <1>1, <1>2

\* What the pins and the estimates leave to the stated rows.
LEMMA LeftToStated ==
    ASSUME NEW S \in SUBSET Int, IsFiniteSet(S), NEW base, DOMAIN base = S, RowsKept(base, S),
           NEW pin, DOMAIN pin = S, Nats(pin, S),
           NEW pins, NEW est, NEW stated, Parts(S, pins, est, stated),
           \A i \in S : i \in pins <=> pin[i] > 0,
           NEW delta, delta = Sum(pin, pins) - Sum(base, pins),
           NEW r, r = Absorbed(base, est, delta), r.left # 0
    PROVE  Sum(base, stated) - r.left = Sum(base, S) - Sum(pin, S) - Cardinality(est)
<1>1. /\ IsFiniteSet(pins) /\ IsFiniteSet(stated) /\ IsFiniteSet(est)
      /\ pins \in SUBSET S /\ est \in SUBSET S /\ stated \in SUBSET S
  <2>1. pins \in SUBSET S /\ est \in SUBSET S /\ stated \in SUBSET S
    BY DEF Parts
  <2> QED BY <2>1, FS_Subset
<1>2. Ints(base, S) /\ Ints(pin, S)
  BY DEF RowsKept, Nats, Ints
<1>3. \A u \in SUBSET S : Sum(base, u) \in Int /\ Sum(pin, u) \in Int
  BY <1>2, SumInt
<1>4. delta \in Int
  BY <1>1, <1>3
<1>5. AbsorbedOK(r, base, est, delta, S)
  BY <1>1, <1>4, AbsorbedGives
<1>6. /\ \A i \in est : r.ctn[i] = MinCtn
      /\ est = {} => r.left = delta
  <2>1. LeftLast(Absorbed(base, est, delta), est, delta)
    BY <1>1, <1>4, AbsorbedLast
  <2> QED BY <2>1 DEF LeftLast
<1>7. Sum(r.ctn, est) = Cardinality(est)
  <2>1. \A i \in est : r.ctn[i] = 1
    BY <1>6 DEF MinCtn
  <2>4. PICK z : z = r.ctn
    OBVIOUS
  <2>5. \A i \in est : z[i] = 1
    BY <2>1, <2>4
  <2>6. IsFiniteSet(est)
    BY <1>1
  <2>7. Sum(z, est) = Cardinality(est)
    BY <2>5, <2>6, SumOnes
  <2> QED BY <2>4, <2>7
<1>8. Sum(r.ctn, est) = Sum(base, est) - (delta - r.left) /\ r.left \in Int
  BY <1>5 DEF AbsorbedOK
<1>9. Sum(base, S) = Sum(base, pins) + Sum(base, stated) + Sum(base, est)
  <2>1. Sum(base, S) = Sum(base, pins) + Sum(base, S \ pins)
    BY <1>1, <1>2, SumSplit
  <2>2. stated \in SUBSET (S \ pins) /\ (S \ pins) \ stated = est
    BY DEF Parts
  <2>3. Ints(base, S \ pins) /\ IsFiniteSet(S \ pins)
    BY <1>2, FS_Subset DEF Ints
  <2> DEFINE others == S \ pins
  <2>9. stated \in SUBSET others /\ Ints(base, others) /\ IsFiniteSet(others)
    BY <2>2, <2>3
  <2> HIDE DEF others
  <2>4. Sum(base, others) = Sum(base, stated) + Sum(base, others \ stated)
    BY <2>9, SumSplit
  <2>5. PICK a, b, d, e : a = Sum(base, S) /\ b = Sum(base, pins) /\ d = Sum(base, stated)
                          /\ e = Sum(base, est)
    OBVIOUS
  <2>6. a \in Int /\ b \in Int /\ d \in Int /\ e \in Int
    BY <1>1, <1>3, <2>5
  <2>7. a = b + (d + e)
    BY <2>1, <2>2, <2>4, <2>5 DEF others
  <2>8. a = b + d + e
    BY <2>6, <2>7
  <2> QED BY <2>5, <2>8
<1>10. Sum(pin, S) = Sum(pin, pins)
  <2>1. Sum(pin, S) = Sum(pin, pins) + Sum(pin, S \ pins)
    BY <1>1, <1>2, SumSplit
  <2>2. \A i \in S \ pins : pin[i] = 0
    BY DEF Nats, Parts
  <2>3. IsFiniteSet(S \ pins) /\ Cardinality(S \ pins) \in Nat
    BY FS_Subset, FS_CardinalityType
  <2>4. Sum(pin, S \ pins) = 0 * Cardinality(S \ pins)
    <3> DEFINE others == S \ pins
    <3>1. \A i \in others : pin[i] = 0
      BY <2>2
    <3>2. IsFiniteSet(others)
      BY <2>3
    <3> HIDE DEF others
    <3>3. Sum(pin, others) = 0 * Cardinality(others)
      BY <3>1, <3>2, SumConst
    <3> QED BY <3>3 DEF others
  <2>5. PICK a \in Int : a = Sum(pin, pins)
    BY <1>1, <1>3
  <2>6. Sum(pin, S \ pins) = 0
    BY <2>3, <2>4
  <2>7. Sum(pin, S) = a + 0
    BY <2>1, <2>5, <2>6
  <2> QED BY <2>5, <2>7
<1>11. PICK a \in Int, b \in Int, d \in Int, e \in Int, p \in Int, n \in Int, x \in Int :
           /\ a = Sum(base, S) /\ b = Sum(base, pins) /\ d = Sum(base, stated)
           /\ e = Sum(base, est) /\ p = Sum(pin, pins) /\ n = Cardinality(est) /\ x = r.left
  <2>1. Cardinality(est) \in Int
    BY <1>1, FS_CardinalityType
  <2> QED BY <1>1, <1>3, <1>8, <2>1
<1>12. /\ n = e - ((p - b) - x) /\ a = b + d + e
  BY <1>7, <1>8, <1>9, <1>11
<1>13. d - x = a - p - n
  BY <1>12
<1> QED BY <1>10, <1>11, <1>13

-----------------------------------------------------------------------------
(* The remedy of a blocked carton allocation.                               *)

\* What the pins ask of the others, next to a baseline.
Asked(base, pin, pins) == Sum(pin, pins) - Sum(base, pins)

\* A baseline that was found goes to the estimates first, then to the stated rows.
LEMMA BaselineTaken ==
    ASSUME NEW S \in SUBSET Int, IsFiniteSet(S), NEW base, DOMAIN base = S, RowsKept(base, S),
           base # Impossible, NEW evidence \in SUBSET S, NEW pin, DOMAIN pin = S, Nats(pin, S),
           NEW pins, NEW est, NEW stated, pins = {i \in S : pin[i] > 0},
           stated = evidence \ pins, est = S \ (pins \cup evidence)
    PROVE  /\ Parts(S, pins, est, stated)
           /\ Asked(base, pin, pins) \in Int
           /\ FromBaseline(base, evidence, pin)
                = AfterEstimates(base, pin, stated, Absorbed(base, est, Asked(base, pin, pins)))
<1> DEFINE moved == [i \in pins |-> pin[i] - base[i]]
<1>1. Parts(S, pins, est, stated) /\ pins \in SUBSET S /\ IsFiniteSet(pins)
  BY FS_Subset DEF Parts
<1>2. \A i \in pins : moved[i] = pin[i] - base[i] /\ pin[i] \in Int /\ base[i] \in Int
  BY <1>1 DEF Nats, RowsKept
<1>3. SumFunction(moved) = Sum(moved, pins)
  BY DEF Sum, SumFunction
<1>4. FromBaseline(base, evidence, pin)
        = AfterEstimates(base, pin, stated, Absorbed(base, est, SumFunction(moved)))
  BY DEF FromBaseline
<1> HIDE DEF moved
<1>5. Ints(moved, pins) /\ Ints(pin, pins) /\ Ints(base, pins)
  BY <1>2 DEF Ints
<1>6. \A i \in pins : pin[i] = moved[i] + base[i]
  BY <1>2
<1>7. Sum(pin, pins) = Sum(moved, pins) + Sum(base, pins)
  <2>1. PICK p : p = pins
    OBVIOUS
  <2>2. IsFiniteSet(p) /\ Ints(moved, p) /\ Ints(base, p) /\ \A i \in p : pin[i] = moved[i] + base[i]
    BY <1>1, <1>5, <1>6, <2>1
  <2>3. Sum(pin, p) = Sum(moved, p) + Sum(base, p)
    BY <2>2, SumPlus
  <2> QED BY <2>1, <2>3
<1>8. Sum(moved, pins) \in Int /\ Sum(base, pins) \in Int
  <2>1. PICK p : p = pins
    OBVIOUS
  <2>2. IsFiniteSet(p) /\ Ints(moved, p) /\ Ints(base, p)
    BY <1>1, <1>5, <2>1
  <2>3. Sum(moved, p) \in Int /\ Sum(base, p) \in Int
    BY <2>2, SumInt
  <2> QED BY <2>1, <2>3
<1>9. Asked(base, pin, pins) = Sum(moved, pins) /\ Asked(base, pin, pins) \in Int
  <2>1. PICK a, b, d : a = Sum(pin, pins) /\ b = Sum(moved, pins) /\ d = Sum(base, pins)
    OBVIOUS
  <2>2. a = b + d /\ b \in Int /\ d \in Int
    BY <1>7, <1>8, <2>1
  <2>3. a - d = b
    BY <2>2
  <2> QED BY <2>1, <2>2, <2>3 DEF Asked
<1> QED BY <1>1, <1>3, <1>4, <1>9

\* The pins, with one carton for every other row, are at least one for every row.
LEMMA PinsAndLeast ==
    ASSUME NEW S, IsFiniteSet(S), NEW pin, Nats(pin, S),
           NEW U, U = {i \in S : pin[i] = 0}
    PROVE  /\ Cardinality(S) <= Sum(pin, S) + Cardinality(U)
           /\ Sum(pin, S) \in Nat /\ Cardinality(U) \in Nat /\ Cardinality(S) \in Nat
<1> DEFINE free == [i \in S |-> IF pin[i] = 0 THEN 1 ELSE 0]
           both == [i \in S |-> IF pin[i] = 0 THEN 1 ELSE pin[i]]
           ones == [i \in S |-> 1]
<1>1. \A i \in S : pin[i] \in Nat
  BY DEF Nats
<1>2. \A i \in S : free[i] \in {0, 1} /\ (free[i] = 1 <=> i \in U)
  OBVIOUS
<1>3. \A i \in S : both[i] = pin[i] + free[i] /\ ones[i] = 1 /\ ones[i] <= both[i]
                   /\ both[i] \in Int /\ free[i] \in Int
  BY <1>1
<1>4. U = {i \in S : free[i] = 1}
  BY <1>2
<1> HIDE DEF free, both, ones
<1>5. Sum(free, S) = Cardinality({i \in S : free[i] = 1})
  BY <1>2, SumCounts
<1>6. Sum(ones, S) = Cardinality(S)
  BY <1>3, SumOnes
<1>7. Ints(ones, S) /\ Ints(both, S) /\ Ints(pin, S) /\ Ints(free, S)
  BY <1>1, <1>3 DEF Ints
<1>8. Sum(ones, S) <= Sum(both, S)
  BY <1>3, <1>7, SumLe
<1>9. Sum(both, S) = Sum(pin, S) + Sum(free, S)
  BY <1>3, <1>7, SumPlus
<1>10. Sum(pin, S) \in Nat
  BY SumNat
<1>11. Cardinality(U) \in Nat /\ Cardinality(S) \in Nat
  <2>1. U \subseteq S
    OBVIOUS
  <2> QED BY <2>1, FS_Subset, FS_CardinalityType
<1> QED BY <1>4, <1>5, <1>6, <1>8, <1>9, <1>10, <1>11

\* A total with a carton for every row beside the pins can be allocated.
LEMMA CartonsFit ==
    ASSUME NEW w, NEW S \in SUBSET Int, S = DOMAIN w, IsFiniteSet(S), Nats(w, S),
           NEW evidence \in SUBSET S, NEW pin, DOMAIN pin = S, Nats(pin, S), NEW auth \in Nat,
           NEW U, U = {i \in S : pin[i] = 0},
           \/ U = {} /\ Sum(pin, S) = auth
           \/ U # {} /\ auth - Sum(pin, S) >= Cardinality(U)
    PROVE  AllocateCartons(w, evidence, pin, auth).codes = {}
<1> DEFINE pins == {i \in S : pin[i] > 0}
           stated == evidence \ pins
           est == S \ (pins \cup evidence)
           base == NoPinBaseline(w, auth)
           delta == Asked(base, pin, pins)
           r == Absorbed(base, est, delta)
           c == AllocateCartons(w, evidence, pin, auth)
<1>1. SumFunction(pin) = Sum(pin, S)
  BY DEF Sum, SumFunction
<1>2. /\ Cardinality(S) <= Sum(pin, S) + Cardinality(U)
      /\ Sum(pin, S) \in Nat /\ Cardinality(U) \in Nat /\ Cardinality(S) \in Nat
  <2>1. PICK u : u = U
    OBVIOUS
  <2> QED BY PinsAndLeast
<1>3. CASE U = {}
  BY <1>1, <1>3 DEF AllocateCartons, Cartons
<1>4. CASE U # {}
  <2>1. c = FromBaseline(base, evidence, pin)
    <3>1. ~(auth - Sum(pin, S) < MinCtn * Cardinality(U))
      BY <1>2, <1>4 DEF MinCtn
    <3>2. {i \in DOMAIN pin : pin[i] = 0} = U
      OBVIOUS
    <3> QED BY <1>1, <1>4, <3>1, <3>2 DEF AllocateCartons
  <2>2. base # Impossible
    <3> DEFINE floor == [i \in S |-> MinCtn]
               none == [i \in S |-> 0]
    <3>1. base = Apportion(auth, w, floor, none)
      BY DEF NoPinBaseline
    <3>2. Cardinality(S) <= auth /\ S # {} /\ auth \in Int
      BY <1>2, <1>4
    <3>3. PICK f, n : f = floor /\ n = none
      OBVIOUS
    <3> HIDE DEF base
    <3>4. Apportion(auth, w, f, n) # Impossible
      BY <3>2, <3>3, BaselineFits
    <3> QED BY <3>1, <3>3, <3>4
  <2>3. StatedGiven(base, auth, S)
    BY <2>2, NoPinBaselineGives
  <2> HIDE DEF base
  <2>4. DOMAIN base = S /\ RowsKept(base, S) /\ Sum(base, S) = auth
    BY <2>3 DEF StatedGiven
  <2>5. /\ Parts(S, pins, est, stated) /\ delta \in Int
        /\ c = AfterEstimates(base, pin, stated, r)
    <3>1. /\ pins = {i \in S : pin[i] > 0} /\ stated = evidence \ pins
          /\ est = S \ (pins \cup evidence)
      OBVIOUS
    <3> HIDE DEF c, pins, stated, est, delta, r
    <3>2. /\ Parts(S, pins, est, stated) /\ Asked(base, pin, pins) \in Int
          /\ FromBaseline(base, evidence, pin)
                 = AfterEstimates(base, pin, stated,
                                  Absorbed(base, est, Asked(base, pin, pins)))
      BY <2>2, <2>4, <3>1, BaselineTaken
    <3> QED BY <2>1, <3>2, Zenon DEF delta, r
  <2>6. \A i \in S : i \in pins <=> pin[i] > 0
    OBVIOUS
  <2>7. U = est \cup stated /\ est \cap stated = {}
    <3>1. \A i \in S : i \in U <=> i \notin pins
      BY DEF Nats
    <3>2. U \subseteq S
      OBVIOUS
    <3> HIDE DEF pins
    <3> QED BY <3>1, <3>2
  <2>13. IsFiniteSet(est) /\ IsFiniteSet(stated) /\ stated \in SUBSET S /\ est \in SUBSET S
    BY FS_Subset
  <2> HIDE DEF c, r, delta, est, stated, pins
  <2>8. CASE r.left = 0
    BY <2>5, <2>8 DEF AfterEstimates, Cartons, c
  <2>9. CASE r.left # 0
    <3>1. Sum(base, stated) - r.left = Sum(base, S) - Sum(pin, S) - Cardinality(est)
      BY <2>4, <2>5, <2>6, <2>9, LeftToStated DEF r, delta, Asked
    <3>2. Cardinality(U) = Cardinality(est) + Cardinality(stated)
          /\ Cardinality(est) \in Nat /\ Cardinality(stated) \in Nat
      <4>1. Cardinality(est) \in Nat /\ Cardinality(stated) \in Nat
        BY <2>13, FS_CardinalityType
      <4>2. Cardinality(est \cup stated)
              = Cardinality(est) + Cardinality(stated) - Cardinality(est \cap stated)
        BY <2>13, FS_Union
      <4>3. Cardinality(est \cap stated) = 0
        BY <2>7, FS_EmptySet
      <4>4. PICK n, x, y : n = Cardinality(est \cup stated) /\ x = Cardinality(est)
                           /\ y = Cardinality(stated)
        OBVIOUS
      <4>5. x \in Nat /\ y \in Nat /\ n = x + y - 0
        BY <4>1, <4>2, <4>3, <4>4
      <4>6. n = x + y
        BY <4>5
      <4>7. Cardinality(U) = n
        BY <2>7, <4>4
      <4> QED BY <4>1, <4>4, <4>6, <4>7
    <3>3. Sum(base, stated) - r.left >= Cardinality(stated)
          /\ Sum(base, stated) - r.left \in Int
      <4>1. PICK x \in Int, y \in Int, z \in Int, n \in Int :
                /\ x = Sum(pin, S) /\ y = Cardinality(est) /\ z = Cardinality(stated)
                /\ n = Cardinality(U)
        <5>1. Sum(pin, S) \in Int /\ Cardinality(est) \in Int /\ Cardinality(stated) \in Int
              /\ Cardinality(U) \in Int
          BY <1>2, <3>2
        <5> QED BY <5>1
      <4>2. n = y + z /\ auth - x >= n
        BY <1>2, <1>4, <3>2, <4>1
      <4>3. auth - x - y >= z /\ auth - x - y \in Int
        BY <4>2
      <4> QED BY <2>4, <3>1, <4>1, <4>3
    <3>4. stated # {}
      <4> SUFFICES ASSUME stated = {} PROVE FALSE
        OBVIOUS
      <4>1. Sum(base, stated) = 0 /\ Cardinality(stated) = 0
        BY SumEmpty, FS_EmptySet
      <4>2. est # {}
        BY <1>4, <2>7
      <4>3. LeftLast(r, est, delta)
        BY <2>4, <2>5, <2>13, AbsorbedLast DEF r
      <4>4. r.left > 0
        BY <2>9, <4>2, <4>3 DEF LeftLast
      <4>5. AbsorbedOK(r, base, est, delta, S)
        BY <2>4, <2>5, <2>13, AbsorbedGives DEF r
      <4>6. r.left \in Int
        BY <4>5 DEF AbsorbedOK
      <4>7. 0 - r.left >= 0
        BY <3>3, <4>1
      <4> QED BY <4>4, <4>6, <4>7
    <3>5. StatedShares(base, stated, r.left) # Impossible
      <4> DEFINE b == Restrict(base, stated)
                 total == SumFunctionOnSet(base, stated) - r.left
                 floor == [i \in stated |-> MinCtn]
                 none == [i \in stated |-> 0]
      <4>1. StatedShares(base, stated, r.left) = Apportion(total, b, floor, none)
        BY <3>4 DEF StatedShares
      <4>2. DOMAIN b = stated
        BY <2>4, <2>13 DEF Restrict
      <4>3. total \in Int /\ Cardinality(stated) <= total
        <5>1. total = Sum(base, stated) - r.left
          BY DEF Sum
        <5> HIDE DEF total
        <5> QED BY <3>2, <3>3, <5>1
      <4>4. PICK f, n, bb, t : f = floor /\ n = none /\ bb = b /\ t = total
        OBVIOUS
      <4>5. stated \in SUBSET Int /\ DOMAIN bb = stated /\ t \in Int /\ Cardinality(stated) <= t
            /\ f = [i \in stated |-> MinCtn] /\ n = [i \in stated |-> 0]
        BY <2>13, <4>2, <4>3, <4>4
      <4>6. Apportion(t, bb, f, n) # Impossible
        BY <2>13, <3>4, <4>5, BaselineFits
      <4> QED BY <4>1, <4>4, <4>6
    <3>6. c.codes = Cartons({}).codes
      BY <2>5, <2>9, <3>5 DEF AfterEstimates, WithStated, Cartons
    <3> QED BY <3>6 DEF Cartons, c
  <2> QED BY <2>8, <2>9 DEF c
<1> QED BY <1>3, <1>4

\* The total a blocked carton allocation proposes leaves a carton for every row.
LEMMA CartonsProposed ==
    ASSUME NEW w, NEW S \in SUBSET Int, IsFiniteSet(S), NEW evidence,
           NEW pin, DOMAIN pin = S, Nats(pin, S), NEW auth \in Nat,
           NEW U, U = {i \in S : pin[i] = 0},
           NEW need, need = AllocateCartons(w, evidence, pin, auth).need, need > 0
    PROVE  /\ need \in Nat
           /\ \/ U = {} /\ Sum(pin, S) = need
              \/ U # {} /\ need - Sum(pin, S) >= Cardinality(U)
<1>1. SumFunction(pin) = Sum(pin, S)
  BY DEF Sum, SumFunction
<1>2. Sum(pin, S) \in Nat /\ Cardinality(U) \in Nat
  <2>1. PICK u : u = U
    OBVIOUS
  <2> QED BY PinsAndLeast
<1>3. {i \in DOMAIN pin : pin[i] = 0} = U
  OBVIOUS
<1>4. CASE U = {}
  <2>1. Sum(pin, S) = auth => need = 0
    BY <1>1, <1>3, <1>4 DEF AllocateCartons, Cartons
  <2>2. Sum(pin, S) # auth => need = Sum(pin, S)
    BY <1>1, <1>3, <1>4 DEF AllocateCartons, CartonsBlocked
  <2>3. PICK a \in Nat : a = Sum(pin, S)
    BY <1>2
  <2>4. a # auth /\ need = a
    BY <2>1, <2>2, <2>3
  <2> QED BY <1>4, <2>3, <2>4
<1>5. CASE U # {} /\ Sum(pin, S) > 0 /\ auth - Sum(pin, S) < MinCtn * Cardinality(U)
  <2>1. need = Sum(pin, S) + MinCtn * Cardinality(U)
    BY <1>1, <1>3, <1>5 DEF AllocateCartons, CartonsBlocked
  <2>2. PICK a \in Nat, n \in Nat : a = Sum(pin, S) /\ n = Cardinality(U)
    BY <1>2
  <2>3. need = a + n
    BY <2>1, <2>2 DEF MinCtn
  <2>4. need \in Nat /\ need - a >= n
    BY <2>2, <2>3
  <2> QED BY <1>5, <2>2, <2>4
<1>6. CASE U # {} /\ ~(Sum(pin, S) > 0 /\ auth - Sum(pin, S) < MinCtn * Cardinality(U))
  <2> DEFINE base == NoPinBaseline(w, auth)
             pins == {i \in DOMAIN pin : pin[i] > 0}
             stated == evidence \ pins
             r == Absorbed(base, DOMAIN pin \ (pins \cup evidence),
                           SumFunction([i \in pins |-> pin[i] - base[i]]))
             shares == StatedShares(base, stated, r.left)
  <2>1. AllocateCartons(w, evidence, pin, auth) = FromBaseline(base, evidence, pin)
    BY <1>1, <1>3, <1>6 DEF AllocateCartons
  <2>2. FromBaseline(base, evidence, pin)
          = IF base = Impossible
            THEN CartonsBlocked([i \in DOMAIN pin |-> MinCtn], "CARTON_ALLOCATION_IMPOSSIBLE", 0)
            ELSE AfterEstimates(base, pin, stated, r)
    BY DEF FromBaseline
  <2> HIDE DEF base, stated, r
  <2>3. AfterEstimates(base, pin, stated, r).need = 0
    <3>1. CASE r.left = 0
      BY <3>1 DEF AfterEstimates, Cartons
    <3>2. CASE r.left # 0 /\ shares = Impossible
      BY <3>2 DEF AfterEstimates, WithStated, CartonsBlocked
    <3>3. CASE r.left # 0 /\ shares # Impossible
      BY <3>3 DEF AfterEstimates, WithStated, Cartons
    <3> QED BY <3>1, <3>2, <3>3
  <2>4. need = 0
    BY <2>1, <2>2, <2>3 DEF CartonsBlocked
  <2> QED BY <2>4
<1> QED BY <1>4, <1>5, <1>6

\* The remedies of REVIEWED_CTN_TOTAL_MISMATCH and REVIEWED_CTN_EXCEEDS_AUTHORITY: the total a
\* blocked allocation proposes can be allocated, whatever the rows are weighed by.
LEMMA CartonRemedy ==
    ASSUME NEW w, NEW S \in SUBSET Int, IsFiniteSet(S), NEW evidence \in SUBSET S,
           NEW pin, DOMAIN pin = S, Nats(pin, S), NEW auth \in Nat,
           NEW need, need = AllocateCartons(w, evidence, pin, auth).need, need > 0,
           NEW v, S = DOMAIN v, Nats(v, S)
    PROVE  need \in Nat /\ AllocateCartons(v, evidence, pin, need).codes = {}
<1>1. PICK U : U = {i \in S : pin[i] = 0}
  OBVIOUS
<1>2. /\ need \in Nat
      /\ \/ U = {} /\ Sum(pin, S) = need
         \/ U # {} /\ need - Sum(pin, S) >= Cardinality(U)
  BY <1>1, CartonsProposed
<1> QED BY <1>1, <1>2, CartonsFit

\* A stated row that moved away from the baseline found the unstated ones at their least.
StatedLast(c, w, evidence, pin, auth) ==
    c.codes = {} =>
        \A i \in evidence, j \in DOMAIN w \ evidence :
            pin[i] = 0 /\ pin[j] = 0 /\ c.ctn[i] # NoPinBaseline(w, auth)[i]
                => c.ctn[j] = MinCtn

\* Stated rows move last: before, every other unpinned row is at the least.
LEMMA StatedMoveLast ==
    ASSUME NEW w, NEW S \in SUBSET Int, S = DOMAIN w, IsFiniteSet(S), Nats(w, S),
           NEW evidence \in SUBSET S, NEW pin, DOMAIN pin = S, Nats(pin, S), NEW auth \in Nat
    PROVE  StatedLast(AllocateCartons(w, evidence, pin, auth), w, evidence, pin, auth)
<1> SUFFICES ASSUME NEW c, c = AllocateCartons(w, evidence, pin, auth), c.codes = {},
                    NEW i \in evidence, pin[i] = 0, c.ctn[i] # NoPinBaseline(w, auth)[i],
                    NEW j \in S \ evidence, pin[j] = 0
             PROVE  c.ctn[j] = MinCtn
  BY DEF StatedLast
<1> DEFINE pins == {k \in S : pin[k] > 0}
           stated == evidence \ pins
           est == S \ (pins \cup evidence)
           base == NoPinBaseline(w, auth)
           delta == Asked(base, pin, pins)
           r == Absorbed(base, est, delta)
           shares == StatedShares(base, stated, r.left)
           U == {k \in S : pin[k] = 0}
<1>1. c = FromBaseline(base, evidence, pin)
  <2>1. {k \in DOMAIN pin : pin[k] = 0} = U /\ U # {}
    OBVIOUS
  <2>2. SumFunction(pin) > 0 => ~(auth - SumFunction(pin) < MinCtn * Cardinality(U))
    BY <2>1 DEF AllocateCartons, CartonsBlocked
  <2> QED BY <2>1, <2>2 DEF AllocateCartons
<1>2. base # Impossible
  <2> SUFFICES ASSUME base = Impossible PROVE FALSE
    OBVIOUS
  <2>1. c = CartonsBlocked([k \in DOMAIN pin |-> MinCtn], "CARTON_ALLOCATION_IMPOSSIBLE", 0)
    BY <1>1 DEF FromBaseline
  <2>2. c.codes = {"CARTON_ALLOCATION_IMPOSSIBLE"}
    BY <2>1 DEF CartonsBlocked
  <2> QED BY <2>2
<1>3. StatedGiven(base, auth, S)
  BY <1>2, NoPinBaselineGives
<1> HIDE DEF base
<1>4. DOMAIN base = S /\ RowsKept(base, S)
  BY <1>3 DEF StatedGiven
<1>5. /\ Parts(S, pins, est, stated) /\ delta \in Int
      /\ c = AfterEstimates(base, pin, stated, r)
  <2>1. PICK cc : cc = c
    OBVIOUS
  <2>2. cc = FromBaseline(base, evidence, pin)
    BY <1>1, <2>1
  <2>3. /\ Parts(S, pins, est, stated) /\ delta \in Int
        /\ FromBaseline(base, evidence, pin) = AfterEstimates(base, pin, stated, r)
    BY <1>2, <1>4, BaselineTaken
  <2> QED BY <2>1, <2>2, <2>3
<1>6. i \in stated /\ j \in est /\ i \notin est /\ j \notin stated /\ est \in SUBSET S /\ i \in S
  OBVIOUS
<1> HIDE DEF est, stated, pins, delta, r
<1>7. AbsorbedOK(r, base, est, delta, S) /\ LeftLast(r, est, delta)
  BY <1>4, <1>5, <1>6, AbsorbedGives, AbsorbedLast DEF r
<1>8. CASE r.left = 0
  <2>1. c.ctn[i] = r.ctn[i]
    BY <1>5, <1>6, <1>8 DEF AfterEstimates, Cartons, Pinned
  <2>2. r.ctn[i] = base[i]
    BY <1>6, <1>7 DEF AbsorbedOK
  <2> QED BY <2>1, <2>2 DEF base
<1>9. CASE r.left # 0
  <2>1. shares # Impossible
    BY <1>5, <1>9 DEF AfterEstimates, WithStated, CartonsBlocked
  <2>2. c.ctn[j] = r.ctn[j]
    <3> HIDE DEF shares
    <3>1. c = Cartons(Pinned(pin, [k \in DOMAIN pin |-> IF k \in stated THEN shares[k] ELSE r.ctn[k]]))
      BY <1>5, <1>9, <2>1 DEF AfterEstimates, WithStated, shares
    <3> QED BY <1>6, <3>1 DEF Cartons, Pinned
  <2> QED BY <1>6, <1>7, <1>9, <2>2 DEF LeftLast
<1> QED BY <1>8, <1>9

-----------------------------------------------------------------------------
(* The table again: printed figures move last, remedies are enough.         *)

CtnPinsOf(items) == [i \in DOMAIN items |-> items[i].pinCtn]
CtnStated(items, ev) == {i \in DOMAIN items : ev[i].ctn > 0}

\* The parts a table is made of, and what it keeps of each.
Parted(t, items, ev, packing, gross, packages, l, g, weight, c) ==
    /\ l = Ladder(items, ev, ProvisionalBasis(items, ev, packing), gross)
    /\ g = AllocateGross(items, l, gross)
    /\ DOMAIN weight = DOMAIN items /\ Nats(weight, DOMAIN items)
    /\ c = IF packages = 0 THEN Cartons(CtnPinsOf(items))
           ELSE AllocateCartons(weight, CtnStated(items, ev), CtnPinsOf(items), packages)
    /\ t.gross = g.gross /\ t.net = FinalNets(items, l, g.gross)
    /\ t.ctn = c.ctn /\ t.ctnWeight = weight
    /\ t.grossNeed = g.need /\ t.ctnNeed = c.need
    /\ t.codes \cap GrossCodes = g.codes /\ t.codes \cap CartonCodes = c.codes

\* A table keeps the figures, the codes and the remedies of its parts.
LEMMA TableKeeps ==
    ASSUME NEW items, NEW ev, NEW auth, NEW l, NEW g, NEW nets, NEW weight, NEW c, NEW authCtn,
           g.codes \subseteq GrossCodes, c.codes \subseteq CartonCodes,
           NEW t, t = AllocationTable(items, ev, auth, l, g, nets, weight, c, authCtn)
    PROVE  /\ t.gross = g.gross /\ t.net = nets /\ t.ctn = c.ctn /\ t.ctnWeight = weight
           /\ t.grossNeed = g.need /\ t.ctnNeed = c.need
           /\ t.codes \cap GrossCodes = g.codes /\ t.codes \cap CartonCodes = c.codes
<1> DEFINE inverted == {i \in DOMAIN items : g.gross[i] > 0 /\ nets[i] >= g.gross[i]}
           warned == IF inverted # {} THEN {"WEIGHT_RECONCILIATION_IMPOSSIBLE"} ELSE {}
           checked == IF authCtn = 0 THEN {}
                      ELSE CartonLatticeCheck(c.ctn, authCtn, g.codes \cup c.codes # {})
<1>1. /\ t.gross = g.gross /\ t.net = nets /\ t.ctn = c.ctn /\ t.ctnWeight = weight
      /\ t.grossNeed = g.need /\ t.ctnNeed = c.need
      /\ t.codes = g.codes \cup c.codes \cup warned \cup checked
  BY DEF AllocationTable
<1>2. warned \subseteq {"WEIGHT_RECONCILIATION_IMPOSSIBLE"}
  OBVIOUS
<1>3. checked \subseteq {"CARTON_LATTICE_VIOLATION", "CARTON_RECONCILIATION_FAILED"}
  BY DEF CartonLatticeCheck
<1> HIDE DEF warned, checked
<1>4. t.codes \cap GrossCodes = g.codes
  BY <1>1, <1>2, <1>3 DEF GrossCodes, CartonCodes
<1>5. t.codes \cap CartonCodes = c.codes
  BY <1>1, <1>2, <1>3 DEF GrossCodes, CartonCodes
<1> QED BY <1>1, <1>4, <1>5

\* Every table with an authority has its parts.
LEMMA TableParts ==
    ASSUME NEW items, NEW ev, FiguresOK(items, ev), items # << >>, NEW packing,
           NEW gross \in Nat, gross > 0, NEW packages \in Nat
    PROVE  \E l, g, weight, c :
               /\ Parted(Allocate(items, ev, packing, gross, packages),
                         items, ev, packing, gross, packages, l, g, weight, c)
               /\ LadderOK(l, items) /\ GrossGiven(g, items, l, gross)
<1> DEFINE S == DOMAIN items
           prov == ProvisionalBasis(items, ev, packing)
           auth == AuthorisedGross(ev, prov, gross)
           l == Ladder(items, ev, prov, gross)
           g == AllocateGross(items, l, gross)
           nets == FinalNets(items, l, g.gross)
           basis == CartonBasis(items, ev, g.gross, l.basis)
           weight == Scaled(basis)
           pin == CtnPinsOf(items)
           stated == CtnStated(items, ev)
           c == IF packages = 0 THEN Cartons(pin) ELSE AllocateCartons(weight, stated, pin, packages)
           t == Allocate(items, ev, packing, gross, packages)
<1>1. auth = gross
  BY DEF AuthorisedGross
<1>2. t = AllocationTable(items, ev, gross, l, g, nets, weight, c, packages)
  BY <1>1 DEF Allocate, BasisStep, AuthorityStep, LadderStep, GrossStep, CartonStep,
              CtnPinsOf, CtnStated
<1>3. IsFiniteSet(S) /\ S \in SUBSET Int /\ S \subseteq Int
  BY DEF FiguresOK
<1> HIDE DEF t, c, weight, basis, nets, g, l, auth, prov, stated, pin
<1>4. Basis(prov, S)
  BY <1>3, ProvisionalBasisGives DEF prov
<1>5. LadderOK(l, items)
  BY <1>3, <1>4, LadderGives DEF l
<1>6. GrossGiven(g, items, l, gross)
  BY <1>3, <1>5, AllocateGrossGives DEF g
<1>7. DOMAIN weight = S /\ Nats(weight, S)
  <2>1. Nats(g.gross, S)
    BY <1>6 DEF GrossGiven
  <2>2. Basis(l.basis, S)
    BY <1>5 DEF LadderOK
  <2>3. PICK gg, bb : gg = g.gross /\ bb = l.basis
    OBVIOUS
  <2>4. Basis(CartonBasis(items, ev, gg, bb), S)
    BY <1>3, <2>1, <2>2, <2>3, CartonBasisGives
  <2> QED BY <1>3, <2>3, <2>4, ScaledGives DEF weight, basis
<1>8. c.codes \subseteq CartonCodes
  <2>1. CASE packages = 0
    BY <2>1 DEF c, Cartons
  <2>2. CASE packages # 0
    <3>1. DOMAIN pin = S /\ Nats(pin, S) /\ stated \in SUBSET S
      BY DEF FiguresOK, Nats, pin, stated, CtnPinsOf, CtnStated
    <3>2. CartonsGiven(AllocateCartons(weight, stated, pin, packages), pin, packages, S)
      <4> HIDE DEF S
      <4> QED BY <1>3, <1>7, <3>1, AllocateCartonsGives
    <3> QED BY <2>2, <3>2 DEF CartonsGiven, c
  <2> QED BY <2>1, <2>2
<1>9. g.codes \subseteq GrossCodes
  BY <1>6 DEF GrossGiven
<1>10. /\ t.gross = g.gross /\ t.net = nets /\ t.ctn = c.ctn /\ t.ctnWeight = weight
       /\ t.grossNeed = g.need /\ t.ctnNeed = c.need
       /\ t.codes \cap GrossCodes = g.codes /\ t.codes \cap CartonCodes = c.codes
  <2>1. PICK tt : tt = t
    OBVIOUS
  <2>2. tt = AllocationTable(items, ev, gross, l, g, nets, weight, c, packages)
    BY <1>2, <2>1
  <2>3. /\ tt.gross = g.gross /\ tt.net = nets /\ tt.ctn = c.ctn /\ tt.ctnWeight = weight
        /\ tt.grossNeed = g.need /\ tt.ctnNeed = c.need
        /\ tt.codes \cap GrossCodes = g.codes /\ tt.codes \cap CartonCodes = c.codes
    BY <1>8, <1>9, <2>2, TableKeeps
  <2> QED BY <2>1, <2>3
<1>11. Parted(t, items, ev, packing, gross, packages, l, g, weight, c)
  <2>1. l = Ladder(items, ev, ProvisionalBasis(items, ev, packing), gross)
    BY DEF l, prov
  <2>2. g = AllocateGross(items, l, gross) /\ nets = FinalNets(items, l, g.gross)
    BY DEF g, nets
  <2>3. c = IF packages = 0 THEN Cartons(CtnPinsOf(items))
            ELSE AllocateCartons(weight, CtnStated(items, ev), CtnPinsOf(items), packages)
    BY DEF c, pin, stated
  <2> QED BY <1>7, <1>10, <2>1, <2>2, <2>3 DEF Parted
<1> QED BY <1>5, <1>6, <1>11 DEF t

\* A net that somebody printed is the net of the table.
LEMMA PrintedNets ==
    ASSUME NEW items, NEW ev, FiguresOK(items, ev), NEW packing, NEW gross, NEW packages,
           NEW t, NEW l, NEW g, NEW weight, NEW c,
           Parted(t, items, ev, packing, gross, packages, l, g, weight, c),
           LadderOK(l, items), GrossGiven(g, items, l, gross), g.codes = {},
           NEW i \in DOMAIN items, items[i].pinNet = 0,
           InvoiceStates(items[i]) \/ NetFromUomQuantity(items[i]) > 0 \/ ev[i].net > 0
    PROVE  t.net[i] = NetLadder(items[i], ev[i]).net
<1> DEFINE rung == NetLadder(items[i], ev[i])
<1>1. rung.src \in {Invoice, SoldByMass, PackingNet}
  BY DEF NetLadder
<1>2. rung.src # Description /\ rung.src # Ratio
  BY <1>1 DEF Invoice, SoldByMass, PackingNet, Description, Ratio
<1>3. LadderIs(l, items, ev, gross)
  BY LadderMade DEF Parted
<1>4. First(items, ev)[i] = rung
  BY DEF First
<1> HIDE DEF rung
<1>5. l.rungs[i] = rung
  BY <1>2, <1>3, <1>4 DEF LadderIs
<1>6. g.gross[i] > 0 /\ g.gross[i] \in Nat
  BY NetsStayBelow
<1>7. t.net = FinalNets(items, l, g.gross)
  BY DEF Parted
<1>8. t.net[i] = rung.net
  BY <1>2, <1>5, <1>6, <1>7 DEF FinalNets
<1> QED BY <1>8 DEF rung

\* The total a blocked table proposes for the gross is enough, with any number of packages.
LEMMA GrossRemedied ==
    ASSUME NEW items, NEW ev, FiguresOK(items, ev), items # << >>, NEW packing,
           NEW gross \in Nat, gross > 0, NEW packages \in Nat,
           NEW t, t = Allocate(items, ev, packing, gross, packages), t.grossNeed > 0,
           NEW more \in Nat
    PROVE  /\ t.grossNeed \in Nat
           /\ Allocate(items, ev, packing, t.grossNeed, more).codes \cap GrossCodes = {}
<1> DEFINE prov == ProvisionalBasis(items, ev, packing)
<1>1. PICK l, g, weight, c :
          /\ Parted(Allocate(items, ev, packing, gross, packages),
                    items, ev, packing, gross, packages, l, g, weight, c)
          /\ LadderOK(l, items) /\ GrossGiven(g, items, l, gross)
  BY TableParts
<1>2. /\ l = Ladder(items, ev, prov, gross) /\ t.grossNeed = AllocateGross(items, l, gross).need
  BY <1>1 DEF Parted
<1>3. Basis(prov, DOMAIN items)
  BY ProvisionalBasisGives DEF FiguresOK
<1> HIDE DEF prov
<1>4. PICK need : need = t.grossNeed
  OBVIOUS
<1>5. need > 0 /\ need = AllocateGross(items, l, gross).need
  BY <1>2, <1>4
<1>6. need \in Nat /\ AllocateGross(items, Ladder(items, ev, prov, need), need).codes = {}
  BY <1>2, <1>3, <1>5, GrossRemedy
<1>7. PICK l2, g2, weight2, c2 :
          /\ Parted(Allocate(items, ev, packing, need, more),
                    items, ev, packing, need, more, l2, g2, weight2, c2)
          /\ LadderOK(l2, items) /\ GrossGiven(g2, items, l2, need)
  BY <1>5, <1>6, TableParts
<1>8. Allocate(items, ev, packing, need, more).codes \cap GrossCodes = {}
  BY <1>6, <1>7 DEF Parted, prov
<1> QED BY <1>4, <1>6, <1>8

\* The total a blocked table proposes for the cartons is enough, with any gross weight.
LEMMA CartonsRemedied ==
    ASSUME NEW items, NEW ev, FiguresOK(items, ev), items # << >>, NEW packing,
           NEW gross \in Nat, gross > 0, NEW packages \in Nat,
           NEW t, t = Allocate(items, ev, packing, gross, packages), t.ctnNeed > 0,
           NEW other \in Nat, other > 0
    PROVE  /\ t.ctnNeed \in Nat
           /\ Allocate(items, ev, packing, other, t.ctnNeed).codes \cap CartonCodes = {}
<1> DEFINE S == DOMAIN items
           pin == CtnPinsOf(items)
           stated == CtnStated(items, ev)
<1>1. PICK l, g, weight, c :
          Parted(Allocate(items, ev, packing, gross, packages),
                 items, ev, packing, gross, packages, l, g, weight, c)
  BY TableParts
<1>2. S \in SUBSET Int /\ IsFiniteSet(S) /\ DOMAIN pin = S /\ Nats(pin, S) /\ stated \in SUBSET S
  BY DEF FiguresOK, Nats, CtnPinsOf, CtnStated
<1> HIDE DEF pin, stated
<1>3. PICK need : need = t.ctnNeed
  OBVIOUS
<1>4. packages # 0 /\ need > 0 /\ need = AllocateCartons(weight, stated, pin, packages).need
  <2>1. need = c.need /\ need > 0
    BY <1>1, <1>3 DEF Parted
  <2>2. c = IF packages = 0 THEN Cartons(pin) ELSE AllocateCartons(weight, stated, pin, packages)
    BY <1>1 DEF Parted, pin, stated
  <2>3. Cartons(pin).need = 0
    BY DEF Cartons
  <2> QED BY <2>1, <2>2, <2>3
<1> HIDE DEF S
<1>5. \A v : S = DOMAIN v /\ Nats(v, S) =>
          need \in Nat /\ AllocateCartons(v, stated, pin, need).codes = {}
  BY <1>2, <1>4, CartonRemedy
<1>6. need \in Nat
  BY <1>1, <1>5 DEF Parted, S
<1>7. PICK l2, g2, weight2, c2 :
          Parted(Allocate(items, ev, packing, other, need),
                 items, ev, packing, other, need, l2, g2, weight2, c2)
  BY <1>4, <1>6, TableParts
<1>8. c2 = AllocateCartons(weight2, stated, pin, need) /\ DOMAIN weight2 = S /\ Nats(weight2, S)
      /\ Allocate(items, ev, packing, other, need).codes \cap CartonCodes = c2.codes
  BY <1>4, <1>7 DEF Parted, pin, stated, S
<1>9. Allocate(items, ev, packing, other, need).codes \cap CartonCodes = {}
  BY <1>5, <1>8
<1> QED BY <1>3, <1>6, <1>9

-----------------------------------------------------------------------------
(* Lists, and where an entry of a concatenation comes from.                 *)

\* The concatenations of the first parts, one after another, exist.
LEMMA FlattenSteps ==
    ASSUME NEW N \in Nat, NEW ss
    PROVE  \E f : f = [i \in 1..N |-> IF i = 1 THEN ss[i] ELSE f[i - 1] \o ss[i]]
<1> DEFINE Upto(n) == \E f : f = [i \in 1..n |-> IF i = 1 THEN ss[i] ELSE f[i - 1] \o ss[i]]
           Bad == {n \in Nat : ~Upto(n)}
<1> SUFFICES ASSUME Bad # {} PROVE FALSE
  OBVIOUS
<1>1. PICK n \in Bad : \A m \in Bad : n <= m
  <2> HIDE DEF Bad
  <2>1. Bad \in SUBSET Nat
    BY DEF Bad
  <2> QED BY <2>1, LeastOf
<1>2. n # 0
  <2> SUFFICES ASSUME n = 0 PROVE FALSE
    OBVIOUS
  <2> DEFINE f == [i \in 1..0 |-> << >>]
  <2>1. f = [i \in 1..0 |-> IF i = 1 THEN ss[i] ELSE f[i - 1] \o ss[i]]
    OBVIOUS
  <2> HIDE DEF f
  <2>2. Upto(0)
    BY <2>1
  <2> QED BY <2>2
<1>3. n - 1 \in Nat /\ Upto(n - 1)
  <2> HIDE DEF Upto
  <2>1. n \in Nat /\ n - 1 \notin Bad
    BY <1>1
  <2> QED BY <1>2, <2>1
<1>4. PICK g : g = [i \in 1..(n - 1) |-> IF i = 1 THEN ss[i] ELSE g[i - 1] \o ss[i]]
  BY <1>3
<1> DEFINE f == [i \in 1..n |-> IF i # n THEN g[i] ELSE IF i = 1 THEN ss[i] ELSE g[i - 1] \o ss[i]]
<1>5. ASSUME NEW i \in 1..n PROVE f[i] = IF i = 1 THEN ss[i] ELSE f[i - 1] \o ss[i]
  <2>1. i # 1 => i - 1 \in 1..n /\ i - 1 # n /\ f[i - 1] = g[i - 1]
    OBVIOUS
  <2>2. CASE i = n
    BY <2>1, <2>2
  <2>3. CASE i # n
    <3>1. i \in 1..(n - 1) /\ f[i] = g[i]
      BY <2>3
    <3>2. g[i] = IF i = 1 THEN ss[i] ELSE g[i - 1] \o ss[i]
      BY <1>4, <3>1
    <3> QED BY <2>1, <3>1, <3>2
  <2> QED BY <2>2, <2>3
<1>6. f = [i \in 1..n |-> f[i]]
  OBVIOUS
<1> HIDE DEF f
<1>7. f = [i \in 1..n |-> IF i = 1 THEN ss[i] ELSE f[i - 1] \o ss[i]]
  BY <1>5, <1>6
<1>8. Upto(n)
  BY <1>7
<1> QED BY <1>8

\* A concatenation of sequences of S is one.
LEMMA FlattenTyped ==
    ASSUME NEW S, NEW ss, NEW N \in Nat, DOMAIN ss = 1..N, ss = [k \in 1..N |-> ss[k]],
           \A k \in 1..N : ss[k] \in Seq(S)
    PROVE  FlattenSeq(ss) \in Seq(S)
<1>1. ss \in Seq(Seq(S)) /\ Len(ss) = N
  <2>1. ss \in [1..N -> Seq(S)]
    OBVIOUS
  <2> QED BY <2>1
<1>2. CASE N = 0
  <2>1. FlattenSeq(ss) = ss
    BY <1>1, <1>2 DEF FlattenSeq
  <2>2. ss = << >>
    BY <1>1, <1>2
  <2>3. << >> \in Seq(S)
    OBVIOUS
  <2> QED BY <2>1, <2>2, <2>3, Zenon
<1>3. CASE N # 0
  <2> DEFINE f == CHOOSE f : f = [i \in 1..N |-> IF i = 1 THEN ss[i] ELSE f[i - 1] \o ss[i]]
  <2>1. FlattenSeq(ss) = f[N]
    BY <1>1, <1>3 DEF FlattenSeq
  <2>2. f = [i \in 1..N |-> IF i = 1 THEN ss[i] ELSE f[i - 1] \o ss[i]]
    BY FlattenSteps
  <2> HIDE DEF f
  <2> DEFINE Bad == {n \in 1..N : f[n] \notin Seq(S)}
  <2>3. ASSUME Bad # {} PROVE FALSE
    <3>1. PICK n \in Bad : \A m \in Bad : n <= m
      <4>1. Bad \in SUBSET Nat
        OBVIOUS
      <4> HIDE DEF Bad
      <4> QED BY <2>3, <4>1, LeastOf
    <3>2. f[n] = IF n = 1 THEN ss[n] ELSE f[n - 1] \o ss[n]
      BY <2>2, <3>1
    <3>3. n # 1
      BY <3>1, <3>2
    <3>4. n - 1 \in 1..N /\ n - 1 \notin Bad
      BY <3>1, <3>3
    <3>5. f[n - 1] \in Seq(S) /\ ss[n] \in Seq(S)
      BY <3>1, <3>4
    <3>6. f[n] \in Seq(S)
      BY <3>2, <3>3, <3>5
    <3> QED BY <3>1, <3>6
  <2> QED BY <1>3, <2>1, <2>3
<1> QED BY <1>2, <1>3

\* e lists the elements of K, each after those ahead of it.
Lists(e, N, K, ahead) ==
    /\ N \in Nat /\ e \in [1..N -> K]
    /\ \A x \in K : \E i \in 1..N : e[i] = x
    /\ \A i, j \in 1..N : i < j => e[i] \in ahead[e[j]]

\* Then an element stands where those ahead of it leave it.
LEMMA ListPlaces ==
    ASSUME NEW e, NEW N, NEW K, NEW ahead \in [K -> SUBSET K], Lists(e, N, K, ahead),
           \A x, y \in K : x \in ahead[y] => y \notin ahead[x]
    PROVE  /\ IsFiniteSet(K) /\ Cardinality(K) = N
           /\ \A i \in 1..N : 1 + Cardinality(ahead[e[i]]) = i
<1>1. /\ N \in Nat /\ e \in [1..N -> K]
      /\ \A x \in K : \E i \in 1..N : e[i] = x
      /\ \A i, j \in 1..N : i < j => e[i] \in ahead[e[j]]
  BY DEF Lists
<1>2. ASSUME NEW i \in 1..N, NEW j \in 1..N, e[i] = e[j] PROVE i = j
  <2>1. e[i] \in K /\ e[i] \notin ahead[e[i]]
    BY <1>1
  <2>2. ~(i < j) /\ ~(j < i)
    BY <1>1, <1>2, <2>1
  <2>3. i \in Int /\ j \in Int
    BY <1>1
  <2> QED BY <2>2, <2>3
<1>3. e \in Surjection(1..N, K) /\ e \in Injection(1..N, K)
  BY <1>1, <1>2 DEF Surjection, Injection, IsInjective
<1>4. IsFiniteSet(1..N) /\ Cardinality(1..N) = N
  <2>1. 1 \in Int /\ N \in Int /\ (1 > N => N = 0)
    BY <1>1
  <2>2. IsFiniteSet(1..N) /\ Cardinality(1..N) = IF 1 > N THEN 0 ELSE N - 1 + 1
    BY <2>1, FS_Interval
  <2> QED BY <1>1, <2>1, <2>2
<1>5. IsFiniteSet(K) /\ Cardinality(K) = N
  BY <1>3, <1>4, FS_Surjection
<1>6. ASSUME NEW i \in 1..N PROVE 1 + Cardinality(ahead[e[i]]) = i
  <2>1. PICK m \in Nat : m = i - 1
    BY <1>1
  <2>2. PICK W : W = ahead[e[i]]
    OBVIOUS
  <2>3. PICK h : h = [j \in 1..m |-> e[j]]
    OBVIOUS
  <2>4. \A j \in 1..m : j \in 1..N /\ j < i
    BY <1>1, <2>1
  <2>5. h \in [1..m -> W]
    BY <1>1, <2>2, <2>3, <2>4
  <2>6. \A x \in W : \E j \in 1..m : h[j] = x
    <3> SUFFICES ASSUME NEW x \in W PROVE \E j \in 1..m : h[j] = x
      OBVIOUS
    <3>1. x \in K /\ e[i] \in K
      BY <1>1, <2>2
    <3>2. PICK j \in 1..N : e[j] = x
      BY <1>1, <3>1
    <3>3. e[i] \notin ahead[e[j]] /\ e[i] \notin ahead[e[i]]
      BY <2>2, <3>1, <3>2
    <3>4. ~(i < j) /\ i # j
      BY <1>1, <2>2, <3>2, <3>3
    <3>5. j \in 1..m
      BY <1>1, <2>1, <3>4
    <3> QED BY <2>3, <3>2, <3>5
  <2>7. \A j, k \in 1..m : h[j] = h[k] => j = k
    BY <1>2, <2>3, <2>4
  <2>8. h \in Surjection(1..m, W) /\ h \in Injection(1..m, W)
    BY <2>5, <2>6, <2>7 DEF Surjection, Injection, IsInjective
  <2>9. IsFiniteSet(1..m) /\ Cardinality(1..m) = m
    <3>1. 1 \in Int /\ m \in Int /\ (1 > m => m = 0)
      BY <2>1
    <3>2. IsFiniteSet(1..m) /\ Cardinality(1..m) = IF 1 > m THEN 0 ELSE m - 1 + 1
      BY <3>1, FS_Interval
    <3> QED BY <3>1, <3>2
  <2>10. Cardinality(W) = m
    BY <2>8, <2>9, FS_Surjection
  <2> QED BY <1>1, <2>1, <2>2, <2>10
<1> QED BY <1>5, <1>6

\* Where each entry of a concatenation comes from.
Joins(flat, ss, N, a, b) ==
    /\ a \in [1..Len(flat) -> 1..N] /\ b \in [1..Len(flat) -> Nat]
    /\ \A i \in 1..Len(flat) : b[i] \in 1..Len(ss[a[i]]) /\ flat[i] = ss[a[i]][b[i]]
    /\ \A k \in 1..N : \A j \in 1..Len(ss[k]) : \E i \in 1..Len(flat) : a[i] = k /\ b[i] = j
    /\ \A i, j \in 1..Len(flat) : i < j => a[i] < a[j] \/ (a[i] = a[j] /\ b[i] < b[j])

\* One more part joins the others at the end.
LEMMA JoinsMore ==
    ASSUME NEW S, NEW ss, NEW N \in Nat, \A k \in 1..(N + 1) : ss[k] \in Seq(S),
           NEW flat \in Seq(S), NEW a, NEW b, Joins(flat, ss, N, a, b)
    PROVE  \E c, d : Joins(flat \o ss[N + 1], ss, N + 1, c, d)
<1>1. PICK L, M, t : /\ L \in Nat /\ L = Len(flat) /\ M \in Nat /\ M = Len(t)
                     /\ t = ss[N + 1] /\ t \in Seq(S)
  <2>1. PICK t : t = ss[N + 1]
    OBVIOUS
  <2>2. N + 1 \in 1..(N + 1)
    OBVIOUS
  <2>3. t \in Seq(S)
    BY <2>1, <2>2
  <2>4. Len(t) \in Nat /\ Len(flat) \in Nat
    BY <2>3, LenProperties
  <2> QED BY <2>1, <2>3, <2>4
<1>2. PICK new : new = flat \o t
  OBVIOUS
<1>3. /\ Len(new) = L + M
      /\ \A i \in 1..(L + M) : new[i] = IF i <= L THEN flat[i] ELSE t[i - L]
  BY <1>1, <1>2
<1> DEFINE c == [i \in 1..(L + M) |-> IF i <= L THEN a[i] ELSE N + 1]
           d == [i \in 1..(L + M) |-> IF i <= L THEN b[i] ELSE i - L]
<1>4. /\ a \in [1..L -> 1..N] /\ b \in [1..L -> Nat]
      /\ \A i \in 1..L : b[i] \in 1..Len(ss[a[i]]) /\ flat[i] = ss[a[i]][b[i]]
      /\ \A k \in 1..N : \A j \in 1..Len(ss[k]) : \E i \in 1..L : a[i] = k /\ b[i] = j
      /\ \A i, j \in 1..L : i < j => a[i] < a[j] \/ (a[i] = a[j] /\ b[i] < b[j])
  BY <1>1 DEF Joins
<1>5. /\ \A i \in 1..L : i \in 1..(L + M) /\ c[i] = a[i] /\ d[i] = b[i]
      /\ \A j \in 1..M : j + L \in 1..(L + M) /\ c[j + L] = N + 1 /\ d[j + L] = j
  BY <1>1
<1>6. \A i \in 1..(L + M) : i \in 1..L \/ \E j \in 1..M : j = i - L /\ i = j + L
  <2> SUFFICES ASSUME NEW i \in 1..(L + M), i \notin 1..L
               PROVE  \E j \in 1..M : j = i - L /\ i = j + L
    OBVIOUS
  <2>1. i - L \in 1..M /\ i = (i - L) + L
    BY <1>1
  <2> QED BY <2>1
<1>7. c \in [1..(L + M) -> 1..(N + 1)] /\ d \in [1..(L + M) -> Nat]
  <2>1. \A i \in 1..(L + M) : c[i] \in 1..(N + 1) /\ d[i] \in Nat
    <3> HIDE DEF c, d
    <3> SUFFICES ASSUME NEW i \in 1..(L + M) PROVE c[i] \in 1..(N + 1) /\ d[i] \in Nat
      OBVIOUS
    <3>1. CASE i \in 1..L
      BY <1>4, <1>5, <3>1
    <3>2. ASSUME NEW j \in 1..M, i = j + L PROVE c[i] \in 1..(N + 1) /\ d[i] \in Nat
      BY <1>5, <3>2
    <3> QED BY <1>6, <3>1, <3>2
  <2>2. c = [i \in 1..(L + M) |-> c[i]] /\ d = [i \in 1..(L + M) |-> d[i]]
    OBVIOUS
  <2> HIDE DEF c, d
  <2> QED BY <2>1, <2>2
<1> HIDE DEF c, d
<1>8. ASSUME NEW i \in 1..(L + M)
      PROVE  d[i] \in 1..Len(ss[c[i]]) /\ new[i] = ss[c[i]][d[i]]
  <2>1. CASE i \in 1..L
    BY <1>3, <1>4, <1>5, <2>1
  <2>2. CASE i \notin 1..L
    <3>1. PICK j \in 1..M : j = i - L /\ i = j + L /\ ~(i <= L)
      BY <1>1, <1>6, <2>2
    <3>2. c[i] = N + 1 /\ d[i] = j
      BY <1>5, <3>1
    <3>3. new[i] = t[j]
      BY <1>3, <3>1
    <3> QED BY <1>1, <3>2, <3>3
  <2> QED BY <2>1, <2>2
<1>9. ASSUME NEW k \in 1..(N + 1), NEW j \in 1..Len(ss[k])
      PROVE  \E i \in 1..(L + M) : c[i] = k /\ d[i] = j
  <2>1. CASE k \in 1..N
    <3>1. PICK i \in 1..L : a[i] = k /\ b[i] = j
      BY <1>4, <2>1
    <3> QED BY <1>5, <3>1
  <2>2. CASE k \notin 1..N
    <3>1. k = N + 1
      BY <2>2
    <3>2. j \in 1..M
      BY <1>1, <3>1
    <3> QED BY <1>5, <3>1, <3>2
  <2> QED BY <2>1, <2>2
<1>10. ASSUME NEW i \in 1..(L + M), NEW j \in 1..(L + M), i < j
       PROVE  c[i] < c[j] \/ (c[i] = c[j] /\ d[i] < d[j])
  <2>1. CASE j \in 1..L
    <3>1. i \in 1..L
      BY <1>1, <1>10, <2>1
    <3> QED BY <1>4, <1>5, <1>10, <2>1, <3>1
  <2>2. CASE i \in 1..L /\ j \notin 1..L
    <3>1. c[i] \in 1..N
      BY <1>4, <1>5, <2>2
    <3>2. PICK m \in 1..M : j = m + L
      BY <1>6, <2>2
    <3>3. c[j] = N + 1
      BY <1>5, <3>2
    <3> QED BY <3>1, <3>3
  <2>3. CASE i \notin 1..L /\ j \notin 1..L
    <3>1. PICK m \in 1..M, n \in 1..M : m = i - L /\ i = m + L /\ n = j - L /\ j = n + L
      BY <1>6, <2>3
    <3>2. c[i] = N + 1 /\ d[i] = m /\ c[j] = N + 1 /\ d[j] = n
      BY <1>5, <3>1
    <3> QED BY <1>1, <1>10, <3>1, <3>2
  <2>4. i \notin 1..L => j \notin 1..L
    BY <1>1, <1>10
  <2> QED BY <2>1, <2>2, <2>3, <2>4
<1>11. Joins(new, ss, N + 1, c, d)
  BY <1>3, <1>7, <1>8, <1>9, <1>10 DEF Joins
<1> QED BY <1>1, <1>2, <1>11

\* A concatenation has every entry of its parts, part by part.
LEMMA FlattenPlaces ==
    ASSUME NEW S, NEW ss, NEW N \in Nat, DOMAIN ss = 1..N, ss = [k \in 1..N |-> ss[k]],
           \A k \in 1..N : ss[k] \in Seq(S)
    PROVE  \E a, b : Joins(FlattenSeq(ss), ss, N, a, b)
<1>1. ss \in Seq(Seq(S)) /\ Len(ss) = N
  <2>1. ss \in [1..N -> Seq(S)]
    OBVIOUS
  <2> QED BY <2>1
<1>2. CASE N = 0
  <2>1. FlattenSeq(ss) = ss
    BY <1>1, <1>2 DEF FlattenSeq
  <2>2. Len(ss) = 0 /\ 1..0 = {}
    BY <1>1, <1>2
  <2>3. PICK none : none = [i \in {} |-> 0]
    OBVIOUS
  <2>4. Joins(ss, ss, N, none, none)
    BY <1>2, <2>2, <2>3 DEF Joins
  <2> QED BY <2>1, <2>4
<1>3. CASE N # 0
  <2> DEFINE f == CHOOSE f : f = [i \in 1..N |-> IF i = 1 THEN ss[i] ELSE f[i - 1] \o ss[i]]
  <2>1. FlattenSeq(ss) = f[N]
    BY <1>1, <1>3 DEF FlattenSeq
  <2>2. f = [i \in 1..N |-> IF i = 1 THEN ss[i] ELSE f[i - 1] \o ss[i]]
    BY FlattenSteps
  <2> HIDE DEF f
  <2> DEFINE Good(n) == f[n] \in Seq(S) /\ \E a, b : Joins(f[n], ss, n, a, b)
             Bad == {n \in 1..N : ~Good(n)}
  <2>a. \A i \in 1..N : f[i] = IF i = 1 THEN ss[i] ELSE f[i - 1] \o ss[i]
    BY <2>2
  <2>3. Good(1)
    <3>1. f[1] = ss[1] /\ ss[1] \in Seq(S)
      <4>1. PICK i \in 1..N : i = 1
        BY <1>3
      <4>2. f[i] = ss[i]
        BY <2>a, <4>1
      <4> QED BY <4>1, <4>2
    <3>2. PICK t, L : t = ss[1] /\ L = Len(t) /\ L \in Nat
      BY <3>1, LenProperties
    <3>3. PICK a, b : a = [i \in 1..L |-> 1] /\ b = [i \in 1..L |-> i]
      OBVIOUS
    <3>4. Joins(t, ss, 1, a, b)
      <4>1. a \in [1..L -> 1..1] /\ b \in [1..L -> Nat]
        BY <3>2, <3>3
      <4>2. \A i \in 1..L : a[i] = 1 /\ b[i] = i
        BY <3>3
      <4>3. \A k \in 1..1 : k = 1
        OBVIOUS
      <4> QED BY <3>2, <4>1, <4>2, <4>3 DEF Joins
    <3> QED BY <3>1, <3>2, <3>4
  <2>4. ASSUME NEW n \in 1..N, n + 1 \in 1..N, Good(n) PROVE Good(n + 1)
    <3>1. f[n + 1] = f[n] \o ss[n + 1]
      <4>1. PICK i \in 1..N : i = n + 1
        BY <2>4
      <4>2. i # 1 /\ i - 1 = n
        BY <4>1
      <4>3. f[i] = f[i - 1] \o ss[i]
        BY <2>a, <4>2
      <4> QED BY <4>1, <4>2, <4>3
    <3>2. \A k \in 1..(n + 1) : ss[k] \in Seq(S)
      BY <2>4
    <3>3. f[n + 1] \in Seq(S)
      BY <2>4, <3>1, <3>2
    <3>4. PICK a, b : Joins(f[n], ss, n, a, b)
      BY <2>4
    <3>5. PICK flat \in Seq(S) : flat = f[n]
      BY <2>4
    <3>6. \E c, d : Joins(flat \o ss[n + 1], ss, n + 1, c, d)
      <4>1. n \in Nat /\ Joins(flat, ss, n, a, b)
        BY <3>4, <3>5
      <4> QED BY <3>2, <4>1, JoinsMore
    <3> QED BY <3>1, <3>3, <3>5, <3>6
  <2>5. ASSUME Bad # {} PROVE FALSE
    <3>1. PICK n \in Bad : \A m \in Bad : n <= m
      <4>1. Bad \in SUBSET Nat
        OBVIOUS
      <4> HIDE DEF Bad
      <4> QED BY <2>5, <4>1, LeastOf
    <3>2. n \in 1..N /\ ~Good(n)
      BY <3>1
    <3>3. n # 1
      <4> HIDE DEF Good
      <4> QED BY <2>3, <3>2
    <3>4. PICK m \in 1..N : n = m + 1
      <4>1. n - 1 \in 1..N /\ n = (n - 1) + 1
        BY <3>2, <3>3
      <4> QED BY <4>1
    <3>5. Good(m)
      <4>1. m \notin Bad
        <5> HIDE DEF Bad
        <5> QED BY <3>1, <3>4
      <4> QED BY <4>1
    <3> HIDE DEF Good
    <3> QED BY <2>4, <3>2, <3>4, <3>5
  <2>6. N \notin Bad
    BY <2>5
  <2>7. Good(N)
    <3> HIDE DEF Good
    <3> QED BY <1>3, <2>6
  <2> QED BY <2>1, <2>7
<1> QED BY <1>2, <1>3
===============================================================================
