----------------------------- MODULE EngineLemmas -----------------------------
(***************************************************************************)
(* Lemmas about the operators that documents, writes and analyses are      *)
(* built from, for the proofs about the modules that use them: definitions *)
(* by recursion, sums, lists, the searches, what a write does to a cell.   *)
(***************************************************************************)
EXTENDS Writes, Analyses, SequenceTheorems, FiniteSetTheorems, WellFoundedInduction, TLAPS

-----------------------------------------------------------------------------
(* Recursion *)

\* A set of numbers has a least one.
LEMMA LeastNatural ==
  ASSUME NEW S \in SUBSET Nat, S # {}
  PROVE  \E i \in S : \A j \in S : i <= j
<1> DEFINE R == {ss \in Nat \X Nat : ss[1] < ss[2]}
<1>1. PICK i \in S : \A j \in S : <<j, i>> \notin R
  <2>1. R = OpToRel(<, Nat)
    BY DEF OpToRel
  <2>2. IsWellFoundedOn(R, Nat)
    BY <2>1, NatLessThanWellFounded
  <2> HIDE DEF R
  <2> QED BY <2>2, WFMin
<1>2. \A j \in S : i <= j
  <2> TAKE j \in S
  <2>1. ~ (<<j, i>> \in Nat \X Nat /\ j < i)
    BY <1>1
  <2> QED BY <2>1
<1> QED BY <1>2

\* Functions that a recursive definition with one predecessor p determines on a
\* set that holds the predecessors of its elements.
Partial(D, Base, p, b, h, T, g) ==
  /\ T \subseteq D
  /\ \A x \in T \ Base : p[x] \in T
  /\ \A x \in T : g[x] = IF x \in Base THEN b[x] ELSE h[<<x, g[p[x]]>>]

LEMMA PartialUnique ==
  ASSUME NEW D, NEW R, IsWellFoundedOn(R, D), NEW Base, NEW p, NEW b, NEW h,
         \A x \in D \ Base : <<p[x], x>> \in R,
         NEW T, NEW g, Partial(D, Base, p, b, h, T, g),
         NEW U, NEW f, Partial(D, Base, p, b, h, U, f),
         NEW x \in T \cap U
  PROVE  g[x] = f[x]
<1> DEFINE Bad == {y \in T \cap U : g[y] # f[y]}
<1>1. SUFFICES ASSUME Bad # {} PROVE FALSE
  OBVIOUS
<1>2. Bad \subseteq D
  BY DEF Partial
<1>3. PICK y \in Bad : \A z \in Bad : <<z, y>> \notin R
  <2> HIDE DEF Bad
  <2> QED BY <1>1, <1>2, WFMin
<1>4. CASE y \in Base
  BY <1>4 DEF Partial
<1>5. CASE y \notin Base
  <2>1. p[y] \in T \cap U /\ <<p[y], y>> \in R
    BY <1>2, <1>5 DEF Partial
  <2>2. g[p[y]] = f[p[y]]
    BY <1>3, <2>1
  <2>3. g[y] = h[<<y, g[p[y]]>>] /\ f[y] = h[<<y, f[p[y]]>>]
    BY <1>5 DEF Partial
  <2> QED BY <2>2, <2>3
<1> QED BY <1>4, <1>5

\* What such a definition is: D and V are its arguments and values, each step
\* from an argument outside Base leads to one that is smaller in R.
WellDefined(D, V, R, Base, p, b, h) ==
  /\ IsWellFoundedOn(R, D)
  /\ \A x \in D \ Base : p[x] \in D /\ <<p[x], x>> \in R
  /\ \A x \in D \cap Base : b[x] \in V
  /\ \A x \in D \ Base : \A v \in V : h[<<x, v>>] \in V

Solves(f, D, V, Base, p, b, h) ==
  /\ f \in [D -> V]
  /\ \A x \in D : f[x] = IF x \in Base THEN b[x] ELSE h[<<x, f[p[x]]>>]

\* A definition by well-founded recursion with one predecessor has a solution.
LEMMA RecursionExists ==
  ASSUME NEW D, NEW V, NEW R, NEW Base, NEW p, NEW b, NEW h,
         WellDefined(D, V, R, Base, p, b, h)
  PROVE  \E f : Solves(f, D, V, Base, p, b, h)
<1> USE DEF WellDefined, Solves
<1> DEFINE Covers(x, T, g) == /\ Partial(D, Base, p, b, h, T, g) /\ x \in T
                              /\ g \in [T -> V]
           Bad == {x \in D : ~ \E T, g : Covers(x, T, g)}
<1>1. Bad = {}
  <2>1. SUFFICES ASSUME Bad # {} PROVE FALSE
    OBVIOUS
  <2>2. PICK x \in Bad : \A z \in Bad : <<z, x>> \notin R
    <3>1. Bad \subseteq D
      OBVIOUS
    <3> HIDE DEF Bad
    <3> QED BY <2>1, <3>1, WFMin
  <2>3. x \in D /\ ~ \E T, g : Covers(x, T, g)
    OBVIOUS
  <2>4. CASE x \in Base
    <3> DEFINE g == [y \in {x} |-> b[x]]
    <3>1. Covers(x, {x}, g)
      BY <2>3, <2>4 DEF Partial
    <3> QED BY <2>3, <3>1
  <2>5. CASE x \notin Base
    <3>1. p[x] \in D /\ p[x] \notin Bad
      BY <2>2, <2>3, <2>5
    <3>2. PICK T, g : Covers(p[x], T, g)
      BY <3>1
    <3>3. x \notin T
      BY <2>3, <3>2
    <3> DEFINE g2 == [y \in T \cup {x} |-> IF y = x THEN h[<<x, g[p[x]]>>] ELSE g[y]]
    <3>4. h[<<x, g[p[x]]>>] \in V
      BY <2>3, <2>5, <3>2
    <3>5. g2 \in [T \cup {x} -> V]
      BY <3>2, <3>4
    <3>6. \A y \in T : g2[y] = g[y] /\ (y \notin Base => p[y] \in T)
      BY <3>2, <3>3 DEF Partial
    <3>7. g2[x] = h[<<x, g[p[x]]>>] /\ g2[p[x]] = g[p[x]]
      BY <3>2, <3>6
    <3>8. Partial(D, Base, p, b, h, T \cup {x}, g2)
      <4> HIDE DEF g2
      <4>1. T \cup {x} \subseteq D
        BY <2>3, <3>2 DEF Partial
      <4>2. \A y \in (T \cup {x}) \ Base : p[y] \in T \cup {x}
        BY <3>2, <3>6
      <4>3. \A y \in T : g2[y] = IF y \in Base THEN b[y] ELSE h[<<y, g2[p[y]]>>]
        BY <3>2, <3>6 DEF Partial
      <4>4. g2[x] = IF x \in Base THEN b[x] ELSE h[<<x, g2[p[x]]>>]
        BY <2>5, <3>7
      <4> QED BY <4>1, <4>2, <4>3, <4>4 DEF Partial
    <3>9. Covers(x, T \cup {x}, g2)
      BY <3>5, <3>8
    <3> QED BY <2>3, <3>9
  <2> QED BY <2>4, <2>5
<1> DEFINE f == [x \in D |-> CHOOSE v : \E T, g : Covers(x, T, g) /\ g[x] = v]
<1>2. ASSUME NEW x \in D, NEW T, NEW g, Covers(x, T, g)
      PROVE  f[x] = g[x]
  <2> DEFINE Val(v) == \E U, k : Covers(x, U, k) /\ k[x] = v
  <2>1. Val(g[x])
    BY <1>2
  <2>2. f[x] = CHOOSE v : Val(v)
    OBVIOUS
  <2>3. Val(f[x])
    <3> HIDE DEF Val, f
    <3> QED BY <2>1, <2>2
  <2>4. PICK U, k : Covers(x, U, k) /\ k[x] = f[x]
    BY <2>3
  <2>5. k[x] = g[x]
    <3> HIDE DEF f
    <3> QED BY <1>2, <2>4, PartialUnique
  <2> QED BY <2>4, <2>5
<1> HIDE DEF f
<1>3. ASSUME NEW x \in D
      PROVE  f[x] \in V /\ f[x] = IF x \in Base THEN b[x] ELSE h[<<x, f[p[x]]>>]
  <2>1. PICK T, g : Covers(x, T, g)
    BY <1>1
  <2>2. f[x] = g[x] /\ g[x] \in V
    BY <1>2, <2>1
  <2>3. x \notin Base => f[p[x]] = g[p[x]]
    <3>1. ASSUME x \notin Base PROVE Covers(p[x], T, g) /\ p[x] \in D
      BY <2>1, <3>1 DEF Partial
    <3> QED BY <1>2, <3>1
  <2>4. g[x] = IF x \in Base THEN b[x] ELSE h[<<x, g[p[x]]>>]
    BY <2>1 DEF Partial
  <2> QED BY <2>2, <2>3, <2>4
<1>4. f \in [D -> V]
  <2>1. f = [x \in D |-> f[x]]
    BY DEF f
  <2> QED BY <1>3, <2>1
<1> QED BY <1>3, <1>4

LEMMA LexWellFounded ==
  ASSUME NEW D, NEW a \in [D -> Nat], NEW b \in [D -> Nat], NEW c \in [D -> Nat],
         NEW R, \A x, y \in D : <<x, y>> \in R =>
           \/ a[x] < a[y]
           \/ a[x] = a[y] /\ b[x] < b[y]
           \/ a[x] = a[y] /\ b[x] = b[y] /\ c[x] < c[y]
  PROVE  IsWellFoundedOn(R, D)
<1>1. ASSUME NEW T \in SUBSET D, T # {}
      PROVE  \E x \in T : \A y \in T : <<y, x>> \notin R
  <2>1. PICK i \in {a[x] : x \in T} : \A j \in {a[x] : x \in T} : i <= j
    <3>1. {a[x] : x \in T} \in SUBSET Nat /\ {a[x] : x \in T} # {}
      BY <1>1
    <3> QED BY <3>1, LeastNatural
  <2> DEFINE T1 == {x \in T : a[x] = i}
  <2>2. PICK j \in {b[x] : x \in T1} : \A k \in {b[x] : x \in T1} : j <= k
    <3>1. {b[x] : x \in T1} \in SUBSET Nat /\ {b[x] : x \in T1} # {}
      BY <2>1
    <3> QED BY <3>1, LeastNatural
  <2> DEFINE T2 == {x \in T1 : b[x] = j}
  <2>3. PICK k \in {c[x] : x \in T2} : \A l \in {c[x] : x \in T2} : k <= l
    <3>1. {c[x] : x \in T2} \in SUBSET Nat /\ {c[x] : x \in T2} # {}
      BY <2>2
    <3> QED BY <3>1, LeastNatural
  <2>4. PICK x \in T2 : c[x] = k
    BY <2>3
  <2>5. ASSUME NEW y \in T, <<y, x>> \in R PROVE FALSE
    <3>1. a[x] <= a[y]
      BY <2>1
    <3>2. a[x] = a[y] => b[x] <= b[y]
      BY <2>2
    <3>3. a[x] = a[y] /\ b[x] = b[y] => c[x] <= c[y]
      BY <2>3, <2>4
    <3>4. x \in D /\ y \in D
      OBVIOUS
    <3>5. /\ a[x] \in Nat /\ a[y] \in Nat /\ b[x] \in Nat /\ b[y] \in Nat
          /\ c[x] \in Nat /\ c[y] \in Nat
      BY <3>4
    <3> QED BY <2>5, <3>1, <3>2, <3>3, <3>4, <3>5
  <2> QED BY <2>5
<1> QED BY <1>1, MinWF

\* Induction over a finite set and over the naturals, for what a set collects.
LEMMA AllSubsets ==
  ASSUME NEW S, IsFiniteSet(S), NEW Good, {} \in Good,
         \A T \in SUBSET S : T # {} /\ (\A x \in T : T \ {x} \in Good) => T \in Good
  PROVE  \A T \in SUBSET S : T \in Good
<1> DEFINE Bad == (SUBSET S) \ Good
           R == StrictSubsetOrdering(S)
<1>1. SUFFICES ASSUME Bad # {} PROVE FALSE
  OBVIOUS
<1>2. IsWellFoundedOn(R, SUBSET S)
  BY FS_FiniteSubsetsOfFinite, FS_StrictSubsetOrderingWellFounded
<1>3. PICK T \in Bad : \A U \in Bad : <<U, T>> \notin R
  <2>1. Bad \subseteq SUBSET S
    OBVIOUS
  <2> HIDE DEF Bad, R
  <2> QED BY <1>1, <1>2, <2>1, WFMin
<1>4. \A x \in T : <<T \ {x}, T>> \in R
  BY DEF StrictSubsetOrdering
<1> QED BY <1>3, <1>4

LEMMA CountingInduction ==
  ASSUME NEW Good, 0 \in Good, \A n \in Nat : n \in Good => n + 1 \in Good
  PROVE  \A n \in Nat : n \in Good
<1> DEFINE Bad == Nat \ Good
<1>1. SUFFICES ASSUME Bad # {} PROVE FALSE
  OBVIOUS
<1>2. PICK n \in Bad : \A m \in Bad : n <= m
  <2>1. Bad \in SUBSET Nat
    OBVIOUS
  <2> HIDE DEF Bad
  <2> QED BY <1>1, <2>1, LeastNatural
<1>3. n # 0 /\ n - 1 \in Nat /\ (n - 1) + 1 = n
  OBVIOUS
<1>4. n - 1 \in Bad
  BY <1>3
<1> QED BY <1>2, <1>4

-----------------------------------------------------------------------------
(* Indices *)

\* Every set of indices has a least and a greatest one.
LEMMA MinOfSome ==
  ASSUME NEW n \in Nat, NEW S \in SUBSET (1 .. n), S # {}
  PROVE  Min(S) \in S /\ \A j \in S : Min(S) <= j
<1> DEFINE R == {ss \in Nat \X Nat : ss[1] < ss[2]}
<1>1. S \subseteq Nat /\ \A j \in S : j \in Nat
  OBVIOUS
<1>2. PICK i \in S : \A j \in S : <<j, i>> \notin R
  <2>1. R = OpToRel(<, Nat)
    BY DEF OpToRel
  <2>2. IsWellFoundedOn(R, Nat)
    BY <2>1, NatLessThanWellFounded
  <2> HIDE DEF R
  <2> QED BY <1>1, <2>2, WFMin
<1>3. \A j \in S : i <= j
  <2> TAKE j \in S
  <2>1. ~ (<<j, i>> \in Nat \X Nat /\ j < i)
    BY <1>2
  <2> QED BY <1>1, <2>1
<1> QED BY <1>3 DEF Min

LEMMA MaxOfSome ==
  ASSUME NEW n \in Nat, NEW S \in SUBSET (1 .. n), S # {}
  PROVE  Max(S) \in S /\ \A j \in S : j <= Max(S)
<1> DEFINE T == {x \in 1 .. n + 1 : \E i \in S : x + i = n + 1}
<1>1. \A i \in S : i \in 1 .. n /\ n + 1 - i \in 1 .. n + 1 /\ (n + 1 - i) + i = n + 1
  OBVIOUS
<1>2. T # {} /\ T \in SUBSET (1 .. n + 1) /\ n + 1 \in Nat
  <2>1. PICK i \in S : TRUE
    OBVIOUS
  <2>2. n + 1 - i \in T
    BY <1>1, <2>1
  <2>3. n + 1 \in Nat /\ T \subseteq 1 .. n + 1
    OBVIOUS
  <2> HIDE DEF T
  <2> QED
    BY <2>2, <2>3
<1> HIDE DEF T
<1>3. Min(T) \in T /\ \A x \in T : Min(T) <= x
  BY <1>2, MinOfSome
<1>4. PICK i \in S : Min(T) + i = n + 1
  <2>1. \E i \in S : Min(T) + i = n + 1
    BY <1>3 DEF T
  <2> QED
    BY <2>1
<1>5. ASSUME NEW j \in S PROVE j <= i
  <2>1. n + 1 - j \in T
    BY <1>1 DEF T
  <2>2. Min(T) <= n + 1 - j /\ Min(T) \in 1 .. n + 1
    BY <1>2, <1>3, <2>1
  <2>3. i \in 1 .. n /\ j \in 1 .. n
    BY <1>1
  <2> QED BY <1>4, <2>2, <2>3
<1>6. \A j \in S : i >= j
  BY <1>1, <1>5
<1>7. Max(S) \in S /\ \A j \in S : Max(S) >= j
  BY <1>6 DEF Max
<1> QED BY <1>1, <1>7

\* The dimension of a member is one that lists it, if any does.
LEMMA DimensionOfShape ==
  ASSUME DimensionOrder \in Seq(DimensionIds), None \notin DimensionIds, NEW doc, NEW m
  PROVE  /\ DimensionOf(doc, m) \in DimensionIds \cup {None}
         /\ DimensionOf(doc, m) # None => m \in MembersOf(doc, DimensionOf(doc, m))
         /\ DimensionOf(doc, m) = None => \A d \in DimensionIds : m \notin MembersOf(doc, d)
<1> DEFINE I == {i \in 1 .. Len(DimensionOrder) : m \in MembersOf(doc, DimensionOrder[i])}
<1>1. /\ Len(DimensionOrder) \in Nat
      /\ \A i \in 1 .. Len(DimensionOrder) : DimensionOrder[i] \in DimensionIds
      /\ DimensionIds = {DimensionOrder[i] : i \in 1 .. Len(DimensionOrder)}
  BY LenProperties DEF DimensionIds
<1>2. DimensionOf(doc, m) = LET i == IF I # {} THEN Min(I) ELSE 0
                            IN  IF i = 0 THEN None ELSE DimensionOrder[i]
  BY DEF DimensionOf, SelectInSeq
<1>3. CASE I = {}
  <2>1. DimensionOf(doc, m) = None
    BY <1>2, <1>3
  <2> QED
    BY <1>1, <1>3, <2>1
<1>4. CASE I # {}
  <2>1. Min(I) \in I
    BY <1>1, <1>4, MinOfSome
  <2>2. DimensionOf(doc, m) = DimensionOrder[Min(I)]
    BY <1>2, <1>4, <2>1
  <2> QED
    BY <1>1, <2>1, <2>2
<1> QED
  BY <1>3, <1>4

-----------------------------------------------------------------------------
(* Documents that are observed *)

LEMMA AppendShape ==
  ASSUME NEW s, s \in Seq(Range(s)), NEW e
  PROVE  /\ Append(s, e) \in Seq(Range(Append(s, e))) \ {<<>>}
         /\ DOMAIN Append(s, e) = DOMAIN s \cup {Len(s) + 1}
         /\ Len(s) + 1 \notin DOMAIN s
         /\ \A i \in DOMAIN s : Append(s, e)[i] = s[i]
         /\ Append(s, e)[Len(s) + 1] = e
<1> DEFINE t == Append(s, e)
           S == Range(s) \cup {e}
<1>1. Len(s) \in Nat /\ DOMAIN s = 1 .. Len(s)
  BY LenProperties
<1>2. s \in Seq(S)
  BY SeqMonotonic
<1>3. /\ t \in Seq(S) /\ Len(t) = Len(s) + 1
      /\ \A i \in DOMAIN s : t[i] = s[i]
      /\ t[Len(s) + 1] = e
  BY <1>1, <1>2, AppendProperties
<1>4. t \in [1 .. Len(t) -> S] /\ DOMAIN t = 1 .. Len(t)
  BY <1>3, LenProperties
<1> HIDE DEF t
<1>5. t \in Seq(Range(t))
  <2>1. Range(t) = {t[i] : i \in DOMAIN t} /\ Len(t) \in Nat
    BY <1>1, <1>3 DEF Range
  <2>2. \A i \in 1 .. Len(t) : t[i] \in Range(t)
    BY <1>4, <2>1
  <2>3. t \in [1 .. Len(t) -> Range(t)]
    BY <1>4, <2>2
  <2> QED
    BY <2>1, <2>3
<1>6. t # <<>>
  BY <1>1, <1>3
<1> QED
  BY <1>1, <1>3, <1>4, <1>5, <1>6 DEF t

LEMMA FunctionIsSeq ==
  ASSUME NEW S, NEW n \in Nat, NEW f \in [1 .. n -> S]
  PROVE  f \in Seq(S)
  BY SeqDef

\* A cell with an observation added: the same one, or one longer.
LEMMA AddedShape ==
  ASSUME NEW cell, cell \in Seq(Range(cell)), NEW o
  PROVE  /\ Added(cell, o) \in Seq(Range(Added(cell, o))) \ {<<>>}
         /\ \/ Added(cell, o) = cell /\ o \in Range(cell)
            \/ o \notin Range(cell) /\ Added(cell, o) = Append(cell, o)
<1>1. Len(cell) \in Nat /\ DOMAIN cell = 1 .. Len(cell)
  BY LenProperties
<1>2. Contains(cell, o) <=> o \in Range(cell)
  BY <1>1 DEF Contains, Range
<1>3. CASE o \in Range(cell)
  <2>1. cell # <<>>
    BY <1>1, <1>3 DEF Range
  <2> QED
    BY <1>2, <1>3, <2>1 DEF Added
<1>4. CASE o \notin Range(cell)
  BY <1>2, <1>4, AppendShape DEF Added
<1> QED
  BY <1>3, <1>4

LEMMA CellShape ==
  ASSUME NEW doc, IsDocument(doc), NEW r \in DOMAIN doc.relations, NEW p
  PROVE  Cell(doc, r, p) \in Seq(Range(Cell(doc, r, p)))
<1>1. CASE p \in DOMAIN doc.relations[r].cells
  BY <1>1 DEF Cell, IsDocument
<1>2. CASE p \notin DOMAIN doc.relations[r].cells
  BY <1>2, EmptySeq DEF Cell
<1> QED
  BY <1>1, <1>2

\* An observation changes one cell of a document and nothing else.
LEMMA ObservedShape ==
  ASSUME NEW doc, IsDocument(doc), NEW r \in DOMAIN doc.relations, NEW from, NEW to, NEW o,
         NEW next, next = Observed(doc, r, from, to, o)
  PROVE  /\ IsDocument(next)
         /\ DOMAIN next.relations = DOMAIN doc.relations
         /\ \A q \in DOMAIN doc.relations \ {r} : next.relations[q] = doc.relations[q]
         /\ next.relations[r].cells =
              With(doc.relations[r].cells, <<from, to>>, Added(Cell(doc, r, <<from, to>>), o))
         /\ \A x \in DOMAIN doc \ {"relations"} : next[x] = doc[x]
         /\ \A x \in DOMAIN doc.relations[r] \ {"cells"} :
              next.relations[r][x] = doc.relations[r][x]
<1> DEFINE p == <<from, to>>
           added == Added(Cell(doc, r, p), o)
           cells == With(doc.relations[r].cells, p, added)
           rel == [doc.relations[r] EXCEPT !.cells = cells]
           relations == [doc.relations EXCEPT ![r] = rel]
<1>1. /\ "relations" \in DOMAIN doc
      /\ "cells" \in DOMAIN doc.relations[r]
  BY DEF IsDocument
<1>2. next = [doc EXCEPT !.relations = relations]
  BY DEF Observed
<1>3. DOMAIN cells = DOMAIN doc.relations[r].cells \cup {p} /\ cells[p] = added
      /\ \A q \in DOMAIN doc.relations[r].cells \ {p} : cells[q] = doc.relations[r].cells[q]
  BY DEF With
<1>4. added \in Seq(Range(added)) \ {<<>>}
  BY CellShape, AddedShape
<1> HIDE DEF added, cells
<1>5. /\ rel.cells = cells /\ DOMAIN rel = DOMAIN doc.relations[r]
      /\ \A x \in DOMAIN doc.relations[r] \ {"cells"} : rel[x] = doc.relations[r][x]
  BY <1>1
<1> HIDE DEF rel
<1>6. /\ DOMAIN relations = DOMAIN doc.relations /\ relations[r] = rel
      /\ \A q \in DOMAIN doc.relations \ {r} : relations[q] = doc.relations[q]
  OBVIOUS
<1> HIDE DEF relations
<1>7. /\ DOMAIN next = DOMAIN doc /\ next.relations = relations
      /\ \A x \in DOMAIN doc \ {"relations"} : next[x] = doc[x]
  BY <1>1, <1>2
<1>8. IsDocument(next)
  <2>1. \A q \in DOMAIN cells : cells[q] \in Seq(Range(cells[q])) \ {<<>>}
    BY <1>3, <1>4 DEF IsDocument
  <2>2. DOMAIN next = {"dimensions", "scales", "relations", "contractions"}
    BY <1>7 DEF IsDocument
  <2>3. DOMAIN rel = {"from", "to", "type", "scale", "policy", "status", "successor", "cells"}
    BY <1>5 DEF IsDocument
  <2>4. \A q \in DOMAIN next.relations \ {r} : next.relations[q] = doc.relations[q]
    BY <1>6, <1>7
  <2>5. next.relations[r] = rel /\ DOMAIN next.relations = DOMAIN doc.relations
    BY <1>6, <1>7
  <2> QED
    BY <1>5, <2>1, <2>2, <2>3, <2>4, <2>5 DEF IsDocument
<1> QED
  BY <1>5, <1>6, <1>7, <1>8 DEF cells, added

-----------------------------------------------------------------------------
(* Sums *)

\* What it takes for a sum over a set to be a number, and the sums over all its
\* subsets as one function.
Summable(g, S) == IsFiniteSet(S) /\ \A x \in S : g[x] \in Int

SumTable(f, g, S) ==
  /\ f \in [SUBSET S -> Int]
  /\ \A T \in SUBSET S : f[T] = IF T = {} THEN 0
        ELSE g[CHOOSE x \in T : TRUE] + f[T \ {CHOOSE x \in T : TRUE}]

\* Each sum is any one part of it and the sum of the others.
Parted(f, g, S) == \A T \in SUBSET S : \A x \in T : f[T] = g[x] + f[T \ {x}]

\* The recursion of a sum over a finite set.
LEMMA SumDefined ==
  ASSUME NEW S, NEW g, Summable(g, S)
  PROVE  \E f : SumTable(f, g, S) /\ SumFunctionOnSet(g, S) = f[S]
<1> USE DEF Summable
<1> DEFINE D == SUBSET S
           R == StrictSubsetOrdering(S)
           Base == {{}}
           p == [T \in D |-> T \ {CHOOSE x \in T : TRUE}]
           b == [T \in D |-> 0]
           h == [z \in D \X Int |-> g[CHOOSE x \in z[1] : TRUE] + z[2]]
<1>1. IsWellFoundedOn(R, D)
  BY FS_FiniteSubsetsOfFinite, FS_StrictSubsetOrderingWellFounded
<1>2. \A T \in D \ Base : p[T] \in D /\ <<p[T], T>> \in R
  BY DEF StrictSubsetOrdering
<1>3. \A T \in D \ Base : \A v \in Int : h[<<T, v>>] \in Int
  OBVIOUS
<1>4. \A T \in D \cap Base : b[T] \in Int
  OBVIOUS
<1>5. WellDefined(D, Int, R, Base, p, b, h)
  <2> HIDE DEF D, R, Base, p, b, h
  <2> QED BY <1>1, <1>2, <1>3, <1>4 DEF WellDefined
<1>6. PICK f : Solves(f, D, Int, Base, p, b, h)
  <2> HIDE DEF D, R, Base, p, b, h
  <2> QED BY <1>5, RecursionExists
<1>7. \A T \in D : f[T] = IF T = {} THEN 0
                ELSE g[CHOOSE x \in T : TRUE] + f[T \ {CHOOSE x \in T : TRUE}]
  <2> TAKE T \in D
  <2>1. CASE T = {}
    BY <1>6, <2>1 DEF Solves
  <2>2. CASE T # {}
    <3>1. p[T] \in D /\ p[T] = T \ {CHOOSE x \in T : TRUE}
      OBVIOUS
    <3>2. f[p[T]] \in Int
      BY <1>6, <3>1 DEF Solves
    <3>3. f[T] = h[<<T, f[p[T]]>>]
      BY <1>6, <2>2 DEF Solves
    <3>4. ASSUME NEW v \in Int PROVE h[<<T, v>>] = g[CHOOSE x \in T : TRUE] + v
      <4>1. <<T, v>> \in D \X Int
        OBVIOUS
      <4> HIDE DEF D
      <4> QED BY <4>1
    <3> QED BY <2>2, <3>1, <3>2, <3>3, <3>4
  <2> QED BY <2>1, <2>2
<1> DEFINE iter[T \in SUBSET S] == IF T = {} THEN 0
                ELSE g[CHOOSE x \in T : TRUE] + iter[T \ {CHOOSE x \in T : TRUE}]
<1>8. f = [T \in SUBSET S |-> IF T = {} THEN 0
                ELSE g[CHOOSE x \in T : TRUE] + f[T \ {CHOOSE x \in T : TRUE}]]
  BY <1>6, <1>7 DEF Solves
<1>9. iter = [T \in SUBSET S |-> IF T = {} THEN 0
                ELSE g[CHOOSE x \in T : TRUE] + iter[T \ {CHOOSE x \in T : TRUE}]]
  <2> HIDE <1>6
  <2> HIDE DEF p, b, h, R, Base
  <2> QED BY <1>8, Zenon
<1>10. SumFunctionOnSet(g, S) = iter[S]
  BY DEF SumFunctionOnSet, FoldFunctionOnSet, MapThenFoldSet
<1> HIDE DEF iter
<1>11. \A T \in D : iter[T] \in Int
  <2> DEFINE Bad == {T \in D : iter[T] \notin Int}
  <2>1. SUFFICES ASSUME Bad # {} PROVE FALSE
    OBVIOUS
  <2>2. PICK T \in Bad : \A U \in Bad : <<U, T>> \notin R
    <3>1. Bad \subseteq D
      OBVIOUS
    <3> HIDE DEF Bad, D, R
    <3> QED BY <1>1, <2>1, <3>1, WFMin
  <2>3. T # {} => p[T] \in D /\ <<p[T], T>> \in R /\ p[T] = T \ {CHOOSE x \in T : TRUE}
    BY <1>2
  <2>4. T # {} => iter[T \ {CHOOSE x \in T : TRUE}] \in Int
    BY <2>2, <2>3
  <2>5. T # {} => g[CHOOSE x \in T : TRUE] \in Int
    OBVIOUS
  <2>6. iter[T] = IF T = {} THEN 0
                ELSE g[CHOOSE x \in T : TRUE] + iter[T \ {CHOOSE x \in T : TRUE}]
    BY <1>9
  <2> QED BY <2>4, <2>5, <2>6
<1>12. iter \in [SUBSET S -> Int]
  BY <1>9, <1>11
<1>13. \A T \in SUBSET S : iter[T] = IF T = {} THEN 0
                ELSE g[CHOOSE x \in T : TRUE] + iter[T \ {CHOOSE x \in T : TRUE}]
  BY <1>9
<1> QED BY <1>10, <1>12, <1>13 DEF SumTable

\* The sums over the subsets are the sums over the subsets.
LEMMA SumTableSame ==
  ASSUME NEW S, NEW g, Summable(g, S), NEW f, SumTable(f, g, S), NEW T \in SUBSET S
  PROVE  SumFunctionOnSet(g, T) = f[T]
<1>1. Summable(g, T)
  BY FS_Subset DEF Summable
<1>2. PICK k : SumTable(k, g, T) /\ SumFunctionOnSet(g, T) = k[T]
  BY <1>1, SumDefined
<1> DEFINE Good == {U \in SUBSET T : k[U] = f[U]}
<1>3. {} \in Good
  BY <1>2 DEF SumTable
<1>4. ASSUME NEW U \in SUBSET T, U # {}, \A x \in U : U \ {x} \in Good PROVE U \in Good
  <2> DEFINE x == CHOOSE x \in U : TRUE
  <2>1. x \in U /\ U \ {x} \in Good
    BY <1>4
  <2>2. k[U] = g[x] + k[U \ {x}]
    BY <1>2, <1>4 DEF SumTable
  <2>3. f[U] = g[x] + f[U \ {x}]
    BY <1>4 DEF SumTable
  <2> QED BY <2>1, <2>2, <2>3
<1>5. \A U \in SUBSET T : U \in Good
  <2> HIDE DEF Good
  <2> QED BY <1>1, <1>3, <1>4, AllSubsets DEF Summable
<1> QED BY <1>2, <1>5

\* A sum is the same whichever part is taken out first.
LEMMA SumTableStep ==
  ASSUME NEW S, NEW g, Summable(g, S), NEW f, SumTable(f, g, S)
  PROVE  Parted(f, g, S)
<1> DEFINE Good == {T \in SUBSET S : \A x \in T : f[T] = g[x] + f[T \ {x}]}
<1>1. {} \in Good
  OBVIOUS
<1>2. \A T \in SUBSET S : f[T] \in Int
  BY DEF SumTable
<1>3. \A x \in S : g[x] \in Int
  BY DEF Summable
<1>4. ASSUME NEW T \in SUBSET S, T # {}, \A x \in T : T \ {x} \in Good PROVE T \in Good
  <2>1. PICK c \in T : f[T] = g[c] + f[T \ {c}]
    <3> DEFINE first == CHOOSE x \in T : TRUE
    <3>1. first \in T
      BY <1>4
    <3>2. f[T] = g[first] + f[T \ {first}]
      BY <1>4 DEF SumTable
    <3> HIDE DEF first
    <3> QED BY <3>1, <3>2
  <2>2. ASSUME NEW x \in T, x # c PROVE f[T] = g[x] + f[T \ {x}]
    <3>1. f[T \ {c}] = g[x] + f[(T \ {c}) \ {x}]
      BY <1>4, <2>1, <2>2
    <3>2. f[T \ {x}] = g[c] + f[(T \ {c}) \ {x}]
      <4>1. (T \ {c}) \ {x} = (T \ {x}) \ {c}
        OBVIOUS
      <4> QED BY <1>4, <2>1, <2>2, <4>1
    <3> DEFINE rest == f[(T \ {c}) \ {x}]
    <3>3. rest \in Int /\ g[c] \in Int /\ g[x] \in Int
      BY <1>2, <1>3
    <3>4. f[T] = g[c] + (g[x] + rest) /\ f[T \ {x}] = g[c] + rest
      BY <2>1, <3>1, <3>2
    <3> HIDE DEF rest
    <3>5. \A u, v, w \in Int : u + (v + w) = v + (u + w)
      OBVIOUS
    <3>6. g[c] + (g[x] + rest) = g[x] + (g[c] + rest)
      BY <3>3, <3>5
    <3> QED BY <3>4, <3>6
  <2> QED BY <2>1, <2>2
<1> HIDE DEF Good
<1>5. \A T \in SUBSET S : T \in Good
  BY <1>1, <1>4, AllSubsets DEF Summable
<1> QED BY <1>5 DEF Good, Parted

LEMMA SumRecursion ==
  ASSUME NEW S, NEW g, Summable(g, S)
  PROVE  /\ SumFunctionOnSet(g, S) \in Int
         /\ S = {} => SumFunctionOnSet(g, S) = 0
         /\ \A x \in S : SumFunctionOnSet(g, S) = g[x] + SumFunctionOnSet(g, S \ {x})
<1>1. PICK f : SumTable(f, g, S) /\ SumFunctionOnSet(g, S) = f[S]
  BY SumDefined
<1>2. \A T \in SUBSET S : SumFunctionOnSet(g, T) = f[T]
  BY <1>1, SumTableSame
<1>3. Parted(f, g, S)
  BY <1>1, SumTableStep
<1>4. S \in SUBSET S /\ \A x \in S : S \ {x} \in SUBSET S
  OBVIOUS
<1>5. f[S] \in Int /\ (S = {} => f[S] = 0)
  BY <1>1 DEF SumTable
<1> QED BY <1>1, <1>2, <1>3, <1>4, <1>5 DEF Parted

\* Sums whose parts are equal one by one are equal.
LEMMA SumSame ==
  ASSUME NEW S, NEW g, Summable(g, S), NEW h, NEW k, \A x \in S : g[x] = h[k[x]],
         \A x, y \in S : k[x] = k[y] => x = y
  PROVE  SumFunctionOnSet(g, S) = SumFunctionOnSet(h, {k[x] : x \in S})
<1> DEFINE Im(T) == {k[x] : x \in T}
           Good == {T \in SUBSET S : SumFunctionOnSet(g, T) = SumFunctionOnSet(h, Im(T))}
<1>1. ASSUME NEW T \in SUBSET S
      PROVE  Summable(g, T) /\ Summable(h, Im(T))
  <2>1. IsFiniteSet(T)
    BY FS_Subset DEF Summable
  <2> DEFINE m == [x \in T |-> k[x]]
  <2>2. m \in Surjection(T, Im(T))
    BY DEF Surjection
  <2>3. IsFiniteSet(Im(T))
    <3> HIDE DEF m
    <3> QED BY <2>1, <2>2, FS_Surjection
  <2> QED BY <2>1, <2>3 DEF Summable
<1>2. {} \in Good
  <2>1. Im({}) = {} /\ {} \in SUBSET S
    OBVIOUS
  <2> HIDE DEF Im
  <2> QED BY <1>1, <2>1, SumRecursion
<1>3. ASSUME NEW T \in SUBSET S, T # {}, \A x \in T : T \ {x} \in Good PROVE T \in Good
  <2>1. PICK x \in T : TRUE
    BY <1>3
  <2>2. Im(T) \ {k[x]} = Im(T \ {x}) /\ k[x] \in Im(T)
    BY <2>1
  <2>3. SumFunctionOnSet(g, T) = g[x] + SumFunctionOnSet(g, T \ {x})
    BY <1>1, <2>1, SumRecursion
  <2>4. SumFunctionOnSet(h, Im(T)) = h[k[x]] + SumFunctionOnSet(h, Im(T) \ {k[x]})
    <3> HIDE DEF Im
    <3> QED BY <1>1, <2>2, SumRecursion
  <2>5. SumFunctionOnSet(g, T \ {x}) = SumFunctionOnSet(h, Im(T \ {x}))
    BY <1>3, <2>1
  <2> QED BY <2>2, <2>3, <2>4, <2>5
<1>4. S \in Good
  <2> HIDE DEF Good
  <2> QED BY <1>2, <1>3, AllSubsets DEF Summable
<1> QED BY <1>4

\* A sum of parts that are not negative is not, and is positive if a part is.
LEMMA SumPositive ==
  ASSUME NEW S, IsFiniteSet(S), NEW g, \A x \in S : g[x] \in Nat
  PROVE  /\ SumFunctionOnSet(g, S) \in Nat
         /\ (\E x \in S : g[x] > 0) => SumFunctionOnSet(g, S) > 0
<1> DEFINE Good == {T \in SUBSET S : SumFunctionOnSet(g, T) \in Nat}
<1>1. ASSUME NEW T \in SUBSET S PROVE Summable(g, T)
  BY FS_Subset DEF Summable
<1>2. {} \in Good
  <2>1. {} \in SUBSET S
    OBVIOUS
  <2>2. SumFunctionOnSet(g, {}) = 0
    BY <1>1, <2>1, SumRecursion
  <2> QED BY <2>1, <2>2
<1>3. ASSUME NEW T \in SUBSET S, T # {}, \A x \in T : T \ {x} \in Good PROVE T \in Good
  <2>1. PICK x \in T : TRUE
    BY <1>3
  <2>2. SumFunctionOnSet(g, T) = g[x] + SumFunctionOnSet(g, T \ {x})
    BY <1>1, <2>1, SumRecursion
  <2>3. SumFunctionOnSet(g, T \ {x}) \in Nat /\ g[x] \in Nat
    BY <1>3, <2>1
  <2> QED BY <2>2, <2>3
<1>4. \A T \in SUBSET S : T \in Good
  <2> HIDE DEF Good
  <2> QED BY <1>2, <1>3, AllSubsets
<1>5. ASSUME NEW x \in S, g[x] > 0 PROVE SumFunctionOnSet(g, S) > 0
  <2>1. SumFunctionOnSet(g, S) = g[x] + SumFunctionOnSet(g, S \ {x})
    BY <1>1, SumRecursion
  <2>2. SumFunctionOnSet(g, S \ {x}) \in Nat /\ g[x] \in Nat
    BY <1>4
  <2> QED BY <1>5, <2>1, <2>2
<1> QED BY <1>4, <1>5

\* A sum over two sets that have nothing in common is the sum of theirs.
LEMMA SumApart ==
  ASSUME NEW S, NEW g, Summable(g, S), NEW A \in SUBSET S, NEW B \in SUBSET S, A \cap B = {}
  PROVE  SumFunctionOnSet(g, A \cup B) = SumFunctionOnSet(g, A) + SumFunctionOnSet(g, B)
<1> DEFINE Good == {T \in SUBSET B :
                      SumFunctionOnSet(g, A \cup T) = SumFunctionOnSet(g, A) + SumFunctionOnSet(g, T)}
<1>1. ASSUME NEW T \in SUBSET S PROVE Summable(g, T) /\ SumFunctionOnSet(g, T) \in Int
  <2>1. Summable(g, T)
    BY FS_Subset DEF Summable
  <2> QED BY <2>1, SumRecursion
<1>2. {} \in Good
  <2>1. A \cup {} = A /\ {} \in SUBSET S /\ {} \in SUBSET B
    OBVIOUS
  <2>2. SumFunctionOnSet(g, {}) = 0
    BY <1>1, <2>1, SumRecursion
  <2>3. SumFunctionOnSet(g, A) \in Int
    BY <1>1
  <2> QED BY <2>1, <2>2, <2>3
<1>3. ASSUME NEW T \in SUBSET B, T # {}, \A x \in T : T \ {x} \in Good PROVE T \in Good
  <2>1. PICK x \in T : T \ {x} \in Good
    BY <1>3
  <2>2. (A \cup T) \ {x} = A \cup (T \ {x}) /\ x \in A \cup T /\ A \cup T \in SUBSET S
    BY <2>1
  <2>3. T \in SUBSET S /\ T \ {x} \in SUBSET S
    OBVIOUS
  <2>4. SumFunctionOnSet(g, A \cup T) = g[x] + SumFunctionOnSet(g, (A \cup T) \ {x})
    BY <1>1, <2>2, SumRecursion
  <2>5. SumFunctionOnSet(g, T) = g[x] + SumFunctionOnSet(g, T \ {x})
    BY <1>1, <2>1, <2>3, SumRecursion
  <2>6. SumFunctionOnSet(g, A \cup (T \ {x}))
          = SumFunctionOnSet(g, A) + SumFunctionOnSet(g, T \ {x})
    BY <2>1
  <2>7. g[x] \in Int /\ SumFunctionOnSet(g, A) \in Int /\ SumFunctionOnSet(g, T \ {x}) \in Int
    BY <1>1, <2>3 DEF Summable
  <2>8. SumFunctionOnSet(g, A \cup T) = SumFunctionOnSet(g, A) + SumFunctionOnSet(g, T)
    <3> DEFINE all == SumFunctionOnSet(g, A \cup T)
               others == SumFunctionOnSet(g, A \cup (T \ {x}))
               a == SumFunctionOnSet(g, A)
               t == SumFunctionOnSet(g, T)
               rest == SumFunctionOnSet(g, T \ {x})
    <3>1. all = g[x] + others
      BY <2>2, <2>4
    <3>2. t = g[x] + rest /\ others = a + rest /\ g[x] \in Int /\ a \in Int /\ rest \in Int
      BY <2>5, <2>6, <2>7
    <3> HIDE DEF all, others, a, t, rest
    <3>3. all = a + t
      BY <3>1, <3>2
    <3> QED BY <3>3 DEF all, a, t
  <2> QED BY <2>8
<1>4. \A T \in SUBSET B : T \in Good
  <2>1. IsFiniteSet(B)
    BY FS_Subset DEF Summable
  <2> HIDE DEF Good
  <2> QED BY <1>2, <1>3, <2>1, AllSubsets
<1>5. B \in Good
  BY <1>4
<1> QED BY <1>5

\* A sum is that of the sums of its parts.
Splits(S, g, T, of, h) ==
  /\ \A x \in S : of[x] \in T
  /\ \A t \in T : h[t] = SumFunctionOnSet(g, {x \in S : of[x] = t})

LEMMA SumByParts ==
  ASSUME NEW S, NEW g, Summable(g, S), NEW T, IsFiniteSet(T), NEW of, NEW h,
         Splits(S, g, T, of, h)
  PROVE  SumFunctionOnSet(g, S) = SumFunctionOnSet(h, T)
<1> DEFINE In(U) == {x \in S : of[x] \in U}
           Of(t) == {x \in S : of[x] = t}
           Good == {U \in SUBSET T : SumFunctionOnSet(g, In(U)) = SumFunctionOnSet(h, U)}
<1>1. ASSUME NEW A \in SUBSET S PROVE Summable(g, A) /\ SumFunctionOnSet(g, A) \in Int
  <2>1. Summable(g, A)
    BY FS_Subset DEF Summable
  <2> QED BY <2>1, SumRecursion
<1>2. ASSUME NEW U \in SUBSET T PROVE Summable(h, U)
  <2>1. \A t \in T : Of(t) \in SUBSET S
    OBVIOUS
  <2>2. \A t \in T : h[t] = SumFunctionOnSet(g, Of(t))
    BY DEF Splits
  <2>3. IsFiniteSet(U)
    BY FS_Subset
  <2> HIDE DEF Of
  <2>4. \A t \in U : h[t] \in Int
    BY <1>1, <2>1, <2>2
  <2> QED BY <2>3, <2>4 DEF Summable
<1>3. {} \in Good
  <2>1. In({}) = {} /\ {} \in SUBSET S /\ {} \in SUBSET T
    OBVIOUS
  <2> HIDE DEF In
  <2> QED BY <1>1, <1>2, <2>1, SumRecursion
<1>4. ASSUME NEW U \in SUBSET T, U # {}, \A t \in U : U \ {t} \in Good PROVE U \in Good
  <2>1. PICK t \in U : U \ {t} \in Good
    BY <1>4
  <2>2. /\ In(U) = In(U \ {t}) \cup Of(t) /\ In(U \ {t}) \cap Of(t) = {}
        /\ In(U \ {t}) \in SUBSET S /\ Of(t) \in SUBSET S
    BY <2>1
  <2>3. h[t] = SumFunctionOnSet(g, Of(t))
    BY DEF Splits
  <2>4. SumFunctionOnSet(g, In(U \ {t})) = SumFunctionOnSet(h, U \ {t})
    BY <2>1
  <2> HIDE DEF In, Of
  <2>5. SumFunctionOnSet(g, In(U))
          = SumFunctionOnSet(g, In(U \ {t})) + SumFunctionOnSet(g, Of(t))
    <3> DEFINE A == In(U \ {t})
               B == Of(t)
    <3>1. A \in SUBSET S /\ B \in SUBSET S /\ A \cap B = {} /\ In(U) = A \cup B
      BY <2>2
    <3> HIDE DEF A, B
    <3>2. SumFunctionOnSet(g, A \cup B) = SumFunctionOnSet(g, A) + SumFunctionOnSet(g, B)
      BY <3>1, SumApart
    <3> QED BY <3>1, <3>2 DEF A, B
  <2>6. SumFunctionOnSet(h, U) = h[t] + SumFunctionOnSet(h, U \ {t})
    BY <1>2, <2>1, SumRecursion
  <2>7. h[t] \in Int /\ SumFunctionOnSet(h, U \ {t}) \in Int
    BY <1>1, <2>2, <2>3, <2>4
  <2>8. SumFunctionOnSet(g, In(U)) = SumFunctionOnSet(h, U)
    BY <2>3, <2>4, <2>5, <2>6, <2>7
  <2> QED BY <2>8
<1>5. \A U \in SUBSET T : U \in Good
  <2> HIDE DEF Good
  <2> QED BY <1>3, <1>4, AllSubsets
<1>6. T \in Good /\ In(T) = S
  BY <1>5 DEF Splits
<1> QED BY <1>6

\* Parts that are each multiplied by a number give the sum multiplied by it.
LEMMA SumScaled ==
  ASSUME NEW S, NEW g, Summable(g, S), NEW c \in Int, NEW h, \A x \in S : h[x] = g[x] * c
  PROVE  SumFunctionOnSet(h, S) = SumFunctionOnSet(g, S) * c
<1> DEFINE Good == {T \in SUBSET S : SumFunctionOnSet(h, T) = SumFunctionOnSet(g, T) * c}
<1>1. \A a, b \in Int : (a + b) * c = a * c + b * c /\ a * c \in Int
  OBVIOUS
<1>2. ASSUME NEW T \in SUBSET S
      PROVE  Summable(g, T) /\ SumFunctionOnSet(g, T) \in Int /\ Summable(h, T)
  <2>1. Summable(g, T) /\ Summable(h, T)
    BY <1>1, FS_Subset DEF Summable
  <2> QED BY <2>1, SumRecursion
<1>3. {} \in Good
  <2>1. {} \in SUBSET S
    OBVIOUS
  <2>2. SumFunctionOnSet(g, {}) = 0 /\ SumFunctionOnSet(h, {}) = 0
    BY <1>2, <2>1, SumRecursion
  <2> QED BY <2>1, <2>2
<1>4. ASSUME NEW T \in SUBSET S, T # {}, \A x \in T : T \ {x} \in Good PROVE T \in Good
  <2>1. PICK x \in T : T \ {x} \in Good
    BY <1>4
  <2>2. /\ SumFunctionOnSet(g, T) = g[x] + SumFunctionOnSet(g, T \ {x})
        /\ SumFunctionOnSet(h, T) = h[x] + SumFunctionOnSet(h, T \ {x})
    BY <1>2, <2>1, SumRecursion
  <2>3. SumFunctionOnSet(h, T \ {x}) = SumFunctionOnSet(g, T \ {x}) * c /\ h[x] = g[x] * c
    BY <2>1
  <2>4. g[x] \in Int /\ SumFunctionOnSet(g, T \ {x}) \in Int
    BY <1>2 DEF Summable
  <2>5. (g[x] + SumFunctionOnSet(g, T \ {x})) * c = g[x] * c + SumFunctionOnSet(g, T \ {x}) * c
    BY <1>1, <2>4
  <2> QED BY <2>2, <2>3, <2>5
<1>5. \A T \in SUBSET S : T \in Good
  <2> HIDE DEF Good
  <2> QED BY <1>3, <1>4, AllSubsets DEF Summable
<1>6. S \in Good
  BY <1>5
<1> QED BY <1>6

\* The image of a finite set is finite, and its greatest number is one of it.
LEMMA FiniteImage ==
  ASSUME NEW S, IsFiniteSet(S), NEW f
  PROVE  IsFiniteSet({f[x] : x \in S})
<1> DEFINE m == [x \in S |-> f[x]]
<1>1. m \in Surjection(S, {f[x] : x \in S})
  BY DEF Surjection
<1> HIDE DEF m
<1> QED BY <1>1, FS_Surjection

LEMMA MaxOfInts ==
  ASSUME NEW S, IsFiniteSet(S), S \subseteq Int, S # {}
  PROVE  Max(S) \in S /\ \A j \in S : j <= Max(S)
<1> DEFINE Good == {T \in SUBSET S : T = {} \/ \E m \in T : \A j \in T : j <= m}
<1>1. {} \in Good
  OBVIOUS
<1>2. ASSUME NEW T \in SUBSET S, T # {}, \A x \in T : T \ {x} \in Good PROVE T \in Good
  <2>1. PICK x \in T : T \ {x} \in Good
    BY <1>2
  <2>2. CASE T \ {x} = {}
    <3>1. \A j \in T : j = x
      BY <2>2
    <3> QED BY <2>1, <3>1
  <2>3. ASSUME NEW m \in T \ {x}, \A j \in T \ {x} : j <= m PROVE T \in Good
    <3>1. m \in Int /\ x \in Int /\ \A j \in T : j \in Int
      OBVIOUS
    <3>2. CASE m <= x
      <4>1. \A j \in T : j <= x
        BY <2>3, <3>1, <3>2
      <4> QED BY <4>1
    <3>3. CASE ~ (m <= x)
      <4>1. \A j \in T : j <= m
        BY <2>3, <3>1, <3>3
      <4> QED BY <4>1
    <3> QED BY <3>2, <3>3
  <2> QED BY <2>1, <2>2, <2>3
<1>3. S \in Good
  <2> HIDE DEF Good
  <2> QED BY <1>1, <1>2, AllSubsets
<1>4. \E m \in S : \A j \in S : m >= j
  BY <1>3
<1>5. Max(S) \in S /\ \A j \in S : Max(S) >= j
  BY <1>4 DEF Max
<1> QED BY <1>5

-----------------------------------------------------------------------------
(* Lists *)

\* The least of two numbers, and what is left of a number that is taken off.
LEMMA MinOfTwo ==
  ASSUME NEW a \in Int, NEW b \in Int
  PROVE  Min({a, b}) = IF a <= b THEN a ELSE b
<1>1. CASE a <= b
  <2>1. \A y \in {a, b} : a <= y
    BY <1>1
  <2>2. Min({a, b}) \in {a, b} /\ \A y \in {a, b} : Min({a, b}) <= y
    BY <2>1 DEF Min
  <2> QED BY <1>1, <2>2
<1>2. CASE ~ (a <= b)
  <2>1. \A y \in {a, b} : b <= y
    BY <1>2
  <2>2. Min({a, b}) \in {a, b} /\ \A y \in {a, b} : Min({a, b}) <= y
    BY <2>1 DEF Min
  <2> QED BY <1>2, <2>2
<1> QED BY <1>1, <1>2

\* A list that has each element of a set once.
Lists(list, S) ==
  /\ list \in Seq(S)
  /\ \A x \in S : \E i \in DOMAIN list : list[i] = x
  /\ \A i, j \in DOMAIN list : list[i] = list[j] => i = j

LEMMA ListLonger ==
  ASSUME NEW S, NEW T \in SUBSET S, NEW x \in T, NEW list, Lists(list, T \ {x})
  PROVE  Lists(Append(list, x), T)
<1>1. /\ list \in Seq(T) /\ Len(list) \in Nat /\ DOMAIN list = 1 .. Len(list)
      /\ \A i \in DOMAIN list : list[i] \in T \ {x}
  <2>1. list \in Seq(T \ {x})
    BY DEF Lists
  <2>2. list \in Seq(T)
    BY <2>1, SeqMonotonic
  <2> QED BY <2>1, <2>2, LenProperties, ElementOfSeq
<1> DEFINE a == Append(list, x)
<1>2. /\ a \in Seq(T) /\ DOMAIN a = 1 .. Len(list) + 1
      /\ a[Len(list) + 1] = x /\ \A i \in 1 .. Len(list) : a[i] = list[i]
  BY <1>1, AppendProperties
<1> HIDE DEF a
<1>3. \A y \in T : \E i \in DOMAIN a : a[i] = y
  BY <1>1, <1>2 DEF Lists
<1>4. \A i, j \in DOMAIN a : a[i] = a[j] => i = j
  BY <1>1, <1>2 DEF Lists
<1>5. Lists(a, T)
  BY <1>2, <1>3, <1>4 DEF Lists
<1> QED BY <1>5 DEF a

\* InOrder lists a finite set.
LEMMA InOrderLists ==
  ASSUME NEW S, IsFiniteSet(S)
  PROVE  Lists(InOrder(S), S)
<1> DEFINE D == SUBSET S
           V == Seq(S)
           R == StrictSubsetOrdering(S)
           Base == {{}}
           p == [T \in D |-> T \ {CHOOSE x \in T : TRUE}]
           b == [T \in D |-> <<>>]
           h == [z \in D \X V |-> IF z[1] = {} THEN <<>> ELSE Append(z[2], CHOOSE x \in z[1] : TRUE)]
<1>1. IsWellFoundedOn(R, D)
  BY FS_FiniteSubsetsOfFinite, FS_StrictSubsetOrderingWellFounded
<1>2. \A T \in D \ Base : p[T] \in D /\ <<p[T], T>> \in R
  BY DEF StrictSubsetOrdering
<1>3. ASSUME NEW T \in D \ Base, NEW v \in V PROVE h[<<T, v>>] \in V
  <2>1. (CHOOSE x \in T : TRUE) \in S
    OBVIOUS
  <2>2. Append(v, CHOOSE x \in T : TRUE) \in V
    BY <2>1, AppendProperties
  <2>3. <<T, v>> \in D \X V
    OBVIOUS
  <2>4. h[<<T, v>>] = Append(v, CHOOSE x \in T : TRUE)
    BY <2>3
  <2> QED BY <2>2, <2>4
<1>4. \A T \in D \cap Base : b[T] \in V
  BY EmptySeq
<1>5. WellDefined(D, V, R, Base, p, b, h)
  <2> HIDE DEF D, V, R, Base, p, b, h
  <2> QED BY <1>1, <1>2, <1>3, <1>4 DEF WellDefined
<1>6. PICK f : Solves(f, D, V, Base, p, b, h)
  <2> HIDE DEF D, V, R, Base, p, b, h
  <2> QED BY <1>5, RecursionExists
<1>7. ASSUME NEW T \in D
      PROVE f[T] = IF T = {} THEN <<>> ELSE Append(f[T \ {CHOOSE x \in T : TRUE}], CHOOSE x \in T : TRUE)
  <2>1. CASE T = {}
    BY <1>6, <2>1 DEF Solves
  <2>2. CASE T # {}
    <3>1. p[T] \in D /\ p[T] = T \ {CHOOSE x \in T : TRUE} /\ f[T] = h[<<T, f[p[T]]>>]
      BY <1>6, <2>2 DEF Solves
    <3>2. f[p[T]] \in V
      <4> HIDE DEF D, V, p, h, b
      <4> QED BY <1>6, <3>1 DEF Solves
    <3>3. ASSUME NEW v \in V PROVE h[<<T, v>>] = Append(v, CHOOSE x \in T : TRUE)
      <4>1. <<T, v>> \in D \X V
        OBVIOUS
      <4> HIDE DEF D, V
      <4> QED BY <2>2, <4>1
    <3> HIDE DEF h, V, D
    <3> QED BY <2>2, <3>1, <3>2, <3>3
  <2> QED BY <2>1, <2>2
<1> DEFINE iter[T \in SUBSET S] ==
             IF T = {} THEN <<>> ELSE Append(iter[T \ {CHOOSE x \in T : TRUE}], CHOOSE x \in T : TRUE)
<1>8. f = [T \in SUBSET S |->
             IF T = {} THEN <<>> ELSE Append(f[T \ {CHOOSE x \in T : TRUE}], CHOOSE x \in T : TRUE)]
  BY <1>6, <1>7 DEF Solves
<1>9. iter = [T \in SUBSET S |->
             IF T = {} THEN <<>> ELSE Append(iter[T \ {CHOOSE x \in T : TRUE}], CHOOSE x \in T : TRUE)]
  <2> HIDE <1>6, <1>7
  <2> HIDE DEF D, V, R, Base, p, b, h
  <2> QED BY <1>8, Zenon
<1>10. InOrder(S) = iter[S]
  BY DEF InOrder, FoldSet, MapThenFoldSet
<1> HIDE DEF iter
<1> DEFINE Good == {T \in SUBSET S : Lists(iter[T], T)}
<1>11. {} \in Good
  <2>1. iter[{}] = <<>>
    BY <1>9
  <2>2. Lists(<<>>, {})
    BY EmptySeq DEF Lists
  <2> QED BY <2>1, <2>2
<1>12. ASSUME NEW T \in SUBSET S, T # {}, \A x \in T : T \ {x} \in Good PROVE T \in Good
  <2> DEFINE x == CHOOSE x \in T : TRUE
  <2>1. x \in T /\ Lists(iter[T \ {x}], T \ {x})
    BY <1>12
  <2>2. iter[T] = Append(iter[T \ {x}], x)
    BY <1>9, <1>12
  <2> HIDE DEF x
  <2>3. Lists(Append(iter[T \ {x}], x), T)
    BY <2>1, ListLonger
  <2> QED BY <2>2, <2>3
<1>13. \A T \in SUBSET S : T \in Good
  <2> HIDE DEF Good, D, V, R, Base, p, b, h
  <2> QED BY <1>11, <1>12, AllSubsets
<1> QED BY <1>10, <1>13

-----------------------------------------------------------------------------
(* The search for a cycle *)

\* A sequence without its last element, and with another one in its place.
LEMMA FrontShape ==
  ASSUME NEW S, NEW s \in Seq(S), s # <<>>
  PROVE  /\ Len(s) \in Nat /\ Len(s) >= 1
         /\ Front(s) \in Seq(S) /\ Len(Front(s)) = Len(s) - 1
         /\ DOMAIN Front(s) = 1 .. Len(s) - 1
         /\ \A i \in 1 .. Len(s) - 1 : Front(s)[i] = s[i]
         /\ Last(s) = s[Len(s)] /\ Last(s) \in S
<1>1. Len(s) \in Nat /\ DOMAIN s = 1 .. Len(s) /\ s \in [1 .. Len(s) -> S] /\ Len(s) # 0
  BY LenProperties, EmptySeq
<1>2. Front(s) = [i \in 1 .. Len(s) - 1 |-> s[i]]
  BY <1>1, SubSeqProperties DEF Front
<1>3. Front(s) \in [1 .. Len(s) - 1 -> S]
  BY <1>1, <1>2
<1>4. Front(s) \in Seq(S) /\ Len(Front(s)) = Len(s) - 1
  <2>1. Len(s) - 1 \in Nat
    BY <1>1
  <2>2. Front(s) \in Seq(S)
    BY <1>3, <2>1, SeqDef
  <2> QED
    BY <1>2, <2>1, <2>2, LenProperties
<1> QED
  BY <1>1, <1>2, <1>4 DEF Last

LEMMA ReplacedLast ==
  ASSUME NEW S, NEW s \in Seq(S), s # <<>>, NEW e \in S
  PROVE  /\ Append(Front(s), e) \in Seq(S) /\ Len(Append(Front(s), e)) = Len(s)
         /\ Append(Front(s), e) # <<>>
         /\ \A i \in 1 .. Len(s) - 1 : Append(Front(s), e)[i] = s[i]
         /\ Append(Front(s), e)[Len(s)] = e
<1> DEFINE t == Append(Front(s), e)
<1>1. /\ Len(s) \in Nat /\ Len(s) >= 1 /\ Front(s) \in Seq(S) /\ Len(Front(s)) = Len(s) - 1
      /\ \A i \in 1 .. Len(s) - 1 : Front(s)[i] = s[i]
  BY FrontShape
<1>2. /\ t \in Seq(S) /\ Len(t) = Len(s) - 1 + 1
      /\ \A i \in 1 .. Len(s) - 1 : t[i] = Front(s)[i]
      /\ t[Len(s) - 1 + 1] = e
  BY <1>1, AppendProperties
<1>3. Len(s) - 1 + 1 = Len(s)
  BY <1>1
<1> QED
  BY <1>1, <1>2, <1>3

Gray(at) == {at.path[i].node : i \in DOMAIN at.path}
White(nodes, at) == nodes \ (at.done \cup Gray(at))

\* What the search works on.
GraphOK(nodes, adj) ==
  /\ IsFiniteSet(nodes) /\ DOMAIN adj = nodes
  /\ \A n \in nodes : adj[n] \in SUBSET nodes

Finished(nodes, at) == at.path = <<>> /\ at.done = nodes

\* A turn of the loop leads on, and brings the end nearer: a node less is white,
\* or the path is shorter, or its last node has a child less to look at.
LEMMA VisitShape ==
  ASSUME NEW nodes, NEW adj, GraphOK(nodes, adj), NEW at \in Visits(nodes),
         ~ Finished(nodes, at), Closing(at) = {}, NEW next, next = Visit(adj, at)
  PROVE  /\ next \in Visits(nodes)
         /\ \/ White(nodes, next) \subseteq White(nodes, at) /\ White(nodes, next) # White(nodes, at)
            \/ White(nodes, next) = White(nodes, at) /\ Len(next.path) < Len(at.path)
            \/ /\ White(nodes, next) = White(nodes, at) /\ Len(next.path) = Len(at.path)
               /\ at.path # <<>> /\ next.path # <<>>
               /\ Last(next.path).left \subseteq Last(at.path).left
               /\ Last(next.path).left # Last(at.path).left
<1> DEFINE S == [node : nodes, left : SUBSET nodes]
<1>1. /\ at.path \in Seq(S) /\ at.done \in SUBSET nodes /\ at = [path |-> at.path, done |-> at.done]
      /\ Len(at.path) \in Nat /\ DOMAIN at.path = 1 .. Len(at.path)
  BY LenProperties DEF Visits
<1>2. CASE at.path = <<>>
  <2> DEFINE n == CHOOSE n \in DOMAIN adj \ at.done : TRUE
             e == [node |-> n, left |-> adj[n]]
  <2>1. n \in nodes /\ n \notin at.done
    BY <1>1, <1>2 DEF Finished, GraphOK
  <2>2. e \in S
    BY <2>1 DEF GraphOK
  <2>3. next = [at EXCEPT !.path = <<e>>]
    BY <1>2 DEF Visit, Enter
  <2> HIDE DEF n
  <2>4. next.path = <<e>> /\ next.done = at.done /\ next = [path |-> <<e>>, done |-> at.done]
    BY <1>1, <2>3
  <2>5. <<e>> \in Seq(S)
    BY <2>2
  <2>6. Gray(next) = {n} /\ Gray(at) = {}
    BY <1>2, <2>4 DEF Gray
  <2>7. next \in Visits(nodes)
    BY <1>1, <2>4, <2>5 DEF Visits
  <2> QED
    BY <1>1, <2>1, <2>4, <2>6, <2>7 DEF White
<1>3. ASSUME at.path # <<>>
      PROVE  /\ Last(at.path) \in S /\ Last(at.path) = at.path[Len(at.path)] /\ Len(at.path) >= 1
             /\ Last(at.path).node \in nodes /\ Last(at.path).left \in SUBSET nodes
             /\ Gray(at) = {at.path[i].node : i \in 1 .. Len(at.path) - 1} \cup {Last(at.path).node}
  <2>1. Last(at.path) \in S /\ Last(at.path) = at.path[Len(at.path)] /\ Len(at.path) >= 1
    BY <1>1, <1>3, FrontShape
  <2>2. 1 .. Len(at.path) = (1 .. Len(at.path) - 1) \cup {Len(at.path)}
    BY <1>1, <2>1
  <2>3. Gray(at) = {at.path[i].node : i \in 1 .. Len(at.path) - 1} \cup {at.path[Len(at.path)].node}
    BY <1>1, <2>2 DEF Gray
  <2> QED
    BY <2>1, <2>3
<1>4. CASE at.path # <<>> /\ Last(at.path).left = {}
  <2> DEFINE top == Last(at.path)
  <2>1. next = [path |-> Front(at.path), done |-> at.done \cup {top.node}]
    BY <1>4 DEF Visit
  <2>2. next.path = Front(at.path) /\ next.done = at.done \cup {top.node}
    BY <2>1
  <2>3. /\ Front(at.path) \in Seq(S) /\ Len(Front(at.path)) = Len(at.path) - 1
        /\ DOMAIN Front(at.path) = 1 .. Len(at.path) - 1
        /\ \A i \in 1 .. Len(at.path) - 1 : Front(at.path)[i] = at.path[i]
    BY <1>1, <1>4, FrontShape
  <2>4. Gray(next) = {at.path[i].node : i \in 1 .. Len(at.path) - 1}
    BY <2>2, <2>3 DEF Gray
  <2>5. White(nodes, next) = White(nodes, at)
    BY <1>3, <1>4, <2>2, <2>4 DEF White
  <2>6. next \in Visits(nodes)
    BY <1>1, <1>3, <1>4, <2>1, <2>3 DEF Visits
  <2>7. Len(next.path) < Len(at.path)
    BY <1>1, <1>3, <1>4, <2>2, <2>3
  <2> QED
    BY <2>5, <2>6, <2>7
<1>5. ASSUME at.path # <<>>, Last(at.path).left # {}
      PROVE  /\ Child(at) \in Last(at.path).left /\ Child(at) \in nodes /\ Child(at) \notin Gray(at)
             /\ Looked(at) \in Seq(S) /\ Len(Looked(at)) = Len(at.path) /\ Looked(at) # <<>>
             /\ \A i \in 1 .. Len(at.path) : Looked(at)[i].node = at.path[i].node
             /\ Last(Looked(at)).left = Last(at.path).left \ {Child(at)}
  <2>1. Child(at) \in Last(at.path).left /\ Child(at) \in nodes
    BY <1>3, <1>5 DEF Child
  <2>2. Child(at) \notin Gray(at)
    BY <1>1, <1>5 DEF Gray, Closing
  <2> DEFINE e == [Last(at.path) EXCEPT !.left = @ \ {Child(at)}]
  <2>3. /\ e \in S /\ e.left = Last(at.path).left \ {Child(at)}
        /\ e.node = Last(at.path).node
    BY <1>3, <1>5
  <2>4. Looked(at) = Append(Front(at.path), e)
    BY DEF Looked
  <2> HIDE DEF e
  <2>5. /\ Looked(at) \in Seq(S) /\ Len(Looked(at)) = Len(at.path) /\ Looked(at) # <<>>
        /\ \A i \in 1 .. Len(at.path) - 1 : Looked(at)[i] = at.path[i]
        /\ Looked(at)[Len(at.path)] = e
    <3>1. at.path \in Seq(S) /\ at.path # <<>> /\ e \in S
      BY <1>1, <1>5, <2>3
    <3> HIDE DEF S
    <3> QED
      BY <2>4, <3>1, ReplacedLast
  <2>6. Last(Looked(at)) = e
    BY <2>5 DEF Last
  <2>7. \A i \in 1 .. Len(at.path) : Looked(at)[i].node = at.path[i].node
    <3> TAKE i \in 1 .. Len(at.path)
    <3>1. CASE i = Len(at.path)
      BY <1>3, <1>5, <2>3, <2>5, <3>1
    <3>2. CASE i # Len(at.path)
      BY <1>1, <2>5, <3>2
    <3> QED BY <3>1, <3>2
  <2> QED
    BY <2>1, <2>2, <2>3, <2>5, <2>6, <2>7
<1>6. CASE at.path # <<>> /\ Last(at.path).left # {} /\ Child(at) \in at.done
  <2>1. next = [at EXCEPT !.path = Looked(at)]
    BY <1>6 DEF Visit
  <2>2. next.path = Looked(at) /\ next.done = at.done /\ next = [path |-> Looked(at), done |-> at.done]
    BY <1>1, <2>1
  <2>3. DOMAIN Looked(at) = 1 .. Len(at.path)
    BY <1>5, <1>6, LenProperties
  <2>4. Gray(next) = Gray(at)
    BY <1>1, <1>5, <1>6, <2>2, <2>3 DEF Gray
  <2>5. next \in Visits(nodes)
    BY <1>1, <1>5, <1>6, <2>2 DEF Visits
  <2> QED
    BY <1>5, <1>6, <2>2, <2>4, <2>5 DEF White
<1>7. CASE at.path # <<>> /\ Last(at.path).left # {} /\ Child(at) \notin at.done
  <2> DEFINE c == Child(at)
             e == [node |-> c, left |-> adj[c]]
             path == Append(Looked(at), e)
  <2>1. next = [at EXCEPT !.path = path]
    BY <1>7 DEF Visit, Enter
  <2>2. e \in S /\ c \in nodes /\ c \notin Gray(at) /\ c \notin at.done
    BY <1>5, <1>7 DEF GraphOK
  <2>3. /\ path \in Seq(S) /\ Len(path) = Len(at.path) + 1
        /\ \A i \in 1 .. Len(at.path) : path[i] = Looked(at)[i]
        /\ path[Len(at.path) + 1] = e
    BY <1>5, <1>7, <2>2, AppendProperties
  <2>4. DOMAIN path = 1 .. Len(at.path) + 1
    BY <2>3, LenProperties
  <2> HIDE DEF path, e
  <2>5. next.path = path /\ next.done = at.done /\ next = [path |-> path, done |-> at.done]
    BY <1>1, <2>1
  <2>6. \A i \in 1 .. Len(at.path) : path[i].node = at.path[i].node
    BY <1>5, <1>7, <2>3
  <2>7. Gray(at) \subseteq Gray(next) /\ c \in Gray(next)
    <3>1. path[Len(at.path) + 1].node = c
      BY <2>3 DEF e
    <3>2. \A i \in 1 .. Len(at.path) : i \in DOMAIN path /\ at.path[i].node = path[i].node
      BY <1>1, <2>4, <2>6
    <3>3. Len(at.path) + 1 \in DOMAIN path
      BY <1>1, <2>4
    <3> QED BY <1>1, <2>5, <3>1, <3>2, <3>3 DEF Gray
  <2>8. next \in Visits(nodes)
    BY <1>1, <2>3, <2>5 DEF Visits
  <2> QED
    BY <2>2, <2>5, <2>7, <2>8 DEF White
<1> QED
  BY <1>2, <1>4, <1>6, <1>7

\* The search is well defined: what FindCycle returns follows from its turns.
SearchStep(adj, f, at) ==
  IF Finished(DOMAIN adj, at) THEN <<>>
  ELSE IF Closing(at) # {} THEN CycleFrom(at.path, CHOOSE i \in Closing(at) : TRUE)
  ELSE f[Visit(adj, at)]

Nearer(nodes) ==
  {z \in Visits(nodes) \X Visits(nodes) :
     \/ /\ White(nodes, z[1]) \subseteq White(nodes, z[2])
        /\ White(nodes, z[1]) # White(nodes, z[2])
     \/ White(nodes, z[1]) = White(nodes, z[2]) /\ Len(z[1].path) < Len(z[2].path)
     \/ /\ White(nodes, z[1]) = White(nodes, z[2]) /\ Len(z[1].path) = Len(z[2].path)
        /\ z[1].path # <<>> /\ z[2].path # <<>>
        /\ Last(z[1].path).left \subseteq Last(z[2].path).left
        /\ Last(z[1].path).left # Last(z[2].path).left}

LEMMA SmallerCardinality ==
  ASSUME NEW S, IsFiniteSet(S), NEW T \in SUBSET S, NEW U \in SUBSET T
  PROVE  /\ Cardinality(T) \in Nat /\ Cardinality(U) \in Nat
         /\ U # T => Cardinality(U) < Cardinality(T)
<1>1. IsFiniteSet(T)
  BY FS_Subset
<1>2. IsFiniteSet(U) /\ Cardinality(U) <= Cardinality(T) /\ (Cardinality(U) = Cardinality(T) => U = T)
  BY <1>1, FS_Subset
<1>3. Cardinality(T) \in Nat /\ Cardinality(U) \in Nat
  BY <1>1, <1>2, FS_CardinalityType
<1> QED
  BY <1>2, <1>3

LEMMA SearchEnds ==
  ASSUME NEW nodes, IsFiniteSet(nodes)
  PROVE  IsWellFoundedOn(Nearer(nodes), Visits(nodes))
<1> DEFINE D == Visits(nodes)
           a == [at \in D |-> Cardinality(White(nodes, at))]
           b == [at \in D |-> Len(at.path)]
           c == [at \in D |-> IF at.path = <<>> THEN 0 ELSE Cardinality(Last(at.path).left)]
<1>1. ASSUME NEW at \in D
      PROVE  /\ White(nodes, at) \in SUBSET nodes /\ Len(at.path) \in Nat
             /\ at.path # <<>> => Last(at.path).left \in SUBSET nodes
  <2>1. at.path \in Seq([node : nodes, left : SUBSET nodes])
    BY DEF Visits
  <2>2. at.path # <<>> => Last(at.path) \in [node : nodes, left : SUBSET nodes]
    BY <2>1, FrontShape
  <2> QED
    BY <2>1, <2>2, LenProperties DEF White
<1>2. \A T \in SUBSET nodes : Cardinality(T) \in Nat
  BY SmallerCardinality
<1>3. a \in [D -> Nat] /\ b \in [D -> Nat] /\ c \in [D -> Nat]
  <2>1. ASSUME NEW at \in D PROVE a[at] \in Nat /\ b[at] \in Nat /\ c[at] \in Nat
    <3>1. a[at] \in Nat /\ b[at] \in Nat
      BY <1>1, <1>2
    <3>2. c[at] = IF at.path = <<>> THEN 0 ELSE Cardinality(Last(at.path).left)
      OBVIOUS
    <3> HIDE DEF c
    <3>3. c[at] \in Nat
      BY <1>1, <1>2, <3>2
    <3> QED BY <3>1, <3>3
  <2> QED BY <2>1
<1>4. ASSUME NEW x \in D, NEW y \in D, <<x, y>> \in Nearer(nodes)
      PROVE  \/ a[x] < a[y]
             \/ a[x] = a[y] /\ b[x] < b[y]
             \/ a[x] = a[y] /\ b[x] = b[y] /\ c[x] < c[y]
  <2>1. \/ White(nodes, x) \subseteq White(nodes, y) /\ White(nodes, x) # White(nodes, y)
        \/ White(nodes, x) = White(nodes, y) /\ Len(x.path) < Len(y.path)
        \/ /\ White(nodes, x) = White(nodes, y) /\ Len(x.path) = Len(y.path)
           /\ x.path # <<>> /\ y.path # <<>>
           /\ Last(x.path).left \subseteq Last(y.path).left
           /\ Last(x.path).left # Last(y.path).left
    BY <1>4 DEF Nearer
  <2>2. CASE White(nodes, x) \subseteq White(nodes, y) /\ White(nodes, x) # White(nodes, y)
    <3>1. Cardinality(White(nodes, x)) < Cardinality(White(nodes, y))
      BY <1>1, <2>2, SmallerCardinality
    <3> QED BY <3>1
  <2>3. CASE White(nodes, x) = White(nodes, y) /\ Len(x.path) < Len(y.path)
    BY <2>3
  <2>4. CASE /\ White(nodes, x) = White(nodes, y) /\ Len(x.path) = Len(y.path)
             /\ x.path # <<>> /\ y.path # <<>>
             /\ Last(x.path).left \subseteq Last(y.path).left
             /\ Last(x.path).left # Last(y.path).left
    <3>1. Cardinality(Last(x.path).left) < Cardinality(Last(y.path).left)
      BY <1>1, <2>4, SmallerCardinality
    <3>2. c[x] = Cardinality(Last(x.path).left) /\ c[y] = Cardinality(Last(y.path).left)
      BY <2>4
    <3>3. a[x] = a[y] /\ b[x] = b[y]
      BY <2>4
    <3> QED BY <3>1, <3>2, <3>3
  <2> QED BY <2>1, <2>2, <2>3, <2>4
<1> HIDE DEF D, a, b, c
<1>5. IsWellFoundedOn(Nearer(nodes), D)
  BY <1>3, <1>4, LexWellFounded
<1> QED BY <1>5 DEF D

LEMMA SearchDefined ==
  ASSUME NEW nodes, NEW adj, GraphOK(nodes, adj)
  PROVE  \E f : /\ FindCycle(adj) = f[Unvisited]
                /\ \A at \in Visits(nodes) : f[at] = SearchStep(adj, f, at)
<1> DEFINE D == Visits(nodes)
           R == Nearer(nodes)
           Base == {at \in D : Finished(nodes, at) \/ Closing(at) # {}}
           p == [at \in D |-> Visit(adj, at)]
           b == [at \in D |-> IF Finished(nodes, at) THEN <<>>
                              ELSE CycleFrom(at.path, CHOOSE i \in Closing(at) : TRUE)]
           V == {b[at] : at \in D}
           h == [z \in D \X V |-> z[2]]
<1>1. IsWellFoundedOn(R, D)
  BY SearchEnds DEF GraphOK
<1>2. ASSUME NEW at \in D \ Base PROVE p[at] \in D /\ <<p[at], at>> \in R
  <2>1. p[at] = Visit(adj, at) /\ ~ Finished(nodes, at) /\ Closing(at) = {}
    OBVIOUS
  <2>2. /\ Visit(adj, at) \in Visits(nodes)
        /\ \/ /\ White(nodes, Visit(adj, at)) \subseteq White(nodes, at)
              /\ White(nodes, Visit(adj, at)) # White(nodes, at)
           \/ /\ White(nodes, Visit(adj, at)) = White(nodes, at)
              /\ Len(Visit(adj, at).path) < Len(at.path)
           \/ /\ White(nodes, Visit(adj, at)) = White(nodes, at)
              /\ Len(Visit(adj, at).path) = Len(at.path)
              /\ at.path # <<>> /\ Visit(adj, at).path # <<>>
              /\ Last(Visit(adj, at).path).left \subseteq Last(at.path).left
              /\ Last(Visit(adj, at).path).left # Last(at.path).left
    BY <2>1, VisitShape
  <2> QED
    BY <2>1, <2>2 DEF Nearer
<1>3. \A at \in D \cap Base : b[at] \in V
  OBVIOUS
<1>4. \A at \in D \ Base : \A v \in V : h[<<at, v>>] \in V
  OBVIOUS
<1>5. WellDefined(D, V, R, Base, p, b, h)
  <2> HIDE DEF D, R, Base, p, b, h, V
  <2> QED BY <1>1, <1>2, <1>3, <1>4 DEF WellDefined
<1>6. PICK f : Solves(f, D, V, Base, p, b, h)
  <2> HIDE DEF D, R, Base, p, b, h, V
  <2> QED BY <1>5, RecursionExists
<1>7. ASSUME NEW at \in D PROVE f[at] = SearchStep(adj, f, at)
  <2>1. CASE at \in Base
    BY <1>6, <2>1 DEF Solves, SearchStep, GraphOK
  <2>2. CASE at \notin Base
    <3>1. f[at] = h[<<at, f[p[at]]>>] /\ p[at] \in D /\ p[at] = Visit(adj, at)
      BY <1>2, <1>6, <2>2 DEF Solves
    <3>2. f[p[at]] \in V
      <4> HIDE DEF D, V, p, h, b
      <4> QED BY <1>6, <3>1 DEF Solves
    <3>3. f[at] = f[p[at]]
      <4> HIDE DEF D, V, p, b
      <4> QED BY <3>1, <3>2
    <3> QED
      BY <2>2, <3>1, <3>3 DEF SearchStep, GraphOK
  <2> QED BY <2>1, <2>2
<1>8. DOMAIN adj = nodes /\ f = [at \in D |-> f[at]]
  BY <1>6 DEF GraphOK, Solves
<1> DEFINE search[at \in Visits(DOMAIN adj)] ==
             IF at.path = <<>> /\ at.done = DOMAIN adj THEN <<>>
             ELSE IF Closing(at) # {}
                  THEN CycleFrom(at.path, CHOOSE i \in Closing(at) : TRUE)
             ELSE search[Visit(adj, at)]
<1>9. f = [at \in Visits(DOMAIN adj) |->
             IF at.path = <<>> /\ at.done = DOMAIN adj THEN <<>>
             ELSE IF Closing(at) # {}
                  THEN CycleFrom(at.path, CHOOSE i \in Closing(at) : TRUE)
             ELSE f[Visit(adj, at)]]
  BY <1>7, <1>8 DEF SearchStep, Finished
<1>10. search = [at \in Visits(DOMAIN adj) |->
             IF at.path = <<>> /\ at.done = DOMAIN adj THEN <<>>
             ELSE IF Closing(at) # {}
                  THEN CycleFrom(at.path, CHOOSE i \in Closing(at) : TRUE)
             ELSE search[Visit(adj, at)]]
  <2> HIDE <1>6, <1>7, <1>8
  <2> HIDE DEF D, R, Base, p, b, h, V
  <2> QED BY <1>9, Zenon
<1>11. FindCycle(adj) = search[Unvisited]
  BY DEF FindCycle
<1> HIDE DEF search
<1>12. \A at \in Visits(nodes) : search[at] = SearchStep(adj, search, at)
  BY <1>8, <1>10 DEF SearchStep, Finished
<1> QED BY <1>11, <1>12

\* What holds at each turn: the path is one, without repetition and outside the
\* nodes done; the children of a node on it are still to look at, done, or next
\* on the path; and the nodes done hold their children and lie on no cycle.
OffCycle(nodes, adj, n) ==
  \E C \in SUBSET nodes : adj[n] \subseteq C /\ n \notin C /\ \A m \in C : adj[m] \subseteq C

SearchInv(nodes, adj, at) ==
  /\ at \in Visits(nodes)
  /\ \A i, j \in DOMAIN at.path : at.path[i].node = at.path[j].node => i = j
  /\ \A i \in DOMAIN at.path :
       /\ at.path[i].node \notin at.done
       /\ at.path[i].left \subseteq adj[at.path[i].node]
       /\ i + 1 \in DOMAIN at.path => at.path[i + 1].node \in adj[at.path[i].node]
       /\ \A c \in adj[at.path[i].node] :
            \/ c \in at.path[i].left \cup at.done
            \/ i + 1 \in DOMAIN at.path /\ c = at.path[i + 1].node
  /\ \A n \in at.done : adj[n] \subseteq at.done /\ OffCycle(nodes, adj, n)

\* A sequence of nodes, each one's successor a child of it, the first the last one's.
IsLoop(nodes, adj, loop) ==
  /\ loop # <<>> /\ loop \in Seq(nodes)
  /\ \A i, j \in DOMAIN loop : loop[i] = loop[j] => i = j
  /\ \A i \in DOMAIN loop :
       (IF i = Len(loop) THEN loop[1] ELSE loop[i + 1]) \in adj[loop[i]]

SearchAnswer(nodes, adj, found) ==
  \/ IsLoop(nodes, adj, found)
  \/ found = <<>> /\ \A n \in nodes : OffCycle(nodes, adj, n)

LEMMA PathShape ==
  ASSUME NEW nodes, NEW at \in Visits(nodes)
  PROVE  /\ at.path \in Seq([node : nodes, left : SUBSET nodes])
         /\ at.done \in SUBSET nodes /\ at = [path |-> at.path, done |-> at.done]
         /\ Len(at.path) \in Nat /\ DOMAIN at.path = 1 .. Len(at.path)
         /\ \A i \in DOMAIN at.path : at.path[i].node \in nodes /\ at.path[i].left \in SUBSET nodes
         /\ at.path # <<>> => Len(at.path) \in DOMAIN at.path /\ Last(at.path) = at.path[Len(at.path)]
<1>1. at.path \in Seq([node : nodes, left : SUBSET nodes])
      /\ at.done \in SUBSET nodes /\ at = [path |-> at.path, done |-> at.done]
  BY DEF Visits
<1>2. Len(at.path) \in Nat /\ DOMAIN at.path = 1 .. Len(at.path)
      /\ at.path \in [1 .. Len(at.path) -> [node : nodes, left : SUBSET nodes]]
  BY <1>1, LenProperties
<1>3. \A i \in DOMAIN at.path : at.path[i] \in [node : nodes, left : SUBSET nodes]
  BY <1>2
<1>4. at.path # <<>> => Len(at.path) # 0
  BY <1>1, EmptySeq
<1> QED
  BY <1>1, <1>2, <1>3, <1>4 DEF Last

\* What a turn that looks at a child makes of the path.
LEMMA LookedShape ==
  ASSUME NEW nodes, NEW at \in Visits(nodes), at.path # <<>>, Last(at.path).left # {}
  PROVE  /\ Child(at) \in Last(at.path).left /\ Child(at) \in nodes
         /\ Looked(at) \in Seq([node : nodes, left : SUBSET nodes])
         /\ Len(Looked(at)) = Len(at.path) /\ DOMAIN Looked(at) = DOMAIN at.path
         /\ \A i \in DOMAIN at.path :
              /\ Looked(at)[i].node = at.path[i].node
              /\ Looked(at)[i].left = IF i = Len(at.path) THEN at.path[i].left \ {Child(at)}
                                      ELSE at.path[i].left
<1> DEFINE S == [node : nodes, left : SUBSET nodes]
           e == [Last(at.path) EXCEPT !.left = @ \ {Child(at)}]
<1>1. /\ at.path \in Seq(S) /\ Len(at.path) \in Nat /\ DOMAIN at.path = 1 .. Len(at.path)
      /\ Len(at.path) \in DOMAIN at.path /\ Last(at.path) = at.path[Len(at.path)]
      /\ \A i \in DOMAIN at.path : at.path[i].node \in nodes /\ at.path[i].left \in SUBSET nodes
  BY PathShape
<1>2. Last(at.path) \in S
  BY <1>1, FrontShape
<1>3. Child(at) \in Last(at.path).left /\ Child(at) \in nodes
  BY <1>1 DEF Child
<1>4. e \in S /\ e.left = Last(at.path).left \ {Child(at)} /\ e.node = Last(at.path).node
  BY <1>2
<1>5. Looked(at) = Append(Front(at.path), e)
  BY DEF Looked
<1> HIDE DEF e, S
<1>6. /\ Looked(at) \in Seq(S) /\ Len(Looked(at)) = Len(at.path)
      /\ \A i \in 1 .. Len(at.path) - 1 : Looked(at)[i] = at.path[i]
      /\ Looked(at)[Len(at.path)] = e
  BY <1>1, <1>4, <1>5, ReplacedLast
<1>7. DOMAIN Looked(at) = DOMAIN at.path
  BY <1>1, <1>6, LenProperties
<1>8. ASSUME NEW i \in DOMAIN at.path
      PROVE  /\ Looked(at)[i].node = at.path[i].node
             /\ Looked(at)[i].left = IF i = Len(at.path) THEN at.path[i].left \ {Child(at)}
                                     ELSE at.path[i].left
  <2>1. CASE i = Len(at.path)
    BY <1>1, <1>4, <1>6, <2>1
  <2>2. CASE i # Len(at.path)
    BY <1>1, <1>6, <2>2
  <2> QED BY <2>1, <2>2
<1> QED BY <1>3, <1>6, <1>7, <1>8 DEF S

LEMMA VisitKeeps ==
  ASSUME NEW nodes, NEW adj, GraphOK(nodes, adj), NEW at, SearchInv(nodes, adj, at),
         ~ Finished(nodes, at), Closing(at) = {}
  PROVE  SearchInv(nodes, adj, Visit(adj, at))
<1> DEFINE S == [node : nodes, left : SUBSET nodes]
           next == Visit(adj, at)
           l == Len(at.path)
<1> SUFFICES SearchInv(nodes, adj, next)
  OBVIOUS
<1>1. at \in Visits(nodes) /\ next \in Visits(nodes)
  BY VisitShape DEF SearchInv
<1>2. /\ at.path \in Seq(S) /\ l \in Nat /\ DOMAIN at.path = 1 .. l
      /\ \A i \in DOMAIN at.path : at.path[i].node \in nodes /\ at.path[i].left \in SUBSET nodes
      /\ at.path # <<>> => l \in DOMAIN at.path /\ Last(at.path) = at.path[l]
      /\ at = [path |-> at.path, done |-> at.done] /\ at.done \in SUBSET nodes
  BY <1>1, PathShape
<1>3. CASE at.path = <<>>
  <2> DEFINE n == CHOOSE n \in DOMAIN adj \ at.done : TRUE
             e == [node |-> n, left |-> adj[n]]
  <2>1. n \in nodes /\ n \notin at.done
    BY <1>2, <1>3 DEF Finished, GraphOK
  <2>2. next = [at EXCEPT !.path = <<e>>]
    BY <1>3 DEF Visit, Enter
  <2> HIDE DEF n, next
  <2>3. next.path = <<e>> /\ next.done = at.done
    BY <1>2, <2>2
  <2>4. DOMAIN next.path = {1} /\ next.path[1].node = n /\ next.path[1].left = adj[n]
    BY <2>3
  <2> HIDE DEF e
  <2> QED
    BY <1>1, <2>1, <2>3, <2>4 DEF SearchInv
<1>4. CASE at.path # <<>> /\ Last(at.path).left = {}
  <2> DEFINE top == at.path[l].node
  <2>1. next = [path |-> Front(at.path), done |-> at.done \cup {top}]
    BY <1>2, <1>4 DEF Visit
  <2> HIDE DEF next
  <2>2. next.path = Front(at.path) /\ next.done = at.done \cup {top}
    BY <2>1
  <2>3. /\ DOMAIN next.path = 1 .. l - 1
        /\ \A i \in 1 .. l - 1 : next.path[i] = at.path[i]
    BY <1>2, <1>4, <2>2, FrontShape
  <2>4. adj[top] \subseteq at.done /\ top \notin at.done /\ top \in nodes
    BY <1>2, <1>4 DEF SearchInv
  <2>5. OffCycle(nodes, adj, top)
    <3>1. \A m \in at.done : adj[m] \subseteq at.done
      BY DEF SearchInv
    <3> QED BY <1>2, <2>4, <3>1 DEF OffCycle
  <2>6. \A n \in next.done : adj[n] \subseteq next.done /\ OffCycle(nodes, adj, n)
    BY <2>2, <2>4, <2>5 DEF SearchInv
  <2>7. ASSUME NEW i \in DOMAIN next.path, NEW j \in DOMAIN next.path,
               next.path[i].node = next.path[j].node
        PROVE  i = j
    <3>1. i \in DOMAIN at.path /\ j \in DOMAIN at.path
      BY <1>2, <2>3
    <3> QED BY <2>3, <2>7, <3>1 DEF SearchInv
  <2>8. ASSUME NEW i \in DOMAIN next.path
        PROVE  /\ next.path[i].node \notin next.done
               /\ next.path[i].left \subseteq adj[next.path[i].node]
               /\ i + 1 \in DOMAIN next.path => next.path[i + 1].node \in adj[next.path[i].node]
               /\ \A c \in adj[next.path[i].node] :
                    \/ c \in next.path[i].left \cup next.done
                    \/ i + 1 \in DOMAIN next.path /\ c = next.path[i + 1].node
    <3>1. i \in DOMAIN at.path /\ i # l /\ next.path[i] = at.path[i] /\ l \in DOMAIN at.path
          /\ i + 1 \in DOMAIN at.path
      BY <1>2, <1>4, <2>3
    <3>2. i + 1 \in DOMAIN next.path => next.path[i + 1] = at.path[i + 1]
      BY <2>3
    <3>3. i + 1 \notin DOMAIN next.path => i + 1 = l
      BY <1>2, <2>3, <3>1
    <3>4. at.path[i].node # top
      BY <3>1 DEF SearchInv
    <3> HIDE DEF l
    <3>5. /\ at.path[i].node \notin at.done /\ at.path[i].left \subseteq adj[at.path[i].node]
          /\ at.path[i + 1].node \in adj[at.path[i].node]
          /\ \A c \in adj[at.path[i].node] :
               c \in at.path[i].left \cup at.done \/ c = at.path[i + 1].node
      BY <3>1 DEF SearchInv
    <3> QED
      BY <2>2, <3>1, <3>2, <3>3, <3>4, <3>5
  <2> HIDE DEF top, l
  <2> QED
    BY <1>1, <2>6, <2>7, <2>8 DEF SearchInv
<1>5. CASE at.path # <<>> /\ Last(at.path).left # {}
  <2> DEFINE c == Child(at)
  <2>1. /\ c \in at.path[l].left /\ c \in nodes
        /\ Looked(at) \in Seq(S) /\ Len(Looked(at)) = l /\ DOMAIN Looked(at) = 1 .. l
        /\ \A i \in 1 .. l :
             /\ Looked(at)[i].node = at.path[i].node
             /\ Looked(at)[i].left = IF i = l THEN at.path[i].left \ {c} ELSE at.path[i].left
    BY <1>1, <1>2, <1>5, LookedShape
  <2>2. l \in 1 .. l /\ c \in adj[at.path[l].node]
    BY <1>2, <1>5, <2>1 DEF SearchInv
  <2>3. \A i \in 1 .. l : at.path[i].node # c
    BY <1>2, <1>5 DEF Closing
  <2> HIDE DEF l
  <2>4. ASSUME NEW i \in 1 .. l
        PROVE  /\ at.path[i].node \notin at.done /\ at.path[i].left \subseteq adj[at.path[i].node]
               /\ i # l => at.path[i + 1].node \in adj[at.path[i].node]
               /\ \A x \in adj[at.path[i].node] :
                    x \in at.path[i].left \cup at.done \/ (i # l /\ x = at.path[i + 1].node)
    <3>1. i + 1 \in DOMAIN at.path <=> i # l
      BY <1>2
    <3> QED BY <1>2, <3>1 DEF SearchInv
  <2>5. \A i, j \in 1 .. l : at.path[i].node = at.path[j].node => i = j
    BY <1>2 DEF SearchInv
  <2>6. \A n \in at.done : adj[n] \subseteq at.done /\ OffCycle(nodes, adj, n)
    BY DEF SearchInv
  <2> HIDE DEF c
  <2>7. CASE c \in at.done
    <3>1. next = [at EXCEPT !.path = Looked(at)]
      BY <1>5, <2>7 DEF Visit, c
    <3> HIDE DEF next
    <3>2. next.path = Looked(at) /\ next.done = at.done
      BY <1>2, <3>1
    <3>3. ASSUME NEW i \in DOMAIN next.path
          PROVE  /\ next.path[i].node \notin next.done
                 /\ next.path[i].left \subseteq adj[next.path[i].node]
                 /\ i + 1 \in DOMAIN next.path => next.path[i + 1].node \in adj[next.path[i].node]
                 /\ \A x \in adj[next.path[i].node] :
                      \/ x \in next.path[i].left \cup next.done
                      \/ i + 1 \in DOMAIN next.path /\ x = next.path[i + 1].node
      <4>1. i \in 1 .. l /\ (i + 1 \in DOMAIN next.path <=> i # l)
            /\ (i # l => i + 1 \in 1 .. l)
        BY <1>2, <2>1, <3>2
      <4>2. /\ next.path[i].node = at.path[i].node
            /\ next.path[i].left = IF i = l THEN at.path[i].left \ {c} ELSE at.path[i].left
            /\ i # l => next.path[i + 1].node = at.path[i + 1].node
        BY <2>1, <3>2, <4>1
      <4>3. CASE i = l
        <5> HIDE DEF next
        <5> QED BY <2>4, <2>7, <3>2, <4>1, <4>2, <4>3
      <4>4. CASE i # l
        BY <2>4, <2>7, <3>2, <4>1, <4>2, <4>4
      <4> QED BY <4>3, <4>4
    <3>4. ASSUME NEW i \in DOMAIN next.path, NEW j \in DOMAIN next.path,
                 next.path[i].node = next.path[j].node
          PROVE  i = j
      <4>1. i \in 1 .. l /\ j \in 1 .. l
        BY <2>1, <3>2
      <4>2. \A k \in 1 .. l : next.path[k].node = at.path[k].node
        BY <2>1, <3>2
      <4>3. at.path[i].node = at.path[j].node
        BY <3>4, <4>1, <4>2
      <4> QED BY <2>5, <4>1, <4>3
    <3> QED
      BY <1>1, <2>6, <3>2, <3>3, <3>4 DEF SearchInv
  <2>8. CASE c \notin at.done
    <3> DEFINE e == [node |-> c, left |-> adj[c]]
               path == Append(Looked(at), e)
    <3>1. next = [at EXCEPT !.path = path]
      BY <1>5, <2>8 DEF Visit, Enter, c
    <3>2. e \in S
      BY <2>1 DEF GraphOK
    <3>3. /\ path \in Seq(S) /\ Len(path) = l + 1
          /\ \A i \in 1 .. l : path[i] = Looked(at)[i]
          /\ path[l + 1] = e
      BY <2>1, <3>2, AppendProperties
    <3>4. DOMAIN path = 1 .. l + 1
      BY <3>3, LenProperties
    <3> HIDE DEF path, e, next
    <3>5. next.path = path /\ next.done = at.done
      BY <1>2, <3>1
    <3>6. path[l + 1].node = c /\ path[l + 1].left = adj[c]
      BY <3>3 DEF e
    <3>7. ASSUME NEW i \in DOMAIN next.path
          PROVE  /\ next.path[i].node \notin next.done
                 /\ next.path[i].left \subseteq adj[next.path[i].node]
                 /\ i + 1 \in DOMAIN next.path => next.path[i + 1].node \in adj[next.path[i].node]
                 /\ \A x \in adj[next.path[i].node] :
                      \/ x \in next.path[i].left \cup next.done
                      \/ i + 1 \in DOMAIN next.path /\ x = next.path[i + 1].node
      <4>1. CASE i = l + 1
        <5>1. i + 1 \notin DOMAIN next.path
          BY <1>2, <3>4, <3>5, <4>1
        <5> QED BY <2>8, <3>5, <3>6, <4>1, <5>1
      <4>2. CASE i # l + 1
        <5>1. i \in 1 .. l /\ i + 1 \in 1 .. l + 1 /\ (i # l => i + 1 \in 1 .. l)
          BY <1>2, <3>4, <3>5, <4>2
        <5>2. /\ path[i].node = at.path[i].node
              /\ path[i].left = IF i = l THEN at.path[i].left \ {c} ELSE at.path[i].left
              /\ path[i + 1].node = IF i = l THEN c ELSE at.path[i + 1].node
          BY <2>1, <3>3, <3>6, <5>1
        <5> QED BY <2>2, <2>4, <3>4, <3>5, <5>1, <5>2
      <4> QED BY <4>1, <4>2
    <3>8. ASSUME NEW i \in DOMAIN next.path, NEW j \in DOMAIN next.path,
                 next.path[i].node = next.path[j].node
          PROVE  i = j
      <4>1. \A k \in 1 .. l : path[k].node = at.path[k].node
        BY <2>1, <3>3
      <4>2. \A k \in DOMAIN next.path : k \in 1 .. l \/ k = l + 1
        BY <1>2, <3>4, <3>5
      <4> QED BY <2>3, <2>5, <3>5, <3>6, <3>8, <4>1, <4>2
    <3> QED
      BY <1>1, <2>6, <3>5, <3>7, <3>8 DEF SearchInv
  <2> QED BY <2>7, <2>8
<1> QED BY <1>3, <1>4, <1>5

LEMMA ClosingIsALoop ==
  ASSUME NEW nodes, NEW adj, GraphOK(nodes, adj), NEW at, SearchInv(nodes, adj, at),
         NEW i \in Closing(at)
  PROVE  IsLoop(nodes, adj, CycleFrom(at.path, i))
<1> DEFINE l == Len(at.path)
           loop == CycleFrom(at.path, i)
<1>1. /\ l \in Nat /\ DOMAIN at.path = 1 .. l /\ i \in 1 .. l
      /\ \A j \in 1 .. l : at.path[j].node \in nodes
      /\ Last(at.path) = at.path[l] /\ Last(at.path).left # {} /\ at.path[i].node = Child(at)
  <2>1. at \in Visits(nodes)
    BY DEF SearchInv
  <2>2. i \in DOMAIN at.path /\ Last(at.path).left # {} /\ at.path[i].node = Child(at)
    BY DEF Closing
  <2> QED BY <2>1, <2>2, PathShape DEF Last
<1>2. Child(at) \in adj[at.path[l].node]
  BY <1>1 DEF Child, SearchInv
<1> DEFINE n == l - i + 1
<1>3. /\ n \in Nat /\ 1 \in 1 .. n /\ n \in 1 .. n
      /\ \A k \in 1 .. n : i + k - 1 \in 1 .. l
      /\ i + n - 1 = l /\ i + 1 - 1 = i
  <2>1. l \in Nat /\ i \in 1 .. l
    BY <1>1
  <2> HIDE DEF l
  <2>2. i \in Nat /\ i >= 1 /\ i <= l
    BY <2>1
  <2> QED BY <2>1, <2>2
<1>4. loop = [k \in 1 .. n |-> at.path[i + k - 1].node]
  BY DEF CycleFrom
<1> HIDE DEF loop, n, l
<1>5. loop \in [1 .. n -> nodes]
  BY <1>1, <1>3, <1>4
<1>6. loop \in Seq(nodes) /\ DOMAIN loop = 1 .. n /\ Len(loop) = n
  BY <1>3, <1>5, SeqDef, LenProperties
<1>7. loop # <<>>
  BY <1>3, <1>6
<1>8. \A j, k \in DOMAIN loop : loop[j] = loop[k] => j = k
  <2> TAKE j, k \in DOMAIN loop
  <2>1. i + j - 1 \in DOMAIN at.path /\ i + k - 1 \in DOMAIN at.path
        /\ loop[j] = at.path[i + j - 1].node /\ loop[k] = at.path[i + k - 1].node
    BY <1>1, <1>3, <1>4, <1>6
  <2>2. loop[j] = loop[k] => i + j - 1 = i + k - 1
    BY <2>1 DEF SearchInv
  <2>3. i \in Int /\ j \in Int /\ k \in Int
    BY <1>1, <1>6
  <2> QED BY <2>2, <2>3
<1>9. ASSUME NEW k \in DOMAIN loop
      PROVE  (IF k = Len(loop) THEN loop[1] ELSE loop[k + 1]) \in adj[loop[k]]
  <2>1. CASE k = n
    BY <1>1, <1>2, <1>3, <1>4, <1>6, <2>1
  <2>2. CASE k # n
    <3>1. /\ k + 1 \in 1 .. n /\ i + k - 1 \in DOMAIN at.path /\ i + (k + 1) - 1 \in DOMAIN at.path
          /\ i + (k + 1) - 1 = (i + k - 1) + 1
      BY <1>1, <1>3, <1>6, <2>2
    <3>2. loop[k] = at.path[i + k - 1].node /\ loop[k + 1] = at.path[(i + k - 1) + 1].node
      BY <1>4, <1>6, <3>1
    <3> QED BY <1>6, <2>2, <3>1, <3>2 DEF SearchInv
  <2> QED BY <2>1, <2>2
<1> QED BY <1>6, <1>7, <1>8, <1>9 DEF IsLoop, loop

\* The search returns a cycle, or there is none.
LEMMA FindCycleAnswers ==
  ASSUME NEW nodes, NEW adj, GraphOK(nodes, adj)
  PROVE  SearchAnswer(nodes, adj, FindCycle(adj))
<1>1. PICK f : /\ FindCycle(adj) = f[Unvisited]
               /\ \A at \in Visits(nodes) : f[at] = SearchStep(adj, f, at)
  BY SearchDefined
<1> DEFINE Bad == {at \in Visits(nodes) : SearchInv(nodes, adj, at)
                                            /\ ~ SearchAnswer(nodes, adj, f[at])}
<1>2. ASSUME Bad # {} PROVE FALSE
  <2>1. PICK at \in Bad : \A other \in Bad : <<other, at>> \notin Nearer(nodes)
    <3>1. IsWellFoundedOn(Nearer(nodes), Visits(nodes)) /\ Bad \subseteq Visits(nodes)
      BY SearchEnds DEF GraphOK
    <3> HIDE DEF Bad
    <3> QED BY <1>2, <3>1, WFMin
  <2>2. /\ at \in Visits(nodes) /\ SearchInv(nodes, adj, at)
        /\ ~ SearchAnswer(nodes, adj, f[at]) /\ DOMAIN adj = nodes
    BY DEF GraphOK
  <2>3. f[at] = SearchStep(adj, f, at)
    BY <1>1, <2>2
  <2>4. CASE Finished(nodes, at)
    <3>1. f[at] = <<>>
      BY <2>2, <2>3, <2>4 DEF SearchStep
    <3>2. \A n \in nodes : OffCycle(nodes, adj, n)
      BY <2>2, <2>4 DEF SearchInv, Finished
    <3> QED BY <2>2, <3>1, <3>2 DEF SearchAnswer
  <2>5. CASE ~ Finished(nodes, at) /\ Closing(at) # {}
    <3> DEFINE i == CHOOSE i \in Closing(at) : TRUE
    <3>1. f[at] = CycleFrom(at.path, i)
      BY <2>2, <2>3, <2>5 DEF SearchStep
    <3>2. i \in Closing(at)
      BY <2>5
    <3> HIDE DEF i
    <3> QED BY <2>2, <3>1, <3>2, ClosingIsALoop DEF SearchAnswer
  <2>6. CASE ~ Finished(nodes, at) /\ Closing(at) = {}
    <3>1. f[at] = f[Visit(adj, at)]
      BY <2>2, <2>3, <2>6 DEF SearchStep
    <3>2. SearchInv(nodes, adj, Visit(adj, at)) /\ Visit(adj, at) \in Visits(nodes)
      BY <2>2, <2>6, VisitKeeps DEF SearchInv
    <3>3. <<Visit(adj, at), at>> \in Nearer(nodes)
      BY <2>2, <2>6, VisitShape DEF Nearer
    <3>4. Visit(adj, at) \in Bad
      BY <2>2, <3>1, <3>2
    <3> QED BY <2>1, <3>3, <3>4
  <2> QED BY <2>4, <2>5, <2>6
<1>3. Unvisited \in Visits(nodes) /\ SearchInv(nodes, adj, Unvisited)
  BY DEF Unvisited, Visits, SearchInv
<1> QED BY <1>1, <1>2, <1>3

=============================================================================
