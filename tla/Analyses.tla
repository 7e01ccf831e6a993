------------------------------- MODULE Analyses -------------------------------
(***************************************************************************)
(* What the engine computes from a document: the analyses of Model and the *)
(* traceability queries.  A model keeps the full document and its          *)
(* effective view, made once when it is loaded; an operator named ...View  *)
(* is an analysis of that view, the one without the suffix that of a model *)
(* loaded from the full document.  The full document itself matters to the *)
(* proposals and the roll-up alone.                                        *)
(*                                                                         *)
(* Abstractions.  Values and weights are integers, and a value divided by  *)
(* the largest of its scale is a number of Units.  Lists are sets where    *)
(* the order is that of the ids; explanations, labels and the path by      *)
(* which an ancestor was reached are left out.                             *)
(***************************************************************************)
EXTENDS Documents, FiniteSetsExt

CONSTANT Units   \* a multiple of every scale's largest value

\* The list of a set's elements, in an order they determine.
InOrder(set) == FoldSet(LAMBDA x, list : Append(list, x), <<>>, set)

-----------------------------------------------------------------------------
(* The effective view *)

\* Which observations of a cell are not proposed, and these in their order.
Confirmed(cell) == {i \in DOMAIN cell : ~ cell[i].proposed}

\* What a function on some of the naturals gives, in the order of its arguments.
InTurn(f) ==
  [k \in 1 .. Cardinality(DOMAIN f) |->
     f[CHOOSE i \in DOMAIN f : Cardinality({j \in DOMAIN f : j <= i}) = k]]

Accepted(cell) == InTurn(Restrict(cell, Confirmed(cell)))

\* Mutant: proposed observations are kept.
EffectiveKeeping(doc) == doc

\* Proposed observations are dropped, then the cells left without one.
Effective(doc) ==
  LET cells(rel) == [p \in {q \in DOMAIN rel.cells : Confirmed(rel.cells[q]) # {}} |->
                       Accepted(rel.cells[p])]
  IN  [doc EXCEPT !.relations =
         [r \in DOMAIN doc.relations |->
            [doc.relations[r] EXCEPT !.cells = cells(doc.relations[r])]]]

\* proposals: those of the relations in use, from the full document.
Proposals(doc) ==
  LET cell(x) == doc.relations[x[1]].cells[x[2]]
      proposed(x) == {i \in DOMAIN cell(x) : cell(x)[i].proposed}
  IN  UNION {{[relation |-> x[1], cell |-> x[2], observation |-> cell(x)[i]] :
                i \in proposed(x)} : x \in CellsInUse(doc)}

-----------------------------------------------------------------------------
(* Values and weights *)

\* The value of a cell is that of its strongest observation; 0 without one
\* the scale knows.
Strongest(doc, r, p) ==
  LET rel == doc.relations[r]
      known == {rel.cells[p][i].token : i \in DOMAIN rel.cells[p]}
                 \cap Tokens(doc, rel.scale)
  IN  IF known = {} THEN 0 ELSE Max({Value(doc, rel.scale, t) : t \in known})

\* resolved_weight, and the weights of marginalize and contract.
Weight(doc, d, m) ==
  LET member == Members(doc, d)[m]
      scale == doc.dimensions[d].weightScale
  IN  IF member.weight # None THEN member.weight
      ELSE IF scale # None /\ member.token \in Tokens(doc, scale)
      THEN Value(doc, scale, member.token)
      ELSE None

\* marginalize: per member of the other axis, the weighted sum of its cells;
\* None when a member of the rolled axis, in use or not, has no weight.
MarginalizeView(doc, r, axis) ==
  LET rel == doc.relations[r]
      rolled == IF axis = "from" THEN 1 ELSE 2
      d == IF axis = "from" THEN rel.from ELSE rel.to
      weighted(p) == Weight(doc, d, p[rolled]) * Strongest(doc, r, p)
  IN  IF \E m \in MembersOf(doc, d) : Weight(doc, d, m) = None THEN None
      ELSE [m \in {p[3 - rolled] : p \in DOMAIN rel.cells} |->
              SumFunction([p \in {q \in DOMAIN rel.cells : q[3 - rolled] = m} |-> weighted(p)])]

Marginalize(full, r, axis) == MarginalizeView(Effective(full), r, axis)

-----------------------------------------------------------------------------
(* Tensions *)

\* relation_opposes: the valence of a relation type.
Opposes(type) == type = "opposes"
HasValence(type) == type \in {"supports", "opposes"}

LargestValue(doc, s) ==
  IF Tokens(doc, s) = {} THEN 0 ELSE Max({Value(doc, s, t) : t \in Tokens(doc, s)})

\* The forces on a member, as <<relation, source>>: the cells of relations in
\* use that end on it, between members no dimension has deprecated, with a value.
Forces(doc, m) ==
  LET retired == {n \in MemberIds : \E d \in DOMAIN doc.dimensions :
                    n \in MembersOf(doc, d) /\ Members(doc, d)[n].status = "deprecated"}
  IN  {<<x[1], x[2][1]>> : x \in
         {y \in CellsInUse(doc) :
            /\ y[2][2] = m /\ {y[2][1], m} \cap retired = {}
            /\ HasValence(doc.relations[y[1]].type)
            /\ Strongest(doc, y[1], y[2]) > 0}}

\* The part of the forces on m that opposes (or supports), in Units.
Side(doc, m, opposing) ==
  LET rel(x) == doc.relations[x[1]]
      part(x) == (Strongest(doc, x[1], <<x[2], m>>) * Units)
                   \div LargestValue(doc, rel(x).scale)
  IN  SumFunction([x \in {y \in Forces(doc, m) : Opposes(rel(y).type) = opposing} |-> part(x)])

\* Mutant: the two sides are folded into one number.
TensionFolded(support, opposition) ==
  IF support - opposition >= 0 THEN "none" ELSE "conflict"

Tension(support, opposition) ==
  IF opposition = 0 THEN "none"
  ELSE IF support <= opposition THEN "conflict"
  ELSE "tension"

Report(doc, m, support, opposition) ==
  [member |-> m, kind |-> Tension(support, opposition), contributors |-> Forces(doc, m),
   net |-> support - opposition]

TensionsView(doc) ==
  LET report(m) == Report(doc, m, Side(doc, m, FALSE), Side(doc, m, TRUE))
  IN  {t \in {report(m) : m \in ActiveMembers(doc)} : t.kind # "none"}

Tensions(full) == TensionsView(Effective(full))

-----------------------------------------------------------------------------
(* Contraction *)

\* The frontier maps <<source, end point>> to its value and the members
\* passed on the way.  The first relation's cells enter with a value only.
FirstFrontier(doc, r) ==
  [p \in {q \in DOMAIN doc.relations[r].cells : Strongest(doc, r, q) > 0} |->
     [value |-> Strongest(doc, r, p), seen |-> {}]]

\* Mutant: of the paths that meet only one is counted.
NextFrontierOfOne(doc, combination, frontier, r) ==
  LET cells == DOMAIN doc.relations[r].cells
      ends == {<<x[1][1], x[2][2]>> :
                 x \in {y \in (DOMAIN frontier) \X cells : y[1][2] = y[2][1]}}
  IN  [p \in ends |->
         LET mid == CHOOSE n \in MemberIds :
                      <<p[1], n>> \in DOMAIN frontier /\ <<n, p[2]>> \in cells
         IN  [value |-> frontier[<<p[1], mid>>].value * Strongest(doc, r, <<mid, p[2]>>),
              seen |-> {mid}]]

NextFrontier(doc, combination, frontier, r) ==
  LET cells == DOMAIN doc.relations[r].cells
      combined(a, b) == IF combination = "min" THEN Min({a, b}) ELSE a * b
      mids(p) == {n \in MemberIds : <<p[1], n>> \in DOMAIN frontier /\ <<n, p[2]>> \in cells}
      through(p, n) == combined(frontier[<<p[1], n>>].value, Strongest(doc, r, <<n, p[2]>>))
  IN  [p \in {q \in MemberIds \X MemberIds : mids(q) # {}} |->
         [value |-> SumFunction([n \in mids(p) |-> through(p, n)]),
          seen |-> UNION {frontier[<<p[1], n>>].seen \cup {n} : n \in mids(p)}]]

\* contract: the frontier after the last relation of the chain, weighted by
\* the source members (1 for one without weight), and whether the path
\* touches a member in conflict.
ContractView(doc, c) ==
  LET ctr == doc.contractions[c]
      frontier[n \in 1 .. Len(ctr.chain)] ==
        IF n = 1 THEN FirstFrontier(doc, ctr.chain[1])
        ELSE NextFrontier(doc, ctr.combination, frontier[n - 1], ctr.chain[n])
      last == frontier[Len(ctr.chain)]
      source == doc.relations[ctr.chain[1]].from
      weight(m) == IF ctr.bySource /\ m \in MembersOf(doc, source)
                   THEN Given(Weight(doc, source, m), 1) ELSE 1
      contested == {f.member : f \in {t \in TensionsView(doc) : t.kind = "conflict"}}
  IN  IF ctr.chain = <<>> \/ ~ Range(ctr.chain) \subseteq DOMAIN doc.relations THEN << >>
      ELSE [p \in DOMAIN last |->
              [net |-> last[p].value * weight(p[1]),
               path |-> {p[1], p[2]} \cup last[p].seen,
               critical |-> ({p[1], p[2]} \cup last[p].seen) \cap contested # {}]]

Contract(full, c) == ContractView(Effective(full), c)

-----------------------------------------------------------------------------
(* Hierarchies *)

\* The dimensions with a `contains' relation in use, and their edges.
HasHierarchy(doc, d) ==
  \E r \in ActiveRelations(doc) :
    doc.relations[r].type = "contains" /\ doc.relations[r].from = d

HierarchyEdges(doc, d) ==
  UNION {ActiveEdges(doc, r) : r \in {x \in ActiveRelations(doc) :
    doc.relations[x].type = "contains" /\ doc.relations[x].from = d}}

Parents(edges, members) == {e[1] : e \in {f \in edges : f[2] \in members}}

\* Mutant: only the parents are found.
AncestorsNearest(doc, m) == <<Parents(HierarchyEdges(doc, DimensionOf(doc, m)), {m})>>

\* ancestors: breadth first through the edges of the member's dimension; a
\* sequence of levels, the nearest first.  A turn of the search has the frontier
\* and what is visited.
AncestorsView(doc, m) ==
  LET edges == HierarchyEdges(doc, DimensionOf(doc, m))
      search[turn \in (SUBSET MemberIds) \X (SUBSET MemberIds)] ==
        LET next == Parents(edges, turn[1]) \ turn[2]
        IN  IF next = {} THEN <<>> ELSE <<next>> \o search[<<next, turn[2] \cup next>>]
  IN  search[<<{m}, {m}>>]

Ancestors(full, m) == AncestorsView(Effective(full), m)
AncestorSet(doc, m) == UNION ToSet(AncestorsView(doc, m))

\* token_rank: the stronger of two tokens has the higher value, and of equal
\* ones the later level.
StrongestToken(doc, s, tokens) ==
  CHOOSE t \in tokens : \A u \in tokens \ {t} :
    \/ Value(doc, s, t) > Value(doc, s, u)
    \/ Value(doc, s, t) = Value(doc, s, u) /\ Level(doc, s, t) > Level(doc, s, u)

\* The cells rolled_up derives for a relation: one for each ancestor of an end
\* point of a cell between members in use, where there is no real cell, with
\* the strongest token of the cells it stands for.
Rolls(doc, r) ==
  LET rel == doc.relations[r]
  IN  /\ r \in ActiveRelations(doc)
      /\ rel.type # "contains" /\ rel.from # rel.to
      /\ HasHierarchy(doc, rel.from) \/ HasHierarchy(doc, rel.to)

\* `above' is the set of ancestors of each member.
StandsFor(doc, r, above, p) ==
  LET rolls(d) == HasHierarchy(doc, d)
      rel == doc.relations[r]
  IN  {q \in ActiveEdges(doc, r) :
         \/ q[2] = p[2] /\ p[1] \in above[q[1]] /\ rolls(rel.from)
         \/ q[1] = p[1] /\ p[2] \in above[q[2]] /\ rolls(rel.to)}

Derived(doc, r) ==
  LET rel == doc.relations[r]
      above == [m \in {n \in MemberIds : IsMember(doc, n)} |-> AncestorSet(doc, m)]
      stands == [p \in (MemberIds \X MemberIds) \ DOMAIN rel.cells |->
                   StandsFor(doc, r, above, p)]
      tokens(p) == UNION {{rel.cells[q][i].token : i \in DOMAIN rel.cells[q]} :
                            q \in stands[p]}
  IN  [p \in {q \in DOMAIN stands : stands[q] # {}} |->
         <<[token |-> StrongestToken(doc, rel.scale, tokens(p)), proposed |-> FALSE,
            provenance |-> None, sourced |-> FALSE, measured |-> None, evidence |-> 0]>>]

\* rolled_up: the full document with the derived cells.  A derived cell beside
\* one that holds proposals only is made one cell with it.
RolledUp(full) ==
  LET doc == Effective(full)
      extended(r) ==
        LET cells == full.relations[r].cells
            derived == Derived(doc, r)
        IN  [p \in DOMAIN cells \cup DOMAIN derived |->
               (IF p \in DOMAIN cells THEN cells[p] ELSE <<>>)
                 \o (IF p \in DOMAIN derived THEN derived[p] ELSE <<>>)]
  IN  [full EXCEPT !.relations =
         [r \in DOMAIN @ |-> IF Rolls(doc, r) THEN [@[r] EXCEPT !.cells = extended(r)]
                             ELSE @[r]]]

-----------------------------------------------------------------------------
(* Traceability *)

\* describe: the members of each dimension, the cells of each relation.
DescribeView(doc) ==
  [members |-> [d \in DOMAIN doc.dimensions |-> Cardinality(MembersOf(doc, d))],
   cells |-> [r \in DOMAIN doc.relations |-> Cardinality(DOMAIN doc.relations[r].cells)]]

Describe(full) == DescribeView(Effective(full))

\* slice: the cells of a relation from and to the members given, or any.
Slice(full, r, from, to) ==
  {p \in DOMAIN Effective(full).relations[r].cells :
     (from = None \/ p[1] = from) /\ (to = None \/ p[2] = to)}

\* trace: one hop for each cell of a relation in use the member is an end of.
TraceView(doc, m) ==
  LET hops(axis, far) ==
        {[relation |-> x[1], direction |-> IF axis = 1 THEN "out" ELSE "in",
          member |-> x[2][far]] : x \in {y \in CellsInUse(doc) : y[2][axis] = m}}
  IN  hops(1, 2) \cup hops(2, 1)

Trace(full, m) == TraceView(Effective(full), m)

\* coverage: for each axis of a relation in use on a declared dimension, its
\* members in use that have a cell and those that have none.
AxisCoverage(doc, r, axis) ==
  LET rel == doc.relations[r]
      i == IF axis = "from" THEN 1 ELSE 2
      d == IF axis = "from" THEN rel.from ELSE rel.to
      used == {p[i] : p \in DOMAIN rel.cells}
      inUse == {m \in MembersOf(doc, d) : Members(doc, d)[m].status = "active"}
  IN  [relation |-> r, axis |-> axis, dimension |-> d,
       required |-> rel.policy \in {"both", IF axis = "from" THEN "every_from" ELSE "every_to"},
       covered |-> inUse \cap used, uncovered |-> inUse \ used]

CoverageView(doc) ==
  {c \in {AxisCoverage(doc, r, axis) : r \in ActiveRelations(doc), axis \in {"from", "to"}} :
     Declared(doc, c.dimension)}

Coverage(full) == CoverageView(Effective(full))

\* orphans: <<dimension, member>> in use that no cell of a relation in use names.
OrphansView(doc) ==
  LET used == UNION {{x[2][1], x[2][2]} : x \in CellsInUse(doc)}
  IN  {x \in (DOMAIN doc.dimensions) \X MemberIds :
         /\ x[2] \in MembersOf(doc, x[1]) \ used
         /\ Members(doc, x[1])[x[2]].status = "active"}

Orphans(full) == OrphansView(Effective(full))

\* gaps_next: the orphans, the heaviest first and those without weight last;
\* the order of equals, by id, is left to CHOOSE.
GapsView(doc) ==
  LET weight(x) == Weight(doc, x[1], x[2])
      heavier(x, y) == weight(x) # None /\ (weight(y) = None \/ weight(x) > weight(y))
      orphans == OrphansView(doc)
      sorted[left \in SUBSET orphans] ==
        IF left = {} THEN <<>>
        ELSE LET next == CHOOSE x \in left : \A y \in left : ~ heavier(y, x)
             IN  <<next>> \o sorted[left \ {next}]
  IN  sorted[orphans]

GapsNext(full) == GapsView(Effective(full))
=============================================================================
