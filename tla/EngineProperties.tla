--------------------------- MODULE EngineProperties ---------------------------
(***************************************************************************)
(* What the engine promises of every document its writes can lead to.  The *)
(* analyses are compared with definitions of what they mean: reachability  *)
(* for the searches, paths for the contraction, the document without its   *)
(* proposals for the effective view.                                       *)
(***************************************************************************)
EXTENDS Engine

-----------------------------------------------------------------------------
(* Searches *)

\* The nodes reached from n by one or more of the edges.
Extended(edges, from) == from \cup {e[2] : e \in {f \in edges : f[1] \in from}}
Reached(edges, n) ==
  LET closure[from \in SUBSET MemberIds] ==
        IF Extended(edges, from) = from THEN from ELSE closure[Extended(edges, from)]
  IN  closure[{e[2] : e \in {f \in edges : f[1] = n}}]

IsCycle(edges, path) ==
  /\ IsInjective(path)
  /\ \A i \in DOMAIN path :
       <<path[i], IF i = Len(path) THEN path[1] ELSE path[i + 1]>> \in edges

\* The depth-first search of find_cycle, on the hierarchy of any document and
\* on what one more edge makes of it: it finds a cycle exactly when some member
\* contains itself through others, and what it reports is one.
CycleSearchIsExact ==
  \A r \in DOMAIN doc.relations : doc.relations[r].type = "contains" =>
    \A e \in ActiveMembers(doc) \X ActiveMembers(doc) :
      LET edges == ActiveEdges(doc, r) \cup {e}
          found == FindCycle(Adjacency(edges))
      IN  IF \E n \in ActiveMembers(doc) : n \in Reached(edges, n)
          THEN found # <<>> /\ IsCycle(edges, found)
          ELSE found = <<>>

\* Whether a document is what the roll-up of this one should be: it loads, the
\* cells of the original stand in it as they were, and its others are those of the
\* members above.
RollsUpTo(rolled, eff) ==
  LET up(d) == {<<e[2], e[1]>> : e \in HierarchyEdges(eff, d)}
      above == [x \in (DOMAIN doc.dimensions) \X MemberIds |->
                  Reached(up(x[1]), x[2]) \ {x[2]}]
      stands(r, p) ==
        \E q \in ActiveEdges(eff, r) :
          \/ q[2] = p[2] /\ p[1] \in above[<<eff.relations[r].from, q[1]>>]
          \/ q[1] = p[1] /\ p[2] \in above[<<eff.relations[r].to, q[2]>>]
      simple(r) == doc.relations[r].status = "active"
                     /\ doc.relations[r].from # doc.relations[r].to
  IN  /\ Loads(rolled)
      /\ \A r \in DOMAIN doc.relations :
           LET real == DOMAIN eff.relations[r].cells
               cells == rolled.relations[r].cells
           IN  /\ {p \in DOMAIN cells : Confirmed(cells[p]) # {}}
                    = real \cup {p \in MemberIds \X MemberIds : simple(r) /\ stands(r, p)}
               /\ \A p \in real : cells[p] = doc.relations[r].cells[p]

\* ancestors, rolled_up: rolling up gives a document that loads, in which every
\* cell of the original stands as it was, and whose other cells are those of a
\* member above the end of some cell between members in use: above by any number
\* of `contains' relations, whose edges may even close a circle together.
RollupIsExact == RollsUpTo(RolledUp(doc), Effective(doc))

-----------------------------------------------------------------------------
(* Numbers *)

\* All ways through the relations of a chain: a member before each relation
\* and one after the last.
Ways(eff, chain) ==
  LET ways[n \in 0 .. Len(chain)] ==
        IF n = 0 THEN {<<m>> : m \in MemberIds}
        ELSE {Append(x[1], x[2][2]) :
                x \in {y \in ways[n - 1] \X DOMAIN eff.relations[chain[n]].cells :
                        Last(y[1]) = y[2][1]}}
  IN  ways[Len(chain)]

\* The product of the values on a way.
Worth(eff, chain, way) ==
  LET product[n \in 0 .. Len(chain)] ==
        IF n = 0 THEN 1
        ELSE product[n - 1] * Strongest(eff, chain[n], <<way[n], way[n + 1]>>)
  IN  product[Len(chain)]

\* Whether a ranking is the one of a contraction in a view: it lists the pairs of
\* end points that some way joins which starts with a value (a zero further on is
\* listed), and each, unless values are combined otherwise, with the sum over all
\* such ways of the product of the values on the way, times the source's weight.
\* Pairs that a way through a retired member joins are left aside, and so are
\* chains with a retired relation: the code ranks them, which the documentation
\* ("deprecated elements leave analyses") does not want it to.
SumsWays(ranked, eff, ctr) ==
  LET chain == ctr.chain
      all == Ways(eff, chain)
      ways(p) == {w \in all : /\ w[1] = p[1] /\ w[Len(chain) + 1] = p[2]
                              /\ Strongest(eff, chain[1], <<w[1], w[2]>>) > 0}
      inUse(p) == \A w \in ways(p) : Range(w) \subseteq ActiveMembers(eff)
      factor(m) == IF ~ ctr.bySource THEN 1
                   ELSE Given(Weight(doc, doc.relations[chain[1]].from, m), 1)
  IN  IF chain = <<>> \/ ~ Range(chain) \subseteq DOMAIN doc.relations THEN DOMAIN ranked = {}
      ELSE Range(chain) \subseteq ActiveRelations(eff) =>
           /\ {p \in DOMAIN ranked : inUse(p)}
                = {p \in MemberIds \X MemberIds : ways(p) # {} /\ inUse(p)}
           /\ ctr.combination # "min" =>
                \A p \in DOMAIN ranked : inUse(p) =>
                  ranked[p].net = factor(p[1])
                                   * SumFunction([w \in ways(p) |-> Worth(eff, chain, w)])

\* contract: the frontier that is carried from relation to relation gives every
\* pair of end points the sum over the ways between them, where paths meet too,
\* as long as no element on them is retired.
ContractionSumsWays ==
  \A c \in DOMAIN doc.contractions :
    SumsWays(Contract(doc, c), Effective(doc), doc.contractions[c])

\* tensions: an opposing force on a member in use is always reported, however
\* strong its support, and as a conflict exactly when the support does not
\* outweigh it (valence by separation).
OppositionIsNeverHidden ==
  LET eff == Effective(doc)
      pull(r, p) == (Strongest(eff, r, p) * Units)
                      \div LargestValue(eff, eff.relations[r].scale)
      cells(m, type) ==
        {x \in ActiveRelations(eff) \X (ActiveMembers(eff) \X {m}) :
           /\ eff.relations[x[1]].type = type
           /\ x[2] \in DOMAIN eff.relations[x[1]].cells
           /\ Strongest(eff, x[1], x[2]) > 0}
      total(m, type) == SumFunction([x \in cells(m, type) |-> pull(x[1], x[2])])
  IN  \A m \in ActiveMembers(eff) :
        LET reports == {t \in Tensions(doc) : t.member = m}
        IN  IF cells(m, "opposes") = {} THEN reports = {}
            ELSE \E t \in reports :
                   t.kind = "conflict" <=> total(m, "supports") <= total(m, "opposes")

-----------------------------------------------------------------------------
(* Proposals *)

\* The observations of a cell, as many as n, that are not proposed.
WithoutProposals(cell) ==
  LET kept[n \in 0 .. Len(cell)] ==
        IF n = 0 THEN <<>>
        ELSE IF cell[n].proposed THEN kept[n - 1]
        ELSE Append(kept[n - 1], cell[n])
  IN  kept[Len(cell)]

\* The document as if nobody had ever proposed anything.
Unproposed ==
  LET kept(cell) == WithoutProposals(cell)
      cells(r) == {p \in DOMAIN doc.relations[r].cells : kept(doc.relations[r].cells[p]) # <<>>}
  IN  [doc EXCEPT !.relations =
         [r \in DOMAIN @ |->
            [@[r] EXCEPT !.cells = [p \in cells(r) |-> kept(doc.relations[r].cells[p])]]]]

\* Every number and list a client can ask for, but the proposals themselves.
Analysed(d) ==
  [contract |-> [c \in DOMAIN d.contractions |-> Contract(d, c)],
   marginal |-> [x \in (DOMAIN d.relations) \X {"from", "to"} |-> Marginalize(d, x[1], x[2])],
   findings |-> Findings(d), coverage |-> Coverage(d), orphans |-> Orphans(d),
   gaps |-> GapsNext(d), trace |-> [m \in MemberIds |-> Trace(d, m)],
   slice |-> [r \in DOMAIN d.relations |-> Slice(d, r, None, None)],
   describe |-> Describe(d),
   ancestors |-> [m \in {n \in MemberIds : IsMember(d, n)} |-> Ancestors(d, m)],
   rolled |-> Effective(RolledUp(d))]

\* A proposed observation is kept, and listed for review, but no analysis tells
\* a document with proposals from the same document without them (README: they
\* count in no analysis until somebody confirms the cell).
ProposalsDecideNothing ==
  /\ Analysed(Unproposed) = Analysed(doc)
  /\ \A r \in ActiveRelations(doc) : \A p \in DOMAIN doc.relations[r].cells :
       \A i \in DOMAIN doc.relations[r].cells[p] :
         doc.relations[r].cells[p][i].proposed =>
           \E x \in Proposals(doc) :
             x.relation = r /\ x.cell = p /\ x.observation = doc.relations[r].cells[p][i]

-----------------------------------------------------------------------------
(* Pages *)

\* What a client gets that follows the cursors, from the start of the list on.
Gathered(list, limit) ==
  LET from[offset \in Nat] ==
        LET next == NextCursor(offset, limit, Len(list))
        IN  Page(list, offset, limit) \o IF next = None THEN <<>> ELSE from[next]
  IN  from[0]

StalePages(d, limit, cellLimit) ==
  LET from[offset \in Nat] ==
        LET page == StalePage(d, << >>, TRUE, offset, limit, cellLimit)
        IN  {page} \cup IF page.next = None THEN {} ELSE from[page.next]
  IN  from[0]

\* The members whose file says otherwise than they do, files outside aside.
Outdated ==
  {x \in (DOMAIN doc.dimensions) \X MemberIds :
     /\ x[2] \in MembersOf(doc, x[1])
     /\ Members(doc, x[1])[x[2]].status = "active"
     /\ LET source == Members(doc, x[1])[x[2]].source
        IN  /\ source # None
            /\ source.hash # None
            /\ source.file \in Files \ OutsideFiles
            /\ Contents[source.file] # source.hash}

\* Following the cursors gives the whole list at any limit but 0.  A page of none
\* has a cursor that leads to the page itself, so that nothing ever follows.
GivesAll(list, limit) ==
  IF limit > 0 THEN Gathered(list, limit) = list
  ELSE \A offset \in 0 .. Len(list) - 1 :
         Page(list, offset, limit) = <<>> /\ NextCursor(offset, limit, Len(list)) = offset

GivesAllStale(limit, cellLimit) ==
  LET pages == StalePages(doc, limit, cellLimit)
      first == StalePage(doc, << >>, TRUE, 0, limit, cellLimit)
      outdated == Outdated
      touched == {x \in CellsInUse(Effective(doc)) :
                    \E y \in outdated : y[2] \in {x[2][1], x[2][2]}}
  IN  IF limit > 0
      THEN /\ UNION {ToSet(g.changed) : g \in pages} = outdated
           /\ UNION {g.affected : g \in pages} \subseteq touched
           /\ (\A g \in pages : ~ g.truncated)
                => UNION {g.affected : g \in pages} = touched
      ELSE first.changed = <<>> /\ (first.next = 0 <=> outdated # {})

\* A client that follows the cursors of an unchanged document sees every
\* element of the list once, whatever limit it asks for, but for 0, which
\* opt_limit takes although the schema of a request does not: it gets empty
\* pages for ever.  From the pages of `stale' it gets every outdated member and,
\* unless a page says it was cut short, every cell in use that rests on one.
PagesAreWhole ==
  \A asked \in Limits :
    /\ \A viewed \in {Viewed(doc, rollup) : rollup \in BOOLEAN}, r \in DOMAIN doc.relations :
         GivesAll(SliceList(viewed, r, None, None), Limit(asked, 500, 5000))
    /\ \A m \in MemberIds : IsMember(doc, m) =>
         GivesAll(TraceList(doc, m, None, None), Limit(asked, 200, 2000))
    /\ \A cells \in Limits :
         GivesAllStale(Limit(asked, 100, 1000), Limit(cells, 500, 5000))

-----------------------------------------------------------------------------
(* What the documentation says and the code does not do *)

\* "rolled_up must produce a valid model": the loader takes what rolled_up makes
\* of a document it took.
RolledUpLoads == Loads(doc) => Loads(RolledUp(doc))
=============================================================================
