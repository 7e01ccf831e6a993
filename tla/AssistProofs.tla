----------------------------- MODULE AssistProofs -----------------------------
(***************************************************************************)
(* What a judge's suggestions do to the states, proved: each is stored     *)
(* once, by a request the log names, but for one at most that each kill    *)
(* leaves without its line, and decides nothing; what is stored loads, and *)
(* a call asks about no more cells than it may.                            *)
(***************************************************************************)
EXTENDS Assist, EngineLemmas, FiniteSetTheorems

-----------------------------------------------------------------------------
(* Suggestions *)

\* A place of a document: <<relation, cell, index>>.
Places(doc) ==
  UNION {UNION {{<<r, p, i>> : i \in DOMAIN doc.relations[r].cells[p]} :
                   p \in DOMAIN doc.relations[r].cells} : r \in DOMAIN doc.relations}

ObservationAt(doc, x) == doc.relations[x[1]].cells[x[2]][x[3]]

LEMMA PlaceShape ==
  ASSUME NEW doc, NEW r, NEW p, NEW i
  PROVE  <<r, p, i>> \in Places(doc) <=>
           /\ r \in DOMAIN doc.relations /\ p \in DOMAIN doc.relations[r].cells
           /\ i \in DOMAIN doc.relations[r].cells[p]
  BY DEF Places

LEMMA PlacesAreTriples ==
  ASSUME NEW doc, NEW x \in Places(doc)
  PROVE  \E r, p, i : x = <<r, p, i>>
  BY DEF Places

LEMMA SuggestionShape ==
  ASSUME NEW doc, NEW x
  PROVE  x \in Suggestions(doc) <=> x \in Places(doc) /\ ObservationAt(doc, x).reply # None
<1>1. ASSUME x \in Suggestions(doc)
      PROVE  x \in Places(doc) /\ ObservationAt(doc, x).reply # None
  BY <1>1 DEF Suggestions, JudgedOn, Places, ObservationAt
<1>2. ASSUME x \in Places(doc), ObservationAt(doc, x).reply # None
      PROVE  x \in Suggestions(doc)
  <2>1. PICK r, p, i : /\ r \in DOMAIN doc.relations /\ p \in DOMAIN doc.relations[r].cells
                       /\ i \in DOMAIN doc.relations[r].cells[p] /\ x = <<r, p, i>>
    BY <1>2 DEF Places
  <2>2. doc.relations[r].cells[p][i].reply # None
    BY <1>2, <2>1 DEF ObservationAt
  <2>3. i \in JudgedOn(doc.relations[r].cells[p])
    BY <2>1, <2>2 DEF JudgedOn
  <2>4. x \in {<<r, p, k>> : k \in JudgedOn(doc.relations[r].cells[p])}
    BY <2>1, <2>3
  <2>5. x \in UNION {{<<r, q, k>> : k \in JudgedOn(doc.relations[r].cells[q])} :
                        q \in DOMAIN doc.relations[r].cells}
    BY <2>1, <2>4
  <2> QED BY <2>1, <2>5 DEF Suggestions
<1> QED
  BY <1>1, <1>2

\* The observations of one document are in another, at their places.
Keeps(doc, next) ==
  \A x \in Places(doc) : x \in Places(next) /\ ObservationAt(next, x) = ObservationAt(doc, x)

\* It has one more, the last one on its cell.
LastPlace(doc, r, p) == <<r, p, Len(Cell(doc, r, p))>>

Gains(doc, next, r, p, o) ==
  LET x == LastPlace(next, r, p)
  IN  /\ Places(next) = Places(doc) \cup {x}
      /\ x \notin Places(doc)
      /\ ObservationAt(next, x) = o

\* An observation adds at most one place, its own.
LEMMA ObservedPlaces ==
  ASSUME NEW doc, IsDocument(doc), NEW r \in DOMAIN doc.relations, NEW from, NEW to, NEW o,
         NEW next, next = Observed(doc, r, from, to, o)
  PROVE  /\ Keeps(doc, next)
         /\ Places(next) = Places(doc) \/ Gains(doc, next, r, <<from, to>>, o)
         /\ o \notin Range(Cell(doc, r, <<from, to>>)) => Places(next) # Places(doc)
<1> DEFINE p == <<from, to>>
           cell == Cell(doc, r, p)
           cells == next.relations[r].cells
<1>1. /\ DOMAIN next.relations = DOMAIN doc.relations
      /\ \A q \in DOMAIN doc.relations \ {r} : next.relations[q] = doc.relations[q]
      /\ cells = With(doc.relations[r].cells, p, Added(cell, o))
  BY ObservedShape
<1>2. /\ DOMAIN cells = DOMAIN doc.relations[r].cells \cup {p}
      /\ cells[p] = Added(cell, o)
      /\ \A s \in DOMAIN doc.relations[r].cells \ {p} : cells[s] = doc.relations[r].cells[s]
  BY <1>1 DEF With
<1>3. cell \in Seq(Range(cell))
  BY CellShape
<1>4. IF p \in DOMAIN doc.relations[r].cells THEN cell = doc.relations[r].cells[p]
                                             ELSE DOMAIN cell = {}
  BY DEF Cell
<1> HIDE DEF p, cell, cells
<1>5. \/ cells[p] = cell /\ o \in Range(cell)
      \/ /\ o \notin Range(cell)
         /\ DOMAIN cells[p] = DOMAIN cell \cup {Len(cell) + 1}
         /\ Len(cell) + 1 \notin DOMAIN cell
         /\ \A i \in DOMAIN cell : cells[p][i] = cell[i]
         /\ cells[p][Len(cell) + 1] = o
         /\ Len(cells[p]) = Len(cell) + 1
  <2>1. CASE Added(cell, o) = cell /\ o \in Range(cell)
    BY <1>2, <2>1
  <2>2. CASE o \notin Range(cell) /\ Added(cell, o) = Append(cell, o)
    <3>1. cells[p] = Append(cell, o)
      BY <1>2, <2>2
    <3> QED
      BY <1>3, <2>2, <3>1, AppendShape
  <2> QED
    BY <1>3, <2>1, <2>2, AddedShape
<1>6. \A q, s, i : <<q, s, i>> \in Places(doc) =>
        /\ <<q, s, i>> \in Places(next)
        /\ ObservationAt(next, <<q, s, i>>) = ObservationAt(doc, <<q, s, i>>)
  <2> SUFFICES ASSUME NEW q, NEW s, NEW i, <<q, s, i>> \in Places(doc)
               PROVE  /\ <<q, s, i>> \in Places(next)
                      /\ ObservationAt(next, <<q, s, i>>) = ObservationAt(doc, <<q, s, i>>)
    OBVIOUS
  <2>1. /\ q \in DOMAIN doc.relations /\ s \in DOMAIN doc.relations[q].cells
        /\ i \in DOMAIN doc.relations[q].cells[s]
    BY PlaceShape
  <2>2. /\ s \in DOMAIN next.relations[q].cells
        /\ i \in DOMAIN next.relations[q].cells[s]
        /\ next.relations[q].cells[s][i] = doc.relations[q].cells[s][i]
    <3>1. CASE q # r
      BY <1>1, <2>1, <3>1
    <3>2. CASE q = r /\ s # p
      BY <1>2, <2>1, <3>2 DEF cells
    <3>3. CASE q = r /\ s = p
      BY <1>2, <1>4, <1>5, <2>1, <3>3 DEF cells
    <3> QED
      BY <3>1, <3>2, <3>3
  <2> QED
    BY <1>1, <2>1, <2>2, PlaceShape DEF ObservationAt
<1>7. \A q, s, i : <<q, s, i>> \in Places(next) =>
        \/ <<q, s, i>> \in Places(doc)
        \/ q = r /\ s = p /\ i = Len(cell) + 1 /\ o \notin Range(cell)
  <2> SUFFICES ASSUME NEW q, NEW s, NEW i, <<q, s, i>> \in Places(next)
               PROVE  \/ <<q, s, i>> \in Places(doc)
                      \/ q = r /\ s = p /\ i = Len(cell) + 1 /\ o \notin Range(cell)
    OBVIOUS
  <2>1. /\ q \in DOMAIN doc.relations /\ s \in DOMAIN next.relations[q].cells
        /\ i \in DOMAIN next.relations[q].cells[s]
    BY <1>1, PlaceShape
  <2>2. CASE q # r
    BY <1>1, <2>1, <2>2, PlaceShape
  <2>3. CASE q = r /\ s # p
    BY <1>2, <2>1, <2>3, PlaceShape DEF cells
  <2>4. CASE q = r /\ s = p
    BY <1>2, <1>4, <1>5, <2>1, <2>4, PlaceShape DEF cells
  <2> QED
    BY <2>2, <2>3, <2>4
<1>8. CASE o \in Range(cell)
  <2>1. Places(next) = Places(doc)
    BY <1>6, <1>7, <1>8, PlacesAreTriples
  <2> QED
    BY <1>6, <1>8, <2>1, PlacesAreTriples DEF cell, p, Keeps
<1>9. CASE o \notin Range(cell)
  <2> DEFINE x == <<r, p, Len(cell) + 1>>
  <2>1. x \notin Places(doc)
    BY <1>4, <1>5, <1>9, PlaceShape
  <2>2. x \in Places(next) /\ ObservationAt(next, x) = o
    BY <1>1, <1>2, <1>5, <1>9, PlaceShape DEF ObservationAt, cells
  <2>3. Places(next) = Places(doc) \cup {x}
    BY <1>6, <1>7, <2>2, PlacesAreTriples
  <2>7. x = LastPlace(next, r, p)
    <3>1. Cell(next, r, p) = cells[p]
      BY <1>2 DEF Cell, cells
    <3> QED
      BY <1>5, <1>9, <3>1 DEF LastPlace
  <2>4. Keeps(doc, next)
    BY <1>6, PlacesAreTriples DEF Keeps
  <2> HIDE DEF x
  <2>5. Gains(doc, next, r, p, o)
    BY <2>1, <2>2, <2>3, <2>7 DEF Gains
  <2>6. Places(next) # Places(doc)
    BY <2>1, <2>2
  <2> QED
    BY <2>4, <2>5, <2>6 DEF p
<1> QED
  BY <1>8, <1>9

\* What OncePerToken says of one state, whose suggestions in `but' have no line.
StoredOnce(doc, log, but) ==
  LET suggestions == Suggestions(doc) \ but
  IN  /\ log = {RecordedBy(doc, x) : x \in suggestions}
      /\ \A x, y \in suggestions : RecordedBy(doc, x) = RecordedBy(doc, y) => x = y

LEMMA RecordedByPlace ==
  ASSUME NEW doc, NEW next, NEW x, ObservationAt(next, x) = ObservationAt(doc, x)
  PROVE  RecordedBy(next, x) = RecordedBy(doc, x)
  BY DEF RecordedBy, ObservationAt

\* A document with the same suggestions, at their places.
SameOnes(doc, next) ==
  /\ Suggestions(next) = Suggestions(doc)
  /\ \A x \in Suggestions(doc) : ObservationAt(next, x) = ObservationAt(doc, x)

LEMMA SameSuggestions ==
  ASSUME NEW doc, NEW next, SameOnes(doc, next), NEW log, NEW but, StoredOnce(doc, log, but)
  PROVE  StoredOnce(next, log, but)
  BY RecordedByPlace DEF StoredOnce, SameOnes

LEMMA ObservedByUser ==
  ASSUME NEW doc, IsDocument(doc), NEW r \in DOMAIN doc.relations, NEW from, NEW to, NEW o,
         NEW next, next = Observed(doc, r, from, to, o), o.reply = None
  PROVE  SameOnes(doc, next)
<1>1. Keeps(doc, next)
  BY ObservedPlaces
<1>2. \A x \in Places(doc) :
        x \in Places(next) /\ ObservationAt(next, x) = ObservationAt(doc, x)
  BY <1>1 DEF Keeps
<1>3. Suggestions(next) = Suggestions(doc)
  <2>1. ASSUME NEW x \in Suggestions(next) PROVE x \in Suggestions(doc)
    <3>1. x \in Places(next) /\ ObservationAt(next, x).reply # None
      BY SuggestionShape
    <3>2. CASE Gains(doc, next, r, <<from, to>>, o)
      BY <3>1, <3>2, <1>2, SuggestionShape DEF Gains
    <3>3. CASE Places(next) = Places(doc)
      BY <1>2, <3>1, <3>3, SuggestionShape
    <3> QED
      BY <3>2, <3>3, ObservedPlaces
  <2>2. ASSUME NEW x \in Suggestions(doc) PROVE x \in Suggestions(next)
    BY <1>2, SuggestionShape
  <2> QED
    BY <2>1, <2>2
<1> QED
  BY <1>2, <1>3, SuggestionShape DEF SameOnes

\* Suggestions that are older than a reply.
Older(doc, but, reply) ==
  \A x \in but : /\ x \in Suggestions(doc)
                 /\ ObservationAt(doc, x).reply \in Nat
                 /\ ObservationAt(doc, x).reply < reply

\* What a suggestion that is stored adds to its document.
JudgeAdds(doc, next, x, o) ==
  /\ Suggestions(next) = Suggestions(doc) \cup {x} /\ x \notin Suggestions(doc)
  /\ ObservationAt(next, x) = o
  /\ \A y \in Suggestions(doc) : ObservationAt(next, y) = ObservationAt(doc, y)

\* A suggestion no request in the log recorded is a new one, also beside those
\* that have no line.
LEMMA ObservedByJudge ==
  ASSUME NEW doc, IsDocument(doc), NEW r \in DOMAIN doc.relations, NEW from, NEW to, NEW o,
         NEW next, next = Observed(doc, r, from, to, o), o.reply \in Nat, None \notin Nat,
         NEW log, NEW but, StoredOnce(doc, log, but), Older(doc, but, o.reply),
         Joined(r, from, to, o.token) \notin log
  PROVE  /\ JudgeAdds(doc, next, LastPlace(next, r, <<from, to>>), o)
         /\ RecordedBy(next, LastPlace(next, r, <<from, to>>)) = Joined(r, from, to, o.token)
         /\ StoredOnce(next, log, but \cup {LastPlace(next, r, <<from, to>>)})
<1> DEFINE p == <<from, to>>
           id == Joined(r, from, to, o.token)
           new == LastPlace(next, r, p)
<1>1. o \notin Range(Cell(doc, r, p))
  <2> SUFFICES ASSUME o \in Range(Cell(doc, r, p)) PROVE FALSE
    OBVIOUS
  <2>1. p \in DOMAIN doc.relations[r].cells
    BY DEF Cell, Range
  <2>2. PICK i \in DOMAIN doc.relations[r].cells[p] : doc.relations[r].cells[p][i] = o
    BY <2>1 DEF Cell, Range
  <2>3. <<r, p, i>> \in Suggestions(doc) /\ ObservationAt(doc, <<r, p, i>>) = o
    BY <2>1, <2>2, PlaceShape, SuggestionShape DEF ObservationAt
  <2>4. RecordedBy(doc, <<r, p, i>>) = id
    BY <2>2 DEF RecordedBy
  <2>5. <<r, p, i>> \notin but
    BY <2>3 DEF Older
  <2> QED
    BY <2>3, <2>4, <2>5 DEF StoredOnce
<1>2. Keeps(doc, next) /\ Gains(doc, next, r, p, o)
  BY <1>1, ObservedPlaces
<1>3. /\ Places(next) = Places(doc) \cup {new}
      /\ new \notin Places(doc)
      /\ ObservationAt(next, new) = o
  BY <1>2 DEF Gains
<1>4. RecordedBy(next, new) = id
  BY <1>3 DEF RecordedBy, ObservationAt, LastPlace
<1> HIDE DEF new
<1>5. Suggestions(next) = Suggestions(doc) \cup {new} /\ new \notin Suggestions(doc)
  <2>1. ASSUME NEW x PROVE x \in Suggestions(next) <=> x \in Suggestions(doc) \cup {new}
    BY <1>2, <1>3, SuggestionShape DEF Keeps
  <2> QED
    BY <1>3, <2>1, SuggestionShape
<1>6. \A x \in Suggestions(doc) : ObservationAt(next, x) = ObservationAt(doc, x)
  BY <1>2, SuggestionShape DEF Keeps
<1>7. \A x \in Suggestions(doc) : RecordedBy(next, x) = RecordedBy(doc, x)
  BY <1>6, RecordedByPlace
<1>8. JudgeAdds(doc, next, new, o)
  BY <1>3, <1>5, <1>6 DEF JudgeAdds
<1>9. StoredOnce(next, log, but \cup {new})
  <2>1. Suggestions(next) \ (but \cup {new}) = Suggestions(doc) \ but
    BY <1>5
  <2>2. {RecordedBy(next, x) : x \in Suggestions(doc) \ but}
          = {RecordedBy(doc, x) : x \in Suggestions(doc) \ but}
    BY <1>7
  <2> QED
    BY <1>7, <2>1, <2>2 DEF StoredOnce
<1> QED
  BY <1>4, <1>8, <1>9 DEF new

\* Its line in the log makes it one of the others.
LEMMA LineOfSuggestion ==
  ASSUME NEW doc, NEW log, NEW but, NEW x \in Suggestions(doc), x \notin but,
         StoredOnce(doc, log, but \cup {x}), RecordedBy(doc, x) \notin log
  PROVE  StoredOnce(doc, log \cup {RecordedBy(doc, x)}, but)
<1> DEFINE rest == Suggestions(doc) \ (but \cup {x})
<1>1. Suggestions(doc) \ but = rest \cup {x}
  OBVIOUS
<1>2. log = {RecordedBy(doc, y) : y \in rest}
  BY DEF StoredOnce
<1>3. \A y, z \in rest : RecordedBy(doc, y) = RecordedBy(doc, z) => y = z
  BY DEF StoredOnce
<1> HIDE DEF rest
<1>4. \A y, z \in rest \cup {x} : RecordedBy(doc, y) = RecordedBy(doc, z) => y = z
  BY <1>2, <1>3
<1>5. log \cup {RecordedBy(doc, x)} = {RecordedBy(doc, y) : y \in rest \cup {x}}
  BY <1>2
<1> QED
  BY <1>1, <1>4, <1>5 DEF StoredOnce

\* Retiring something leaves the cells as they are.
LEMMA DeprecatedShape ==
  ASSUME NEW doc, IsDocument(doc), NEW target, NEW successor,
         NEW next, next = Deprecated(doc, target, successor)
  PROVE  IsDocument(next) /\ SameOnes(doc, next)
<1>1. /\ DOMAIN next.relations = DOMAIN doc.relations
      /\ DOMAIN next = DOMAIN doc
      /\ \A r \in DOMAIN doc.relations :
           /\ DOMAIN next.relations[r] = DOMAIN doc.relations[r]
           /\ next.relations[r].cells = doc.relations[r].cells
  <2>1. CASE target \in DOMAIN doc.relations
    <3> DEFINE retired == Retired(doc.relations[target], successor)
    <3>1. next = [doc EXCEPT !.relations = [doc.relations EXCEPT ![target] = retired]]
      BY <2>1 DEF Deprecated
    <3>2. /\ DOMAIN retired = DOMAIN doc.relations[target]
          /\ retired.cells = doc.relations[target].cells
      BY <2>1 DEF Retired, IsDocument
    <3> HIDE DEF retired
    <3> QED
      BY <2>1, <3>1, <3>2 DEF IsDocument
  <2>2. CASE target \notin DOMAIN doc.relations
    <3>1. DOMAIN next = DOMAIN doc /\ next.relations = doc.relations
      BY <2>2 DEF Deprecated, IsDocument
    <3> QED
      BY <3>1
  <2> QED
    BY <2>1, <2>2
<1>2. IsDocument(next)
  BY <1>1 DEF IsDocument
<1>3. Suggestions(next) = Suggestions(doc)
  BY <1>1 DEF Suggestions
<1>4. \A x \in Suggestions(doc) : ObservationAt(next, x) = ObservationAt(doc, x)
  <2>1. \A x \in Suggestions(doc) : x[1] \in DOMAIN doc.relations
    BY DEF Suggestions
  <2> QED
    BY <1>1, <2>1 DEF ObservationAt
<1> QED
  BY <1>2, <1>3, <1>4 DEF SameOnes

-----------------------------------------------------------------------------
(* The effective view *)

\* A proposed observation is not among the accepted ones.
LEMMA ProposedIsNotAccepted ==
  ASSUME NEW cell, cell \in Seq(Range(cell)), NEW o, o.proposed,
         NEW added, added = Added(cell, o)
  PROVE  Confirmed(added) = Confirmed(cell) /\ Accepted(added) = Accepted(cell)
<1>1. CASE added = cell
  BY <1>1
<1>2. CASE added = Append(cell, o)
  <2>1. /\ DOMAIN added = DOMAIN cell \cup {Len(cell) + 1}
        /\ Len(cell) + 1 \notin DOMAIN cell
        /\ \A i \in DOMAIN cell : added[i] = cell[i]
        /\ added[Len(cell) + 1] = o
    BY <1>2, AppendShape
  <2>2. Confirmed(added) = Confirmed(cell)
    BY <2>1 DEF Confirmed
  <2>3. Restrict(added, Confirmed(added)) = Restrict(cell, Confirmed(cell))
    BY <2>1, <2>2 DEF Restrict, Confirmed
  <2> QED
    BY <2>2, <2>3 DEF Accepted
<1> QED
  BY <1>1, <1>2, AddedShape

\* What is proposed changes the effective view of no document.
LEMMA ProposalsLeaveEffective ==
  ASSUME NEW doc, IsDocument(doc), NEW r \in DOMAIN doc.relations, NEW from, NEW to, NEW o,
         o.proposed, NEW next, next = Observed(doc, r, from, to, o)
  PROVE  Effective(next) = Effective(doc)
<1> DEFINE p == <<from, to>>
           cell == Cell(doc, r, p)
           cells == doc.relations[r].cells
           nextCells == next.relations[r].cells
           Eff(c) == [s \in {q \in DOMAIN c : Confirmed(c[q]) # {}} |-> Accepted(c[s])]
           rels(d) == [q \in DOMAIN d.relations |->
                         [d.relations[q] EXCEPT !.cells = Eff(d.relations[q].cells)]]
<1>1. /\ DOMAIN next.relations = DOMAIN doc.relations
      /\ \A q \in DOMAIN doc.relations \ {r} : next.relations[q] = doc.relations[q]
      /\ nextCells = With(cells, p, Added(cell, o))
      /\ \A x \in DOMAIN doc \ {"relations"} : next[x] = doc[x]
      /\ \A x \in DOMAIN doc.relations[r] \ {"cells"} :
           next.relations[r][x] = doc.relations[r][x]
      /\ IsDocument(next)
  BY ObservedShape
<1>2. Confirmed(Added(cell, o)) = Confirmed(cell) /\ Accepted(Added(cell, o)) = Accepted(cell)
  BY CellShape, ProposedIsNotAccepted
<1>3. IF p \in DOMAIN cells THEN cell = cells[p] ELSE Confirmed(cell) = {}
  BY DEF Cell, Confirmed
<1>4. Eff(nextCells) = Eff(cells)
  <2>1. /\ DOMAIN nextCells = DOMAIN cells \cup {p} /\ nextCells[p] = Added(cell, o)
        /\ \A q \in DOMAIN cells \ {p} : nextCells[q] = cells[q]
    BY <1>1 DEF With
  <2> HIDE DEF p, cell, cells, nextCells
  <2>2. {q \in DOMAIN nextCells : Confirmed(nextCells[q]) # {}}
          = {q \in DOMAIN cells : Confirmed(cells[q]) # {}}
    BY <1>2, <1>3, <2>1
  <2>3. \A q \in DOMAIN cells : Accepted(nextCells[q]) = Accepted(cells[q])
    BY <1>2, <1>3, <2>1
  <2> QED
    BY <2>2, <2>3
<1> HIDE DEF Eff
<1>5. DOMAIN next.relations[r] = DOMAIN doc.relations[r]
  BY <1>1 DEF IsDocument
<1>6. [next.relations[r] EXCEPT !.cells = Eff(next.relations[r].cells)]
        = [doc.relations[r] EXCEPT !.cells = Eff(doc.relations[r].cells)]
  BY <1>1, <1>4, <1>5
<1>7. rels(next) = rels(doc)
  BY <1>1, <1>6
<1>8. Effective(next) = [next EXCEPT !.relations = rels(next)]
      /\ Effective(doc) = [doc EXCEPT !.relations = rels(doc)]
  BY DEF Effective, Eff
<1>9. DOMAIN next = DOMAIN doc
  BY <1>1 DEF IsDocument
<1> HIDE DEF rels
<1> QED
  BY <1>1, <1>7, <1>8, <1>9

-----------------------------------------------------------------------------
(* The inductive invariant *)

\* A call holds the mutex; a suggestion's line is to come.
Busy(c) == calls[c].pc \in {"recording", "logging"}
Logging(c) == calls[c].pc = "logging"

\* A state's document holds the suggestions its log names, and those whose line
\* is to come or was lost.
StateOK(m) ==
  /\ IsDocument(stored[m])
  /\ StoredOnce(stored[m], logged[m], lost[m] \cup InHand(m))

\* A suggestion without its line is older than every reply of a call under way,
\* for a kill has ended the calls there were; and each kill left one at most.
LostOK(m) ==
  /\ Older(stored[m], lost[m], asks + 1)
  /\ \A c \in Calls : calls[c].pc # "idle" => Older(stored[m], lost[m], asks)
  /\ \A c \in Calls : \A proposal \in Range(calls[c].proposals) :
       Older(stored[m], lost[m], proposal.reply)
  /\ IsFiniteSet(lost[m]) /\ Cardinality(lost[m]) <= restarts

\* A call has what its next step reads: a state is open, and while it records
\* there is a proposal left.
CallOK(c) ==
  /\ DOMAIN calls[c] = DOMAIN NoCall
  /\ calls[c].pc \in {"asking", "recording", "logging"} => open # None
  /\ calls[c].proposals \in Seq(Range(calls[c].proposals))
  /\ \A proposal \in Range(calls[c].proposals) :
       proposal.reply \in Nat /\ proposal.reply <= asks
  /\ calls[c].pc = "asking" => calls[c].recorded = 0
  /\ Busy(c) => calls[c].recorded \in Nat /\ calls[c].recorded < Len(calls[c].proposals)

\* The suggestion whose line is to come: the last one on its cell.
Place(c) ==
  LastPlace(stored[open], calls[c].relation, <<Current(c).from, Current(c).to>>)

LogOK(c) ==
  /\ Place(c) \in Suggestions(stored[open]) /\ Place(c) \notin lost[open]
  /\ ObservationAt(stored[open], Place(c)).reply = Current(c).reply
  /\ RecordedBy(stored[open], Place(c)) = CurrentId(c)
  /\ CurrentId(c) \notin logged[open]

AssistInv ==
  /\ DOMAIN stored = States /\ DOMAIN logged = States /\ DOMAIN lost = States
  /\ DOMAIN calls = Calls
  /\ open \in States \cup {None}
  /\ asks \in Nat /\ edits \in Nat /\ restarts \in Nat
  /\ \A m \in States : StateOK(m) /\ LostOK(m)
  /\ \A c \in Calls : CallOK(c)
  /\ \A c, d \in Calls : Busy(c) /\ Busy(d) => c = d
  /\ \A c \in Calls : Logging(c) => LogOK(c)

LEMMA InHandShape ==
  ASSUME NEW m
  PROVE  InHand(m) = {Place(c) : c \in {d \in Calls : Logging(d) /\ open = m}}
  BY DEF InHand, Place, LastPlace, Logging

LEMMA NothingInHand ==
  ASSUME NEW m, \A c \in Calls : ~ Logging(c)
  PROVE  InHand(m) = {}
  BY InHandShape

\* While a call records, no other one holds the mutex.
LEMMA BusyIsAlone ==
  ASSUME AssistInv, NEW c \in Calls, Recording(c)
  PROVE  \A d \in Calls : ~ Logging(d)
  BY DEF AssistInv, Busy, Logging, Recording

LEMMA FreeIsIdle ==
  ASSUME LockFree
  PROVE  \A d \in Calls : ~ Logging(d)
  BY DEF LockFree, Logging

\* An older reply is older than a later one, wherever it is kept.
LEMMA StaysOlder ==
  ASSUME NEW doc, NEW but, NEW reply \in Nat, Older(doc, but, reply),
         NEW later \in Nat, reply <= later,
         NEW next, \A x \in Suggestions(doc) : /\ x \in Suggestions(next)
                                               /\ ObservationAt(next, x) = ObservationAt(doc, x)
  PROVE  Older(next, but, later)
<1> SUFFICES ASSUME NEW x \in but
             PROVE  /\ x \in Suggestions(next)
                    /\ ObservationAt(next, x).reply \in Nat
                    /\ ObservationAt(next, x).reply < later
  BY DEF Older
<1>1. /\ x \in Suggestions(doc) /\ ObservationAt(doc, x).reply \in Nat
      /\ ObservationAt(doc, x).reply < reply
  BY DEF Older
<1> QED
  BY <1>1

LEMMA NoCallShape ==
  /\ NoCall.pc = "idle" /\ NoCall.proposals = <<>> /\ NoCall.recorded = 0
  /\ <<>> \in Seq(Range(<<>>)) /\ Range(<<>>) = {}
<1>1. Range(<<>>) = {}
  BY DEF Range
<1> QED
  BY <1>1, EmptySeq DEF NoCall

LEMMA AssistInvInit == Init => AssistInv
<1> SUFFICES ASSUME Init PROVE AssistInv
  OBVIOUS
<1>0. \A c \in Calls : calls[c] = NoCall /\ ~ Logging(c) /\ ~ Busy(c)
  BY NoCallShape DEF Init, Logging, Busy
<1>1. \A m \in States : StateOK(m) /\ LostOK(m)
  <2> TAKE m \in States
  <2>1. IsDocument(stored[m]) /\ logged[m] = {} /\ lost[m] = {} /\ restarts = 0
    BY AssistAssumption DEF Init
  <2>2. Suggestions(stored[m]) = {}
    BY AssistAssumption DEF Init, Suggestions, JudgedOn, Range
  <2>3. IsFiniteSet(lost[m]) /\ Cardinality(lost[m]) = 0
    BY <2>1, FS_EmptySet
  <2> QED
    BY <2>1, <2>2, <2>3 DEF StateOK, StoredOnce, LostOK, Older
<1>2. \A c \in Calls : CallOK(c)
  BY <1>0, NoCallShape DEF CallOK
<1> QED
  BY <1>0, <1>1, <1>2, AssistAssumption DEF Init, AssistInv

\* How a call may go on in a step that writes nothing.
Moves(c, next) ==
  /\ calls[c].pc # "logging" /\ next.pc # "logging"
  /\ next.pc = "recording" => calls[c].pc = "recording" \/ LockFree
  /\ asks <= asks' /\ (calls[c].pc = "idle" => asks < asks')
  /\ \A proposal \in Range(next.proposals) :
       \/ proposal \in Range(calls[c].proposals)
       \/ calls[c].pc # "idle" /\ proposal.reply = asks

\* The call that is planned, answered or given up.
LEMMA EndedOK ==
  ASSUME NEW c \in Calls, NEW ok, calls' = [calls EXCEPT ![c] = Ended(ok)],
         DOMAIN calls = Calls
  PROVE  /\ CallOK(c)'
         /\ Ended(ok).pc = "answered" /\ Range(Ended(ok).proposals) = {}
<1>1. calls'[c] = [NoCall EXCEPT !.pc = "answered", !.ok = ok]
  BY DEF Ended, Answered
<1>2. /\ DOMAIN calls'[c] = DOMAIN NoCall /\ calls'[c].pc = "answered"
      /\ calls'[c].proposals = <<>> /\ calls'[c] = Ended(ok)
  BY <1>1, NoCallShape DEF NoCall, Ended, Answered
<1> QED
  BY <1>2, NoCallShape DEF CallOK, Busy

\* What a step of one call leaves of the others.
LEMMA OthersKeep ==
  ASSUME AssistInv, NEW c \in Calls, UNCHANGED open, asks' \in Nat, asks <= asks',
         NEW d \in Calls, calls'[d] = calls[d]
  PROVE  CallOK(d)'
<1>1. \A proposal \in Range(calls[d].proposals) :
        proposal.reply \in Nat /\ proposal.reply <= asks'
  BY DEF AssistInv, CallOK
<1> QED
  BY <1>1 DEF AssistInv, CallOK, Busy

\* A step of one call that writes nothing.
LEMMA CallOnly ==
  ASSUME AssistInv, NEW c \in Calls, NEW next, calls' = [calls EXCEPT ![c] = next],
         Moves(c, next), UNCHANGED <<stored, logged, open, lost, restarts>>,
         asks' \in Nat, edits' \in Nat, CallOK(c)'
  PROVE  AssistInv'
<1>1. /\ DOMAIN calls' = Calls /\ calls'[c] = next
      /\ \A d \in Calls \ {c} : calls'[d] = calls[d]
  BY DEF AssistInv
<1>2. \A d \in Calls : CallOK(d)'
  BY <1>1, OthersKeep DEF Moves
<1>3. \A d \in Calls : Logging(d)' <=> Logging(d)
  BY <1>1 DEF Logging, Moves
<1>4. \A d \in Calls : Logging(d) => /\ calls'[d] = calls[d] /\ Place(d)' = Place(d)
                                     /\ LogOK(d)'
  <2> SUFFICES ASSUME NEW d \in Calls, Logging(d)
               PROVE  calls'[d] = calls[d] /\ Place(d)' = Place(d) /\ LogOK(d)'
    OBVIOUS
  <2>1. calls'[d] = calls[d] /\ LogOK(d)
    BY <1>1 DEF Logging, Moves, AssistInv
  <2>2. Current(d)' = Current(d)
    BY <2>1 DEF Current
  <2>3. CurrentId(d)' = CurrentId(d) /\ Place(d)' = Place(d)
    BY <2>1, <2>2 DEF CurrentId, Place
  <2> QED
    BY <2>1, <2>2, <2>3 DEF LogOK
<1>5. \A m \in States : InHand(m)' = InHand(m)
  <2> TAKE m \in States
  <2>1. InHand(m)' = {Place(d)' : d \in {e \in Calls : Logging(e)' /\ open' = m}}
    BY DEF InHand, Place, LastPlace, Logging
  <2> QED
    BY <1>3, <1>4, <2>1, InHandShape
<1>6. \A m \in States : StateOK(m)'
  BY <1>5 DEF AssistInv, StateOK
<1>7. \A m \in States : LostOK(m)'
  <2> TAKE m \in States
  <2> DEFINE Since(reply) == Older(stored[m], lost[m], reply)
  <2>1. /\ Since(asks + 1) /\ \A d \in Calls : calls[d].pc # "idle" => Since(asks)
        /\ \A d \in Calls : \A proposal \in Range(calls[d].proposals) : Since(proposal.reply)
        /\ IsFiniteSet(lost[m]) /\ Cardinality(lost[m]) <= restarts /\ asks \in Nat
    BY DEF AssistInv, LostOK
  <2>2. \A i, j \in Nat : i <= j /\ Since(i) => Since(j)
    BY StaysOlder
  <2> HIDE DEF Since
  <2>3. Since(asks' + 1)
    BY <2>1, <2>2 DEF Moves
  <2>4. \A d \in Calls : calls'[d].pc # "idle" => Since(asks')
    <3> SUFFICES ASSUME NEW d \in Calls, calls'[d].pc # "idle" PROVE Since(asks')
      OBVIOUS
    <3>1. CASE calls[d].pc # "idle"
      BY <2>1, <2>2, <3>1 DEF Moves
    <3>2. CASE calls[d].pc = "idle"
      <4>1. asks + 1 <= asks'
        BY <1>1, <2>1, <3>2 DEF Moves
      <4> QED
        BY <2>1, <2>2, <4>1
    <3> QED
      BY <3>1, <3>2
  <2>5. \A d \in Calls : \A proposal \in Range(calls'[d].proposals) : Since(proposal.reply)
    BY <1>1, <2>1 DEF Moves
  <2> QED
    BY <2>1, <2>3, <2>4, <2>5 DEF LostOK, Since
<1>8. \A d, e \in Calls : Busy(d)' /\ Busy(e)' => d = e
  BY <1>1 DEF AssistInv, Busy, Moves, LockFree
<1> QED
  BY <1>1, <1>2, <1>3, <1>4, <1>6, <1>7, <1>8 DEF AssistInv

LEMMA PlanKeeps ==
  ASSUME AssistInv, NEW c \in Calls, NEW kind, NEW record, NEW r, NEW given,
         Plan(c, kind, record, r, given)
  PROVE  AssistInv'
<1>1. /\ asks' \in Nat /\ edits' \in Nat /\ UNCHANGED <<stored, logged, open, lost, restarts>>
      /\ asks \in Nat /\ asks < asks' /\ asks <= asks'
  BY DEF Plan, AssistInv
<1>2. calls[c].pc # "logging"
  BY DEF Plan, Ready
<1>3. CASE ~ MayPlan(r)
  <2>1. calls' = [calls EXCEPT ![c] = Ended(FALSE)]
    BY <1>3 DEF Plan
  <2>2. CallOK(c)' /\ Ended(FALSE).pc = "answered" /\ Range(Ended(FALSE).proposals) = {}
    BY <2>1, EndedOK DEF AssistInv
  <2>3. Moves(c, Ended(FALSE))
    BY <1>1, <1>2, <2>2 DEF Moves
  <2> QED
    BY <1>1, <2>1, <2>2, <2>3, CallOnly
<1>4. CASE MayPlan(r)
  <2> DEFINE tokens == Tokens(stored[open], stored[open].relations[r].scale)
             next == [NoCall EXCEPT !.pc = "asking", !.kind = kind, !.record = record,
                                    !.state = open, !.relation = r, !.tokens = tokens,
                                    !.left = PlanCells(r, given)]
  <2>1. calls' = [calls EXCEPT ![c] = next]
    BY <1>4 DEF Plan
  <2>2. /\ DOMAIN next = DOMAIN NoCall /\ next.pc = "asking"
        /\ next.proposals = <<>> /\ next.recorded = 0
    BY DEF NoCall
  <2> HIDE DEF next
  <2>3. calls'[c] = next
    BY <2>1 DEF AssistInv, next
  <2>4. open' # None
    BY <1>1, <1>4 DEF MayPlan
  <2>5. CallOK(c)'
    BY <2>2, <2>3, <2>4, NoCallShape DEF CallOK, Busy
  <2>6. Moves(c, next)
    BY <1>1, <1>2, <2>2, NoCallShape DEF Moves
  <2> QED
    BY <1>1, <2>1, <2>5, <2>6, CallOnly DEF next
<1> QED
  BY <1>3, <1>4

LEMMA ComposeKeeps ==
  ASSUME AssistInv, NEW c \in Calls, NEW kind, Compose(c, kind)
  PROVE  AssistInv'
<1>1. /\ asks' \in Nat /\ edits' \in Nat /\ UNCHANGED <<stored, logged, open, lost, restarts>>
      /\ asks \in Nat /\ asks < asks' /\ asks <= asks'
  BY DEF Compose, AssistInv
<1>2. calls[c].pc # "logging"
  BY DEF Compose, Ready
<1>3. CASE open = None
  <2>1. calls' = [calls EXCEPT ![c] = Ended(FALSE)]
    BY <1>3 DEF Compose
  <2>2. CallOK(c)' /\ Ended(FALSE).pc = "answered" /\ Range(Ended(FALSE).proposals) = {}
    BY <2>1, EndedOK DEF AssistInv
  <2>3. Moves(c, Ended(FALSE))
    BY <1>1, <1>2, <2>2 DEF Moves
  <2> QED
    BY <1>1, <2>1, <2>2, <2>3, CallOnly
<1>4. CASE open # None
  <2>1. PICK pc \in {"reported", "texting"} :
          calls' = [calls EXCEPT ![c] = [NoCall EXCEPT !.pc = pc, !.kind = kind]]
    BY <1>4 DEF Compose
  <2> DEFINE next == [NoCall EXCEPT !.pc = pc, !.kind = kind]
  <2>2. /\ DOMAIN next = DOMAIN NoCall /\ next.pc \in {"reported", "texting"}
        /\ next.proposals = <<>>
    BY DEF NoCall
  <2> HIDE DEF next
  <2>3. calls'[c] = next
    BY <2>1 DEF AssistInv, next
  <2>4. CallOK(c)'
    BY <2>2, <2>3, NoCallShape DEF CallOK, Busy
  <2>5. Moves(c, next)
    BY <1>1, <1>2, <2>2, NoCallShape DEF Moves
  <2> QED
    BY <1>1, <2>1, <2>4, <2>5, CallOnly DEF next
<1> QED
  BY <1>3, <1>4

\* A call that goes on with the cells it has left, or with one proposal more.
LEMMA AskingKeeps ==
  ASSUME AssistInv, NEW c \in Calls, NEW next, Step(c, next), calls[c].pc = "asking",
         DOMAIN next = DOMAIN calls[c], next.pc = "asking", next.recorded = 0,
         next.proposals \in Seq(Range(next.proposals)),
         \A proposal \in Range(next.proposals) :
           proposal \in Range(calls[c].proposals) \/ proposal.reply = asks
  PROVE  AssistInv'
<1>1. /\ calls' = [calls EXCEPT ![c] = next]
      /\ UNCHANGED <<stored, logged, open, lost, restarts>>
      /\ asks' \in Nat /\ edits' \in Nat /\ asks' = asks
  BY DEF Step, AssistInv, counters
<1>2. calls'[c] = next
  BY <1>1 DEF AssistInv
<1>3. open' # None
  BY <1>1 DEF AssistInv, CallOK
<1>4. \A proposal \in Range(next.proposals) : proposal.reply \in Nat /\ proposal.reply <= asks'
  BY <1>1 DEF AssistInv, CallOK
<1>5. CallOK(c)'
  BY <1>2, <1>3, <1>4 DEF CallOK, AssistInv, Busy
<1>6. Moves(c, next)
  BY <1>1 DEF Moves
<1> QED
  BY <1>1, <1>5, <1>6, CallOnly

LEMMA StopKeeps ==
  ASSUME AssistInv, NEW c \in Calls, NEW left, calls[c].pc = "asking",
         Step(c, [calls[c] EXCEPT !.left = left])
  PROVE  AssistInv'
<1> DEFINE next == [calls[c] EXCEPT !.left = left]
<1>1. /\ DOMAIN next = DOMAIN calls[c] /\ next.pc = "asking" /\ next.recorded = 0
      /\ next.proposals = calls[c].proposals
  BY DEF AssistInv, CallOK, NoCall
<1>2. next.proposals \in Seq(Range(next.proposals))
  BY <1>1 DEF AssistInv, CallOK
<1> HIDE DEF next
<1> QED
  BY <1>1, <1>2, AskingKeeps DEF next

LEMMA ReplyKeeps ==
  ASSUME AssistInv, NEW c \in Calls, NEW token, Reply(c, token)
  PROVE  AssistInv'
<1> DEFINE proposal == [from |-> Head(calls[c].left)[1], to |-> Head(calls[c].left)[2],
                        token |-> token, reply |-> asks]
           next == [calls[c] EXCEPT !.left = Tail(@), !.proposals = Append(@, proposal)]
<1>1. Step(c, next) /\ calls[c].pc = "asking"
  BY DEF Reply, Asking
<1>2. /\ DOMAIN next = DOMAIN calls[c] /\ next.pc = "asking" /\ next.recorded = 0
      /\ next.proposals = Append(calls[c].proposals, proposal)
  BY <1>1 DEF AssistInv, CallOK, NoCall
<1>3. proposal.reply = asks
  OBVIOUS
<1> HIDE DEF proposal, next
<1>4. calls[c].proposals \in Seq(Range(calls[c].proposals))
  BY DEF AssistInv, CallOK
<1>5. next.proposals \in Seq(Range(next.proposals))
  BY <1>2, <1>4, AppendShape
<1>6. \A x \in Range(next.proposals) : x \in Range(calls[c].proposals) \/ x = proposal
  <2> DEFINE s == calls[c].proposals
             t == Append(s, proposal)
  <2>1. DOMAIN t = DOMAIN s \cup {Len(s) + 1} /\ t[Len(s) + 1] = proposal
        /\ \A i \in DOMAIN s : t[i] = s[i]
    BY <1>4, AppendShape
  <2> HIDE DEF s, t
  <2>2. \A x \in Range(t) : x \in Range(s) \/ x = proposal
    BY <2>1 DEF Range
  <2> QED
    BY <1>2, <2>2 DEF s, t
<1> QED
  BY <1>1, <1>2, <1>3, <1>5, <1>6, AskingKeeps

LEMMA LockKeeps ==
  ASSUME AssistInv, NEW c \in Calls, Lock(c)
  PROVE  AssistInv'
<1> DEFINE next == [calls[c] EXCEPT !.pc = "recording"]
<1>1. /\ calls' = [calls EXCEPT ![c] = next]
      /\ UNCHANGED <<stored, logged, open, lost, restarts>>
      /\ asks' \in Nat /\ edits' \in Nat /\ asks' = asks /\ LockFree
      /\ calls[c].pc = "asking" /\ calls[c].proposals # <<>>
  BY DEF Lock, Step, AssistInv, counters
<1>2. calls'[c] = next
  BY <1>1 DEF AssistInv
<1>3. /\ DOMAIN next = DOMAIN NoCall /\ next.pc = "recording"
      /\ next.recorded = 0 /\ next.proposals = calls[c].proposals
  BY <1>1 DEF AssistInv, CallOK, NoCall
<1> HIDE DEF next
<1>4. 0 < Len(calls[c].proposals)
  BY <1>1, EmptySeq, LenProperties DEF AssistInv, CallOK
<1>5. CallOK(c)'
  BY <1>1, <1>2, <1>3, <1>4 DEF AssistInv, CallOK, Busy
<1>6. Moves(c, next)
  BY <1>1, <1>3 DEF Moves, AssistInv
<1> QED
  BY <1>1, <1>5, <1>6, CallOnly

LEMMA AnsweredShape ==
  ASSUME NEW call, DOMAIN call = DOMAIN NoCall, NEW ok
  PROVE  /\ DOMAIN Answered(call, ok) = DOMAIN NoCall /\ Answered(call, ok).pc = "answered"
         /\ Answered(call, ok).proposals = call.proposals
  BY DEF Answered, NoCall

\* The call after the answer to one of its commands: it gives up the mutex or goes
\* on to the next command.
LEMMA FollowingOK ==
  ASSUME AssistInv, NEW c \in Calls, Busy(c), NEW ok,
         calls' = [calls EXCEPT ![c] = Following(@, ok)], UNCHANGED <<open, asks>>
  PROVE  /\ CallOK(c)'
         /\ Following(calls[c], ok).pc \in {"answered", "recording"}
         /\ Following(calls[c], ok).proposals = calls[c].proposals
<1> DEFINE call == calls[c]
           more == [call EXCEPT !.pc = "recording", !.recorded = @ + 1]
           last == [call EXCEPT !.recorded = @ + 1]
<1>1. /\ calls'[c] = Following(call, ok) /\ DOMAIN call = DOMAIN NoCall /\ open # None
      /\ call.proposals \in Seq(Range(call.proposals))
      /\ \A proposal \in Range(call.proposals) : proposal.reply \in Nat /\ proposal.reply <= asks
      /\ call.recorded \in Nat /\ call.recorded < Len(call.proposals)
      /\ Len(call.proposals) \in Nat
  BY LenProperties DEF AssistInv, CallOK, Busy
<1>2. /\ DOMAIN more = DOMAIN NoCall /\ more.pc = "recording"
      /\ more.recorded = call.recorded + 1 /\ more.proposals = call.proposals
  BY <1>1 DEF NoCall
<1>3. DOMAIN last = DOMAIN NoCall /\ last.proposals = call.proposals
  BY <1>1 DEF NoCall
<1> HIDE DEF call, more, last
<1>4. ASSUME NEW ended, DOMAIN ended = DOMAIN NoCall, ended.proposals = call.proposals,
             NEW answer, Following(call, ok) = Answered(ended, answer)
      PROVE  /\ CallOK(c)' /\ Following(call, ok).pc = "answered"
             /\ Following(call, ok).proposals = call.proposals
  <2>1. /\ DOMAIN Following(call, ok) = DOMAIN NoCall /\ Following(call, ok).pc = "answered"
        /\ Following(call, ok).proposals = call.proposals
    BY <1>4, AnsweredShape
  <2>2. /\ calls'[c].pc = "answered" /\ DOMAIN calls'[c] = DOMAIN NoCall
        /\ calls'[c].proposals = call.proposals
    BY <1>1, <2>1
  <2>3. /\ calls'[c].proposals \in Seq(Range(calls'[c].proposals))
        /\ \A proposal \in Range(calls'[c].proposals) :
             proposal.reply \in Nat /\ proposal.reply <= asks'
    BY <1>1, <2>2
  <2>4. CallOK(c)'
    BY <2>2, <2>3 DEF CallOK, Busy
  <2> QED
    BY <2>1, <2>4
<1>5. CASE ~ ok
  <2>1. Following(call, ok) = Answered(call, FALSE)
    BY <1>5 DEF Following
  <2> QED
    BY <1>1, <1>4, <2>1 DEF call
<1>6. CASE ok /\ call.recorded + 1 = Len(call.proposals)
  <2>1. Following(call, ok) = Answered(last, TRUE)
    BY <1>6 DEF Following, last
  <2> QED
    BY <1>3, <1>4, <2>1 DEF call
<1>7. CASE ok /\ call.recorded + 1 # Len(call.proposals)
  <2>1. Following(call, ok) = more
    BY <1>7 DEF Following, more
  <2>2. more.recorded \in Nat /\ more.recorded < Len(call.proposals)
    BY <1>1, <1>2, <1>7
  <2>3. calls'[c] = more
    BY <1>1, <2>1
  <2>4. \A proposal \in Range(more.proposals) : proposal.reply \in Nat /\ proposal.reply <= asks'
    BY <1>1, <1>2
  <2>5. CallOK(c)'
    BY <1>1, <1>2, <2>2, <2>3, <2>4 DEF CallOK, Busy
  <2> QED
    BY <1>2, <2>1, <2>5 DEF call
<1> QED
  BY <1>5, <1>6, <1>7

LEMMA CurrentShape ==
  ASSUME AssistInv, NEW c \in Calls, Busy(c)
  PROVE  /\ open \in States /\ Current(c) \in Range(calls[c].proposals)
         /\ Current(c).reply \in Nat /\ Current(c).reply <= asks
<1>1. /\ calls[c].recorded \in Nat /\ calls[c].recorded < Len(calls[c].proposals)
      /\ open # None /\ calls[c].proposals \in Seq(Range(calls[c].proposals))
  BY DEF AssistInv, CallOK, Busy
<1>2. Current(c) \in Range(calls[c].proposals)
  <2> DEFINE s == calls[c].proposals
  <2>1. DOMAIN s = 1 .. Len(s) /\ Len(s) \in Nat
    BY <1>1, LenProperties
  <2>2. calls[c].recorded + 1 \in DOMAIN s
    BY <1>1, <2>1
  <2> HIDE DEF s
  <2>3. s[calls[c].recorded + 1] \in Range(s)
    BY <2>2 DEF Range
  <2> QED
    BY <2>3 DEF Current, s
<1> QED
  BY <1>1, <1>2 DEF AssistInv, CallOK

\* A command that is answered from the cache, from the log, or with an error.
LEMMA AnsweredKeeps ==
  ASSUME AssistInv, NEW c \in Calls, Recording(c), NEW ok, Remember(c, CurrentId(c), ok),
         UNCHANGED <<stored, logged>>
  PROVE  AssistInv'
<1> DEFINE next == Following(calls[c], ok)
<1>1. /\ calls' = [calls EXCEPT ![c] = next]
      /\ UNCHANGED <<stored, logged, open, lost, restarts>>
      /\ asks' \in Nat /\ edits' \in Nat /\ asks' = asks
  BY DEF Remember, AssistInv, counters
<1>2. CallOK(c)' /\ next.pc \in {"answered", "recording"} /\ next.proposals = calls[c].proposals
  BY <1>1, FollowingOK DEF Recording, Busy
<1> HIDE DEF next
<1>3. Moves(c, next)
  BY <1>1, <1>2 DEF Moves, Recording, AssistInv
<1> QED
  BY <1>1, <1>2, <1>3, CallOnly

\* A step in which no call begins and none is answered by the judge.
GoOn ==
  \A d \in Calls : /\ calls'[d].pc # "idle" => calls[d].pc # "idle"
                   /\ Range(calls'[d].proposals) \subseteq Range(calls[d].proposals)

\* The suggestions without a line stay as old as they were.
LEMMA LostKeeps ==
  ASSUME AssistInv, NEW m \in States, GoOn, UNCHANGED <<lost, asks, restarts>>,
         \A x \in Suggestions(stored[m]) :
           /\ x \in Suggestions(stored'[m])
           /\ ObservationAt(stored'[m], x) = ObservationAt(stored[m], x)
  PROVE  LostOK(m)'
<1>1. \A reply : Older(stored[m], lost[m], reply) => Older(stored'[m], lost[m], reply)
  BY DEF Older
<1>2. LostOK(m)
  BY DEF AssistInv
<1> QED
  BY <1>1, <1>2 DEF LostOK, GoOn

LEMMA InHandNext ==
  ASSUME NEW m
  PROVE  InHand(m)' = {Place(c)' : c \in {d \in Calls : Logging(d)' /\ open' = m}}
  BY DEF InHand, Place, LastPlace, Logging

\* The state file of a suggestion is put.
LEMMA RecordKeeps ==
  ASSUME AssistInv, NEW c \in Calls, Record(c)
  PROVE  AssistInv'
<1> DEFINE proposal == Current(c)
           r == calls[c].relation
           p == <<proposal.from, proposal.to>>
           o == Judged(proposal)
           next == Observed(stored[open], r, proposal.from, proposal.to, o)
           new == LastPlace(next, r, p)
<1>1. /\ Recording(c) /\ CurrentId(c) \notin logged[open]
      /\ MayObserve(stored[open], r, proposal.from, proposal.to, o)
      /\ stored' = [stored EXCEPT ![open] = next]
      /\ calls' = [calls EXCEPT ![c].pc = "logging"]
      /\ UNCHANGED <<logged, open, lost, asks, edits, restarts>>
  BY DEF Record, Fresh, Accepts, IsLogged, counters
<1>2. Busy(c) /\ \A d \in Calls : ~ Logging(d)
  BY <1>1, BusyIsAlone DEF Busy, Recording
<1>3. /\ open \in States /\ proposal \in Range(calls[c].proposals)
      /\ proposal.reply \in Nat
  BY <1>2, CurrentShape
<1>4. \A m \in States : InHand(m) = {}
  BY <1>2, NothingInHand
<1>5. IsDocument(stored[open]) /\ StoredOnce(stored[open], logged[open], lost[open])
  <2>1. lost[open] \cup {} = lost[open]
    OBVIOUS
  <2> QED
    BY <1>3, <1>4, <2>1 DEF AssistInv, StateOK
<1>6. Older(stored[open], lost[open], proposal.reply)
  BY <1>3 DEF AssistInv, LostOK
<1>7. r \in DOMAIN stored[open].relations
  BY <1>1 DEF MayObserve, ActiveRelations
<1>8. o.token = proposal.token /\ o.reply = proposal.reply
  BY DEF Judged
<1>9. CurrentId(c) = Joined(r, proposal.from, proposal.to, o.token)
  BY <1>8 DEF CurrentId, RequestId
<1> HIDE DEF o, next
<1>10. IsDocument(next)
  BY <1>5, <1>7, ObservedShape DEF next
<1>11. /\ JudgeAdds(stored[open], next, new, o)
       /\ RecordedBy(next, new) = CurrentId(c)
       /\ StoredOnce(next, logged[open], lost[open] \cup {new})
  <2> DEFINE from == proposal.from
             to == proposal.to
             doc == stored[open]
             log == logged[open]
             but == lost[open]
  <2>1. /\ next = Observed(doc, r, from, to, o) /\ Joined(r, from, to, o.token) \notin log
        /\ o.reply \in Nat /\ Older(doc, but, o.reply) /\ None \notin Nat
        /\ IsDocument(doc) /\ StoredOnce(doc, log, but) /\ r \in DOMAIN doc.relations
    BY <1>1, <1>3, <1>5, <1>6, <1>7, <1>8, <1>9, AssistAssumption DEF next
  <2>2. new = LastPlace(next, r, <<from, to>>)
    OBVIOUS
  <2> HIDE DEF doc, log, but, from, to, r, new
  <2>3. /\ JudgeAdds(doc, next, LastPlace(next, r, <<from, to>>), o)
        /\ RecordedBy(next, LastPlace(next, r, <<from, to>>)) = Joined(r, from, to, o.token)
        /\ StoredOnce(next, log, but \cup {LastPlace(next, r, <<from, to>>)})
    BY <2>1, ObservedByJudge
  <2> QED
    BY <1>9, <2>2, <2>3 DEF doc, log, but, from, to, r
<1>12. /\ DOMAIN calls' = Calls /\ DOMAIN calls'[c] = DOMAIN NoCall
       /\ calls'[c].pc = "logging" /\ calls'[c].relation = r
       /\ calls'[c].proposals = calls[c].proposals /\ calls'[c].recorded = calls[c].recorded
       /\ \A d \in Calls \ {c} : calls'[d] = calls[d]
  BY <1>1 DEF AssistInv, CallOK, NoCall
<1>13. Current(c)' = proposal
  BY <1>12 DEF Current
<1>14. /\ stored'[open] = next /\ DOMAIN stored' = States
       /\ \A m \in States \ {open} : stored'[m] = stored[m]
  BY <1>1, <1>3 DEF AssistInv
<1>15. CurrentId(c)' = CurrentId(c) /\ Place(c)' = new
  BY <1>1, <1>12, <1>13, <1>14 DEF CurrentId, Place
<1> HIDE DEF proposal, r, p, new
<1>16. \A d \in Calls : Logging(d)' <=> d = c
  BY <1>2, <1>12 DEF Logging
<1>17. \A m \in States : InHand(m)' = IF m = open THEN {new} ELSE {}
  <2> TAKE m \in States
  <2>1. CASE m = open
    <3>1. {d \in Calls : Logging(d)' /\ open' = m} = {c}
      BY <1>1, <1>16, <2>1
    <3>2. {Place(d)' : d \in {c}} = {Place(c)'}
      OBVIOUS
    <3> QED
      BY <1>15, <2>1, <3>1, <3>2, InHandNext
  <2>2. CASE m # open
    <3>1. {d \in Calls : Logging(d)' /\ open' = m} = {}
      BY <1>1, <2>2
    <3> QED
      BY <2>2, <3>1, InHandNext
  <2> QED
    BY <2>1, <2>2
<1>18. \A m \in States : StateOK(m)'
  <2> TAKE m \in States
  <2>1. CASE m = open
    BY <1>1, <1>10, <1>11, <1>14, <1>17, <2>1 DEF StateOK
  <2>2. CASE m # open
    BY <1>1, <1>4, <1>14, <1>17, <2>2 DEF StateOK, AssistInv
  <2> QED
    BY <2>1, <2>2
<1>19. \A m \in States : LostOK(m)'
  <2>1. GoOn
    BY <1>1, <1>12 DEF GoOn, Recording
  <2>2. \A m \in States : \A x \in Suggestions(stored[m]) :
          /\ x \in Suggestions(stored'[m])
          /\ ObservationAt(stored'[m], x) = ObservationAt(stored[m], x)
    BY <1>11, <1>14 DEF JudgeAdds
  <2> QED
    BY <1>1, <2>1, <2>2, LostKeeps
<1>20. \A d \in Calls : CallOK(d)'
  <2>1. asks \in Nat /\ asks <= asks /\ asks' = asks
    BY <1>1 DEF AssistInv
  <2>2. CallOK(c)'
    BY <1>1, <1>2, <1>12 DEF AssistInv, CallOK, Busy
  <2> QED
    BY <1>1, <1>12, <2>1, <2>2, OthersKeep
<1>21. LogOK(c)'
  <2>1. new \in Suggestions(next) /\ new \notin lost[open] /\ ObservationAt(next, new) = o
    BY <1>6, <1>11 DEF JudgeAdds, Older
  <2>2. /\ Place(c)' \in Suggestions(stored'[open']) /\ Place(c)' \notin lost'[open']
        /\ ObservationAt(stored'[open'], Place(c)').reply = Current(c)'.reply
        /\ RecordedBy(stored'[open'], Place(c)') = CurrentId(c)'
        /\ CurrentId(c)' \notin logged'[open']
    BY <1>1, <1>8, <1>11, <1>13, <1>14, <1>15, <2>1
  <2> QED
    BY <2>2 DEF LogOK
<1>22. \A d, e \in Calls : Busy(d)' /\ Busy(e)' => d = e
  BY <1>2, <1>12 DEF AssistInv, Busy
<1> QED
  BY <1>1, <1>12, <1>14, <1>16, <1>18, <1>19, <1>20, <1>21, <1>22 DEF AssistInv

\* Its line is appended to the audit log.
LEMMA LogKeeps ==
  ASSUME AssistInv, NEW c \in Calls, Log(c)
  PROVE  AssistInv'
<1> DEFINE x == Place(c)
           next == Following(calls[c], TRUE)
<1>1. /\ Logging(c) /\ Busy(c)
      /\ logged' = [logged EXCEPT ![open] = logged[open] \cup {CurrentId(c)}]
      /\ calls' = [calls EXCEPT ![c] = next]
      /\ UNCHANGED <<stored, open, lost, asks, edits, restarts>>
  BY DEF Log, Remember, Logging, Busy, counters, AssistInv
<1>2. open \in States
  BY <1>1, CurrentShape
<1>3. /\ x \in Suggestions(stored[open]) /\ x \notin lost[open]
      /\ RecordedBy(stored[open], x) = CurrentId(c) /\ CurrentId(c) \notin logged[open]
  BY <1>1 DEF AssistInv, LogOK
<1>4. \A d \in Calls : Logging(d) => d = c
  BY <1>1 DEF AssistInv, Logging, Busy
<1>5. CallOK(c)' /\ next.pc \in {"answered", "recording"} /\ next.proposals = calls[c].proposals
  BY <1>1, FollowingOK
<1> HIDE DEF x, next
<1>6. \A m \in States : InHand(m) = IF m = open THEN {x} ELSE {}
  <2> TAKE m \in States
  <2>1. CASE m = open
    <3>1. {d \in Calls : Logging(d) /\ open = m} = {c}
      BY <1>1, <1>4, <2>1
    <3>2. {Place(d) : d \in {c}} = {Place(c)}
      OBVIOUS
    <3> QED
      BY <2>1, <3>1, <3>2, InHandShape DEF x
  <2>2. CASE m # open
    <3>1. {d \in Calls : Logging(d) /\ open = m} = {}
      BY <2>2
    <3> QED
      BY <2>2, <3>1, InHandShape
  <2> QED
    BY <2>1, <2>2
<1>7. DOMAIN calls' = Calls /\ calls'[c] = next /\ \A d \in Calls \ {c} : calls'[d] = calls[d]
  BY <1>1 DEF AssistInv
<1>8. \A d \in Calls : ~ Logging(d)'
  BY <1>4, <1>5, <1>7 DEF Logging
<1>9. \A m \in States : InHand(m)' = {}
  BY <1>8, InHandNext
<1>10. /\ DOMAIN logged' = States /\ logged'[open] = logged[open] \cup {CurrentId(c)}
       /\ \A m \in States \ {open} : logged'[m] = logged[m]
  BY <1>1, <1>2 DEF AssistInv
<1>11. StoredOnce(stored[open], logged'[open], lost[open])
  <2>1. StoredOnce(stored[open], logged[open], lost[open] \cup {x})
    BY <1>2, <1>6 DEF AssistInv, StateOK
  <2>2. StoredOnce(stored[open], logged[open] \cup {RecordedBy(stored[open], x)}, lost[open])
    BY <1>3, <2>1, LineOfSuggestion
  <2> QED
    BY <1>3, <1>10, <2>2
<1>12. \A m \in States : StateOK(m)'
  <2> TAKE m \in States
  <2>1. lost[m] \cup {} = lost[m]
    OBVIOUS
  <2>2. StoredOnce(stored[m], logged'[m], lost[m])
    BY <1>6, <1>10, <1>11, <2>1 DEF AssistInv, StateOK
  <2> QED
    BY <1>1, <1>9, <2>1, <2>2 DEF AssistInv, StateOK
<1>13. \A m \in States : LostOK(m)'
  <2>1. GoOn
    BY <1>1, <1>5, <1>7 DEF GoOn, Logging
  <2> QED
    BY <1>1, <2>1, LostKeeps
<1>14. \A d \in Calls : CallOK(d)'
  <2>1. asks \in Nat /\ asks <= asks
    BY DEF AssistInv
  <2> QED
    BY <1>1, <1>5, <1>7, <2>1, OthersKeep
<1>15. \A d, e \in Calls : Busy(d)' /\ Busy(e)' => d = e
  BY <1>1, <1>7 DEF AssistInv, Busy
<1> QED
  BY <1>1, <1>7, <1>8, <1>10, <1>12, <1>13, <1>14, <1>15 DEF AssistInv

\* A call that ends leaves nothing behind.
LEMMA EndKeeps ==
  ASSUME AssistInv, NEW c \in Calls, NEW ok, Step(c, Ended(ok)),
         calls[c].pc \notin {"idle", "logging"}
  PROVE  AssistInv'
<1>1. /\ calls' = [calls EXCEPT ![c] = Ended(ok)] /\ DOMAIN calls = Calls
      /\ UNCHANGED <<stored, logged, open, lost, restarts>>
      /\ asks' \in Nat /\ edits' \in Nat /\ asks' = asks
  BY DEF Step, AssistInv, counters
<1>2. CallOK(c)' /\ Ended(ok).pc = "answered" /\ Range(Ended(ok).proposals) = {}
  BY <1>1, EndedOK
<1>3. Moves(c, Ended(ok))
  BY <1>1, <1>2 DEF Moves
<1> QED
  BY <1>1, <1>2, <1>3, CallOnly

LEMMA TakeInputsKeeps ==
  ASSUME AssistInv, NEW c \in Calls, TakeInputs(c)
  PROVE  AssistInv'
<1> DEFINE next == [calls[c] EXCEPT !.pc = "texting"]
<1>1. /\ calls' = [calls EXCEPT ![c] = next] /\ calls[c].pc = "reported"
      /\ UNCHANGED <<stored, logged, open, lost, restarts>>
      /\ asks' \in Nat /\ edits' \in Nat /\ asks' = asks
  BY DEF TakeInputs, Step, AssistInv, counters
<1>2. /\ DOMAIN next = DOMAIN NoCall /\ next.pc = "texting"
      /\ next.proposals = calls[c].proposals
  BY DEF AssistInv, CallOK, NoCall
<1> HIDE DEF next
<1>3. calls'[c] = next
  BY <1>1 DEF AssistInv
<1>4. CallOK(c)'
  BY <1>1, <1>2, <1>3 DEF AssistInv, CallOK, Busy
<1>5. Moves(c, next)
  BY <1>1, <1>2 DEF Moves
<1> QED
  BY <1>1, <1>4, <1>5, CallOnly

LEMMA ProceedKeeps ==
  ASSUME AssistInv, NEW c \in Calls, Proceed(c)
  PROVE  AssistInv'
<1>1. CASE NoQuestion(c)
  <2>1. calls[c].pc = "asking" /\ Step(c, [calls[c] EXCEPT !.left = <<>>])
    BY <1>1 DEF NoQuestion, Asking, Stop
  <2> QED
    BY <2>1, StopKeeps
<1>2. CASE \E token \in JudgeTokens : Reply(c, token)
  BY <1>2, ReplyKeeps
<1>3. CASE OddReply(c)
  <2>1. calls[c].pc = "asking"
    BY <1>3 DEF OddReply, Asking
  <2>2. \/ Step(c, [calls[c] EXCEPT !.left = Tail(calls[c].left)])
        \/ Step(c, [calls[c] EXCEPT !.left = <<>>])
    BY <1>3 DEF OddReply, Stop
  <2> QED
    BY <2>1, <2>2, StopKeeps
<1>4. CASE NoReply(c)
  <2>1. calls[c].pc = "asking" /\ Step(c, [calls[c] EXCEPT !.left = <<>>])
    BY <1>4 DEF NoReply, Asking, Stop
  <2> QED
    BY <2>1, StopKeeps
<1>5. CASE Lock(c)
  BY <1>5, LockKeeps
<1>6. CASE AnswerCached(c)
  <2>1. /\ Recording(c) /\ UNCHANGED <<stored, logged>>
        /\ Remember(c, CurrentId(c), cache[CurrentId(c)])
    BY <1>6 DEF AnswerCached
  <2> QED
    BY <2>1, AnsweredKeeps
<1>7. CASE Replay(c)
  <2>1. Recording(c) /\ Remember(c, CurrentId(c), TRUE) /\ UNCHANGED <<stored, logged>>
    BY <1>7 DEF Replay
  <2> QED
    BY <2>1, AnsweredKeeps
<1>8. CASE Refuse(c)
  <2>1. Recording(c) /\ Remember(c, CurrentId(c), FALSE) /\ UNCHANGED <<stored, logged>>
    BY <1>8 DEF Refuse, Fresh
  <2> QED
    BY <2>1, AnsweredKeeps
<1>9. CASE Record(c)
  BY <1>9, RecordKeeps
<1>10. CASE Log(c)
  BY <1>10, LogKeeps
<1>11. CASE Answer(c)
  <2>1. Step(c, Ended(TRUE)) /\ calls[c].pc \notin {"idle", "logging"}
    BY <1>11 DEF Answer
  <2> QED
    BY <2>1, EndKeeps
<1>12. CASE TakeInputs(c)
  BY <1>12, TakeInputsKeeps
<1>13. CASE \E answers \in BOOLEAN : TextEnds(c, answers)
  <2>1. PICK ok : Step(c, Ended(ok)) /\ calls[c].pc \notin {"idle", "logging"}
    BY <1>13 DEF TextEnds
  <2> QED
    BY <2>1, EndKeeps
<1> QED
  BY <1>1, <1>2, <1>3, <1>4, <1>5, <1>6, <1>7, <1>8, <1>9, <1>10, <1>11, <1>12,
     <1>13 DEF Proceed

\* A user's write of a document that holds the suggestions it held.
LEMMA StoreKeeps ==
  ASSUME AssistInv, open \in States, LockFree, NEW next, Store(next), IsDocument(next),
         SameOnes(stored[open], next)
  PROVE  AssistInv'
<1>1. /\ stored' = [stored EXCEPT ![open] = next]
      /\ UNCHANGED <<logged, open, calls, lost, asks, restarts>> /\ edits' \in Nat
  BY DEF Store, AssistInv
<1>2. /\ stored'[open] = next /\ DOMAIN stored' = States
      /\ \A m \in States \ {open} : stored'[m] = stored[m]
  BY <1>1 DEF AssistInv
<1>3. \A d \in Calls : ~ Logging(d) /\ ~ Logging(d)' /\ (Busy(d)' <=> Busy(d))
  BY <1>1, FreeIsIdle DEF Logging, Busy
<1>4. \A m \in States : InHand(m) = {} /\ InHand(m)' = {}
  BY <1>3, NothingInHand, InHandNext
<1>5. \A m \in States : SameOnes(stored[m], stored'[m]) /\ IsDocument(stored'[m])
  BY <1>2 DEF SameOnes, AssistInv, StateOK
<1>6. \A m \in States : StateOK(m)'
  <2> TAKE m \in States
  <2>1. lost[m] \cup {} = lost[m]
    OBVIOUS
  <2>2. StoredOnce(stored[m], logged[m], lost[m])
    BY <1>4, <2>1 DEF AssistInv, StateOK
  <2>3. StoredOnce(stored'[m], logged[m], lost[m])
    BY <1>5, <2>2, SameSuggestions
  <2> QED
    BY <1>1, <1>4, <1>5, <2>1, <2>3 DEF StateOK
<1>7. \A m \in States : LostOK(m)'
  <2>1. GoOn
    BY <1>1 DEF GoOn
  <2> QED
    BY <1>1, <1>5, <2>1, LostKeeps DEF SameOnes
<1>8. \A c \in Calls : CallOK(c)'
  BY <1>1 DEF AssistInv, CallOK, Busy
<1> QED
  BY <1>1, <1>2, <1>3, <1>6, <1>7, <1>8 DEF AssistInv

LEMMA ConfirmKeeps ==
  ASSUME AssistInv, NEW edit \in Edits, Confirm(edit)
  PROVE  AssistInv'
<1> DEFINE next == Observed(stored[open], edit[1], edit[2][1], edit[2][2], edit[3])
<1>1. open \in States /\ LockFree /\ Store(next)
  BY DEF Confirm, Writable, AssistInv
<1>2. edit[1] \in DOMAIN stored[open].relations
  BY DEF Confirm, MayObserve, ActiveRelations
<1>3. IsDocument(stored[open])
  BY <1>1 DEF AssistInv, StateOK
<1>4. edit[3].reply = None
  BY AssistAssumption
<1>5. IsDocument(next)
  BY <1>2, <1>3, ObservedShape
<1>6. SameOnes(stored[open], next)
  BY <1>2, <1>3, <1>4, ObservedByUser
<1> HIDE DEF next
<1> QED
  BY <1>1, <1>5, <1>6, StoreKeeps

LEMMA RetireKeeps ==
  ASSUME AssistInv, NEW target, Retire(target)
  PROVE  AssistInv'
<1> DEFINE next == Deprecated(stored[open], target, None)
<1>1. open \in States /\ LockFree /\ Store(next)
  BY DEF Retire, Writable, AssistInv
<1>2. IsDocument(stored[open])
  BY <1>1 DEF AssistInv, StateOK
<1>3. IsDocument(next) /\ SameOnes(stored[open], next)
  BY <1>2, DeprecatedShape
<1> HIDE DEF next
<1> QED
  BY <1>1, <1>3, StoreKeeps

LEMMA OpenKeeps ==
  ASSUME AssistInv, NEW n \in States, OpenState(n)
  PROVE  AssistInv'
<1>1. /\ LockFree /\ open' = n
      /\ UNCHANGED <<stored, logged, calls, lost, asks, edits, restarts>>
  BY DEF OpenState
<1>2. open' # None
  BY <1>1, AssistAssumption
<1>3. \A d \in Calls : ~ Logging(d) /\ ~ Logging(d)' /\ (Busy(d)' <=> Busy(d))
  BY <1>1, FreeIsIdle DEF Logging, Busy
<1>4. \A m \in States : InHand(m) = {} /\ InHand(m)' = {}
  BY <1>3, NothingInHand, InHandNext
<1>5. \A m \in States : StateOK(m)'
  BY <1>1, <1>4 DEF AssistInv, StateOK
<1>6. \A m \in States : LostOK(m)'
  BY <1>1 DEF AssistInv, LostOK
<1>7. \A c \in Calls : CallOK(c)'
  BY <1>1, <1>2 DEF AssistInv, CallOK, Busy
<1> QED
  BY <1>1, <1>3, <1>5, <1>6, <1>7 DEF AssistInv

\* A kill leaves the suggestion that is stored and not logged without its line.
LEMMA RestartKeeps ==
  ASSUME AssistInv, Restart
  PROVE  AssistInv'
<1>1. /\ open' = None /\ UNCHANGED <<stored, logged, asks, edits>>
      /\ calls' = [c \in Calls |-> NoCall]
      /\ lost' = [m \in States |-> lost[m] \cup InHand(m)]
      /\ restarts' = restarts + 1
  BY DEF Restart
<1>2. \A c \in Calls : /\ calls'[c] = NoCall /\ calls'[c].pc = "idle"
                       /\ ~ Logging(c)' /\ ~ Busy(c)'
  BY <1>1, NoCallShape DEF Logging, Busy
<1>3. \A m \in States : InHand(m)' = {} /\ lost'[m] = lost[m] \cup InHand(m)
  BY <1>1, <1>2, InHandNext
<1>4. \A m \in States : StateOK(m)'
  <2> TAKE m \in States
  <2>1. lost'[m] \cup {} = lost[m] \cup InHand(m)
    BY <1>3
  <2> QED
    BY <1>1, <1>3, <2>1 DEF AssistInv, StateOK
<1>5. \A m \in States : LostOK(m)'
  <2> TAKE m \in States
  <2>1. LostOK(m) /\ asks \in Nat /\ restarts \in Nat
    BY DEF AssistInv
  <2>2. ASSUME NEW x \in InHand(m)
        PROVE  /\ x \in Suggestions(stored[m]) /\ ObservationAt(stored[m], x).reply \in Nat
               /\ ObservationAt(stored[m], x).reply < asks + 1
    <3>1. PICK c \in Calls : Logging(c) /\ open = m /\ x = Place(c)
      BY InHandShape
    <3>2. x \in Suggestions(stored[m]) /\ ObservationAt(stored[m], x).reply = Current(c).reply
      BY <3>1 DEF AssistInv, LogOK
    <3>3. Current(c).reply \in Nat /\ Current(c).reply <= asks
      BY <3>1, CurrentShape DEF Logging, Busy
    <3> QED
      BY <2>1, <3>2, <3>3
  <2>3. Older(stored[m], lost'[m], asks + 1)
    BY <1>3, <2>1, <2>2 DEF LostOK, Older
  <2>4. IsFiniteSet(lost'[m]) /\ Cardinality(lost'[m]) <= restarts'
    <3>1. IsFiniteSet(lost[m]) /\ Cardinality(lost[m]) <= restarts /\ Cardinality(lost[m]) \in Nat
      BY <2>1, FS_CardinalityType DEF LostOK
    <3>2. \A x, y \in InHand(m) : x = y
      <4> SUFFICES ASSUME NEW x \in InHand(m), NEW y \in InHand(m) PROVE x = y
        OBVIOUS
      <4>1. PICK c \in Calls : Logging(c) /\ x = Place(c)
        BY InHandShape
      <4>2. PICK d \in Calls : Logging(d) /\ y = Place(d)
        BY InHandShape
      <4>3. c = d
        BY <4>1, <4>2 DEF AssistInv, Logging, Busy
      <4> QED
        BY <4>1, <4>2, <4>3
    <3>3. CASE InHand(m) = {}
      <4>1. lost'[m] = lost[m]
        BY <1>3, <3>3
      <4> QED
        BY <1>1, <2>1, <3>1, <4>1
    <3>4. CASE InHand(m) # {}
      <4>1. PICK x : InHand(m) = {x}
        BY <3>2, <3>4
      <4>2. lost'[m] = lost[m] \cup {x}
        BY <1>3, <4>1
      <4>3. /\ IsFiniteSet(lost'[m])
            /\ Cardinality(lost'[m]) \in {Cardinality(lost[m]), Cardinality(lost[m]) + 1}
        BY <3>1, <4>2, FS_AddElement
      <4> QED
        BY <1>1, <2>1, <3>1, <4>3
    <3> QED
      BY <3>3, <3>4
  <2>5. \A c \in Calls : Range(calls'[c].proposals) = {}
    BY <1>2, NoCallShape
  <2> QED
    BY <1>1, <1>2, <2>3, <2>4, <2>5 DEF LostOK
<1>6. \A c \in Calls : CallOK(c)'
  <2> TAKE c \in Calls
  <2> QED
    BY <1>2, NoCallShape DEF CallOK, Busy
<1>7. DOMAIN lost' = States /\ DOMAIN calls' = Calls /\ restarts' \in Nat
  BY <1>1 DEF AssistInv
<1> QED
  BY <1>1, <1>2, <1>4, <1>5, <1>6, <1>7 DEF AssistInv

LEMMA AssistInvNext == AssistInv /\ [Next]_vars => AssistInv'
<1> SUFFICES ASSUME AssistInv, [Next]_vars PROVE AssistInv'
  OBVIOUS
<1>1. CASE \E c \in Calls, q \in Requests : Plan(c, q[1], q[2], q[3], q[4])
  BY <1>1, PlanKeeps
<1>2. CASE \E c \in Calls, kind \in {"text", "report"} : Compose(c, kind)
  BY <1>2, ComposeKeeps
<1>3. CASE \E c \in Calls : Proceed(c)
  BY <1>3, ProceedKeeps
<1>4. CASE \E edit \in Edits : Confirm(edit)
  BY <1>4, ConfirmKeeps
<1>5. CASE \E target \in Retirable : Retire(target)
  BY <1>5, RetireKeeps
<1>6. CASE \E n \in States : OpenState(n)
  BY <1>6, OpenKeeps
<1>7. CASE Restart
  BY <1>7, RestartKeeps
<1>8. CASE UNCHANGED vars
  <2>1. UNCHANGED <<stored, logged, open, calls, lost, asks, edits, restarts>>
    BY <1>8 DEF vars, counters
  <2>2. \A c \in Calls : /\ (Logging(c)' <=> Logging(c)) /\ (Busy(c)' <=> Busy(c))
                         /\ Place(c)' = Place(c) /\ Current(c)' = Current(c)
                         /\ CurrentId(c)' = CurrentId(c)
    BY <2>1 DEF Logging, Busy, Place, Current, CurrentId
  <2>3. \A m \in States : InHand(m)' = InHand(m)
    BY <2>1, <2>2, InHandNext, InHandShape
  <2>4. \A m \in States : StateOK(m)' /\ LostOK(m)'
    BY <2>1, <2>3 DEF AssistInv, StateOK, LostOK
  <2>5. \A c \in Calls : CallOK(c)' /\ (Logging(c)' => LogOK(c)')
    BY <2>1, <2>2 DEF AssistInv, CallOK, LogOK
  <2> QED
    BY <2>1, <2>2, <2>4, <2>5 DEF AssistInv
<1> QED
  BY <1>1, <1>2, <1>3, <1>4, <1>5, <1>6, <1>7, <1>8 DEF Next

LEMMA AssistInvHolds == Spec => []AssistInv
<1> QED
  BY AssistInvInit, AssistInvNext, PTL DEF Spec

\* What a step of a call writes, if it is not Record.
LEMMA OthersWriteNothing ==
  ASSUME NEW c \in Calls, Proceed(c)
  PROVE  Record(c) \/ UNCHANGED stored
<1>1. CASE AnswerCached(c) \/ Replay(c) \/ Refuse(c) \/ Log(c)
  BY <1>1 DEF AnswerCached, Replay, Refuse, Log
<1>2. \A next : Step(c, next) => UNCHANGED stored
  BY DEF Step
<1>3. CASE NoQuestion(c) \/ OddReply(c) \/ NoReply(c) \/ Lock(c) \/ Answer(c) \/ TakeInputs(c)
  BY <1>2, <1>3 DEF NoQuestion, OddReply, NoReply, Lock, Answer, TakeInputs
<1>4. CASE \E token \in JudgeTokens : Reply(c, token)
  BY <1>2, <1>4 DEF Reply
<1>5. CASE \E answers \in BOOLEAN : TextEnds(c, answers)
  BY <1>2, <1>5 DEF TextEnds
<1> QED
  BY <1>1, <1>3, <1>4, <1>5 DEF Proceed

-----------------------------------------------------------------------------
(* The cells a plan asks about *)

\* Among some members of which some have a weight there is one that no other is
\* heavier than.
LEMMA HeaviestExists ==
  ASSUME NEW S, IsFiniteSet(S), S # {}, NEW w, \A x \in S : w[x] \in Int \cup {None}
  PROVE  \E x \in S : \A y \in S : ~ (w[y] # None /\ (w[x] = None \/ w[y] > w[x]))
<1> DEFINE T == {x \in S : w[x] # None}
           W == {w[x] : x \in T}
<1>1. CASE T = {}
  BY <1>1
<1>2. CASE T # {}
  <2>1. W # {} /\ W \subseteq Int
    BY <1>2
  <2>2. IsFiniteSet(W)
    <3>1. IsFiniteSet(T)
      BY FS_Subset
    <3> HIDE DEF T
    <3> QED BY <3>1, FiniteImage
  <2> HIDE DEF W
  <2>3. Max(W) \in W /\ \A v \in W : v <= Max(W)
    BY <2>1, <2>2, MaxOfInts
  <2>4. PICK x \in T : w[x] = Max(W)
    BY <2>3 DEF W
  <2>5. ASSUME NEW y \in T PROVE ~ (w[y] > w[x])
    <3>1. w[y] \in W /\ w[x] \in W
      BY DEF W
    <3>2. w[y] <= w[x] /\ w[y] \in Int /\ w[x] \in Int
      BY <2>1, <2>3, <2>4, <3>1
    <3> QED BY <3>2
  <2> QED BY <2>4, <2>5
<1> QED BY <1>1, <1>2

\* A list with one element before it.
LEMMA FrontedShape ==
  ASSUME NEW S, NEW x \in S, NEW list \in Seq(S)
  PROVE  <<x>> \o list \in Seq(S)
<1>1. <<x>> \in Seq(S)
  OBVIOUS
<1> DEFINE one == <<x>>
<1> HIDE DEF one
<1>2. one \o list \in Seq(S)
  BY <1>1, ConcatProperties DEF one
<1> QED BY <1>2 DEF one

\* What gaps_next sorts by: a weight, or none, for each member of a finite set.
Weighs(doc, S) == \A x \in S : Weight(doc, x[1], x[2]) \in Int \cup {None}

\* gaps_next is a list of the orphans.
LEMMA GapsAreListed ==
  ASSUME NEW doc, IsFiniteSet(OrphansView(doc)), Weighs(doc, OrphansView(doc))
  PROVE  GapsView(doc) \in Seq(OrphansView(doc))
<1> DEFINE S == OrphansView(doc)
           D == SUBSET S
           V == Seq(S)
           R == StrictSubsetOrdering(S)
           Base == {{}}
           w == [x \in S |-> Weight(doc, x[1], x[2])]
           weight(x) == Weight(doc, x[1], x[2])
           heavier(x, y) == weight(x) # None /\ (weight(y) = None \/ weight(x) > weight(y))
           next(left) == CHOOSE x \in left : \A y \in left : ~ heavier(y, x)
           p == [T \in D |-> T \ {next(T)}]
           b == [T \in D |-> <<>>]
           h == [z \in D \X V |-> IF z[1] = {} THEN <<>> ELSE <<next(z[1])>> \o z[2]]
<1>1. ASSUME NEW T \in D \ Base PROVE next(T) \in T
  <2>1. IsFiniteSet(T) /\ T # {}
    BY FS_Subset
  <2>2. \A x \in T : w[x] = weight(x) /\ w[x] \in Int \cup {None}
    BY DEF Weighs
  <2> HIDE DEF w, weight
  <2>3. \E x \in T : \A y \in T : ~ (w[y] # None /\ (w[x] = None \/ w[y] > w[x]))
    BY <2>1, <2>2, HeaviestExists
  <2>4. \E x \in T : \A y \in T : ~ heavier(y, x)
    BY <2>2, <2>3
  <2> HIDE DEF heavier
  <2> QED BY <2>4
<1> HIDE DEF next, w
<1>2. IsWellFoundedOn(R, D)
  BY FS_FiniteSubsetsOfFinite, FS_StrictSubsetOrderingWellFounded
<1>3. \A T \in D \ Base : p[T] \in D /\ <<p[T], T>> \in R
  BY <1>1 DEF StrictSubsetOrdering
<1>4. ASSUME NEW T \in D \ Base, NEW v \in V PROVE h[<<T, v>>] \in V
  <2>1. next(T) \in S
    BY <1>1
  <2>2. <<next(T)>> \o v \in V
    BY <2>1, FrontedShape
  <2>3. <<T, v>> \in D \X V /\ h[<<T, v>>] = <<next(T)>> \o v
    OBVIOUS
  <2> QED BY <2>2, <2>3
<1>5. \A T \in D \cap Base : b[T] \in V
  BY EmptySeq
<1>6. WellDefined(D, V, R, Base, p, b, h)
  <2> HIDE DEF D, V, R, Base, p, b, h
  <2> QED BY <1>2, <1>3, <1>4, <1>5 DEF WellDefined
<1>7. PICK f : Solves(f, D, V, Base, p, b, h)
  <2> HIDE DEF D, V, R, Base, p, b, h
  <2> QED BY <1>6, RecursionExists
<1>8. ASSUME NEW T \in D
      PROVE  f[T] = IF T = {} THEN <<>> ELSE <<next(T)>> \o f[T \ {next(T)}]
  <2>1. CASE T = {}
    BY <1>7, <2>1 DEF Solves
  <2>2. CASE T # {}
    <3>1. p[T] \in D /\ p[T] = T \ {next(T)} /\ f[T] = h[<<T, f[p[T]]>>]
      BY <1>7, <2>2 DEF Solves
    <3>2. f[p[T]] \in V
      <4> HIDE DEF D, V, p, h, b
      <4> QED BY <1>7, <3>1 DEF Solves
    <3>3. ASSUME NEW v \in V PROVE h[<<T, v>>] = <<next(T)>> \o v
      <4>1. <<T, v>> \in D \X V
        OBVIOUS
      <4> HIDE DEF D, V
      <4> QED BY <2>2, <4>1
    <3> HIDE DEF h, V, D
    <3> QED BY <2>2, <3>1, <3>2, <3>3
  <2> QED BY <2>1, <2>2
<1> DEFINE sorted[left \in SUBSET S] ==
             IF left = {} THEN <<>> ELSE <<next(left)>> \o sorted[left \ {next(left)}]
<1>9. f = [left \in SUBSET S |->
             IF left = {} THEN <<>> ELSE <<next(left)>> \o f[left \ {next(left)}]]
  BY <1>7, <1>8 DEF Solves
<1>10. sorted = [left \in SUBSET S |->
                   IF left = {} THEN <<>> ELSE <<next(left)>> \o sorted[left \ {next(left)}]]
  <2> HIDE <1>7, <1>8
  <2> HIDE DEF D, V, R, Base, p, b, h
  <2> QED BY <1>9, Zenon
<1>11. GapsView(doc) = sorted[S]
  BY DEF GapsView, next
<1> HIDE DEF sorted
<1> DEFINE Good == {T \in SUBSET S : sorted[T] \in Seq(S)}
<1>12. {} \in Good
  BY <1>10, EmptySeq
<1>13. ASSUME NEW T \in SUBSET S, T # {}, \A x \in T : T \ {x} \in Good PROVE T \in Good
  <2>1. next(T) \in T
    BY <1>1, <1>13
  <2>2. sorted[T \ {next(T)}] \in Seq(S)
    BY <1>13, <2>1
  <2>3. sorted[T] = <<next(T)>> \o sorted[T \ {next(T)}]
    BY <1>10, <1>13
  <2>4. sorted[T] \in Seq(S)
    BY <2>1, <2>2, <2>3, FrontedShape
  <2> QED BY <2>4
<1>14. \A T \in SUBSET S : T \in Good
  <2> HIDE DEF Good, D, V, R, Base, p, b, h
  <2> QED BY <1>12, <1>13, AllSubsets
<1> QED BY <1>11, <1>14

\* The lists of some finite sets, one after the other and each element once.
AddedUp(P, n, f) ==
  \A T \in SUBSET (1 .. n) :
    f[T] = IF T = {} THEN <<>>
           ELSE f[T \ {Max(T)}] \o InOrder(P[Max(T)] \ ToSet(f[T \ {Max(T)}]))

LEMMA AddedUpExists ==
  ASSUME NEW n \in Nat, NEW G, NEW P, \A i \in 1 .. n : P[i] \subseteq G /\ IsFiniteSet(P[i])
  PROVE  \E f : f \in [SUBSET (1 .. n) -> Seq(G)] /\ AddedUp(P, n, f)
<1> DEFINE S == 1 .. n
           D == SUBSET S
           V == Seq(G)
           R == StrictSubsetOrdering(S)
           Base == {{}}
           added(T, v) == v \o InOrder(P[Max(T)] \ ToSet(v))
           p == [T \in D |-> T \ {Max(T)}]
           b == [T \in D |-> <<>>]
           h == [z \in D \X V |-> IF z[1] = {} THEN <<>> ELSE added(z[1], z[2])]
<1>1. ASSUME NEW T \in D \ Base PROVE Max(T) \in T
  BY MaxOfSome
<1>2. IsWellFoundedOn(R, D)
  <2>1. IsFiniteSet(S)
    BY FS_Interval
  <2> QED BY <2>1, FS_FiniteSubsetsOfFinite, FS_StrictSubsetOrderingWellFounded
<1>3. \A T \in D \ Base : p[T] \in D /\ <<p[T], T>> \in R
  BY <1>1 DEF StrictSubsetOrdering
<1>4. ASSUME NEW T \in D \ Base, NEW v \in V PROVE h[<<T, v>>] \in V
  <2> DEFINE more == P[Max(T)] \ ToSet(v)
  <2>1. IsFiniteSet(more) /\ more \subseteq G
    <3>1. Max(T) \in 1 .. n
      BY <1>1
    <3> QED BY <3>1, FS_Subset
  <2> HIDE DEF more
  <2>2. InOrder(more) \in Seq(more)
    BY <2>1, InOrderLists DEF Lists
  <2>3. InOrder(more) \in Seq(G)
    BY <2>1, <2>2, SeqMonotonic
  <2>4. v \o InOrder(more) \in V
    BY <2>3, ConcatProperties
  <2>5. <<T, v>> \in D \X V /\ h[<<T, v>>] = added(T, v)
    OBVIOUS
  <2> QED BY <2>4, <2>5 DEF more
<1>5. \A T \in D \cap Base : b[T] \in V
  BY EmptySeq
<1> HIDE DEF added
<1>6. WellDefined(D, V, R, Base, p, b, h)
  <2> HIDE DEF D, V, R, Base, p, b, h
  <2> QED BY <1>2, <1>3, <1>4, <1>5 DEF WellDefined
<1>7. PICK f : Solves(f, D, V, Base, p, b, h)
  <2> HIDE DEF D, V, R, Base, p, b, h
  <2> QED BY <1>6, RecursionExists
<1>8. ASSUME NEW T \in D
      PROVE  f[T] = IF T = {} THEN <<>> ELSE added(T, f[T \ {Max(T)}])
  <2>1. CASE T = {}
    BY <1>7, <2>1 DEF Solves
  <2>2. CASE T # {}
    <3>1. p[T] \in D /\ p[T] = T \ {Max(T)} /\ f[T] = h[<<T, f[p[T]]>>]
      BY <1>7, <2>2 DEF Solves
    <3>2. f[p[T]] \in V
      <4> HIDE DEF D, V, p, h, b
      <4> QED BY <1>7, <3>1 DEF Solves
    <3>3. ASSUME NEW v \in V PROVE h[<<T, v>>] = added(T, v)
      <4>1. <<T, v>> \in D \X V
        OBVIOUS
      <4> HIDE DEF D, V
      <4> QED BY <2>2, <4>1
    <3> HIDE DEF h, V, D
    <3> QED BY <2>2, <3>1, <3>2, <3>3
  <2> QED BY <2>1, <2>2
<1>9. f \in [SUBSET (1 .. n) -> Seq(G)]
  BY <1>7 DEF Solves
<1> QED BY <1>8, <1>9 DEF AddedUp, added

\* The members in use that have no cell of a relation, and the pairs a gap gives.
FreeOn(doc, r, d, axis) ==
  {m \in MembersOf(doc, d) :
     /\ Members(doc, d)[m].status = "active"
     /\ \A p \in DOMAIN doc.relations[r].cells : p[axis] # m}

PairsOf(doc, r, gap) ==
  IF gap[1] = doc.relations[r].from THEN {gap[2]} \X FreeOn(doc, r, doc.relations[r].to, 2)
  ELSE IF gap[1] = doc.relations[r].to THEN FreeOn(doc, r, doc.relations[r].from, 1) \X {gap[2]}
  ELSE {}

\* The cells to ask about are a list.
LEMMA CandidatesAreListed ==
  ASSUME NEW full, NEW S, GapsNext(full) \in Seq(S),
         \A d : IsFiniteSet(MembersOf(Effective(full), d)), NEW r
  PROVE  \E G : Candidates(full, r) \in Seq(G)
<1> DEFINE doc == Effective(full)
           gaps == GapsNext(full)
           n == Len(gaps)
           P == [i \in 1 .. n |-> PairsOf(doc, r, gaps[i])]
           G == UNION {P[i] : i \in 1 .. n}
<1>1. n \in Nat /\ DOMAIN gaps = 1 .. n
  BY LenProperties
<1>2. ASSUME NEW i \in 1 .. n PROVE P[i] \subseteq G /\ IsFiniteSet(P[i])
  <2>1. \A d, axis : IsFiniteSet(FreeOn(doc, r, d, axis))
    BY FS_Subset DEF FreeOn
  <2>2. \A x : IsFiniteSet({x})
    BY FS_Singleton
  <2>3. IsFiniteSet(PairsOf(doc, r, gaps[i]))
    BY <2>1, <2>2, FS_Product, FS_EmptySet DEF PairsOf
  <2> QED BY <2>3
<1> HIDE DEF P, G
<1>3. PICK f : f \in [SUBSET (1 .. n) -> Seq(G)] /\ AddedUp(P, n, f)
  BY <1>1, <1>2, AddedUpExists
<1> DEFINE add(list, gap) == list \o InOrder(PairsOf(doc, r, gap) \ ToSet(list))
           iter[s \in SUBSET (DOMAIN gaps)] ==
             IF s = {} THEN <<>> ELSE add(iter[s \ {Max(s)}], gaps[Max(s)])
<1>4. Candidates(full, r) = iter[DOMAIN gaps]
  BY DEF Candidates, FoldLeft, MapThenFoldSet, PairsOf, FreeOn
<1>5. f = [s \in SUBSET (DOMAIN gaps) |->
             IF s = {} THEN <<>> ELSE add(f[s \ {Max(s)}], gaps[Max(s)])]
  <2>1. ASSUME NEW T \in SUBSET (1 .. n)
        PROVE  f[T] = IF T = {} THEN <<>> ELSE add(f[T \ {Max(T)}], gaps[Max(T)])
    <3>1. CASE T = {}
      BY <1>3, <3>1 DEF AddedUp
    <3>2. CASE T # {}
      <4>1. Max(T) \in 1 .. n
        BY <1>1, <3>2, MaxOfSome
      <4>2. P[Max(T)] = PairsOf(doc, r, gaps[Max(T)])
        BY <4>1 DEF P
      <4> HIDE DEF gaps, doc, n
      <4> QED BY <1>3, <3>2, <4>2 DEF AddedUp
    <3> QED BY <3>1, <3>2
  <2> HIDE DEF add
  <2> QED BY <1>1, <1>3, <2>1
<1>6. iter = [s \in SUBSET (DOMAIN gaps) |->
                IF s = {} THEN <<>> ELSE add(iter[s \ {Max(s)}], gaps[Max(s)])]
  <2> HIDE <1>3
  <2> HIDE DEF add, gaps
  <2> QED BY <1>5, Zenon
<1> HIDE DEF iter
<1> DEFINE Good == {T \in SUBSET (1 .. n) : iter[T] \in Seq(G)}
<1>7. {} \in Good
  BY <1>1, <1>6, EmptySeq
<1>8. ASSUME NEW T \in SUBSET (1 .. n), T # {}, \A x \in T : T \ {x} \in Good PROVE T \in Good
  <2>1. Max(T) \in T
    BY <1>1, <1>8, MaxOfSome
  <2> DEFINE v == iter[T \ {Max(T)}]
             more == P[Max(T)] \ ToSet(v)
  <2>2. v \in Seq(G)
    BY <1>8, <2>1
  <2>3. iter[T] = v \o InOrder(more)
    <3>1. P[Max(T)] = PairsOf(doc, r, gaps[Max(T)])
      BY <2>1 DEF P
    <3> QED BY <1>1, <1>6, <1>8, <3>1
  <2>4. IsFiniteSet(more) /\ more \subseteq G
    BY <1>2, <2>1, FS_Subset
  <2> HIDE DEF v, more
  <2>5. InOrder(more) \in Seq(more)
    BY <2>4, InOrderLists DEF Lists
  <2>6. InOrder(more) \in Seq(G)
    BY <2>4, <2>5, SeqMonotonic
  <2> QED BY <2>2, <2>3, <2>6, ConcatProperties
<1>9. \A T \in SUBSET (1 .. n) : T \in Good
  <2>1. IsFiniteSet(1 .. n)
    BY <1>1, FS_Interval
  <2> HIDE DEF Good, n
  <2> QED BY <1>7, <1>8, <2>1, AllSubsets
<1> QED BY <1>1, <1>4, <1>9

\* A plan asks about no more cells than it may.
LEMMA PlanIsBounded ==
  ASSUME AssistInv, \A m \in States : HasNumbers(stored[m]), NEW r, NEW given, MayPlan(r),
         given = None \/ given \in Seq(Range(given))
  PROVE  \E G : PlanCells(r, given) \in Seq(G) /\ Len(PlanCells(r, given)) <= MaxCells
<1> DEFINE full == stored[open]
           doc == Effective(full)
           cells == IF given = None THEN Candidates(full, r) ELSE given
           orphans == OrphansView(doc)
<1>1. IsDocument(full) /\ HasNumbers(full)
  BY DEF AssistInv, StateOK, MayPlan
<1>2. doc.dimensions = full.dimensions /\ doc.scales = full.scales
  BY <1>1 DEF Effective, IsDocument
<1>3. HasNumbers(doc)
  BY <1>1, <1>2 DEF HasNumbers
<1> HIDE DEF full, doc
<1>4. \A d : MembersOf(doc, d) \subseteq MemberIds
  BY <1>3 DEF HasNumbers, MembersOf, Members, Declared
<1>5. ASSUME NEW x \in orphans PROVE Weight(doc, x[1], x[2]) \in Int \cup {None}
  <2> DEFINE member == Members(doc, x[1])[x[2]]
             scale == doc.dimensions[x[1]].weightScale
  <2>1. x[1] \in DOMAIN doc.dimensions /\ x[2] \in MembersOf(doc, x[1])
    BY DEF OrphansView
  <2>2. member.weight \in Int \cup {None}
    BY <1>3, <2>1 DEF HasNumbers, MembersOf, Members, Declared
  <2>3. \A t \in Tokens(doc, scale) : Value(doc, scale, t) \in Int
    <3> HIDE DEF scale
    <3> TAKE t \in Tokens(doc, scale)
    <3>1. scale \in DOMAIN doc.scales /\ \E i \in DOMAIN doc.scales[scale] : doc.scales[scale][i].token = t
      BY DEF Tokens
    <3>2. Level(doc, scale, t) \in DOMAIN doc.scales[scale]
      BY <3>1 DEF Level
    <3> QED BY <1>3, <3>1, <3>2 DEF Value, HasNumbers
  <2>4. Weight(doc, x[1], x[2]) = IF member.weight # None THEN member.weight
            ELSE IF scale # None /\ member.token \in Tokens(doc, scale)
            THEN Value(doc, scale, member.token) ELSE None
    BY DEF Weight
  <2> HIDE DEF member, scale
  <2> QED BY <2>2, <2>3, <2>4
<1>6. IsFiniteSet(orphans)
  <2>1. IsFiniteSet(DimensionIds)
    <3>1. Len(DimensionOrder) \in Nat /\ DOMAIN DimensionOrder = 1 .. Len(DimensionOrder)
      BY AssistAssumption, LenProperties
    <3>2. IsFiniteSet(1 .. Len(DimensionOrder))
      BY <3>1, FS_Interval
    <3>3. DimensionIds = {DimensionOrder[i] : i \in 1 .. Len(DimensionOrder)}
      BY <3>1 DEF DimensionIds
    <3> QED BY <3>2, <3>3, FiniteImage
  <2>2. IsFiniteSet(DOMAIN doc.dimensions)
    BY <1>3, <2>1, FS_Subset DEF HasNumbers
  <2>3. IsFiniteSet((DOMAIN doc.dimensions) \X MemberIds)
    BY <2>2, AssistAssumption, FS_Product
  <2>4. orphans \subseteq (DOMAIN doc.dimensions) \X MemberIds
    BY DEF OrphansView
  <2> QED BY <2>3, <2>4, FS_Subset
<1>7. GapsNext(full) \in Seq(orphans)
  BY <1>5, <1>6, GapsAreListed DEF GapsNext, Weighs, doc
<1>8. PICK G : cells \in Seq(G)
  <2>1. \A d : IsFiniteSet(MembersOf(Effective(full), d))
    BY <1>4, AssistAssumption, FS_Subset DEF doc
  <2>2. \E G : Candidates(full, r) \in Seq(G)
    <3> HIDE DEF orphans
    <3> QED BY <1>7, <2>1, CandidatesAreListed
  <2> QED BY <2>2
<1>9. PlanCells(r, given) = SubSeq(cells, 1, Min({MaxCells, Len(cells)}))
  BY DEF PlanCells, full
<1> HIDE DEF cells
<1>10. Len(cells) \in Nat /\ \A i \in 1 .. Len(cells) : cells[i] \in G
  BY <1>8, LenProperties, ElementOfSeq
<1> DEFINE k == Min({MaxCells, Len(cells)})
<1>11. k \in Nat /\ k <= MaxCells /\ k <= Len(cells)
  <2>1. k = IF MaxCells <= Len(cells) THEN MaxCells ELSE Len(cells)
    BY <1>10, AssistAssumption, MinOfTwo
  <2> HIDE DEF k
  <2> QED BY <1>10, <2>1, AssistAssumption
<1> HIDE DEF k
<1>12. \A i \in 1 .. k : cells[i] \in G
  BY <1>10, <1>11
<1>13. SubSeq(cells, 1, k) \in Seq(G) /\ Len(SubSeq(cells, 1, k)) = IF 1 <= k THEN k - 1 + 1 ELSE 0
  BY <1>11, <1>12, SubSeqProperties
<1>14. Len(SubSeq(cells, 1, k)) <= MaxCells
  BY <1>11, <1>13, AssistAssumption
<1> QED BY <1>9, <1>13, <1>14 DEF k

-----------------------------------------------------------------------------
(* What is stored, and how many cells a call asks about *)

\* Retiring something leaves the members, their weights and the levels.
LEMMA DeprecatedNumbers ==
  ASSUME NEW doc, IsDocument(doc), HasNumbers(doc), NEW target, NEW successor
  PROVE  HasNumbers(Deprecated(doc, target, successor))
<1> DEFINE next == Deprecated(doc, target, successor)
<1>1. CASE target \in DOMAIN doc.relations
  <2>1. next.dimensions = doc.dimensions /\ next.scales = doc.scales
    BY <1>1 DEF Deprecated, IsDocument
  <2> QED BY <2>1 DEF HasNumbers
<1>2. CASE target \notin DOMAIN doc.relations
  <2> DEFINE d == DimensionOf(doc, target)
             dim == doc.dimensions[d]
             member == Retired(dim.members[target], successor)
             members == [dim.members EXCEPT ![target] = member]
             changed == [dim EXCEPT !.members = members]
  <2>1. next = [doc EXCEPT !.dimensions = [doc.dimensions EXCEPT ![d] = changed]]
    BY <1>2 DEF Deprecated
  <2>2. /\ next.scales = doc.scales
        /\ next.dimensions = [doc.dimensions EXCEPT ![d] = changed]
    BY <2>1 DEF IsDocument
  <2> HIDE DEF d
  <2>3. ASSUME d \in DOMAIN doc.dimensions, target \in DOMAIN dim.members
        PROVE  DOMAIN member = {"weight", "token", "source", "status", "successor"}
               /\ member.weight \in Int \cup {None}
    BY <2>3 DEF Retired, HasNumbers
  <2> HIDE DEF member
  <2>4. ASSUME d \in DOMAIN doc.dimensions
        PROVE  /\ DOMAIN members = DOMAIN dim.members
               /\ \A m \in DOMAIN members :
                    /\ DOMAIN members[m] = {"weight", "token", "source", "status", "successor"}
                    /\ members[m].weight \in Int \cup {None}
    BY <2>3, <2>4 DEF HasNumbers
  <2>5. ASSUME d \in DOMAIN doc.dimensions
        PROVE  DOMAIN changed = {"weightScale", "members"} /\ changed.members = members
    BY <2>5 DEF HasNumbers
  <2> HIDE DEF changed, members
  <2>6. DOMAIN next.dimensions = DOMAIN doc.dimensions
        /\ \A e \in DOMAIN doc.dimensions :
             next.dimensions[e] = IF e = d THEN changed ELSE doc.dimensions[e]
    BY <2>2
  <2> HIDE DEF next
  <2>7. ASSUME NEW e \in DOMAIN doc.dimensions
        PROVE  LET z == next.dimensions[e]
               IN  /\ DOMAIN z = {"weightScale", "members"} /\ DOMAIN z.members \subseteq MemberIds
                   /\ \A m \in DOMAIN z.members :
                        /\ DOMAIN z.members[m] = {"weight", "token", "source", "status", "successor"}
                        /\ z.members[m].weight \in Int \cup {None}
    <3>1. CASE e = d
      <4>1. next.dimensions[e] = changed /\ DOMAIN dim.members \subseteq MemberIds
        BY <2>6, <3>1 DEF HasNumbers
      <4> QED BY <2>4, <2>5, <3>1, <4>1
    <3>2. CASE e # d
      BY <2>6, <3>2 DEF HasNumbers
    <3> QED BY <3>1, <3>2
  <2> QED BY <2>2, <2>6, <2>7 DEF HasNumbers, next
<1> QED BY <1>1, <1>2

LEMMA ObservedNumbers ==
  ASSUME NEW doc, IsDocument(doc), HasNumbers(doc), NEW r \in DOMAIN doc.relations,
         NEW from, NEW to, NEW o, NEW next, next = Observed(doc, r, from, to, o)
  PROVE  HasNumbers(next)
<1>1. next.dimensions = doc.dimensions /\ next.scales = doc.scales
  BY DEF Observed, IsDocument
<1> QED BY <1>1 DEF HasNumbers

Pcs == {"idle", "asking", "recording", "logging", "reported", "texting", "answered"}

\* A call and the cells it asks about.
Within(call) ==
  /\ call.kind \in Kinds /\ call.pc \in Pcs
  /\ \E G : call.left \in Seq(G)
  /\ Len(call.left) + Len(call.proposals) <= MaxCells

\* What loads stays so, and no call asks about more than it may.
TypeInv ==
  /\ AssistInv
  /\ \A id \in DOMAIN cache : cache[id] \in BOOLEAN
  /\ \A m \in States : HasNumbers(stored[m]) /\ Loads(stored[m])
  /\ \A c \in Calls : Within(calls[c])

LEMMA NoCallWithin ==
  ASSUME NEW pc \in Pcs, NEW kind \in Kinds, NEW call, call.pc = pc, call.kind = kind,
         call.left = <<>>, call.proposals = <<>>
  PROVE  Within(call)
<1>1. Len(<<>>) = 0 /\ <<>> \in Seq({})
  BY EmptySeq
<1> QED BY <1>1, AssistAssumption DEF Within

LEMMA EndedWithin ==
  ASSUME NEW ok
  PROVE  Within(Ended(ok))
<1> DEFINE call == Ended(ok)
<1>1. call.pc = "answered" /\ call.kind = None /\ call.left = <<>> /\ call.proposals = <<>>
  BY DEF Ended, Answered, NoCall
<1> HIDE DEF call
<1>2. Within(call)
  BY <1>1, NoCallWithin DEF Pcs, Kinds
<1> QED BY <1>2 DEF call

\* A call that is at another point with the same cells, or has fewer of them left.
LEMMA SameWithin ==
  ASSUME NEW call, Within(call), NEW next, next.pc \in Pcs, next.kind = call.kind,
         next.left = call.left, next.proposals = call.proposals
  PROVE  Within(next)
BY DEF Within

LEMMA FewerWithin ==
  ASSUME NEW c \in Calls, AssistInv, Within(calls[c]), NEW left, left \in {<<>>, Tail(calls[c].left)},
         left = <<>> \/ calls[c].left # <<>>
  PROVE  Within([calls[c] EXCEPT !.left = left])
<1> DEFINE call == calls[c]
           next == [call EXCEPT !.left = left]
<1>1. /\ next.kind = call.kind /\ next.pc = call.pc /\ next.left = left
      /\ next.proposals = call.proposals
  BY DEF AssistInv, CallOK, NoCall
<1>2. Len(call.proposals) \in Nat
  BY LenProperties DEF AssistInv, CallOK
<1> HIDE DEF next, call
<1>3. PICK G : call.left \in Seq(G)
  BY DEF Within, call
<1>4. Len(call.left) \in Nat
  BY <1>3, LenProperties
<1>5. Len(call.left) + Len(call.proposals) <= MaxCells /\ MaxCells \in Nat
  BY AssistAssumption DEF Within, call
<1>6. left \in Seq(G) /\ Len(left) \in Nat /\ Len(left) <= Len(call.left)
  <2>1. CASE left = <<>>
    BY <1>4, <2>1, EmptySeq
  <2>2. CASE left # <<>>
    <3>1. left = Tail(call.left) /\ call.left # <<>>
      BY <2>2 DEF call
    <3>2. Tail(call.left) \in Seq(G) /\ Len(Tail(call.left)) = Len(call.left) - 1
      BY <1>3, <3>1, HeadTailProperties
    <3>3. Len(left) \in Nat
      BY <3>1, <3>2, LenProperties
    <3> QED BY <1>4, <3>1, <3>2, <3>3
  <2> QED BY <2>1, <2>2
<1>7. Len(left) + Len(call.proposals) <= MaxCells
  <2> DEFINE a == Len(left)
             b == Len(call.left)
             k == Len(call.proposals)
  <2>1. a \in Nat /\ b \in Nat /\ k \in Nat /\ a <= b /\ b + k <= MaxCells
    BY <1>2, <1>4, <1>5, <1>6
  <2> HIDE DEF a, b, k
  <2>2. a + k <= MaxCells
    BY <1>5, <2>1
  <2> QED BY <2>2 DEF a, k
<1>8. Within(next)
  BY <1>1, <1>6, <1>7 DEF Within, call
<1> QED BY <1>8 DEF next, call

LEMMA ReplyWithin ==
  ASSUME NEW c \in Calls, AssistInv, Within(calls[c]), calls[c].left # <<>>, NEW proposal
  PROVE  Within([calls[c] EXCEPT !.left = Tail(@), !.proposals = Append(@, proposal)])
<1> DEFINE call == calls[c]
           next == [call EXCEPT !.left = Tail(@), !.proposals = Append(@, proposal)]
<1>1. /\ next.kind = call.kind /\ next.pc = call.pc /\ next.left = Tail(call.left)
      /\ next.proposals = Append(call.proposals, proposal)
  BY DEF AssistInv, CallOK, NoCall
<1>2. call.proposals \in Seq(Range(call.proposals))
  BY DEF AssistInv, CallOK
<1> HIDE DEF next
<1>3. PICK G : call.left \in Seq(G)
  BY DEF Within
<1>4. /\ Tail(call.left) \in Seq(G) /\ Len(Tail(call.left)) = Len(call.left) - 1
      /\ Len(call.left) \in Nat
  BY <1>3, HeadTailProperties, LenProperties
<1> DEFINE s == call.proposals
           t == Append(s, proposal)
<1>5. Len(t) = Len(s) + 1 /\ Len(s) \in Nat
  <2> DEFINE S == Range(s) \cup {proposal}
  <2>1. s \in Seq(S) /\ proposal \in S
    BY <1>2, SeqMonotonic
  <2> HIDE DEF s, S
  <2>2. Len(Append(s, proposal)) = Len(s) + 1
    BY <2>1, AppendProperties
  <2> QED BY <2>1, <2>2, LenProperties
<1> HIDE DEF t
<1>6. Len(call.left) + Len(s) <= MaxCells
  BY DEF Within
<1>7. next.kind \in Kinds /\ next.pc \in Pcs
  BY <1>1 DEF Within
<1> HIDE DEF call, s
<1>8. Len(Tail(call.left)) + Len(t) <= MaxCells
  <2> DEFINE a == Len(call.left)
             b == Len(Tail(call.left))
             k == Len(s)
             l == Len(t)
  <2>1. a \in Nat /\ k \in Nat /\ b = a - 1 /\ l = k + 1 /\ a + k <= MaxCells
    BY <1>4, <1>5, <1>6
  <2> HIDE DEF a, b, k, l
  <2>2. b + l <= MaxCells
    BY <2>1, AssistAssumption
  <2> QED BY <2>2 DEF b, l
<1>9. Within(next)
  BY <1>1, <1>4, <1>7, <1>8 DEF Within, t, s
<1> QED BY <1>9 DEF next, call

\* The others of the calls are as they were.
LEMMA OneWithin ==
  ASSUME TypeInv, NEW c \in Calls, NEW next, calls' = [calls EXCEPT ![c] = next], Within(next)
  PROVE  \A d \in Calls : Within(calls'[d])
<1>1. DOMAIN calls = Calls
  BY DEF TypeInv, AssistInv
<1> QED BY <1>1 DEF TypeInv

LEMMA PlanWithin ==
  ASSUME TypeInv, NEW c \in Calls, NEW q \in Requests, Plan(c, q[1], q[2], q[3], q[4])
  PROVE  \A d \in Calls : Within(calls'[d])
<1>1. CASE ~ MayPlan(q[3])
  <2>1. calls' = [calls EXCEPT ![c] = Ended(FALSE)]
    BY <1>1 DEF Plan
  <2> QED BY <2>1, EndedWithin, OneWithin
<1>2. CASE MayPlan(q[3])
  <2> DEFINE cells == PlanCells(q[3], q[4])
  <2> DEFINE next == [NoCall EXCEPT !.pc = "asking", !.kind = q[1], !.record = q[2],
                                   !.state = open, !.relation = q[3],
                                   !.tokens = Tokens(stored[open], stored[open].relations[q[3]].scale),
                                   !.left = cells]
  <2>1. /\ calls' = [calls EXCEPT ![c] = next]
        /\ next.pc = "asking" /\ next.kind = q[1]
        /\ next.left = cells /\ next.proposals = <<>>
    <3>1. calls' = [calls EXCEPT ![c] = next]
      BY <1>2 DEF Plan
    <3> HIDE DEF cells
    <3>2. /\ next.pc = "asking" /\ next.kind = q[1]
          /\ next.left = cells /\ next.proposals = <<>>
      BY DEF NoCall
    <3> QED BY <3>1, <3>2
  <2> HIDE DEF next
  <2>2. q[1] \in Kinds /\ (q[4] = None \/ q[4] \in Seq(Range(q[4])))
    BY AssistAssumption DEF Kinds
  <2>3. \E G : cells \in Seq(G) /\ Len(cells) <= MaxCells
    BY <1>2, <2>2, PlanIsBounded DEF TypeInv
  <2> HIDE DEF cells
  <2>4. Len(cells) \in Nat /\ Len(cells) + 0 <= MaxCells /\ Len(<<>>) = 0
    <3>1. Len(cells) \in Nat
      BY <2>3, LenProperties
    <3> QED BY <2>3, <3>1, EmptySeq
  <2>5. Within(next)
    BY <2>1, <2>2, <2>3, <2>4 DEF Within, Pcs
  <2> QED BY <2>1, <2>5, OneWithin
<1> QED BY <1>1, <1>2

LEMMA ComposeWithin ==
  ASSUME TypeInv, NEW c \in Calls, NEW kind \in {"text", "report"}, Compose(c, kind)
  PROVE  \A d \in Calls : Within(calls'[d])
<1>1. CASE open = None
  <2>1. calls' = [calls EXCEPT ![c] = Ended(FALSE)]
    BY <1>1 DEF Compose
  <2> QED BY <2>1, EndedWithin, OneWithin
<1>2. CASE open # None
  <2> DEFINE next == [NoCall EXCEPT !.pc = IF kind = "report" THEN "reported" ELSE "texting",
                                   !.kind = kind]
  <2>1. calls' = [calls EXCEPT ![c] = next]
    BY <1>2 DEF Compose
  <2>2. /\ next.pc \in {"reported", "texting"} /\ next.kind = kind
        /\ next.left = <<>> /\ next.proposals = <<>>
    BY DEF NoCall
  <2> HIDE DEF next
  <2>3. Within(next)
    BY <2>2, NoCallWithin DEF Pcs, Kinds
  <2> QED BY <2>1, <2>3, OneWithin
<1> QED BY <1>1, <1>2

\* The call after the answer to one of its commands has the same cells.
LEMMA FollowingWithin ==
  ASSUME TypeInv, NEW c \in Calls, NEW ok
  PROVE  Within(Following(calls[c], ok))
<1> DEFINE call == calls[c]
           next == Following(call, ok)
<1>1. DOMAIN call = DOMAIN NoCall /\ Within(call)
  BY DEF TypeInv, AssistInv, CallOK
<1> HIDE DEF call
<1>2. /\ next.pc \in {"answered", "recording"} /\ next.kind = call.kind
      /\ next.left = call.left /\ next.proposals = call.proposals
  BY <1>1 DEF Following, Answered, NoCall
<1>3. next.pc \in Pcs
  BY <1>2 DEF Pcs
<1> HIDE DEF next
<1>4. Within(next)
  BY <1>1, <1>2, <1>3, SameWithin
<1> QED BY <1>4 DEF next, call

LEMMA ProceedWithin ==
  ASSUME TypeInv, NEW c \in Calls, Proceed(c)
  PROVE  \A d \in Calls : Within(calls'[d])
<1> DEFINE call == calls[c]
<1>1. AssistInv /\ Within(call) /\ DOMAIN call = DOMAIN NoCall
  BY DEF TypeInv, AssistInv, CallOK
<1>2. ASSUME Asking(c), NEW left \in {<<>>, Tail(call.left)}
      PROVE  Within([call EXCEPT !.left = left])
  BY <1>1, <1>2, FewerWithin DEF Asking
<1>3. ASSUME NEW pc \in Pcs PROVE Within([call EXCEPT !.pc = pc])
  <2> DEFINE next == [call EXCEPT !.pc = pc]
  <2>1. /\ next.pc = pc /\ next.kind = call.kind /\ next.left = call.left
        /\ next.proposals = call.proposals
    BY <1>1 DEF NoCall
  <2> HIDE DEF next
  <2>2. Within(next)
    BY <1>1, <2>1, SameWithin
  <2> QED BY <2>2 DEF next
<1>4. \E next : calls' = [calls EXCEPT ![c] = next] /\ Within(next)
  <2>1. CASE NoQuestion(c) \/ NoReply(c)
    <3>1. Asking(c) /\ calls' = [calls EXCEPT ![c] = [call EXCEPT !.left = <<>>]]
      BY <2>1 DEF NoQuestion, NoReply, Step, Stop
    <3> QED BY <1>2, <3>1
  <2>2. CASE \E token \in JudgeTokens : Reply(c, token)
    <3>1. PICK proposal :
            /\ Asking(c)
            /\ calls' = [calls EXCEPT ![c] =
                           [call EXCEPT !.left = Tail(@), !.proposals = Append(@, proposal)]]
      BY <2>2 DEF Reply, Step
    <3>2. call.left # <<>>
      BY <3>1 DEF Asking
    <3> QED BY <1>1, <3>1, <3>2, ReplyWithin
  <2>3. CASE OddReply(c)
    <3>1. Asking(c) /\ \E left \in {<<>>, Tail(call.left)} :
            calls' = [calls EXCEPT ![c] = [call EXCEPT !.left = left]]
      BY <2>3 DEF OddReply, Step, Stop
    <3> QED BY <1>2, <3>1
  <2>4. CASE Lock(c) \/ Record(c) \/ TakeInputs(c)
    <3>1. \E pc \in Pcs : calls' = [calls EXCEPT ![c] = [call EXCEPT !.pc = pc]]
      BY <2>4 DEF Lock, Record, TakeInputs, Step, Pcs
    <3> QED BY <1>3, <3>1
  <2>5. CASE AnswerCached(c) \/ Replay(c) \/ Refuse(c) \/ Log(c)
    <3>1. PICK ok : calls' = [calls EXCEPT ![c] = Following(call, ok)]
      BY <2>5 DEF AnswerCached, Replay, Refuse, Log, Remember
    <3>2. Within(Following(call, ok))
      BY FollowingWithin
    <3> QED BY <3>1, <3>2
  <2>6. CASE Answer(c) \/ \E answers \in BOOLEAN : TextEnds(c, answers)
    <3>1. PICK ok : calls' = [calls EXCEPT ![c] = Ended(ok)]
      BY <2>6 DEF Answer, TextEnds, Step
    <3> QED BY <3>1, EndedWithin
  <2> QED BY <2>1, <2>2, <2>3, <2>4, <2>5, <2>6 DEF Proceed
<1> QED BY <1>4, OneWithin

\* What a step stores loads.
LEMMA WrittenLoads ==
  ASSUME TypeInv, open \in States, NEW doc, stored' = [stored EXCEPT ![open] = doc],
         HasNumbers(doc), Loads(doc)
  PROVE  \A m \in States : HasNumbers(stored'[m]) /\ Loads(stored'[m])
<1>1. DOMAIN stored = States
  BY DEF TypeInv, AssistInv
<1> QED BY <1>1 DEF TypeInv

LEMMA RecordLoads ==
  ASSUME TypeInv, NEW c \in Calls, Record(c)
  PROVE  \A m \in States : HasNumbers(stored'[m]) /\ Loads(stored'[m])
<1> DEFINE r == calls[c].relation
           o == Judged(Current(c))
           next == Observed(stored[open], r, Current(c).from, Current(c).to, o)
<1>1. /\ Recording(c) /\ MayObserve(stored[open], r, Current(c).from, Current(c).to, o)
      /\ Loads(next) /\ stored' = [stored EXCEPT ![open] = next]
  BY DEF Record, Fresh, Accepts
<1>2. open \in States
  BY <1>1, CurrentShape DEF TypeInv, Recording, Busy
<1>3. r \in DOMAIN stored[open].relations
  BY <1>1 DEF MayObserve, ActiveRelations
<1>4. HasNumbers(next)
  BY <1>2, <1>3, ObservedNumbers DEF TypeInv, AssistInv, StateOK
<1> HIDE DEF next
<1> QED BY <1>1, <1>2, <1>4, WrittenLoads

LEMMA UserLoads ==
  ASSUME TypeInv, (\E edit \in Edits : Confirm(edit)) \/ (\E target \in Retirable : Retire(target))
  PROVE  \A m \in States : HasNumbers(stored'[m]) /\ Loads(stored'[m])
<1>1. open \in States
  BY DEF Confirm, Retire, Writable, TypeInv, AssistInv
<1>2. IsDocument(stored[open]) /\ HasNumbers(stored[open])
  BY <1>1 DEF TypeInv, AssistInv, StateOK
<1>3. PICK next : /\ stored' = [stored EXCEPT ![open] = next]
                  /\ HasNumbers(next) /\ Loads(next)
  <2>1. CASE \E edit \in Edits : Confirm(edit)
    <3>1. PICK edit \in Edits : Confirm(edit)
      BY <2>1
    <3> DEFINE next == Observed(stored[open], edit[1], edit[2][1], edit[2][2], edit[3])
    <3>2. edit[1] \in DOMAIN stored[open].relations /\ Store(next)
      BY <3>1 DEF Confirm, MayObserve, ActiveRelations
    <3>3. HasNumbers(next)
      BY <1>2, <3>2, ObservedNumbers
    <3> HIDE DEF next
    <3> QED BY <3>2, <3>3 DEF Store
  <2>2. CASE \E target \in Retirable : Retire(target)
    <3>1. PICK target \in Retirable : Retire(target)
      BY <2>2
    <3> DEFINE next == Deprecated(stored[open], target, None)
    <3>2. Store(next)
      BY <3>1 DEF Retire
    <3>3. HasNumbers(next)
      BY <1>2, DeprecatedNumbers
    <3> HIDE DEF next
    <3> QED BY <3>2, <3>3 DEF Store
  <2> QED BY <2>1, <2>2
<1> QED BY <1>1, <1>3, WrittenLoads

LEMMA TypeInvInit == Init => TypeInv
<1> SUFFICES ASSUME Init PROVE TypeInv
  OBVIOUS
<1>1. AssistInv
  BY AssistInvInit
<1>2. (\A id \in DOMAIN cache : cache[id] \in BOOLEAN)
      /\ \A m \in States : HasNumbers(stored[m]) /\ Loads(stored[m])
  BY AssistAssumption DEF Init
<1>3. \A c \in Calls : Within(calls[c])
  <2> TAKE c \in Calls
  <2>1. /\ calls[c].pc = "idle" /\ calls[c].kind = None
        /\ calls[c].left = <<>> /\ calls[c].proposals = <<>>
    BY DEF Init, NoCall
  <2> QED BY <2>1, NoCallWithin DEF Pcs, Kinds
<1> QED BY <1>1, <1>2, <1>3 DEF TypeInv

\* The request cache holds answers.
LEMMA CacheKeeps ==
  ASSUME TypeInv, NEW c \in Calls, Proceed(c)
  PROVE  \A id \in DOMAIN cache' : cache'[id] \in BOOLEAN
<1>1. UNCHANGED cache \/ \E id : \E ok \in BOOLEAN : cache' = With(cache, id, ok)
  <2>1. CASE \E ok \in BOOLEAN : Remember(c, CurrentId(c), ok)
    BY <2>1 DEF Remember
  <2>2. CASE AnswerCached(c)
    <3>1. cache[CurrentId(c)] \in BOOLEAN /\ Remember(c, CurrentId(c), cache[CurrentId(c)])
      BY <2>2 DEF AnswerCached, TypeInv
    <3> QED BY <3>1 DEF Remember
  <2>3. CASE (\E next : Step(c, next)) \/ Record(c)
    BY <2>3 DEF Step, Record
  <2> QED
    BY <2>1, <2>2, <2>3 DEF Proceed, NoQuestion, Reply, OddReply, NoReply, Lock, Replay,
         Refuse, Log, Answer, TakeInputs, TextEnds
<1> QED BY <1>1 DEF With, TypeInv

LEMMA TypeInvNext == TypeInv /\ [Next]_vars => TypeInv'
<1> SUFFICES ASSUME TypeInv, [Next]_vars PROVE TypeInv'
  OBVIOUS
<1>1. AssistInv'
  BY AssistInvNext DEF TypeInv
<1>2. /\ \A id \in DOMAIN cache' : cache'[id] \in BOOLEAN
      /\ \A m \in States : HasNumbers(stored'[m]) /\ Loads(stored'[m])
      /\ \A c \in Calls : Within(calls'[c])
  <2>1. CASE \E c \in Calls, q \in Requests : Plan(c, q[1], q[2], q[3], q[4])
    <3>1. UNCHANGED <<stored, cache>>
      BY <2>1 DEF Plan
    <3> QED BY <2>1, <3>1, PlanWithin DEF TypeInv
  <2>2. CASE \E c \in Calls, kind \in {"text", "report"} : Compose(c, kind)
    <3>1. UNCHANGED <<stored, cache>>
      BY <2>2 DEF Compose
    <3> QED BY <2>2, <3>1, ComposeWithin DEF TypeInv
  <2>3. CASE \E c \in Calls : Proceed(c)
    <3>1. PICK c \in Calls : Proceed(c)
      BY <2>3
    <3>2. \A m \in States : HasNumbers(stored'[m]) /\ Loads(stored'[m])
      <4>1. CASE Record(c)
        BY <4>1, RecordLoads
      <4>2. CASE UNCHANGED stored
        BY <4>2 DEF TypeInv
      <4> QED BY <3>1, <4>1, <4>2, OthersWriteNothing
    <3> QED BY <3>1, <3>2, CacheKeeps, ProceedWithin
  <2>4. CASE (\E edit \in Edits : Confirm(edit)) \/ (\E target \in Retirable : Retire(target))
    <3>1. UNCHANGED <<cache, calls>>
      BY <2>4 DEF Confirm, Retire, Store
    <3> QED BY <2>4, <3>1, UserLoads DEF TypeInv
  <2>5. CASE \E m \in States : OpenState(m)
    <3>1. UNCHANGED <<stored, cache, calls>>
      BY <2>5 DEF OpenState
    <3> QED BY <3>1 DEF TypeInv
  <2>6. CASE Restart
    <3>1. UNCHANGED stored /\ cache' = << >> /\ calls' = [c \in Calls |-> NoCall]
      BY <2>6 DEF Restart
    <3>2. \A c \in Calls : Within(calls'[c])
      <4> TAKE c \in Calls
      <4>1. /\ calls'[c].pc = "idle" /\ calls'[c].kind = None
            /\ calls'[c].left = <<>> /\ calls'[c].proposals = <<>>
        BY <3>1 DEF NoCall
      <4> QED BY <4>1, NoCallWithin DEF Pcs, Kinds
    <3>3. \A id \in DOMAIN cache' : cache'[id] \in BOOLEAN
      BY <3>1
    <3> QED BY <3>1, <3>2, <3>3 DEF TypeInv
  <2>7. CASE UNCHANGED vars
    <3>1. UNCHANGED <<stored, cache, calls>>
      BY <2>7 DEF vars
    <3> QED BY <3>1 DEF TypeInv
  <2> QED BY <2>1, <2>2, <2>3, <2>4, <2>5, <2>6, <2>7 DEF Next
<1>3. \A m \in States : (HasNumbers(stored[m]) /\ Loads(stored[m]))'
  <2>1. \A m \in States : (HasNumbers(stored[m]))' <=> HasNumbers(stored'[m])
    BY DEF HasNumbers
  <2>2. \A m \in States : (Loads(stored[m]))' <=> Loads(stored'[m])
    OBVIOUS
  <2> QED BY <1>2, <2>1, <2>2
<1>4. \A c \in Calls : (Within(calls[c]))'
  BY <1>2 DEF Within
<1> QED BY <1>1, <1>2, <1>3, <1>4 DEF TypeInv

-----------------------------------------------------------------------------
(* Theorems *)

\* A suggestion is stored once, however often it is made and in whichever call,
\* before or after a restart, and the audit log of a state names exactly the
\* suggestions its document holds, but for those a kill came to between their
\* state file and their line, one for each kill at most (Session::command,
\* assist_dispatch.rs).
THEOREM SuggestionsStoredOnce == Spec => []OncePerToken
<1>1. AssistInv => OncePerToken
  BY DEF AssistInv, StateOK, LostOK, StoredOnce, OncePerToken
<1> QED
  BY <1>1, AssistInvHolds, PTL

\* Recording a suggestion changes the analyses of no document, and a locked
\* state is not written.
LEMMA RecordedDecidesNothing ==
  ASSUME AssistInv, NEW c \in Calls, Record(c), NEW m \in States
  PROVE  /\ Effective(stored'[m]) = Effective(stored[m])
         /\ (m \in Locked => stored'[m] = stored[m])
<1> DEFINE proposal == Current(c)
           r == calls[c].relation
           o == Judged(proposal)
           next == Observed(stored[open], r, proposal.from, proposal.to, o)
<1>1. /\ Recording(c) /\ open \notin Locked
      /\ MayObserve(stored[open], r, proposal.from, proposal.to, o)
      /\ stored' = [stored EXCEPT ![open] = next]
  BY DEF Record, Fresh, Accepts
<1>2. open \in States
  BY <1>1, CurrentShape DEF Recording, Busy
<1>3. IsDocument(stored[open]) /\ r \in DOMAIN stored[open].relations /\ o.proposed
  BY <1>1, <1>2 DEF AssistInv, StateOK, MayObserve, ActiveRelations, Judged
<1>4. Effective(next) = Effective(stored[open])
  BY <1>3, ProposalsLeaveEffective
<1> HIDE DEF next
<1>5. stored'[open] = next /\ (m # open => stored'[m] = stored[m])
  BY <1>1, <1>2 DEF AssistInv
<1> QED
  BY <1>1, <1>4, <1>5

\* What a judge says decides nothing: no step but a user's command changes the
\* effective view of a state, and a state that is locked is not written, even
\* by a call that was planned on another one (assist_dispatch.rs, loading.rs).
THEOREM SuggestionsDecideNothing == Spec => RecordingDecidesNothing
<1> DEFINE A == edits' = edits =>
                  \A m \in States :
                    /\ Effective(stored'[m]) = Effective(stored[m])
                    /\ (m \in Locked => stored'[m] = stored[m])
<1>1. AssistInv /\ [Next]_vars => [A]_vars
  <2> SUFFICES ASSUME AssistInv, [Next]_vars, edits' = edits, NEW m \in States
               PROVE  /\ Effective(stored'[m]) = Effective(stored[m])
                      /\ (m \in Locked => stored'[m] = stored[m])
    OBVIOUS
  <2>1. CASE UNCHANGED stored
    BY <2>1
  <2>2. CASE \E c \in Calls : Record(c)
    BY <2>2, RecordedDecidesNothing
  <2>3. \A next : ~ Store(next)
    <3> SUFFICES ASSUME NEW next, Store(next) PROVE FALSE
      OBVIOUS
    <3>1. edits \in Nat /\ edits' = edits + 1
      BY DEF Store, AssistInv
    <3> QED
      BY <3>1
  <2>4. (\E c \in Calls : Record(c)) \/ UNCHANGED stored
    <3>1. CASE \E c \in Calls : Proceed(c)
      BY <3>1, OthersWriteNothing
    <3>2. CASE \E edit \in Edits : Confirm(edit)
      BY <2>3, <3>2 DEF Confirm
    <3>3. CASE \E target \in Retirable : Retire(target)
      BY <2>3, <3>3 DEF Retire
    <3>4. CASE \/ \E c \in Calls, q \in Requests : Plan(c, q[1], q[2], q[3], q[4])
               \/ \E c \in Calls, kind \in {"text", "report"} : Compose(c, kind)
               \/ \E n \in States : OpenState(n)
               \/ Restart
               \/ UNCHANGED vars
      BY <3>4 DEF Plan, Compose, OpenState, Restart, vars
    <3> QED
      BY <3>1, <3>2, <3>3, <3>4 DEF Next
  <2> QED
    BY <2>1, <2>2, <2>4
<1>2. [][A]_vars <=> RecordingDecidesNothing
  BY DEF RecordingDecidesNothing
<1> QED
  BY <1>1, <1>2, AssistInvHolds, PTL DEF Spec

\* Every document that is stored loads, whatever became of the elements between a
\* plan and its recording, and a call asks about no more cells than maxCells
\* (assist_dispatch.rs: build_plan, derive_candidates).
THEOREM AssistTypes == Spec => []TypeOK
<1>1. TypeInv => TypeOK
  <2> SUFFICES ASSUME TypeInv PROVE TypeOK
    OBVIOUS
  <2>1. /\ open \in States \cup {None}
        /\ \A id \in DOMAIN cache : cache[id] \in BOOLEAN
        /\ \A m \in States : Loads(stored[m])
    BY DEF TypeInv, AssistInv
  <2>2. \A c \in Calls : Within(calls[c])
    BY DEF TypeInv
  <2> QED BY <2>1, <2>2 DEF TypeOK, Within, Pcs
<1> QED BY <1>1, TypeInvInit, TypeInvNext, PTL DEF Spec
=============================================================================
