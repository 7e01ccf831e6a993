----------------------------- MODULE EngineProofs -----------------------------
(***************************************************************************)
(* The engine, proved for any document and any client.  The writes leave a *)
(* document the loader takes, they lose nothing, and a roster that is      *)
(* called a no-op is one; of every document they lead to, the analyses,    *)
(* the searches and the pages give what EngineProperties says they mean.   *)
(***************************************************************************)
EXTENDS EngineProperties, EngineLemmas

-----------------------------------------------------------------------------
(* What is left alone is kept *)

LEMMA SameCell ==
  ASSUME NEW cell, cell \in Seq(Range(cell)), \A i \in DOMAIN cell : ObservationOK(cell[i])
  PROVE  CellKept(cell, cell)
<1>1. Len(cell) \in Nat
  BY LenProperties
<1>2. \A i \in DOMAIN cell : cell[i].evidence \in Nat
  BY DEF ObservationOK
<1> QED
  BY <1>1, <1>2 DEF CellKept

\* The cells of a relation, and what they are in a document that is in order.
CellsKept(old, new) ==
  \A p \in DOMAIN old.cells : p \in DOMAIN new.cells /\ CellKept(old.cells[p], new.cells[p])

LEMMA CellsOK ==
  ASSUME NEW d, DocumentOK(d), NEW r \in DOMAIN d.relations
  PROVE  /\ CellsKept(d.relations[r], d.relations[r])
         /\ \A p \in DOMAIN d.relations[r].cells :
              /\ d.relations[r].cells[p] \in Seq(Range(d.relations[r].cells[p])) \ {<<>>}
              /\ \A i \in DOMAIN d.relations[r].cells[p] :
                   ObservationOK(d.relations[r].cells[p][i])
<1>1. \A p \in DOMAIN d.relations[r].cells :
        /\ d.relations[r].cells[p] \in Seq(Range(d.relations[r].cells[p])) \ {<<>>}
        /\ \A i \in DOMAIN d.relations[r].cells[p] :
             ObservationOK(d.relations[r].cells[p][i])
  BY DEF DocumentOK, IsDocument, RelationOK
<1> QED
  BY <1>1, SameCell DEF CellsKept

LEMMA SameRelations ==
  ASSUME NEW d, DocumentOK(d), NEW n, n.relations = d.relations,
         \A e \in DOMAIN d.dimensions : MembersOf(d, e) \subseteq MembersOf(n, e),
         DOMAIN d.contractions \subseteq DOMAIN n.contractions
  PROVE  Kept(d, n)
  BY CellsOK DEF Kept, CellsKept

LEMMA SameDimensions ==
  ASSUME NEW d, NEW n, n.dimensions = d.dimensions
  PROVE  /\ \A e : MembersOf(n, e) = MembersOf(d, e)
         /\ Separate(d) => Separate(n)
<1>1. \A e : MembersOf(n, e) = MembersOf(d, e)
  BY DEF MembersOf, Members, Declared
<1> QED
  BY <1>1 DEF Separate

LEMMA MembersOfDeclared ==
  ASSUME NEW d, NEW e
  PROVE  /\ e \in DOMAIN d.dimensions => MembersOf(d, e) = DOMAIN d.dimensions[e].members
         /\ e \notin DOMAIN d.dimensions => MembersOf(d, e) = {}
<1>1. DOMAIN << >> = {}
  OBVIOUS
<1> QED
  BY <1>1 DEF MembersOf, Members, Declared

-----------------------------------------------------------------------------
(* Writes of dimensions and members *)

\* New dimensions in which the members of the old ones still are.
LEMMA DimensionsWritten ==
  ASSUME NEW d, DocumentOK(d), NEW dims, IsMap(dims), DOMAIN dims \subseteq DimensionIds,
         \A e \in DOMAIN dims : DimensionOK(dims[e]),
         \A e \in DOMAIN d.dimensions :
           e \in DOMAIN dims /\ MembersOf(d, e) \subseteq DOMAIN dims[e].members,
         NEW n, n = [d EXCEPT !.dimensions = dims], Loads(n)
  PROVE  DocumentOK(n) /\ Kept(d, n) /\ n.dimensions = dims
<1>1. /\ DOMAIN n = DOMAIN d /\ n.dimensions = dims /\ n.relations = d.relations
      /\ n.scales = d.scales /\ n.contractions = d.contractions
  BY DEF DocumentOK, IsDocument
<1>2. IsMap(n)
  BY DEF IsMap
<1>3. IsDocument(n)
  BY <1>1 DEF DocumentOK, IsDocument
<1>4. \A s : Tokens(n, s) = Tokens(d, s)
  BY <1>1 DEF Tokens
<1>5. DocumentOK(n)
  BY <1>1, <1>2, <1>3, <1>4 DEF DocumentOK
<1>6. \A e \in DOMAIN d.dimensions : MembersOf(d, e) \subseteq MembersOf(n, e)
  <2> TAKE e \in DOMAIN d.dimensions
  <2>1. MembersOf(n, e) = DOMAIN n.dimensions[e].members
    BY <1>1, MembersOfDeclared
  <2> QED
    BY <1>1, <2>1
<1> QED
  BY <1>1, <1>5, <1>6, SameRelations

\* Where no member is in two dimensions, one that a dimension lists is its own.
LEMMA OwnDimension ==
  ASSUME NEW d, DocumentOK(d), Separate(d), NEW e \in DOMAIN d.dimensions,
         NEW m \in MembersOf(d, e)
  PROVE  DimensionOf(d, m) = e
<1> DEFINE f == DimensionOf(d, m)
<1>1. e \in DimensionIds
  BY DEF DocumentOK
<1>2. f # None /\ m \in MembersOf(d, f)
  BY <1>1, DimensionOfShape, EngineAssumption
<1>3. f \in DOMAIN d.dimensions
  BY <1>2, MembersOfDeclared
<1> HIDE DEF f
<1>4. f = e
  BY <1>2, <1>3 DEF Separate
<1> QED
  BY <1>4 DEF f

\* The members of one dimension, which were in no other.
LEMMA MembersWritten ==
  ASSUME NEW d, DocumentOK(d), NEW e \in DOMAIN d.dimensions, NEW ms, IsMap(ms),
         MembersOf(d, e) \subseteq DOMAIN ms, DOMAIN ms \subseteq MemberIds,
         \A m \in DOMAIN ms : MemberOK(ms[m]),
         NEW n, n = [d EXCEPT !.dimensions[e].members = ms], Loads(n)
  PROVE  /\ DocumentOK(n) /\ Kept(d, n)
         /\ Separate(d) /\ (\A m \in DOMAIN ms : DimensionOf(d, m) \in {None, e})
              => Separate(n)
<1> DEFINE dimension == [d.dimensions[e] EXCEPT !.members = ms]
           dims == [d.dimensions EXCEPT ![e] = dimension]
<1>1. n = [d EXCEPT !.dimensions = dims]
  BY DEF DocumentOK, IsDocument
<1>2. DimensionOK(dimension) /\ dimension.members = ms
  <2>1. DimensionOK(d.dimensions[e])
    BY DEF DocumentOK
  <2>2. /\ DOMAIN dimension = DOMAIN d.dimensions[e] /\ dimension.members = ms
        /\ dimension = [x \in DOMAIN dimension |-> dimension[x]]
    BY <2>1 DEF DimensionOK, IsRecord
  <2> QED
    BY <2>1, <2>2 DEF DimensionOK, IsRecord, IsMap
<1> HIDE DEF dimension
<1>3. /\ DOMAIN dims = DOMAIN d.dimensions /\ dims[e] = dimension /\ IsMap(dims)
      /\ \A f \in DOMAIN d.dimensions \ {e} : dims[f] = d.dimensions[f]
  BY DEF IsMap
<1> HIDE DEF dims
<1>4. /\ DOMAIN dims \subseteq DimensionIds
      /\ \A f \in DOMAIN dims : DimensionOK(dims[f])
  BY <1>2, <1>3 DEF DocumentOK
<1>5. \A f \in DOMAIN d.dimensions :
        f \in DOMAIN dims /\ MembersOf(d, f) \subseteq DOMAIN dims[f].members
  BY <1>2, <1>3, MembersOfDeclared
<1>6. DocumentOK(n) /\ Kept(d, n) /\ n.dimensions = dims
  BY <1>1, <1>3, <1>4, <1>5, DimensionsWritten
<1>7. ASSUME Separate(d), \A m \in DOMAIN ms : DimensionOf(d, m) \in {None, e}
      PROVE  Separate(n)
  <2>1. MembersOf(n, e) = DOMAIN ms
    BY <1>2, <1>3, <1>6, MembersOfDeclared
  <2>2. \A f \in DOMAIN d.dimensions \ {e} : MembersOf(n, f) = MembersOf(d, f)
    BY <1>3, <1>6, MembersOfDeclared
  <2>3. ASSUME NEW f \in DOMAIN d.dimensions \ {e}, NEW m \in DOMAIN ms, m \in MembersOf(d, f)
        PROVE  FALSE
    <3>1. f \in DimensionIds
      BY DEF DocumentOK
    <3>2. DimensionOf(d, m) = e /\ m \in MembersOf(d, e)
      BY <1>7, <2>3, <3>1, DimensionOfShape, EngineAssumption
    <3> QED
      BY <1>7, <2>3, <3>2 DEF Separate
  <2> QED
    BY <1>3, <1>6, <1>7, <2>1, <2>2, <2>3 DEF Separate
<1> QED
  BY <1>6, <1>7

LEMMA RegisterKeeps ==
  ASSUME NEW d, DocumentOK(d), NEW spec, spec.id \in DimensionIds,
         NEW n, n = Registered(d, spec), Loads(n)
  PROVE  DocumentOK(n) /\ Kept(d, n) /\ (Separate(d) => Separate(n))
<1> DEFINE dimension ==
             IF Declared(d, spec.id)
             THEN [d.dimensions[spec.id] EXCEPT !.weightScale = Given(spec.weightScale, @)]
             ELSE [weightScale |-> spec.weightScale, members |-> << >>]
           dims == With(d.dimensions, spec.id, dimension)
<1>1. n = [d EXCEPT !.dimensions = dims]
  BY DEF Registered, DocumentOK, IsDocument
<1>2. DimensionOK(dimension) /\ DOMAIN dimension.members = MembersOf(d, spec.id)
  <2>1. CASE Declared(d, spec.id)
    <3>1. DimensionOK(d.dimensions[spec.id])
      BY <2>1 DEF DocumentOK, Declared
    <3>2. /\ DOMAIN dimension = DOMAIN d.dimensions[spec.id]
          /\ dimension.members = d.dimensions[spec.id].members
          /\ dimension = [x \in DOMAIN dimension |-> dimension[x]]
      BY <2>1, <3>1 DEF DimensionOK, IsRecord
    <3> QED
      BY <2>1, <3>1, <3>2, MembersOfDeclared DEF DimensionOK, IsRecord, IsMap, Declared
  <2>2. CASE ~ Declared(d, spec.id)
    <3>1. dimension = [weightScale |-> spec.weightScale, members |-> << >>]
      BY <2>2
    <3>2. DOMAIN << >> = {} /\ IsMap(<< >>)
      BY DEF IsMap
    <3>3. IsRecord(dimension, {"weightScale", "members"}) /\ dimension.members = << >>
      BY <3>1 DEF IsRecord, IsMap
    <3> HIDE DEF dimension
    <3>4. DimensionOK(dimension)
      BY <3>2, <3>3 DEF DimensionOK
    <3> QED
      BY <2>2, <3>2, <3>3, <3>4, MembersOfDeclared DEF Declared
  <2> QED
    BY <2>1, <2>2
<1> HIDE DEF dimension
<1>3. /\ DOMAIN dims = DOMAIN d.dimensions \cup {spec.id} /\ IsMap(dims)
      /\ dims[spec.id] = dimension
      /\ \A e \in DOMAIN d.dimensions \ {spec.id} : dims[e] = d.dimensions[e]
  BY DEF With, IsMap
<1> HIDE DEF dims
<1>4. /\ DOMAIN dims \subseteq DimensionIds
      /\ \A e \in DOMAIN dims : DimensionOK(dims[e])
  BY <1>2, <1>3 DEF DocumentOK
<1>5. \A e \in DOMAIN dims : DOMAIN dims[e].members = MembersOf(d, e)
  <2> TAKE e \in DOMAIN dims
  <2>1. CASE e = spec.id
    BY <1>2, <1>3, <2>1
  <2>2. CASE e # spec.id
    BY <1>3, <2>2, MembersOfDeclared
  <2> QED
    BY <2>1, <2>2
<1>6. DocumentOK(n) /\ Kept(d, n) /\ n.dimensions = dims
  BY <1>1, <1>3, <1>4, <1>5, DimensionsWritten
<1>7. \A e \in DOMAIN n.dimensions : MembersOf(n, e) = MembersOf(d, e)
  BY <1>5, <1>6, MembersOfDeclared
<1>8. \A e, f \in DOMAIN n.dimensions :
        {e, f} \subseteq DOMAIN d.dimensions \/ MembersOf(d, e) \cap MembersOf(d, f) = {}
  BY MembersOfDeclared
<1> QED
  BY <1>6, <1>7, <1>8 DEF Separate

\* A token that one of the dimension's weightScale names is a token the client
\* declared.
LEMMA MemberFromSpec ==
  ASSUME NEW d, DocumentOK(d), NEW e \in DOMAIN d.dimensions, NEW spec, SpecOK(spec),
         SpecAllowed(d, e, spec)
  PROVE  /\ spec.token \in TokenNames \cup {None}
         /\ MemberOK(MemberFrom(spec)) /\ MemberFrom(spec).status = "active"
<1>1. spec.token \in TokenNames \cup {None}
  <2>1. CASE spec.token # None
    <3>1. spec.token \in Tokens(d, d.dimensions[e].weightScale)
      BY <2>1 DEF SpecAllowed
    <3> QED
      BY <3>1 DEF Tokens, DocumentOK
  <2> QED
    BY <2>1
<1>2. MemberOK(MemberFrom(spec)) /\ MemberFrom(spec).status = "active"
  <2> DEFINE m == MemberFrom(spec)
  <2>1. /\ m = [weight |-> spec.weight, token |-> spec.token, source |-> spec.source,
                status |-> "active", successor |-> None]
    BY DEF MemberFrom
  <2>2. /\ IsRecord(m, {"weight", "token", "source", "status", "successor"})
        /\ m.weight = spec.weight /\ m.token = spec.token /\ m.source = spec.source
        /\ m.status = "active" /\ m.successor = None
    BY <2>1 DEF IsRecord, IsMap
  <2> QED
    BY <1>1, <2>2 DEF MemberOK, SpecOK, Statuses
<1> QED
  BY <1>1, <1>2

LEMMA ProposeKeeps ==
  ASSUME NEW d, DocumentOK(d), NEW e, NEW spec, SpecOK(spec), MayPropose(d, e, spec),
         NEW n, n = Proposed(d, e, spec), Loads(n)
  PROVE  DocumentOK(n) /\ Kept(d, n) /\ (Separate(d) => Separate(n))
<1> DEFINE ms == With(d.dimensions[e].members, spec.id, MemberFrom(spec))
<1>1. e \in DOMAIN d.dimensions /\ DimensionOf(d, spec.id) = None /\ SpecAllowed(d, e, spec)
  BY DEF MayPropose, Declared
<1>2. n = [d EXCEPT !.dimensions[e].members = ms]
  BY DEF Proposed
<1>3. DimensionOK(d.dimensions[e]) /\ MembersOf(d, e) = DOMAIN d.dimensions[e].members
  BY <1>1, MembersOfDeclared DEF DocumentOK
<1>4. MemberOK(MemberFrom(spec)) /\ spec.id \in MemberIds
  BY <1>1, MemberFromSpec DEF SpecOK
<1>5. /\ DOMAIN ms = MembersOf(d, e) \cup {spec.id} /\ IsMap(ms)
      /\ ms[spec.id] = MemberFrom(spec)
      /\ \A m \in MembersOf(d, e) \ {spec.id} : ms[m] = d.dimensions[e].members[m]
  BY <1>3 DEF With, IsMap
<1> HIDE DEF ms
<1>6. DOMAIN ms \subseteq MemberIds /\ \A m \in DOMAIN ms : MemberOK(ms[m])
  BY <1>3, <1>4, <1>5 DEF DimensionOK
<1>7. ASSUME Separate(d), NEW m \in DOMAIN ms PROVE DimensionOf(d, m) \in {None, e}
  BY <1>1, <1>5, <1>7, OwnDimension
<1> QED
  BY <1>1, <1>2, <1>5, <1>6, <1>7, MembersWritten

\* The last of the entries for a member.
LEMMA LastEntry ==
  ASSUME NEW roster, NEW m, NEW n \in Nat, Entries(roster, m, n) # {}
  PROVE  /\ Max(Entries(roster, m, n)) \in 1 .. n
         /\ roster[Max(Entries(roster, m, n))].id = m
         /\ \A i \in Entries(roster, m, n) : i <= Max(Entries(roster, m, n))
<1>1. Entries(roster, m, n) \in SUBSET (1 .. n)
  BY DEF Entries
<1>2. /\ Max(Entries(roster, m, n)) \in Entries(roster, m, n)
      /\ \A i \in Entries(roster, m, n) : i <= Max(Entries(roster, m, n))
  BY <1>1, MaxOfSome
<1> QED
  BY <1>2 DEF Entries

LEMMA RosterShape ==
  ASSUME NEW roster \in Rosters
  PROVE  /\ Len(roster) \in Nat /\ DOMAIN roster = 1 .. Len(roster)
         /\ \A i \in DOMAIN roster : SpecOK(roster[i])
<1>1. roster \in Seq(Range(roster)) /\ \A spec \in Range(roster) : SpecOK(spec)
  BY EngineAssumption
<1>2. Len(roster) \in Nat /\ DOMAIN roster = 1 .. Len(roster)
  BY <1>1, LenProperties
<1>3. \A i \in DOMAIN roster : roster[i] \in Range(roster)
  BY DEF Range
<1> QED
  BY <1>1, <1>2, <1>3

LEMMA ListedOK ==
  ASSUME NEW d, DocumentOK(d), NEW e \in DOMAIN d.dimensions, NEW spec, SpecOK(spec),
         SpecAllowed(d, e, spec), NEW m
  PROVE  MemberOK(Listed(d.dimensions[e].members, m, spec))
<1> DEFINE ms == d.dimensions[e].members
           new == [ms[m] EXCEPT !.weight = spec.weight, !.token = spec.token,
                                !.source = spec.source]
<1>1. MemberOK(MemberFrom(spec)) /\ spec.token \in TokenNames \cup {None}
  BY MemberFromSpec
<1>2. CASE m \notin DOMAIN ms \/ ms[m].status = "deprecated"
  BY <1>1, <1>2 DEF Listed
<1>3. CASE m \in DOMAIN ms /\ ms[m].status # "deprecated"
  <2>1. Listed(ms, m, spec) = new
    BY <1>3 DEF Listed
  <2>2. MemberOK(ms[m])
    BY <1>3 DEF DocumentOK, DimensionOK
  <2>3. /\ DOMAIN new = DOMAIN ms[m] /\ new = [x \in DOMAIN new |-> new[x]]
        /\ new.weight = spec.weight /\ new.token = spec.token /\ new.source = spec.source
        /\ new.status = ms[m].status /\ new.successor = ms[m].successor
    BY <2>2 DEF MemberOK, IsRecord
  <2> HIDE DEF new
  <2>4. MemberOK(new)
    BY <1>1, <2>2, <2>3 DEF MemberOK, IsRecord, IsMap, SpecOK
  <2> QED
    BY <2>1, <2>4
<1> QED
  BY <1>2, <1>3

LEMMA RetiredOK ==
  ASSUME NEW member, MemberOK(member)
  PROVE  MemberOK([member EXCEPT !.status = "deprecated"])
<1> DEFINE new == [member EXCEPT !.status = "deprecated"]
<1>1. /\ DOMAIN new = DOMAIN member /\ new = [x \in DOMAIN new |-> new[x]]
      /\ new.weight = member.weight /\ new.token = member.token
      /\ new.source = member.source /\ new.status = "deprecated"
      /\ new.successor = member.successor
  BY DEF MemberOK, IsRecord
<1> HIDE DEF new
<1>2. MemberOK(new)
  BY <1>1 DEF MemberOK, IsRecord, IsMap, Statuses
<1> QED
  BY <1>2 DEF new

LEMMA SyncKeeps ==
  ASSUME NEW d, DocumentOK(d), NEW e, NEW roster \in Rosters, MaySync(d, e, roster),
         NEW n, n = Synced(d, e, roster), Loads(n)
  PROVE  DocumentOK(n) /\ Kept(d, n) /\ (Separate(d) => Separate(n))
<1> DEFINE old == d.dimensions[e].members
           last == Len(roster)
           ms == After(old, roster, last)
<1>1. /\ e \in DOMAIN d.dimensions
      /\ \A i \in DOMAIN roster : /\ DimensionOf(d, roster[i].id) \in {None, e}
                                  /\ SpecAllowed(d, e, roster[i])
  BY DEF MaySync, Declared
<1>2. n = [d EXCEPT !.dimensions[e].members = ms]
  BY DEF Synced
<1>3. DimensionOK(d.dimensions[e]) /\ MembersOf(d, e) = DOMAIN old
  BY <1>1, MembersOfDeclared DEF DocumentOK
<1>4. /\ last \in Nat /\ DOMAIN roster = 1 .. last
      /\ \A i \in DOMAIN roster : SpecOK(roster[i])
  BY RosterShape
<1> HIDE DEF last
<1>5. /\ IsMap(ms)
      /\ DOMAIN ms = DOMAIN old \cup {roster[i].id : i \in 1 .. last}
      /\ \A m \in DOMAIN ms :
           ms[m] = IF Entries(roster, m, last) # {}
                   THEN Listed(old, m, roster[Max(Entries(roster, m, last))])
                   ELSE IF Entries(roster, m, Len(roster)) # {} THEN old[m]
                   ELSE [old[m] EXCEPT !.status = "deprecated"]
  BY DEF After, IsMap
<1> HIDE DEF ms
<1>6. ASSUME NEW m \in DOMAIN ms PROVE MemberOK(ms[m])
  <2>1. CASE Entries(roster, m, last) # {}
    <3>1. Max(Entries(roster, m, last)) \in DOMAIN roster
      BY <1>4, <2>1, LastEntry
    <3>2. MemberOK(Listed(old, m, roster[Max(Entries(roster, m, last))]))
      BY <1>1, <1>4, <3>1, ListedOK
    <3> QED
      BY <1>5, <2>1, <3>2
  <2>2. CASE Entries(roster, m, last) = {}
    <3>1. m \in DOMAIN old
      BY <1>5, <2>2 DEF Entries
    <3>2. MemberOK(old[m])
      BY <1>3, <3>1 DEF DimensionOK
    <3>3. MemberOK([old[m] EXCEPT !.status = "deprecated"])
      BY <3>2, RetiredOK
    <3> QED
      BY <1>5, <2>2, <3>2, <3>3
  <2> QED
    BY <2>1, <2>2
<1>7. MembersOf(d, e) \subseteq DOMAIN ms /\ DOMAIN ms \subseteq MemberIds
  BY <1>3, <1>4, <1>5 DEF DimensionOK, SpecOK
<1>8. ASSUME Separate(d), NEW m \in DOMAIN ms PROVE DimensionOf(d, m) \in {None, e}
  BY <1>1, <1>3, <1>4, <1>5, <1>8, OwnDimension
<1> QED
  BY <1>1, <1>2, <1>5, <1>6, <1>7, <1>8, MembersWritten

\* Retirement of a member, in the dimension that lists it.
LEMMA RetireMemberKeeps ==
  ASSUME NEW d, DocumentOK(d), NEW m, m \notin DOMAIN d.relations, NEW successor,
         MayDeprecate(d, m, successor), NEW n, n = Deprecated(d, m, successor), Loads(n)
  PROVE  DocumentOK(n) /\ Kept(d, n) /\ (Separate(d) => Separate(n))
<1> DEFINE e == DimensionOf(d, m)
           old == d.dimensions[e].members
           retired == Retired(old[m], successor)
           ms == [old EXCEPT ![m] = retired]
<1>1. e # None /\ (successor # None => DimensionOf(d, successor) # None)
  BY DEF MayDeprecate, IsMember
<1>2. m \in MembersOf(d, e) /\ e \in DOMAIN d.dimensions
  BY <1>1, DimensionOfShape, MembersOfDeclared, EngineAssumption
<1>3. DimensionOK(d.dimensions[e]) /\ MembersOf(d, e) = DOMAIN old /\ m \in DOMAIN old
  BY <1>2, MembersOfDeclared DEF DocumentOK
<1>4. successor # None => successor \in MemberIds
  <2> SUFFICES ASSUME successor # None PROVE successor \in MemberIds
    OBVIOUS
  <2> DEFINE f == DimensionOf(d, successor)
  <2>1. successor \in MembersOf(d, f)
    BY <1>1, DimensionOfShape, EngineAssumption
  <2>2. f \in DOMAIN d.dimensions /\ successor \in DOMAIN d.dimensions[f].members
    BY <2>1, MembersOfDeclared
  <2> HIDE DEF f
  <2> QED
    BY <2>2 DEF DocumentOK, DimensionOK
<1>5. n = [d EXCEPT !.dimensions[e].members = ms]
  BY DEF Deprecated
<1> HIDE DEF e
<1>6. MemberOK(retired)
  <2>1. MemberOK(old[m])
    BY <1>3 DEF DimensionOK
  <2>2. /\ DOMAIN retired = DOMAIN old[m] /\ retired = [x \in DOMAIN retired |-> retired[x]]
        /\ retired.weight = old[m].weight /\ retired.token = old[m].token
        /\ retired.source = old[m].source /\ retired.status = "deprecated"
        /\ retired.successor = Given(successor, old[m].successor)
    BY <2>1 DEF MemberOK, IsRecord, Retired
  <2> HIDE DEF retired
  <2>3. retired.successor \in MemberIds \cup {None}
    BY <1>4, <2>1, <2>2 DEF Given, MemberOK
  <2> QED
    BY <2>1, <2>2, <2>3 DEF MemberOK, IsRecord, IsMap, Statuses
<1> HIDE DEF retired
<1>7. /\ IsMap(ms) /\ DOMAIN ms = DOMAIN old
      /\ \A x \in DOMAIN ms : ms[x] = IF x = m THEN retired ELSE old[x]
  BY DEF IsMap
<1> HIDE DEF ms
<1>8. \A x \in DOMAIN ms : MemberOK(ms[x])
  BY <1>3, <1>6, <1>7 DEF DimensionOK
<1>9. ASSUME Separate(d), NEW x \in DOMAIN ms PROVE DimensionOf(d, x) \in {None, e}
  BY <1>2, <1>3, <1>7, <1>9, OwnDimension
<1>10. DOMAIN ms \subseteq MemberIds /\ MembersOf(d, e) \subseteq DOMAIN ms
  BY <1>3, <1>7 DEF DimensionOK
<1> QED
  BY <1>2, <1>5, <1>7, <1>8, <1>9, <1>10, MembersWritten

-----------------------------------------------------------------------------
(* Writes of scales, contractions and relations *)

LEMMA ScaleKeeps ==
  ASSUME NEW d, DocumentOK(d), NEW spec \in ScaleSpecs, NEW n, n = Scaled(d, spec), Loads(n)
  PROVE  DocumentOK(n) /\ Kept(d, n) /\ (Separate(d) => Separate(n))
<1> DEFINE scales == With(d.scales, spec.id, spec.levels)
<1>1. /\ DOMAIN n = DOMAIN d /\ n.scales = scales /\ n.relations = d.relations
      /\ n.dimensions = d.dimensions /\ n.contractions = d.contractions
  BY DEF Scaled, DocumentOK, IsDocument
<1>2. IsMap(n)
  BY DEF Scaled, IsMap
<1>3. IsDocument(n)
  BY <1>1 DEF DocumentOK, IsDocument
<1>4. /\ DOMAIN scales = DOMAIN d.scales \cup {spec.id} /\ scales[spec.id] = spec.levels
      /\ \A s \in DOMAIN d.scales \ {spec.id} : scales[s] = d.scales[s]
  BY DEF With
<1> HIDE DEF scales
<1>5. ASSUME NEW s \in DOMAIN scales PROVE Tokens(n, s) \subseteq TokenNames
  <2>1. CASE s = spec.id
    <3>1. Tokens(n, s) = {spec.levels[i].token : i \in DOMAIN spec.levels}
      BY <1>1, <1>4, <2>1 DEF Tokens
    <3> QED
      BY <3>1 DEF TokenNames
  <2>2. CASE s # spec.id
    <3>1. Tokens(n, s) = Tokens(d, s) /\ s \in DOMAIN d.scales
      BY <1>1, <1>4, <2>2 DEF Tokens
    <3> QED
      BY <3>1 DEF DocumentOK
  <2> QED
    BY <2>1, <2>2
<1>6. DocumentOK(n)
  BY <1>1, <1>2, <1>3, <1>5 DEF DocumentOK
<1> QED
  BY <1>1, <1>6, SameRelations, SameDimensions

LEMMA ContractKeeps ==
  ASSUME NEW d, DocumentOK(d), NEW spec, NEW n, n = Contracted(d, spec), Loads(n)
  PROVE  DocumentOK(n) /\ Kept(d, n) /\ (Separate(d) => Separate(n))
<1>1. PICK entry : n = [d EXCEPT !.contractions = With(d.contractions, spec.id, entry)]
  BY DEF Contracted, DocumentOK, IsDocument
<1>2. /\ DOMAIN n = DOMAIN d /\ n.scales = d.scales /\ n.relations = d.relations
      /\ n.dimensions = d.dimensions /\ n.contractions = With(d.contractions, spec.id, entry)
  BY <1>1 DEF DocumentOK, IsDocument
<1>3. IsMap(n)
  BY <1>1 DEF IsMap
<1>4. IsDocument(n)
  BY <1>2 DEF DocumentOK, IsDocument
<1>5. \A s : Tokens(n, s) = Tokens(d, s)
  BY <1>2 DEF Tokens
<1>6. DocumentOK(n)
  BY <1>2, <1>3, <1>4, <1>5 DEF DocumentOK
<1>7. DOMAIN d.contractions \subseteq DOMAIN n.contractions
  BY <1>2 DEF With
<1> QED
  BY <1>2, <1>6, <1>7, SameRelations, SameDimensions

\* A relation of the shape the schema gives it.
RelationShape(rel) ==
  /\ DOMAIN rel = {"from", "to", "type", "scale", "policy", "status", "successor", "cells"}
  /\ \A p \in DOMAIN rel.cells : rel.cells[p] \in Seq(Range(rel.cells[p])) \ {<<>>}
  /\ RelationOK(rel)

LEMMA RelationsShape ==
  ASSUME NEW d, DocumentOK(d), NEW r \in DOMAIN d.relations
  PROVE  RelationShape(d.relations[r])
  BY DEF DocumentOK, IsDocument, RelationShape

\* One relation written: a new one, or an old one whose cells are kept and that
\* stays retired.
LEMMA RelationWritten ==
  ASSUME NEW d, DocumentOK(d), NEW r, NEW rel, RelationShape(rel),
         r \in DOMAIN d.relations =>
           /\ CellsKept(d.relations[r], rel)
           /\ d.relations[r].status = "deprecated" => rel.status = "deprecated",
         NEW n, n = [d EXCEPT !.relations = With(d.relations, r, rel)], Loads(n)
  PROVE  DocumentOK(n) /\ Kept(d, n) /\ (Separate(d) => Separate(n))
<1> DEFINE relations == With(d.relations, r, rel)
<1>1. /\ DOMAIN n = DOMAIN d /\ n.scales = d.scales /\ n.relations = relations
      /\ n.dimensions = d.dimensions /\ n.contractions = d.contractions
  BY DEF DocumentOK, IsDocument
<1>2. IsMap(n)
  BY DEF IsMap
<1>3. /\ DOMAIN relations = DOMAIN d.relations \cup {r} /\ relations[r] = rel
      /\ \A s \in DOMAIN d.relations \ {r} : relations[s] = d.relations[s]
  BY DEF With
<1> HIDE DEF relations
<1>4. \A s \in DOMAIN relations : RelationShape(relations[s])
  BY <1>3, RelationsShape
<1>5. IsDocument(n)
  <2>1. DOMAIN n = {"dimensions", "scales", "relations", "contractions"}
    BY <1>1 DEF DocumentOK, IsDocument
  <2> QED
    BY <1>1, <1>4, <2>1 DEF IsDocument, RelationShape
<1>6. \A s : Tokens(n, s) = Tokens(d, s)
  BY <1>1 DEF Tokens
<1>7. DocumentOK(n)
  BY <1>1, <1>2, <1>4, <1>5, <1>6 DEF DocumentOK, RelationShape
<1>8. \A s \in DOMAIN d.relations :
        /\ s \in DOMAIN n.relations
        /\ d.relations[s].status = "deprecated" => n.relations[s].status = "deprecated"
        /\ CellsKept(d.relations[s], n.relations[s])
  BY <1>1, <1>3, CellsOK
<1>9. Kept(d, n)
  BY <1>1, <1>8, SameDimensions DEF Kept, CellsKept
<1> QED
  BY <1>1, <1>7, <1>9, SameDimensions

LEMMA RelateKeeps ==
  ASSUME NEW d, DocumentOK(d), NEW spec, MayRelate(d, spec),
         NEW n, n = Related(d, spec), Loads(n)
  PROVE  DocumentOK(n) /\ Kept(d, n) /\ (Separate(d) => Separate(n))
<1> DEFINE old == IF spec.id \in DOMAIN d.relations THEN d.relations[spec.id]
                  ELSE [status |-> "active", successor |-> None, cells |-> << >>]
           rel == [from |-> spec.from, to |-> spec.to, type |-> spec.type,
                   scale |-> spec.scale, policy |-> spec.policy, status |-> old.status,
                   successor |-> old.successor, cells |-> old.cells]
<1>1. n = [d EXCEPT !.relations = With(d.relations, spec.id, rel)]
  BY DEF Related, DocumentOK, IsDocument
<1>2. /\ rel.from = spec.from /\ rel.to = spec.to /\ rel.type = spec.type
      /\ rel.policy = spec.policy /\ rel.status = old.status /\ rel.cells = old.cells
      /\ DOMAIN rel = {"from", "to", "type", "scale", "policy", "status", "successor", "cells"}
  OBVIOUS
<1>3. /\ old.status \in Statuses /\ DOMAIN old.cells \subseteq MemberIds \X MemberIds
      /\ \A p \in DOMAIN old.cells : /\ old.cells[p] \in Seq(Range(old.cells[p])) \ {<<>>}
                                     /\ \A i \in DOMAIN old.cells[p] :
                                          ObservationOK(old.cells[p][i])
  <2>1. CASE spec.id \in DOMAIN d.relations
    BY <2>1, RelationsShape DEF RelationShape, RelationOK
  <2>2. CASE spec.id \notin DOMAIN d.relations
    <3>1. old.status = "active" /\ old.cells = << >>
      BY <2>2
    <3>2. DOMAIN << >> = {}
      OBVIOUS
    <3> HIDE DEF old
    <3> QED
      BY <3>1, <3>2 DEF Statuses
  <2> QED
    BY <2>1, <2>2
<1>4. {spec.from, spec.to} \subseteq DimensionIds
  BY DEF MayRelate, Declared, DocumentOK
<1>5. spec.id \in DOMAIN d.relations =>
           /\ CellsKept(d.relations[spec.id], rel)
           /\ d.relations[spec.id].status = "deprecated" => rel.status = "deprecated"
  BY <1>2, CellsOK DEF CellsKept
<1> HIDE DEF old, rel
<1>6. RelationShape(rel)
  BY <1>2, <1>3, <1>4 DEF RelationShape, RelationOK, MayRelate
<1> QED
  BY <1>1, <1>5, <1>6, RelationWritten

LEMMA WithExisting ==
  ASSUME NEW part, NEW id \in DOMAIN part, NEW entry
  PROVE  With(part, id, entry) = [part EXCEPT ![id] = entry]
<1>1. DOMAIN part \cup {id} = DOMAIN part
  OBVIOUS
<1> QED
  BY <1>1 DEF With

LEMMA RetireRelationKeeps ==
  ASSUME NEW d, DocumentOK(d), NEW r \in DOMAIN d.relations, NEW successor,
         NEW n, n = Deprecated(d, r, successor), Loads(n)
  PROVE  DocumentOK(n) /\ Kept(d, n) /\ (Separate(d) => Separate(n))
<1> DEFINE old == d.relations[r]
           rel == Retired(old, successor)
<1>1. n = [d EXCEPT !.relations = [d.relations EXCEPT ![r] = rel]]
  BY DEF Deprecated, DocumentOK, IsDocument
<1>2. n = [d EXCEPT !.relations = With(d.relations, r, rel)]
  BY <1>1, WithExisting
<1>3. RelationShape(old)
  BY RelationsShape
<1>4. /\ DOMAIN rel = DOMAIN old /\ rel.status = "deprecated" /\ rel.cells = old.cells
      /\ rel.from = old.from /\ rel.to = old.to /\ rel.type = old.type
      /\ rel.policy = old.policy
  BY <1>3 DEF Retired, RelationShape
<1>5. CellsKept(old, rel)
  BY <1>4, CellsOK DEF CellsKept
<1> HIDE DEF rel
<1>6. RelationShape(rel)
  BY <1>3, <1>4 DEF RelationShape, RelationOK, Statuses
<1> QED
  BY <1>2, <1>4, <1>5, <1>6, RelationWritten

\* One cell of a relation written.
LEMMA CellWritten ==
  ASSUME NEW d, DocumentOK(d), NEW r \in DOMAIN d.relations,
         NEW p \in MemberIds \X MemberIds, NEW cell, cell \in Seq(Range(cell)) \ {<<>>},
         \A i \in DOMAIN cell : ObservationOK(cell[i]),
         p \in DOMAIN d.relations[r].cells => CellKept(d.relations[r].cells[p], cell),
         NEW n, n = [d EXCEPT !.relations[r].cells = With(d.relations[r].cells, p, cell)],
         Loads(n)
  PROVE  DocumentOK(n) /\ Kept(d, n) /\ (Separate(d) => Separate(n))
<1> DEFINE old == d.relations[r]
           cells == With(old.cells, p, cell)
           rel == [old EXCEPT !.cells = cells]
<1>1. n = [d EXCEPT !.relations = [d.relations EXCEPT ![r] = rel]]
  BY DEF DocumentOK, IsDocument
<1>2. n = [d EXCEPT !.relations = With(d.relations, r, rel)]
  <2> HIDE DEF rel
  <2>1. With(d.relations, r, rel) = [d.relations EXCEPT ![r] = rel]
    BY WithExisting
  <2> QED
    BY <1>1, <2>1
<1>3. RelationShape(old)
  BY RelationsShape
<1>4. /\ DOMAIN cells = DOMAIN old.cells \cup {p} /\ cells[p] = cell
      /\ \A q \in DOMAIN old.cells \ {p} : cells[q] = old.cells[q]
  BY DEF With
<1> HIDE DEF cells
<1>5. /\ DOMAIN rel = DOMAIN old /\ rel.status = old.status /\ rel.cells = cells
      /\ rel.from = old.from /\ rel.to = old.to /\ rel.type = old.type
      /\ rel.policy = old.policy
  BY <1>3 DEF RelationShape
<1>6. CellsKept(old, rel)
  BY <1>4, <1>5, CellsOK DEF CellsKept
<1> HIDE DEF rel
<1>7. RelationShape(rel)
  <2>1. \A q \in DOMAIN cells : /\ cells[q] \in Seq(Range(cells[q])) \ {<<>>}
                                /\ \A i \in DOMAIN cells[q] : ObservationOK(cells[q][i])
    BY <1>3, <1>4 DEF RelationShape, RelationOK
  <2>2. DOMAIN cells \subseteq MemberIds \X MemberIds
    BY <1>3, <1>4 DEF RelationShape, RelationOK
  <2> QED
    BY <1>3, <1>5, <2>1, <2>2 DEF RelationShape, RelationOK
<1> QED
  BY <1>2, <1>5, <1>6, <1>7, RelationWritten

LEMMA ObserveKeeps ==
  ASSUME NEW d, DocumentOK(d), NEW r, NEW from, NEW to, NEW o, ObservationOK(o),
         MayObserve(d, r, from, to, o), NEW n, n = Observed(d, r, from, to, o), Loads(n)
  PROVE  DocumentOK(n) /\ Kept(d, n) /\ (Separate(d) => Separate(n))
<1> DEFINE p == <<from, to>>
           old == Cell(d, r, p)
           cell == Added(old, o)
<1>1. /\ r \in DOMAIN d.relations
      /\ from \in MembersOf(d, d.relations[r].from) /\ to \in MembersOf(d, d.relations[r].to)
  BY DEF MayObserve, ActiveRelations
<1>2. p \in MemberIds \X MemberIds
  BY <1>1, MembersOfDeclared DEF DocumentOK, DimensionOK
<1>3. /\ old \in Seq(Range(old)) /\ \A i \in DOMAIN old : ObservationOK(old[i])
      /\ p \in DOMAIN d.relations[r].cells => old = d.relations[r].cells[p]
  <2>1. old \in Seq(Range(old))
    BY <1>1, CellShape DEF DocumentOK
  <2>2. \A i \in DOMAIN old : ObservationOK(old[i])
    <3>1. DOMAIN << >> = {}
      OBVIOUS
    <3> QED
      BY <1>1, <3>1, CellsOK DEF Cell
  <2> QED
    BY <2>1, <2>2 DEF Cell
<1>4. n = [d EXCEPT !.relations[r].cells = With(d.relations[r].cells, p, cell)]
  BY DEF Observed
<1> HIDE DEF p, old
<1>5. /\ cell \in Seq(Range(cell)) \ {<<>>}
      /\ \A i \in DOMAIN cell : ObservationOK(cell[i])
      /\ CellKept(old, cell)
  <2>1. CASE cell = old
    BY <1>3, <2>1, AddedShape, SameCell
  <2>2. CASE cell = Append(old, o)
    <3>1. /\ DOMAIN cell = DOMAIN old \cup {Len(old) + 1}
          /\ cell[Len(old) + 1] = o /\ \A i \in DOMAIN old : cell[i] = old[i]
          /\ cell \in Seq(Range(cell)) \ {<<>>}
      BY <1>3, <2>2, AppendShape
    <3>2. Len(old) \in Nat /\ Len(cell) = Len(old) + 1
      BY <1>3, <2>2, LenProperties, AppendProperties
    <3> HIDE DEF cell
    <3>3. CellKept(old, cell)
      BY <1>3, <3>1, <3>2 DEF CellKept, ObservationOK
    <3> QED
      BY <1>3, <3>1, <3>3
  <2> QED
    BY <1>3, <2>1, <2>2, AddedShape
<1> HIDE DEF cell
<1> QED
  BY <1>1, <1>2, <1>3, <1>4, <1>5, CellWritten

\* Evidence added to the observation at i.
LEMMA EvidenceShape ==
  ASSUME NEW cell, cell \in Seq(Range(cell)), \A i \in DOMAIN cell : ObservationOK(cell[i]),
         NEW i \in DOMAIN cell, NEW new, new = [cell EXCEPT ![i].evidence = @ + 1]
  PROVE  /\ new \in Seq(Range(new)) \ {<<>>}
         /\ \A j \in DOMAIN new : ObservationOK(new[j])
         /\ CellKept(cell, new)
<1> DEFINE o == cell[i]
           more == [o EXCEPT !.evidence = @ + 1]
<1>1. Len(cell) \in Nat /\ DOMAIN cell = 1 .. Len(cell)
  BY LenProperties
<1>2. /\ DOMAIN more = DOMAIN o /\ IsMap(more) /\ more.evidence = o.evidence + 1
      /\ o.evidence \in Nat /\ "evidence" \in DOMAIN o
      /\ [more EXCEPT !.evidence = 0] = [o EXCEPT !.evidence = 0]
  BY DEF ObservationOK, IsMap
<1>3. new = [cell EXCEPT ![i] = more]
  OBVIOUS
<1> HIDE DEF more
<1>4. ObservationOK(more)
  BY <1>2 DEF ObservationOK
<1>5. /\ DOMAIN new = DOMAIN cell /\ new[i] = more
      /\ \A j \in DOMAIN cell \ {i} : new[j] = cell[j]
  BY <1>3
<1>6. new \in Seq(Range(new)) /\ Len(new) = Len(cell)
  <2>1. new \in [1 .. Len(cell) -> Range(new)]
    <3>1. new = [j \in 1 .. Len(cell) |-> new[j]]
      BY <1>1, <1>3
    <3>2. \A j \in 1 .. Len(cell) : new[j] \in Range(new)
      BY <1>1, <1>5 DEF Range
    <3> HIDE DEF o
    <3> QED
      BY <3>1, <3>2
  <2>2. new \in Seq(Range(new))
    BY <1>1, <2>1, FunctionIsSeq
  <2>3. Len(new) \in Nat /\ DOMAIN new = 1 .. Len(new)
    BY <2>2, LenProperties
  <2>4. Len(new) = Len(cell)
    BY <1>1, <1>5, <2>3
  <2> QED
    BY <2>2, <2>4
<1>7. new # <<>>
  BY <1>1, <1>5
<1>8. CellKept(cell, new)
  <2>1. ASSUME NEW j \in DOMAIN cell
        PROVE  /\ [new[j] EXCEPT !.evidence = 0] = [cell[j] EXCEPT !.evidence = 0]
               /\ new[j].evidence >= cell[j].evidence
    <3>1. CASE j = i
      <4>1. new[j] = more /\ cell[j] = o
        BY <1>5, <3>1
      <4> HIDE DEF o
      <4> QED
        BY <1>2, <4>1
    <3>2. CASE j # i
      <4>1. new[j] = cell[j]
        BY <1>5, <3>2
      <4>2. cell[j].evidence \in Nat
        BY DEF ObservationOK
      <4> QED
        BY <4>1, <4>2
    <3> QED
      BY <3>1, <3>2
  <2> QED
    BY <1>1, <1>6, <2>1 DEF CellKept
<1> QED
  BY <1>4, <1>5, <1>6, <1>7, <1>8

LEMMA AttachKeeps ==
  ASSUME NEW d, DocumentOK(d), NEW r, NEW p \in MemberIds \X MemberIds, NEW index,
         MayAttach(d, r, p, index), NEW n, n = Attached(d, r, p, index), Loads(n)
  PROVE  DocumentOK(n) /\ Kept(d, n) /\ (Separate(d) => Separate(n))
<1> DEFINE cells == d.relations[r].cells
           old == cells[p]
           i == IF index = None THEN Len(old) ELSE index
           new == [old EXCEPT ![i].evidence = @ + 1]
<1>1. /\ r \in DOMAIN d.relations /\ p \in DOMAIN cells /\ Cell(d, r, p) = old
      /\ IF index = None THEN old # <<>> ELSE index \in DOMAIN old
  BY DEF MayAttach, Cell
<1>2. old \in Seq(Range(old)) \ {<<>>} /\ \A j \in DOMAIN old : ObservationOK(old[j])
  BY <1>1, CellsOK
<1>3. i \in DOMAIN old
  <2>1. Len(old) \in Nat /\ DOMAIN old = 1 .. Len(old)
    BY <1>2, LenProperties
  <2>2. Len(old) # 0
    BY <1>2, EmptySeq
  <2> QED
    BY <1>1, <2>1, <2>2
<1>4. n = [d EXCEPT !.relations[r].cells = [cells EXCEPT ![p] = new]]
  BY <1>1 DEF Attached
<1> HIDE DEF new
<1>5. n = [d EXCEPT !.relations[r].cells = With(cells, p, new)]
  <2>1. With(cells, p, new) = [cells EXCEPT ![p] = new]
    BY <1>1, WithExisting
  <2> HIDE DEF cells
  <2> QED
    BY <1>4, <2>1
<1> USE DEF new
<1> HIDE DEF i
<1>6. /\ new \in Seq(Range(new)) \ {<<>>}
      /\ \A j \in DOMAIN new : ObservationOK(new[j])
      /\ CellKept(old, new)
  BY <1>2, <1>3, EvidenceShape
<1> HIDE DEF new
<1> QED
  BY <1>1, <1>5, <1>6, CellWritten

-----------------------------------------------------------------------------
(* A roster that is a no-op *)

\* The content a spec gives a member.
SameContent(member, spec) ==
  member.weight = spec.weight /\ member.token = spec.token /\ member.source = spec.source

\* A member in use that has the content of its entry is what the entry makes of it.
LEMMA ListedUnchanged ==
  ASSUME NEW ms, NEW m \in DOMAIN ms, MemberOK(ms[m]), ms[m].status = "active", NEW spec,
         SameContent(ms[m], spec)
  PROVE  Listed(ms, m, spec) = ms[m]
<1> DEFINE old == ms[m]
           new == [old EXCEPT !.weight = spec.weight, !.token = spec.token,
                              !.source = spec.source]
<1>1. Listed(ms, m, spec) = new
  BY DEF Listed
<1>2. old = [x \in DOMAIN old |-> old[x]]
  BY DEF MemberOK, IsRecord, IsMap
<1>3. DOMAIN new = DOMAIN old /\ \A x \in DOMAIN old : new[x] = old[x]
  BY DEF SameContent
<1>4. new = [x \in DOMAIN new |-> new[x]]
  OBVIOUS
<1> HIDE DEF new, old
<1>5. new = old
  BY <1>2, <1>3, <1>4
<1> QED
  BY <1>1, <1>5 DEF old

\* What an entry makes of a member in use has the entry's content.
LEMMA ListedContent ==
  ASSUME NEW ms, NEW m \in DOMAIN ms, MemberOK(ms[m]), ms[m].status = "active", NEW spec
  PROVE  SameContent(Listed(ms, m, spec), spec)
<1>1. DOMAIN ms[m] = {"weight", "token", "source", "status", "successor"}
  BY DEF MemberOK, IsRecord
<1> QED
  BY <1>1 DEF Listed, SameContent

LEMMA RetiredUnchanged ==
  ASSUME NEW member, MemberOK(member)
  PROVE  [member EXCEPT !.status = "deprecated"] = member <=> member.status = "deprecated"
<1> DEFINE new == [member EXCEPT !.status = "deprecated"]
<1>1. member = [x \in DOMAIN member |-> member[x]] /\ new.status = "deprecated"
  BY DEF MemberOK, IsRecord, IsMap
<1>2. new = [x \in DOMAIN new |-> new[x]] /\ DOMAIN new = DOMAIN member
  OBVIOUS
<1>3. member.status = "deprecated" => \A x \in DOMAIN member : new[x] = member[x]
  OBVIOUS
<1> HIDE DEF new
<1>4. new = member <=> member.status = "deprecated"
  BY <1>1, <1>2, <1>3
<1> QED
  BY <1>4 DEF new

LEMMA EntryShape ==
  ASSUME NEW roster, NEW m, NEW n \in Nat, NEW i
  PROVE  i \in Entries(roster, m, n) <=> i \in 1 .. n /\ roster[i].id = m
  BY DEF Entries

\* An entry is settled when its member is in use and has its content.
Settled(ms, spec) ==
  spec.id \in DOMAIN ms /\ ms[spec.id].status = "active" /\ SameContent(ms[spec.id], spec)

\* In a roster that finds every member as it lists it, every entry is settled:
\* the first for a member finds the member itself, a later one what an entry
\* that is settled has made of it.
LEMMA NoopEntries ==
  ASSUME NEW d, DocumentOK(d), NEW e \in DOMAIN d.dimensions, NEW roster \in Rosters,
         SyncIsNoop(d, e, roster)
  PROVE  \A i \in DOMAIN roster : Settled(d.dimensions[e].members, roster[i])
<1> DEFINE ms == d.dimensions[e].members
           Bad == {i \in DOMAIN roster : ~ Settled(ms, roster[i])}
<1>1. Len(roster) \in Nat /\ DOMAIN roster = 1 .. Len(roster)
  BY RosterShape
<1>2. Members(d, e) = ms /\ \A m \in DOMAIN ms : MemberOK(ms[m])
  BY DEF Members, Declared, DocumentOK, DimensionOK
<1>3. SUFFICES ASSUME Bad # {} PROVE FALSE
  OBVIOUS
<1> DEFINE i == Min(Bad)
<1>4. i \in Bad /\ \A j \in Bad : i <= j
  <2>1. Bad \in SUBSET (1 .. Len(roster))
    BY <1>1
  <2> HIDE DEF Bad
  <2> QED
    BY <1>1, <1>3, <2>1, MinOfSome
<1> HIDE DEF i
<1>5. i \in 1 .. Len(roster) /\ i - 1 \in Nat /\ ~ Settled(ms, roster[i])
  BY <1>1, <1>4
<1> DEFINE spec == roster[i]
           m == spec.id
           before == After(ms, roster, i - 1)
<1>6. m \in DOMAIN before /\ before[m].status = "active" /\ ~ ContentDiffers(before[m], spec)
  BY <1>1, <1>2, <1>5 DEF SyncIsNoop
<1>7. SameContent(before[m], spec)
  BY <1>6 DEF ContentDiffers, SameContent
<1>8. CASE Entries(roster, m, i - 1) = {}
  <2>1. m \in DOMAIN ms
    BY <1>6, <1>8 DEF After, Entries
  <2>2. i \in Entries(roster, m, Len(roster))
    BY <1>1, <1>5, EntryShape
  <2>3. before[m] = ms[m]
    BY <1>6, <1>8, <2>2 DEF After
  <2> QED
    BY <1>5, <1>6, <1>7, <2>1, <2>3 DEF Settled
<1>9. CASE Entries(roster, m, i - 1) # {}
  <2> DEFINE j == Max(Entries(roster, m, i - 1))
  <2>1. j \in 1 .. i - 1 /\ roster[j].id = m
    BY <1>5, <1>9, LastEntry
  <2> HIDE DEF j
  <2>2. Settled(ms, roster[j])
    BY <1>1, <1>4, <1>5, <2>1
  <2>3. m \in DOMAIN ms /\ ms[m].status = "active" /\ SameContent(ms[m], roster[j])
    BY <2>1, <2>2 DEF Settled
  <2>4. before[m] = Listed(ms, m, roster[j])
    BY <1>6, <1>9 DEF After, j
  <2>5. before[m] = ms[m]
    BY <1>2, <2>3, <2>4, ListedUnchanged
  <2> QED
    BY <1>5, <1>7, <2>3, <2>5 DEF Settled
<1> QED
  BY <1>8, <1>9

\* A write of what is there already.
LEMMA SameMembers ==
  ASSUME NEW d, DocumentOK(d), NEW e \in DOMAIN d.dimensions, NEW ms
  PROVE  [d EXCEPT !.dimensions[e].members = ms] = d <=> ms = d.dimensions[e].members
<1> DEFINE dimension == [d.dimensions[e] EXCEPT !.members = ms]
           dims == [d.dimensions EXCEPT ![e] = dimension]
           n == [d EXCEPT !.dimensions = dims]
<1>1. /\ IsMap(d) /\ IsMap(d.dimensions) /\ IsMap(d.dimensions[e])
      /\ "dimensions" \in DOMAIN d /\ "members" \in DOMAIN d.dimensions[e]
  BY DEF DocumentOK, IsDocument, DimensionOK, IsRecord
<1>2. ASSUME ms = d.dimensions[e].members PROVE n = d
  <2>1. dimension = d.dimensions[e]
    BY <1>1, <1>2 DEF IsMap
  <2> HIDE DEF dimension
  <2>2. dims = d.dimensions
    BY <1>1, <2>1 DEF IsMap
  <2> HIDE DEF dims
  <2> QED
    BY <1>1, <2>2 DEF IsMap
<1>3. ASSUME n = d PROVE ms = d.dimensions[e].members
  <2>1. n.dimensions = dims
    BY <1>1
  <2>2. dims[e] = dimension
    OBVIOUS
  <2>3. dimension.members = ms
    BY <1>1
  <2> HIDE DEF n, dims, dimension
  <2> QED
    BY <1>3, <2>1, <2>2, <2>3
<1>4. n = [d EXCEPT !.dimensions[e].members = ms]
  OBVIOUS
<1> HIDE DEF n
<1> QED
  BY <1>2, <1>3, <1>4

LEMMA NoopKeeps ==
  ASSUME NEW d, DocumentOK(d), NEW e \in DOMAIN d.dimensions, NEW roster \in Rosters,
         SyncIsNoop(d, e, roster)
  PROVE  Synced(d, e, roster) = d
<1> DEFINE ms == d.dimensions[e].members
           last == Len(roster)
           next == After(ms, roster, last)
<1>1. last \in Nat /\ DOMAIN roster = 1 .. last
  BY RosterShape
<1>2. /\ Members(d, e) = ms /\ ms = [m \in DOMAIN ms |-> ms[m]]
      /\ \A m \in DOMAIN ms : MemberOK(ms[m])
  BY DEF Members, Declared, DocumentOK, DimensionOK, IsMap
<1>3. \A i \in DOMAIN roster : Settled(ms, roster[i])
  BY NoopEntries
<1>4. \A m \in DOMAIN ms : Entries(roster, m, last) # {} \/ ms[m].status = "deprecated"
  BY <1>2 DEF SyncIsNoop
<1> HIDE DEF last
<1>5. DOMAIN next = DOMAIN ms
  <2>1. \A i \in 1 .. last : roster[i].id \in DOMAIN ms
    BY <1>1, <1>3 DEF Settled
  <2> QED
    BY <2>1 DEF After
<1>6. ASSUME NEW m \in DOMAIN ms PROVE next[m] = ms[m]
  <2>1. CASE Entries(roster, m, last) # {}
    <3> DEFINE i == Max(Entries(roster, m, last))
    <3>1. i \in DOMAIN roster /\ roster[i].id = m
      BY <1>1, <2>1, LastEntry
    <3>2. next[m] = Listed(ms, m, roster[i])
      BY <1>5, <2>1 DEF After
    <3> HIDE DEF i
    <3>3. ms[m].status = "active" /\ SameContent(ms[m], roster[i])
      BY <1>3, <3>1 DEF Settled
    <3> QED
      BY <1>2, <3>2, <3>3, ListedUnchanged
  <2>2. CASE Entries(roster, m, last) = {}
    <3>1. next[m] = [ms[m] EXCEPT !.status = "deprecated"]
      BY <1>5, <2>2 DEF After, last
    <3>2. ms[m].status = "deprecated"
      BY <1>4, <2>2
    <3> QED
      BY <1>2, <3>1, <3>2, RetiredUnchanged
  <2> QED
    BY <2>1, <2>2
<1>7. next = [m \in DOMAIN next |-> next[m]]
  BY DEF After
<1> HIDE DEF next
<1>8. next = ms
  BY <1>2, <1>5, <1>6, <1>7
<1>9. Synced(d, e, roster) = [d EXCEPT !.dimensions[e].members = next]
  BY DEF Synced, next, last
<1> QED
  BY <1>8, <1>9, SameMembers

LEMMA UnchangedIsNoop ==
  ASSUME NEW d, DocumentOK(d), NEW e \in DOMAIN d.dimensions, NEW roster \in Rosters,
         Synced(d, e, roster) = d,
         \A i, j \in DOMAIN roster : roster[i].id = roster[j].id => i = j
  PROVE  SyncIsNoop(d, e, roster)
<1> DEFINE ms == d.dimensions[e].members
           last == Len(roster)
           next == After(ms, roster, last)
<1>1. last \in Nat /\ DOMAIN roster = 1 .. last
  BY RosterShape
<1>2. Members(d, e) = ms /\ \A m \in DOMAIN ms : MemberOK(ms[m])
  BY DEF Members, Declared, DocumentOK, DimensionOK
<1>3. next = ms
  <2>1. [d EXCEPT !.dimensions[e].members = next] = d
    BY DEF Synced
  <2> HIDE DEF next
  <2> QED
    BY <2>1, SameMembers
<1>4. /\ \A i \in 1 .. last : roster[i].id \in DOMAIN ms
      /\ \A m \in DOMAIN ms :
           ms[m] = IF Entries(roster, m, last) # {}
                   THEN Listed(ms, m, roster[Max(Entries(roster, m, last))])
                   ELSE [ms[m] EXCEPT !.status = "deprecated"]
  <2>1. /\ DOMAIN next = DOMAIN ms \cup {roster[i].id : i \in 1 .. last}
        /\ \A m \in DOMAIN next :
             next[m] = IF Entries(roster, m, last) # {}
                       THEN Listed(ms, m, roster[Max(Entries(roster, m, last))])
                       ELSE [ms[m] EXCEPT !.status = "deprecated"]
    BY DEF After
  <2> HIDE DEF next
  <2> QED
    BY <1>3, <2>1
<1>5. \A m \in DOMAIN ms : Entries(roster, m, last) # {} \/ ms[m].status = "deprecated"
  BY <1>2, <1>4, RetiredUnchanged
<1>6. ASSUME NEW i \in DOMAIN roster
      PROVE  LET before == After(ms, roster, i - 1)
                 m == roster[i].id
             IN  /\ m \in DOMAIN before /\ before[m].status = "active"
                 /\ ~ ContentDiffers(before[m], roster[i])
  <2> DEFINE m == roster[i].id
             before == After(ms, roster, i - 1)
  <2>1. i \in 1 .. last /\ i - 1 \in Nat /\ m \in DOMAIN ms
    BY <1>1, <1>4
  <2>2. Entries(roster, m, last) = {i} /\ Entries(roster, m, i - 1) = {}
    <3>1. \A j \in 1 .. last : roster[j].id = m => j = i
      BY <1>1
    <3> QED
      BY <2>1, <3>1 DEF Entries
  <2>3. before[m] = ms[m] /\ m \in DOMAIN before
    BY <2>1, <2>2 DEF After
  <2>4. ms[m] = Listed(ms, m, roster[i])
    <3>1. Max({i}) = i
      BY <2>1 DEF Max
    <3> QED
      BY <1>4, <2>1, <2>2, <3>1
  <2>5. ms[m].status = "active"
    <3>1. MemberOK(ms[m])
      BY <1>2, <2>1
    <3>2. CASE ms[m].status = "deprecated"
      BY <2>4, <3>2 DEF Listed, MemberFrom
    <3>3. CASE ms[m].status # "deprecated"
      BY <3>1, <3>3 DEF MemberOK, Statuses
    <3> QED
      BY <3>2, <3>3
  <2>6. SameContent(ms[m], roster[i])
    BY <1>2, <2>1, <2>4, <2>5, ListedContent
  <2> HIDE DEF m, before
  <2>7. ~ ContentDiffers(before[m], roster[i])
    BY <2>3, <2>6 DEF ContentDiffers, SameContent
  <2> QED
    BY <2>3, <2>5, <2>7 DEF m, before
<1> QED
  BY <1>1, <1>2, <1>5, <1>6 DEF SyncIsNoop

-----------------------------------------------------------------------------
(* The inductive invariant *)

EngineInv == writes \in 0 .. MaxWrites /\ DocumentOK(doc) /\ Figures(doc)

WellWritten(d, n) == DocumentOK(n) /\ Kept(d, n) /\ (Separate(d) => Separate(n))

LEMMA AcceptKeeps ==
  ASSUME EngineInv, NEW n, Accept(n), WellWritten(doc, n), Figures(n)
  PROVE  EngineInv' /\ Kept(doc, doc') /\ (Separate(doc) => Separate(doc'))
<1>1. doc' = n /\ writes' = writes + 1 /\ writes < MaxWrites
  BY DEF Accept
<1>2. writes' \in 0 .. MaxWrites
  BY <1>1, EngineAssumption DEF EngineInv
<1> QED
  BY <1>1, <1>2 DEF EngineInv, WellWritten

\* A write adds at most one relation, and no levels but those of a scale it declares,
\* no chain but that of a contraction it declares.
LEMMA FiguresKept ==
  ASSUME NEW d, Figures(d), NEW n,
         \E r : DOMAIN n.relations \subseteq DOMAIN d.relations \cup {r},
         \/ n.scales = d.scales
         \/ \E spec \in ScaleSpecs : n.scales = With(d.scales, spec.id, spec.levels),
         \/ n.contractions = d.contractions
         \/ \E spec \in ContractionSpecs : \E x :
              x.chain = spec.chain /\ n.contractions = With(d.contractions, spec.id, x)
  PROVE  Figures(n)
<1>1. IsFiniteSet(DOMAIN n.relations)
  <2>1. PICK r : DOMAIN n.relations \subseteq DOMAIN d.relations \cup {r}
    OBVIOUS
  <2>2. IsFiniteSet(DOMAIN d.relations \cup {r})
    BY FS_AddElement DEF Figures
  <2> QED BY <2>1, <2>2, FS_Subset
<1>2. \A s \in DOMAIN n.scales : LevelsOK(n.scales[s])
  <2>1. CASE n.scales = d.scales
    BY <2>1 DEF Figures
  <2>2. ASSUME NEW spec \in ScaleSpecs, n.scales = With(d.scales, spec.id, spec.levels),
               NEW s \in DOMAIN n.scales
        PROVE  LevelsOK(n.scales[s])
    <3>1. LevelsOK(spec.levels)
      BY EngineAssumption
    <3>2. n.scales[s] = IF s = spec.id THEN spec.levels ELSE d.scales[s]
      BY <2>2 DEF With
    <3>3. s # spec.id => s \in DOMAIN d.scales
      BY <2>2 DEF With
    <3> QED BY <3>1, <3>2, <3>3 DEF Figures
  <2> QED BY <2>1, <2>2
<1>3. \A c \in DOMAIN n.contractions : n.contractions[c].chain \in Seq(Range(n.contractions[c].chain))
  <2>1. CASE n.contractions = d.contractions
    BY <2>1 DEF Figures
  <2>2. ASSUME NEW spec \in ContractionSpecs, NEW x, x.chain = spec.chain,
               n.contractions = With(d.contractions, spec.id, x), NEW c \in DOMAIN n.contractions
        PROVE  n.contractions[c].chain \in Seq(Range(n.contractions[c].chain))
    <3>1. spec.chain \in Seq(Range(spec.chain))
      BY EngineAssumption
    <3>2. n.contractions[c] = IF c = spec.id THEN x ELSE d.contractions[c]
      BY <2>2 DEF With
    <3>3. c # spec.id => c \in DOMAIN d.contractions
      BY <2>2 DEF With
    <3>4. \A y \in DOMAIN d.contractions : d.contractions[y].chain \in Seq(Range(d.contractions[y].chain))
      BY DEF Figures
    <3> QED BY <2>2, <3>1, <3>2, <3>3, <3>4
  <2> QED BY <2>1, <2>2
<1> QED BY <1>1, <1>2, <1>3 DEF Figures

LEMMA FiguresWritten ==
  ASSUME NEW d, IsDocument(d), Figures(d)
  PROVE  /\ \A spec : Figures(Registered(d, spec))
         /\ \A spec \in ScaleSpecs : Figures(Scaled(d, spec))
         /\ \A spec : Figures(Related(d, spec))
         /\ \A spec \in ContractionSpecs : Figures(Contracted(d, spec))
         /\ \A e, roster : Figures(Synced(d, e, roster))
         /\ \A e, spec : Figures(Proposed(d, e, spec))
         /\ \A r, from, to, o : Figures(Observed(d, r, from, to, o))
         /\ \A r, p, index : Figures(Attached(d, r, p, index))
         /\ \A target, successor : Figures(Deprecated(d, target, successor))
<1>1. /\ \A x : [d EXCEPT !.dimensions = x].relations = d.relations
      /\ \A x : [d EXCEPT !.dimensions = x].scales = d.scales
      /\ \A x : [d EXCEPT !.contractions = x].relations = d.relations
      /\ \A x : [d EXCEPT !.contractions = x].scales = d.scales
      /\ \A x : [d EXCEPT !.relations = x].scales = d.scales
      /\ \A x : [d EXCEPT !.relations = x].relations = x
      /\ \A x : [d EXCEPT !.scales = x].relations = d.relations
      /\ \A x : [d EXCEPT !.scales = x].scales = x
      /\ \A x : [d EXCEPT !.dimensions = x].contractions = d.contractions
      /\ \A x : [d EXCEPT !.relations = x].contractions = d.contractions
      /\ \A x : [d EXCEPT !.scales = x].contractions = d.contractions
      /\ \A x : [d EXCEPT !.contractions = x].contractions = x
  BY DEF IsDocument
<1>2. ASSUME NEW x PROVE Figures([d EXCEPT !.dimensions = x])
  BY <1>1, FiguresKept
<1>3. ASSUME NEW x, NEW r, DOMAIN x \subseteq DOMAIN d.relations \cup {r}
      PROVE Figures([d EXCEPT !.relations = x])
  BY <1>1, <1>3, FiguresKept
<1>4. ASSUME NEW spec PROVE Figures(Registered(d, spec))
  BY <1>2 DEF Registered
<1>5. ASSUME NEW spec \in ScaleSpecs PROVE Figures(Scaled(d, spec))
  <2> DEFINE n == Scaled(d, spec)
  <2>1. /\ n.relations = d.relations /\ n.contractions = d.contractions
        /\ n.scales = With(d.scales, spec.id, spec.levels)
    BY <1>1 DEF Scaled
  <2> HIDE DEF n
  <2>2. Figures(n)
    BY <2>1, FiguresKept
  <2> QED BY <2>2 DEF n
<1>6. ASSUME NEW spec PROVE Figures(Related(d, spec))
  BY <1>3 DEF Related, With
<1>7. ASSUME NEW spec \in ContractionSpecs PROVE Figures(Contracted(d, spec))
  <2>1. PICK x : x.chain = spec.chain /\ Contracted(d, spec) = [d EXCEPT !.contractions = With(d.contractions, spec.id, x)]
    BY DEF Contracted, IsDocument
  <2> DEFINE n == Contracted(d, spec)
  <2>2. /\ n.relations = d.relations /\ n.scales = d.scales
        /\ n.contractions = With(d.contractions, spec.id, x)
    BY <1>1, <2>1
  <2> HIDE DEF n
  <2>3. Figures(n)
    BY <2>1, <2>2, FiguresKept
  <2> QED BY <2>3 DEF n
<1>8. ASSUME NEW e, NEW roster PROVE Figures(Synced(d, e, roster))
  BY <1>2 DEF Synced
<1>9. ASSUME NEW e, NEW spec PROVE Figures(Proposed(d, e, spec))
  BY <1>2 DEF Proposed
<1>10. ASSUME NEW r, NEW from, NEW to, NEW o PROVE Figures(Observed(d, r, from, to, o))
  BY <1>3 DEF Observed
<1>11. ASSUME NEW r, NEW p, NEW index PROVE Figures(Attached(d, r, p, index))
  BY <1>3 DEF Attached
<1>12. ASSUME NEW target, NEW successor PROVE Figures(Deprecated(d, target, successor))
  BY <1>2, <1>3 DEF Deprecated
<1> QED BY <1>4, <1>5, <1>6, <1>7, <1>8, <1>9, <1>10, <1>11, <1>12

\* A step is a write, and every write keeps the document in order.
LEMMA WriteKeeps ==
  ASSUME EngineInv, Next
  PROVE  EngineInv' /\ Kept(doc, doc') /\ (Separate(doc) => Separate(doc'))
<1>1. DocumentOK(doc) /\ IsDocument(doc) /\ Figures(doc)
  BY DEF EngineInv, DocumentOK
<1>2. CASE \E spec \in DimensionSpecs : RegisterDimension(spec)
  <2>1. PICK spec \in DimensionSpecs : Accept(Registered(doc, spec))
    BY <1>2 DEF RegisterDimension
  <2>2. Loads(Registered(doc, spec)) /\ spec.id \in DimensionIds
    BY <2>1, EngineAssumption DEF Accept
  <2>3. WellWritten(doc, Registered(doc, spec))
    BY <1>1, <2>2, RegisterKeeps DEF WellWritten
  <2> QED
    BY <1>1, <2>1, <2>3, AcceptKeeps, FiguresWritten
<1>3. CASE \E spec \in ScaleSpecs : DeclareScale(spec)
  <2>1. PICK spec \in ScaleSpecs : Accept(Scaled(doc, spec))
    BY <1>3 DEF DeclareScale
  <2>2. Loads(Scaled(doc, spec))
    BY <2>1 DEF Accept
  <2>3. WellWritten(doc, Scaled(doc, spec))
    BY <1>1, <2>2, ScaleKeeps DEF WellWritten
  <2> QED
    BY <1>1, <2>1, <2>3, AcceptKeeps, FiguresWritten
<1>4. CASE \E spec \in RelationSpecs : DeclareRelation(spec)
  <2>1. PICK spec \in RelationSpecs : MayRelate(doc, spec) /\ Accept(Related(doc, spec))
    BY <1>4 DEF DeclareRelation
  <2>2. Loads(Related(doc, spec))
    BY <2>1 DEF Accept
  <2>3. WellWritten(doc, Related(doc, spec))
    BY <1>1, <2>1, <2>2, RelateKeeps DEF WellWritten
  <2> QED
    BY <1>1, <2>1, <2>3, AcceptKeeps, FiguresWritten
<1>5. CASE \E spec \in ContractionSpecs : DeclareContraction(spec)
  <2>1. PICK spec \in ContractionSpecs : Accept(Contracted(doc, spec))
    BY <1>5 DEF DeclareContraction
  <2>2. Loads(Contracted(doc, spec))
    BY <2>1 DEF Accept
  <2>3. WellWritten(doc, Contracted(doc, spec))
    BY <1>1, <2>2, ContractKeeps DEF WellWritten
  <2> QED
    BY <1>1, <2>1, <2>3, AcceptKeeps, FiguresWritten
<1>6. CASE \E d \in DimensionIds, roster \in Rosters : SyncMembers(d, roster)
  <2>1. PICK d \in DimensionIds, roster \in Rosters :
          MaySync(doc, d, roster) /\ Accept(Synced(doc, d, roster))
    BY <1>6 DEF SyncMembers
  <2>2. Loads(Synced(doc, d, roster))
    BY <2>1 DEF Accept
  <2>3. WellWritten(doc, Synced(doc, d, roster))
    BY <1>1, <2>1, <2>2, SyncKeeps DEF WellWritten
  <2> QED
    BY <1>1, <2>1, <2>3, AcceptKeeps, FiguresWritten
<1>7. CASE \E d \in DimensionIds, spec \in MemberSpecs : ProposeMember(d, spec)
  <2>1. PICK d \in DimensionIds, spec \in MemberSpecs :
          MayPropose(doc, d, spec) /\ Accept(Proposed(doc, d, spec))
    BY <1>7 DEF ProposeMember
  <2>2. Loads(Proposed(doc, d, spec)) /\ SpecOK(spec)
    BY <2>1, EngineAssumption DEF Accept
  <2>3. WellWritten(doc, Proposed(doc, d, spec))
    BY <1>1, <2>1, <2>2, ProposeKeeps DEF WellWritten
  <2> QED
    BY <1>1, <2>1, <2>3, AcceptKeeps, FiguresWritten
<1>8. CASE \E cell \in ObservedCells, o \in Observations :
             Observe(cell[1], cell[2], cell[3], o)
  <2>1. PICK cell \in ObservedCells, o \in Observations :
          /\ MayObserve(doc, cell[1], cell[2], cell[3], o)
          /\ Accept(Observed(doc, cell[1], cell[2], cell[3], o))
    BY <1>8 DEF Observe
  <2>2. Loads(Observed(doc, cell[1], cell[2], cell[3], o)) /\ ObservationOK(o)
    BY <2>1, EngineAssumption DEF Accept
  <2>3. WellWritten(doc, Observed(doc, cell[1], cell[2], cell[3], o))
    BY <1>1, <2>1, <2>2, ObserveKeeps DEF WellWritten
  <2> QED
    BY <1>1, <2>1, <2>3, AcceptKeeps, FiguresWritten
<1>9. CASE \E cell \in ObservedCells, index \in {None, 1} :
             AttachEvidence(cell[1], <<cell[2], cell[3]>>, index)
  <2>1. PICK cell \in ObservedCells, index \in {None, 1} :
          /\ MayAttach(doc, cell[1], <<cell[2], cell[3]>>, index)
          /\ Accept(Attached(doc, cell[1], <<cell[2], cell[3]>>, index))
    BY <1>9 DEF AttachEvidence
  <2> DEFINE p == <<cell[2], cell[3]>>
  <2>2. Loads(Attached(doc, cell[1], p, index)) /\ p \in MemberIds \X MemberIds
    BY <2>1, EngineAssumption DEF Accept
  <2> HIDE DEF p
  <2>3. MayAttach(doc, cell[1], p, index) /\ Accept(Attached(doc, cell[1], p, index))
    BY <2>1 DEF p
  <2>4. WellWritten(doc, Attached(doc, cell[1], p, index))
    BY <1>1, <2>2, <2>3, AttachKeeps DEF WellWritten
  <2> QED
    BY <1>1, <2>3, <2>4, AcceptKeeps, FiguresWritten
<1>10. CASE \E x \in Retirements : Deprecate(x[1], x[2])
  <2>1. PICK x \in Retirements :
          MayDeprecate(doc, x[1], x[2]) /\ Accept(Deprecated(doc, x[1], x[2]))
    BY <1>10 DEF Deprecate
  <2>2. Loads(Deprecated(doc, x[1], x[2]))
    BY <2>1 DEF Accept
  <2>3. WellWritten(doc, Deprecated(doc, x[1], x[2]))
    <3>1. CASE x[1] \in DOMAIN doc.relations
      BY <1>1, <2>2, <3>1, RetireRelationKeeps DEF WellWritten
    <3>2. CASE x[1] \notin DOMAIN doc.relations
      BY <1>1, <2>1, <2>2, <3>2, RetireMemberKeeps DEF WellWritten
    <3> QED
      BY <3>1, <3>2
  <2> QED
    BY <1>1, <2>1, <2>3, AcceptKeeps, FiguresWritten
<1> QED
  BY <1>2, <1>3, <1>4, <1>5, <1>6, <1>7, <1>8, <1>9, <1>10 DEF Next

LEMMA DocumentKept == ASSUME NEW d, DocumentOK(d) PROVE Kept(d, d)
  BY SameRelations

LEMMA EngineInvInit == Init => EngineInv
  BY EngineAssumption DEF Init, EngineInv

LEMMA EngineInvNext == EngineInv /\ [Next]_vars => EngineInv'
<1>1. ASSUME EngineInv, Next PROVE EngineInv'
  BY <1>1, WriteKeeps
<1>2. ASSUME EngineInv, UNCHANGED vars PROVE EngineInv'
  BY <1>2 DEF EngineInv, vars
<1> QED
  BY <1>1, <1>2

LEMMA EngineInvHolds == Spec => []EngineInv
<1> QED
  BY EngineInvInit, EngineInvNext, PTL DEF Spec

-----------------------------------------------------------------------------
(* Searches *)

ClosedUnder(edges, S) == \A e \in edges : e[1] \in S => e[2] \in S

\* The nodes at the end of an edge from n.
NextTo(edges, n) == {e[2] : e \in {f \in edges : f[1] = n}}

\* Members between which there are edges, finitely many.
EdgesOK(edges) == IsFiniteSet(MemberIds) /\ edges \subseteq MemberIds \X MemberIds

LEMMA ClosureDefined ==
  ASSUME NEW edges, EdgesOK(edges), NEW n
  PROVE  \E f : /\ f \in [SUBSET MemberIds -> SUBSET MemberIds]
                /\ Reached(edges, n) = f[NextTo(edges, n)]
                /\ \A from \in SUBSET MemberIds :
                     f[from] = IF Extended(edges, from) = from THEN from
                               ELSE f[Extended(edges, from)]
<1> DEFINE D == SUBSET MemberIds
           R == {z \in D \X D : z[2] \subseteq z[1] /\ z[1] # z[2]}
           Base == {from \in D : Extended(edges, from) = from}
           p == [from \in D |-> Extended(edges, from)]
           b == [from \in D |-> from]
           h == [z \in D \X D |-> z[2]]
           a == [from \in D |-> Cardinality(MemberIds \ from)]
           zero == [from \in D |-> 0]
<1>1. ASSUME NEW from \in D PROVE Extended(edges, from) \in D /\ from \subseteq Extended(edges, from)
  BY DEF Extended, EdgesOK
<1>2. IsWellFoundedOn(R, D)
  <2>1. ASSUME NEW x \in D, NEW y \in D, <<x, y>> \in R PROVE a[x] < a[y]
    <3>1. MemberIds \ x \in SUBSET (MemberIds \ y) /\ MemberIds \ x # MemberIds \ y
      BY <2>1
    <3>2. Cardinality(MemberIds \ x) < Cardinality(MemberIds \ y)
      BY <3>1, SmallerCardinality DEF EdgesOK
    <3> QED BY <3>2
  <2>2. a \in [D -> Nat]
    BY FS_Subset, FS_CardinalityType DEF EdgesOK
  <2>3. zero \in [D -> Nat]
    OBVIOUS
  <2> HIDE DEF D, R, a, zero
  <2> QED BY <2>1, <2>2, <2>3, LexWellFounded
<1>3. \A from \in D \ Base : p[from] \in D /\ <<p[from], from>> \in R
  BY <1>1
<1>4. \A from \in D \cap Base : b[from] \in D
  OBVIOUS
<1>5. \A from \in D \ Base : \A v \in D : h[<<from, v>>] \in D
  OBVIOUS
<1>6. WellDefined(D, D, R, Base, p, b, h)
  <2> HIDE DEF D, R, Base, p, b, h
  <2> QED BY <1>2, <1>3, <1>4, <1>5 DEF WellDefined
<1>7. PICK f : Solves(f, D, D, Base, p, b, h)
  <2> HIDE DEF D, R, Base, p, b, h
  <2> QED BY <1>6, RecursionExists
<1>8. f \in [D -> D]
  BY <1>7 DEF Solves
<1>9. ASSUME NEW from \in D
      PROVE f[from] = IF Extended(edges, from) = from THEN from ELSE f[Extended(edges, from)]
  <2>1. CASE from \in Base
    BY <1>7, <2>1 DEF Solves
  <2>2. CASE from \notin Base
    <3>1. f[from] = h[<<from, f[p[from]]>>] /\ p[from] \in D /\ p[from] = Extended(edges, from)
      BY <1>3, <1>7, <2>2 DEF Solves
    <3>2. f[p[from]] \in D
      <4> HIDE DEF D, p, h, b
      <4> QED BY <1>8, <3>1
    <3>3. f[from] = f[p[from]]
      <4> HIDE DEF D, p, b
      <4> QED BY <3>1, <3>2
    <3> QED BY <2>2, <3>1, <3>3
  <2> QED BY <2>1, <2>2
<1> DEFINE closure[from \in SUBSET MemberIds] ==
             IF Extended(edges, from) = from THEN from ELSE closure[Extended(edges, from)]
<1>10. f = [from \in SUBSET MemberIds |->
              IF Extended(edges, from) = from THEN from ELSE f[Extended(edges, from)]]
  BY <1>8, <1>9
<1>11. closure = [from \in SUBSET MemberIds |->
              IF Extended(edges, from) = from THEN from ELSE closure[Extended(edges, from)]]
  <2> HIDE <1>7, <1>8, <1>9
  <2> HIDE DEF D, R, Base, p, b, h, a, zero
  <2> QED BY <1>10, Zenon
<1>12. Reached(edges, n) = closure[NextTo(edges, n)]
  BY DEF Reached, NextTo
<1> HIDE DEF closure
<1>13. ASSUME NEW from \in D
       PROVE closure[from] = IF Extended(edges, from) = from THEN from
                             ELSE closure[Extended(edges, from)]
  BY <1>11
<1>14. \A from \in D : closure[from] = f[from]
  <2> DEFINE Bad == {from \in D : closure[from] # f[from]}
  <2>1. SUFFICES ASSUME Bad # {} PROVE FALSE
    OBVIOUS
  <2>2. PICK from \in Bad : \A other \in Bad : <<other, from>> \notin R
    <3>1. Bad \subseteq D
      OBVIOUS
    <3> HIDE DEF Bad, D, R
    <3> QED BY <1>2, <2>1, <3>1, WFMin
  <2>3. Extended(edges, from) # from
    BY <1>9, <1>13
  <2>4. Extended(edges, from) \in Bad
    BY <1>1, <1>9, <1>13, <2>3
  <2>5. <<Extended(edges, from), from>> \in R
    BY <1>1, <2>3
  <2> QED BY <2>2, <2>4, <2>5
<1>15. NextTo(edges, n) \in D
  BY DEF NextTo, EdgesOK
<1> QED BY <1>8, <1>9, <1>12, <1>14, <1>15

\* Reached is the least set that holds the next nodes and what is next to its own.
LEMMA ReachedIsLeast ==
  ASSUME NEW edges, EdgesOK(edges), NEW n
  PROVE  /\ Reached(edges, n) \in SUBSET MemberIds
         /\ NextTo(edges, n) \subseteq Reached(edges, n)
         /\ ClosedUnder(edges, Reached(edges, n))
         /\ \A C : NextTo(edges, n) \subseteq C /\ ClosedUnder(edges, C)
                   => Reached(edges, n) \subseteq C
<1>1. PICK f : /\ f \in [SUBSET MemberIds -> SUBSET MemberIds]
               /\ Reached(edges, n) = f[NextTo(edges, n)]
               /\ \A from \in SUBSET MemberIds :
                     f[from] = IF Extended(edges, from) = from THEN from
                               ELSE f[Extended(edges, from)]
  BY ClosureDefined
<1> DEFINE D == SUBSET MemberIds
           R == {z \in D \X D : z[2] \subseteq z[1] /\ z[1] # z[2]}
           least(from) == /\ from \subseteq f[from] /\ ClosedUnder(edges, f[from])
                          /\ \A C : from \subseteq C /\ ClosedUnder(edges, C) => f[from] \subseteq C
           Bad == {from \in D : ~ least(from)}
<1>2. ASSUME Bad # {} PROVE FALSE
  <2>1. PICK from \in Bad : \A other \in Bad : ~ (from \subseteq other /\ from # other)
    <3> DEFINE P == {MemberIds \ x : x \in Bad}
               S == StrictSubsetOrdering(MemberIds)
    <3>1. IsWellFoundedOn(S, SUBSET MemberIds)
      BY FS_FiniteSubsetsOfFinite, FS_StrictSubsetOrderingWellFounded DEF EdgesOK
    <3>2. P \subseteq SUBSET MemberIds /\ P # {}
      BY <1>2
    <3>3. PICK T \in P : \A U \in P : <<U, T>> \notin S
      <4> HIDE DEF P, S
      <4> QED BY <3>1, <3>2, WFMin
    <3>4. PICK from \in Bad : T = MemberIds \ from
      OBVIOUS
    <3>5. ASSUME NEW other \in Bad, from \subseteq other, from # other PROVE FALSE
      <4>1. MemberIds \ other \in P /\ MemberIds \ other \subseteq T /\ MemberIds \ other # T
        BY <3>4, <3>5
      <4> QED BY <3>2, <3>3, <4>1 DEF StrictSubsetOrdering
    <3> QED BY <3>5
  <2>2. from \in D /\ ~ least(from)
    OBVIOUS
  <2>3. Extended(edges, from) \in D /\ from \subseteq Extended(edges, from)
    BY <2>2 DEF Extended, EdgesOK
  <2>4. CASE Extended(edges, from) = from
    <3>1. f[from] = from
      BY <1>1, <2>2, <2>4
    <3>2. ClosedUnder(edges, from)
      BY <2>4 DEF Extended, ClosedUnder
    <3> QED BY <2>2, <3>1, <3>2
  <2>5. CASE Extended(edges, from) # from
    <3>1. f[from] = f[Extended(edges, from)]
      BY <1>1, <2>2, <2>5
    <3>2. least(Extended(edges, from))
      BY <2>1, <2>3, <2>5
    <3>3. ASSUME NEW C, from \subseteq C, ClosedUnder(edges, C) PROVE Extended(edges, from) \subseteq C
      BY <3>3 DEF Extended, ClosedUnder
    <3> QED BY <2>2, <2>3, <3>1, <3>2, <3>3
  <2> QED BY <2>4, <2>5
<1>3. NextTo(edges, n) \in D
  BY DEF NextTo, EdgesOK
<1>4. least(NextTo(edges, n))
  BY <1>2, <1>3
<1> QED BY <1>1, <1>3, <1>4

\* A loop leads its first node back to itself.
LEMMA LoopIsReached ==
  ASSUME NEW edges, EdgesOK(edges), NEW nodes, NEW loop,
         IsLoop(nodes, Adjacency(edges), loop), DOMAIN Adjacency(edges) = nodes
  PROVE  /\ loop # <<>> /\ IsCycle(edges, loop)
         /\ loop[1] \in nodes /\ loop[1] \in Reached(edges, loop[1])
<1> DEFINE adj == Adjacency(edges)
           R == Reached(edges, loop[1])
           after(i) == IF i = Len(loop) THEN loop[1] ELSE loop[i + 1]
<1>1. /\ loop # <<>> /\ loop \in Seq(nodes) /\ Len(loop) \in Nat \ {0}
      /\ DOMAIN loop = 1 .. Len(loop) /\ 1 \in DOMAIN loop /\ loop[1] \in nodes
  BY EmptySeq, LenProperties DEF IsLoop
<1>2. \A i \in DOMAIN loop : after(i) \in adj[loop[i]] /\ loop[i] \in nodes
  BY <1>1 DEF IsLoop
<1>3. \A n \in nodes : adj[n] = NextTo(edges, n)
  BY DEF Adjacency, NextTo
<1>4. \A i \in DOMAIN loop : <<loop[i], after(i)>> \in edges
  <2> TAKE i \in DOMAIN loop
  <2>1. after(i) \in NextTo(edges, loop[i])
    BY <1>2, <1>3
  <2>2. PICK e \in edges : e[1] = loop[i] /\ e[2] = after(i)
    BY <2>1 DEF NextTo
  <2>3. e = <<e[1], e[2]>>
    BY DEF EdgesOK
  <2> QED BY <2>2, <2>3
<1>5. IsCycle(edges, loop)
  BY <1>4 DEF IsCycle, IsLoop, IsInjective
<1>6. NextTo(edges, loop[1]) \subseteq R /\ ClosedUnder(edges, R)
  BY ReachedIsLeast
<1>7. after(1) \in R
  BY <1>1, <1>2, <1>3, <1>6
<1> HIDE DEF R, adj
<1>8. \A i \in DOMAIN loop : after(i) \in R
  <2> DEFINE Bad == {i \in DOMAIN loop : after(i) \notin R}
  <2>1. SUFFICES ASSUME Bad # {} PROVE FALSE
    OBVIOUS
  <2>2. PICK i \in Bad : \A j \in Bad : i <= j
    <3>1. Bad \in SUBSET Nat
      BY <1>1
    <3> HIDE DEF Bad
    <3> QED BY <2>1, <3>1, LeastNatural
  <2>3. i \in DOMAIN loop /\ after(i) \notin R /\ i # 1
    BY <1>7
  <2>4. i - 1 \in DOMAIN loop /\ i - 1 < i /\ after(i - 1) = loop[i]
    BY <1>1, <2>3
  <2>5. loop[i] \in R
    <3>1. i - 1 \notin Bad
      BY <1>1, <2>2, <2>4
    <3> HIDE DEF after
    <3> QED BY <2>4, <3>1
  <2>6. <<loop[i], after(i)>> \in edges
    BY <1>4, <2>3
  <2> HIDE DEF after
  <2> QED BY <1>6, <2>3, <2>5, <2>6 DEF ClosedUnder
<1>9. after(Len(loop)) = loop[1] /\ Len(loop) \in DOMAIN loop
  BY <1>1
<1> QED BY <1>1, <1>5, <1>8, <1>9 DEF R

LEMMA SearchIsExact ==
  ASSUME NEW edges, EdgesOK(edges)
  PROVE  LET found == FindCycle(Adjacency(edges))
         IN  IF \E n \in MemberIds : n \in Reached(edges, n)
             THEN found # <<>> /\ IsCycle(edges, found)
             ELSE found = <<>>
<1> DEFINE adj == Adjacency(edges)
           nodes == DOMAIN adj
           found == FindCycle(adj)
<1>1. nodes \subseteq MemberIds /\ \A n \in nodes : adj[n] = NextTo(edges, n) /\ adj[n] \in SUBSET nodes
  BY DEF Adjacency, NextTo, EdgesOK
<1>2. GraphOK(nodes, adj)
  <2>1. IsFiniteSet(nodes)
    BY <1>1, FS_Subset DEF EdgesOK
  <2> HIDE DEF adj
  <2> QED BY <1>1, <2>1 DEF GraphOK
<1>3. SearchAnswer(nodes, adj, found)
  <2> HIDE DEF adj
  <2> QED BY <1>2, FindCycleAnswers
<1>4. CASE IsLoop(nodes, adj, found)
  <2>1. found # <<>> /\ IsCycle(edges, found) /\ found[1] \in nodes /\ found[1] \in Reached(edges, found[1])
    <3> HIDE DEF found
    <3> QED BY <1>4, LoopIsReached
  <2>2. found[1] \in MemberIds
    BY <1>1, <2>1
  <2> QED BY <2>1, <2>2
<1>5. CASE found = <<>> /\ \A n \in nodes : OffCycle(nodes, adj, n)
  <2>1. ASSUME NEW n \in MemberIds PROVE n \notin Reached(edges, n)
    <3>1. CASE n \in nodes
      <4>1. PICK C \in SUBSET nodes : adj[n] \subseteq C /\ n \notin C /\ \A m \in C : adj[m] \subseteq C
        BY <1>5, <3>1 DEF OffCycle
      <4>2. NextTo(edges, n) \subseteq C
        BY <1>1, <3>1, <4>1
      <4>3. ClosedUnder(edges, C)
        BY <1>1, <4>1 DEF ClosedUnder, NextTo
      <4> QED BY <4>1, <4>2, <4>3, ReachedIsLeast
    <3>2. CASE n \notin nodes
      <4>1. NextTo(edges, n) = {}
        BY <3>2 DEF NextTo, Adjacency
      <4>2. ClosedUnder(edges, {})
        BY DEF ClosedUnder
      <4> QED BY <4>1, <4>2, ReachedIsLeast
    <3> QED BY <3>1, <3>2
  <2> QED BY <1>5, <2>1
<1> HIDE DEF adj, found
<1> QED BY <1>3, <1>4, <1>5 DEF SearchAnswer, adj, found

-----------------------------------------------------------------------------
(* The effective view *)

\* The view has the relations of the document, each with cells of its own.
LEMMA EffectiveShape ==
  ASSUME NEW d, IsDocument(d), NEW eff, eff = Effective(d)
  PROVE  /\ eff.dimensions = d.dimensions /\ eff.scales = d.scales
         /\ DOMAIN eff.relations = DOMAIN d.relations
         /\ \A r \in DOMAIN d.relations :
              /\ eff.relations[r].from = d.relations[r].from
              /\ eff.relations[r].to = d.relations[r].to
              /\ eff.relations[r].type = d.relations[r].type
              /\ eff.relations[r].scale = d.relations[r].scale
              /\ eff.relations[r].status = d.relations[r].status
              /\ DOMAIN eff.relations[r].cells
                   = {p \in DOMAIN d.relations[r].cells : Confirmed(d.relations[r].cells[p]) # {}}
              /\ \A p \in DOMAIN eff.relations[r].cells :
                   eff.relations[r].cells[p] = Accepted(d.relations[r].cells[p])
<1> DEFINE cells(rel) == [p \in {q \in DOMAIN rel.cells : Confirmed(rel.cells[q]) # {}} |->
                            Accepted(rel.cells[p])]
           relations == [r \in DOMAIN d.relations |->
                           [d.relations[r] EXCEPT !.cells = cells(d.relations[r])]]
<1>1. eff = [d EXCEPT !.relations = relations]
  BY DEF Effective
<1>2. /\ eff.dimensions = d.dimensions /\ eff.scales = d.scales /\ eff.relations = relations
  <2> HIDE DEF relations
  <2> QED BY <1>1 DEF IsDocument
<1>3. ASSUME NEW r \in DOMAIN d.relations
      PROVE  /\ relations[r].from = d.relations[r].from /\ relations[r].to = d.relations[r].to
             /\ relations[r].type = d.relations[r].type /\ relations[r].scale = d.relations[r].scale
             /\ relations[r].status = d.relations[r].status
             /\ relations[r].cells = cells(d.relations[r])
  <2> DEFINE rel == d.relations[r]
  <2>1. relations[r] = [rel EXCEPT !.cells = cells(rel)]
    OBVIOUS
  <2>2. DOMAIN rel = {"from", "to", "type", "scale", "policy", "status", "successor", "cells"}
    BY DEF IsDocument
  <2> HIDE DEF rel, relations, cells
  <2>3. /\ relations[r].from = rel.from /\ relations[r].to = rel.to
        /\ relations[r].type = rel.type /\ relations[r].scale = rel.scale
        /\ relations[r].status = rel.status /\ relations[r].cells = cells(rel)
    BY <2>1, <2>2
  <2> QED BY <2>3 DEF rel
<1>4. DOMAIN relations = DOMAIN d.relations
  OBVIOUS
<1> HIDE DEF relations
<1> QED BY <1>2, <1>3, <1>4

\* An accepted cell is a list as long as its confirmed observations are many.
LEMMA AcceptedShape ==
  ASSUME NEW cell, cell \in Seq(Range(cell))
  PROVE  /\ IsFiniteSet(Confirmed(cell)) /\ Confirmed(cell) \in SUBSET (1 .. Len(cell))
         /\ DOMAIN Accepted(cell) = 1 .. Cardinality(Confirmed(cell))
         /\ Cardinality(Confirmed(cell)) \in Nat
<1>1. DOMAIN cell = 1 .. Len(cell) /\ Len(cell) \in Nat
  BY LenProperties
<1>2. Confirmed(cell) \in SUBSET (1 .. Len(cell)) /\ Confirmed(cell) \subseteq DOMAIN cell
  BY <1>1 DEF Confirmed
<1>3. IsFiniteSet(Confirmed(cell)) /\ Cardinality(Confirmed(cell)) \in Nat
  <2>1. IsFiniteSet(1 .. Len(cell))
    BY <1>1, FS_Interval
  <2>2. IsFiniteSet(Confirmed(cell))
    BY <1>2, <2>1, FS_Subset
  <2> QED BY <2>2, FS_CardinalityType
<1>4. DOMAIN Restrict(cell, Confirmed(cell)) = Confirmed(cell)
  BY DEF Restrict
<1>5. DOMAIN Accepted(cell) = 1 .. Cardinality(Confirmed(cell))
  BY <1>4 DEF Accepted, InTurn
<1> QED BY <1>2, <1>3, <1>5

-----------------------------------------------------------------------------
(* Values *)

\* The values of a scale's tokens are numbers up to Units, the largest among them.
LEMMA ValueShape ==
  ASSUME NEW d, NEW s, s \in DOMAIN d.scales => LevelsOK(d.scales[s])
  PROVE  /\ IsFiniteSet(Tokens(d, s))
         /\ \A t \in Tokens(d, s) :
              /\ Value(d, s, t) \in Int /\ Value(d, s, t) <= Units
              /\ LargestValue(d, s) \in Int /\ LargestValue(d, s) <= Units
              /\ Value(d, s, t) <= LargestValue(d, s)
<1>1. CASE s \notin DOMAIN d.scales
  <2>1. Tokens(d, s) = {}
    BY <1>1 DEF Tokens
  <2> QED BY <2>1, FS_EmptySet
<1>2. CASE s \in DOMAIN d.scales
  <2> DEFINE levels == d.scales[s]
             T == Tokens(d, s)
             v == [t \in T |-> Value(d, s, t)]
             V == {Value(d, s, t) : t \in T}
  <2>1. /\ levels \in Seq(Range(levels)) /\ DOMAIN levels = 1 .. Len(levels) /\ Len(levels) \in Nat
        /\ \A i \in DOMAIN levels : levels[i].value \in Int /\ levels[i].value <= Units
    BY <1>2, LenProperties DEF LevelsOK
  <2>2. T = {levels[i].token : i \in DOMAIN levels}
    BY <1>2 DEF Tokens
  <2>3. IsFiniteSet(T)
    <3> DEFINE f == [i \in DOMAIN levels |-> levels[i].token]
    <3>1. IsFiniteSet(DOMAIN levels)
      BY <2>1, FS_Interval
    <3>2. T = {f[i] : i \in DOMAIN levels}
      BY <2>2
    <3> HIDE DEF f, T, levels
    <3> QED BY <3>1, <3>2, FiniteImage
  <2>4. ASSUME NEW t \in T PROVE Value(d, s, t) \in Int /\ Value(d, s, t) <= Units
    <3>1. \E i \in DOMAIN levels : levels[i].token = t
      BY <2>2
    <3>2. Level(d, s, t) \in DOMAIN levels
      BY <3>1 DEF Level
    <3> QED BY <2>1, <3>2 DEF Value
  <2>5. IsFiniteSet(V) /\ V \subseteq Int
    <3>1. V = {v[t] : t \in T}
      OBVIOUS
    <3>2. IsFiniteSet(V)
      <4> HIDE DEF V, v, T
      <4> QED BY <2>3, <3>1, FiniteImage
    <3> QED BY <2>4, <3>2
  <2>6. ASSUME NEW t \in T
        PROVE  /\ LargestValue(d, s) \in Int /\ LargestValue(d, s) <= Units
               /\ Value(d, s, t) <= LargestValue(d, s)
    <3>1. LargestValue(d, s) = Max(V)
      BY DEF LargestValue
    <3>2. V # {} /\ Value(d, s, t) \in V
      OBVIOUS
    <3>3. Max(V) \in V /\ \A j \in V : j <= Max(V)
      <4> HIDE DEF V
      <4> QED BY <2>5, <3>2, MaxOfInts
    <3> QED BY <2>4, <2>5, <3>1, <3>2, <3>3
  <2> QED BY <2>3, <2>4, <2>6
<1> QED BY <1>1, <1>2

\* The value of a cell is a number, and one of the scale's if it is positive.
LEMMA StrongestShape ==
  ASSUME NEW d, NEW r, NEW p, LET s == d.relations[r].scale
                              IN  s \in DOMAIN d.scales => LevelsOK(d.scales[s]),
         IsFiniteSet(DOMAIN d.relations[r].cells[p])
  PROVE  LET s == d.relations[r].scale
             v == Strongest(d, r, p)
         IN  /\ v \in Int
             /\ v > 0 => /\ \E t \in Tokens(d, s) : v = Value(d, s, t)
                         /\ LargestValue(d, s) \in Int
                         /\ v <= LargestValue(d, s) /\ LargestValue(d, s) <= Units
<1> DEFINE s == d.relations[r].scale
           cell == d.relations[r].cells[p]
           f == [i \in DOMAIN cell |-> cell[i].token]
           known == {cell[i].token : i \in DOMAIN cell} \cap Tokens(d, s)
           v == [t \in known |-> Value(d, s, t)]
           V == {Value(d, s, t) : t \in known}
<1>1. IsFiniteSet(known)
  <2>1. {cell[i].token : i \in DOMAIN cell} = {f[i] : i \in DOMAIN cell}
    OBVIOUS
  <2>2. IsFiniteSet({f[i] : i \in DOMAIN cell})
    <3> HIDE DEF f, cell
    <3> QED BY FiniteImage DEF cell
  <2> QED BY <2>1, <2>2, FS_Subset
<1>2. IsFiniteSet(V)
  <2>1. V = {v[t] : t \in known}
    OBVIOUS
  <2> HIDE DEF V, v, known
  <2> QED BY <1>1, <2>1, FiniteImage
<1>3. ASSUME NEW t \in Tokens(d, s)
      PROVE  /\ Value(d, s, t) \in Int
             /\ LargestValue(d, s) \in Int /\ LargestValue(d, s) <= Units
             /\ Value(d, s, t) <= LargestValue(d, s)
  BY ValueShape
<1>4. V \subseteq Int
  BY <1>3
<1>5. Strongest(d, r, p) = IF known = {} THEN 0 ELSE Max(V)
  BY DEF Strongest
<1>6. known # {} => Max(V) \in V
  <2>1. known # {} => V # {}
    OBVIOUS
  <2> HIDE DEF V, known
  <2> QED BY <1>2, <1>4, <2>1, MaxOfInts
<1>7. known = {} => Strongest(d, r, p) = 0
  BY <1>5
<1>8. ASSUME known # {}
      PROVE  \E t \in Tokens(d, s) : Strongest(d, r, p) = Value(d, s, t)
  <2>1. Strongest(d, r, p) \in V
    BY <1>5, <1>6, <1>8
  <2> QED BY <2>1
<1> HIDE DEF known, s
<1> QED BY <1>3, <1>7, <1>8 DEF s

-----------------------------------------------------------------------------
(* Tensions *)

\* What a force counts for: more than nothing, since Units go up to its scale.
LEMMA PartPositive ==
  ASSUME NEW v \in Int, NEW l \in Int, NEW u \in Nat, 0 < v, v <= l, l <= u
  PROVE  (v * u) \div l \in Nat /\ (v * u) \div l > 0
<1>1. v * u \in Int /\ v * u >= u
  <2>1. PICK w \in Nat : v = w + 1
    <3>1. v - 1 \in Nat /\ v = (v - 1) + 1
      OBVIOUS
    <3> QED BY <3>1
  <2>2. v * u = w * u + u /\ w * u \in Nat
    BY <2>1
  <2> QED BY <2>2
<1> DEFINE n == v * u
<1>2. n \in Int /\ n >= l /\ l > 0
  BY <1>1
<1> HIDE DEF n
<1>3. n \div l \in Int /\ n \div l >= 1
  BY <1>2
<1> QED BY <1>3 DEF n

\* The forces of one valence on a member, as the cells that end on it.
ForceCells(d, m, type) ==
  {x \in ActiveRelations(d) \X (ActiveMembers(d) \X {m}) :
     /\ d.relations[x[1]].type = type
     /\ x[2] \in DOMAIN d.relations[x[1]].cells
     /\ Strongest(d, x[1], x[2]) > 0}

\* What the loader checked, and the writes kept, holds of the effective view.
ViewFigures(eff) ==
  /\ \A e \in DOMAIN eff.dimensions : DimensionOK(eff.dimensions[e])
  /\ IsFiniteSet(DOMAIN eff.relations)
  /\ \A s \in DOMAIN eff.scales : LevelsOK(eff.scales[s])
  /\ \A r \in DOMAIN eff.relations :
       /\ DOMAIN eff.relations[r].cells \subseteq MemberIds \X MemberIds
       /\ CellsResolve(eff, eff.relations[r])
       /\ \A p \in DOMAIN eff.relations[r].cells :
            IsFiniteSet(DOMAIN eff.relations[r].cells[p])

ViewOK(eff) == ViewFigures(eff) /\ Separate(eff)

LEMMA EffectiveOK ==
  ASSUME NEW d, DocumentOK(d), Figures(d)
  PROVE  ViewFigures(Effective(d)) /\ (Separate(d) => ViewOK(Effective(d)))
<1> DEFINE eff == Effective(d)
<1>1. IsDocument(d) /\ Loads(d)
  BY DEF DocumentOK
<1>2. /\ eff.dimensions = d.dimensions /\ eff.scales = d.scales
      /\ DOMAIN eff.relations = DOMAIN d.relations
      /\ \A r \in DOMAIN d.relations :
           /\ eff.relations[r].from = d.relations[r].from
           /\ eff.relations[r].to = d.relations[r].to
           /\ DOMAIN eff.relations[r].cells \subseteq DOMAIN d.relations[r].cells
           /\ \A p \in DOMAIN eff.relations[r].cells :
                eff.relations[r].cells[p] = Accepted(d.relations[r].cells[p])
  <2> HIDE DEF eff
  <2> QED BY <1>1, EffectiveShape DEF eff
<1> HIDE DEF eff
<1>3. /\ \A e \in DOMAIN eff.dimensions : DimensionOK(eff.dimensions[e])
      /\ IsFiniteSet(DOMAIN eff.relations)
      /\ \A s \in DOMAIN eff.scales : LevelsOK(eff.scales[s])
  BY <1>2 DEF DocumentOK, Figures
<1>4. \A e : Members(eff, e) = Members(d, e)
  BY <1>2 DEF Members, Declared
<1>5. \A e : MembersOf(eff, e) = MembersOf(d, e)
  BY <1>4 DEF MembersOf
<1>6. Separate(d) => Separate(eff)
  BY <1>2, <1>5 DEF Separate
<1>7. ASSUME NEW r \in DOMAIN eff.relations
      PROVE  /\ DOMAIN eff.relations[r].cells \subseteq MemberIds \X MemberIds
             /\ CellsResolve(eff, eff.relations[r])
             /\ \A p \in DOMAIN eff.relations[r].cells :
                  IsFiniteSet(DOMAIN eff.relations[r].cells[p])
  <2>1. r \in DOMAIN d.relations /\ RelationOK(d.relations[r]) /\ CellsResolve(d, d.relations[r])
    BY <1>1, <1>2 DEF DocumentOK, Loads
  <2>2. DOMAIN eff.relations[r].cells \subseteq MemberIds \X MemberIds
    BY <1>2, <2>1 DEF RelationOK
  <2>3. CellsResolve(eff, eff.relations[r])
    BY <1>2, <1>5, <2>1 DEF CellsResolve
  <2>4. ASSUME NEW p \in DOMAIN eff.relations[r].cells
        PROVE  IsFiniteSet(DOMAIN eff.relations[r].cells[p])
    <3> DEFINE cell == d.relations[r].cells[p]
    <3>1. cell \in Seq(Range(cell)) /\ eff.relations[r].cells[p] = Accepted(cell)
      BY <1>1, <1>2, <2>1 DEF IsDocument
    <3> HIDE DEF cell
    <3>2. DOMAIN Accepted(cell) = 1 .. Cardinality(Confirmed(cell)) /\ Cardinality(Confirmed(cell)) \in Nat
      BY <3>1, AcceptedShape
    <3>3. IsFiniteSet(1 .. Cardinality(Confirmed(cell)))
      BY <3>2, FS_Interval
    <3> QED BY <3>1, <3>2, <3>3
  <2> QED BY <2>2, <2>3, <2>4
<1>8. ViewFigures(eff) /\ (Separate(d) => ViewOK(eff))
  BY <1>3, <1>6, <1>7 DEF ViewFigures, ViewOK
<1> QED BY <1>8 DEF eff

\* A force counts for something, and is one by a member that is in use.
LEMMA ForceShape ==
  ASSUME NEW d, ViewOK(d), NEW m \in ActiveMembers(d), NEW type \in {"supports", "opposes"}
  PROVE  /\ IsFiniteSet(ForceCells(d, m, type))
         /\ \A x \in ForceCells(d, m, type) :
              LET part == (Strongest(d, x[1], x[2]) * Units)
                             \div LargestValue(d, d.relations[x[1]].scale)
              IN  part \in Nat /\ part > 0
         /\ {<<x[1], x[2][1]>> : x \in ForceCells(d, m, type)}
              = {y \in Forces(d, m) : Opposes(d.relations[y[1]].type) = (type = "opposes")}
<1> DEFINE cells == ForceCells(d, m, type)
<1>1. IsFiniteSet(cells)
  <2>1. IsFiniteSet(ActiveRelations(d)) /\ IsFiniteSet(ActiveMembers(d))
    BY FS_Subset, EngineAssumption DEF ViewFigures, ViewOK, ActiveRelations, ActiveMembers
  <2>2. IsFiniteSet(ActiveMembers(d) \X {m})
    BY <2>1, FS_Singleton, FS_Product
  <2>3. IsFiniteSet(ActiveRelations(d) \X (ActiveMembers(d) \X {m}))
    BY <2>1, <2>2, FS_Product
  <2> QED BY <2>3, FS_Subset DEF ForceCells
<1>2. ASSUME NEW x \in cells
      PROVE  LET part == (Strongest(d, x[1], x[2]) * Units)
                           \div LargestValue(d, d.relations[x[1]].scale)
             IN  part \in Nat /\ part > 0
  <2> DEFINE v == Strongest(d, x[1], x[2])
             l == LargestValue(d, d.relations[x[1]].scale)
  <2>1. /\ x[1] \in DOMAIN d.relations /\ x[2] \in DOMAIN d.relations[x[1]].cells /\ v > 0
    BY DEF ForceCells, ActiveRelations
  <2>2. v \in Int /\ l \in Int /\ v <= l /\ l <= Units
    BY <2>1, StrongestShape DEF ViewFigures, ViewOK
  <2> HIDE DEF v, l
  <2>3. (v * Units) \div l \in Nat /\ (v * Units) \div l > 0
    BY <2>1, <2>2, PartPositive, EngineAssumption
  <2> QED BY <2>3 DEF v, l
<1> DEFINE retired == {n \in MemberIds : \E e \in DOMAIN d.dimensions :
                         n \in MembersOf(d, e) /\ Members(d, e)[n].status = "deprecated"}
           F == {y \in Forces(d, m) : Opposes(d.relations[y[1]].type) = (type = "opposes")}
<1>3. ActiveMembers(d) \cap retired = {}
  <2> SUFFICES ASSUME NEW n \in ActiveMembers(d), n \in retired PROVE FALSE
    OBVIOUS
  <2>1. PICK e \in DOMAIN d.dimensions : n \in MembersOf(d, e) /\ Members(d, e)[n].status = "active"
    BY DEF ActiveMembers
  <2>2. PICK f \in DOMAIN d.dimensions : n \in MembersOf(d, f) /\ Members(d, f)[n].status = "deprecated"
    OBVIOUS
  <2>3. e = f
    BY <2>1, <2>2 DEF ViewFigures, ViewOK, Separate
  <2> QED BY <2>1, <2>2, <2>3
<1>4. ASSUME NEW r \in DOMAIN d.relations, NEW p \in DOMAIN d.relations[r].cells, p[1] \notin retired
      PROVE  p \in MemberIds \X MemberIds /\ p[1] \in ActiveMembers(d)
  <2> DEFINE e == d.relations[r].from
  <2>1. p \in MemberIds \X MemberIds /\ p[1] \in MembersOf(d, e)
    BY DEF ViewFigures, ViewOK, CellsResolve
  <2>2. e \in DOMAIN d.dimensions
    BY <2>1 DEF MembersOf, Members, Declared
  <2>3. Members(d, e)[p[1]].status \in Statuses
    BY <2>1, <2>2 DEF ViewFigures, ViewOK, DimensionOK, MemberOK, MembersOf, Members, Declared
  <2>4. Members(d, e)[p[1]].status # "deprecated"
    BY <1>4, <2>1, <2>2
  <2> QED BY <2>1, <2>2, <2>3, <2>4 DEF ActiveMembers, Statuses
<1>5. Forces(d, m) = {<<x[1], x[2][1]>> : x \in
         {y \in CellsInUse(d) :
            /\ y[2][2] = m /\ {y[2][1], m} \cap retired = {}
            /\ HasValence(d.relations[y[1]].type)
            /\ Strongest(d, y[1], y[2]) > 0}}
  BY DEF Forces
<1> HIDE DEF retired
<1>6. ASSUME NEW x \in cells PROVE <<x[1], x[2][1]>> \in F
  <2>1. /\ x = <<x[1], x[2]>> /\ x[1] \in ActiveRelations(d) /\ x[2][1] \in ActiveMembers(d)
        /\ x[2][2] = m /\ x[2] \in DOMAIN d.relations[x[1]].cells
        /\ Strongest(d, x[1], x[2]) > 0 /\ d.relations[x[1]].type = type
    BY DEF ForceCells
  <2>2. x \in CellsInUse(d)
    BY <2>1 DEF CellsInUse
  <2>3. HasValence(type) /\ Opposes(type) = (type = "opposes")
    BY DEF HasValence, Opposes
  <2>4. {x[2][1], m} \cap retired = {}
    BY <1>3, <2>1
  <2>5. <<x[1], x[2][1]>> \in Forces(d, m)
    BY <1>5, <2>1, <2>2, <2>3, <2>4
  <2> QED BY <2>1, <2>3, <2>5
<1>7. ASSUME NEW y \in F PROVE y \in {<<x[1], x[2][1]>> : x \in cells}
  <2>1. PICK x \in CellsInUse(d) :
           /\ y = <<x[1], x[2][1]>> /\ x[2][2] = m /\ {x[2][1], m} \cap retired = {}
           /\ HasValence(d.relations[x[1]].type) /\ Strongest(d, x[1], x[2]) > 0
    BY <1>5
  <2>2. PICK r \in ActiveRelations(d) : \E p \in DOMAIN d.relations[r].cells : x = <<r, p>>
    BY <2>1 DEF CellsInUse
  <2> DEFINE p == x[2]
  <2>3. x = <<r, p>> /\ x[1] = r /\ p \in DOMAIN d.relations[r].cells /\ r \in DOMAIN d.relations
    BY <2>2 DEF ActiveRelations
  <2>4. p[1] \notin retired
    BY <2>1, <2>3
  <2>5. p = <<p[1], p[2]>> /\ p[1] \in ActiveMembers(d) /\ p[2] = m
    BY <1>4, <2>1, <2>2, <2>3, <2>4
  <2>6. d.relations[r].type = type
    BY <2>1, <2>3 DEF HasValence, Opposes
  <2>7. x \in cells
    BY <2>1, <2>2, <2>3, <2>5, <2>6 DEF ForceCells
  <2> QED BY <2>1, <2>7
<1>8. {<<x[1], x[2][1]>> : x \in cells} = F
  BY <1>6, <1>7
<1> QED BY <1>1, <1>2, <1>8

\* What the forces of one valence on a member add up to.
Total(d, m, type) ==
  SumFunction([x \in ForceCells(d, m, type) |->
    (Strongest(d, x[1], x[2]) * Units) \div LargestValue(d, d.relations[x[1]].scale)])

LEMMA SideIsTotal ==
  ASSUME NEW d, ViewOK(d), NEW m \in ActiveMembers(d), NEW type \in {"supports", "opposes"}
  PROVE  /\ Side(d, m, type = "opposes") = Total(d, m, type)
         /\ Total(d, m, type) \in Nat
         /\ ForceCells(d, m, type) = {} => Total(d, m, type) = 0
         /\ ForceCells(d, m, type) # {} => Total(d, m, type) > 0
<1> DEFINE cells == ForceCells(d, m, type)
           largest(r) == LargestValue(d, d.relations[r].scale)
           g == [x \in cells |-> (Strongest(d, x[1], x[2]) * Units) \div largest(x[1])]
           k == [x \in cells |-> <<x[1], x[2][1]>>]
           F == {y \in Forces(d, m) : Opposes(d.relations[y[1]].type) = (type = "opposes")}
           h == [y \in F |-> (Strongest(d, y[1], <<y[2], m>>) * Units) \div largest(y[1])]
<1>1. /\ IsFiniteSet(cells)
      /\ \A x \in cells : g[x] \in Nat /\ g[x] > 0
      /\ {<<x[1], x[2][1]>> : x \in cells} = F
  BY ForceShape
<1>2. ASSUME NEW x \in cells PROVE x = <<x[1], <<x[2][1], m>>>>
  BY DEF ForceCells
<1>3. ASSUME NEW x \in cells PROVE k[x] \in F /\ g[x] = h[k[x]]
  <2>1. k[x] = <<x[1], x[2][1]>> /\ k[x] \in F
    BY <1>1
  <2>2. <<x[2][1], m>> = x[2]
    BY <1>2
  <2>3. h[k[x]] = (Strongest(d, k[x][1], <<k[x][2], m>>) * Units) \div largest(k[x][1])
    BY <2>1
  <2> HIDE DEF largest, F, k
  <2> QED BY <2>1, <2>2, <2>3
<1>4. ASSUME NEW x \in cells, NEW y \in cells, k[x] = k[y] PROVE x = y
  <2>1. x[1] = y[1] /\ x[2][1] = y[2][1]
    BY <1>4
  <2> QED BY <1>2, <2>1
<1>5. {k[x] : x \in cells} = F
  BY <1>1
<1>6. Summable(g, cells)
  BY <1>1 DEF Summable
<1>7. SumFunctionOnSet(g, cells) = SumFunctionOnSet(h, {k[x] : x \in cells})
  <2> HIDE DEF cells, g, k, F, h
  <2> QED BY <1>3, <1>4, <1>6, SumSame
<1>8. SumFunctionOnSet(g, cells) \in Nat /\ (cells # {} => SumFunctionOnSet(g, cells) > 0)
  <2> HIDE DEF cells, g
  <2> QED BY <1>1, SumPositive
<1>9. cells = {} => SumFunctionOnSet(g, cells) = 0
  <2> HIDE DEF cells, g
  <2> QED BY <1>6, SumRecursion
<1>10. Total(d, m, type) = SumFunctionOnSet(g, cells)
  <2>1. DOMAIN g = cells
    OBVIOUS
  <2>2. Total(d, m, type) = SumFunction(g)
    BY DEF Total
  <2> HIDE DEF g, cells
  <2> QED BY <2>1, <2>2 DEF SumFunction
<1>11. Side(d, m, type = "opposes") = SumFunctionOnSet(h, F)
  <2>1. DOMAIN h = F
    OBVIOUS
  <2>2. Side(d, m, type = "opposes") = SumFunction(h)
    BY DEF Side
  <2> HIDE DEF h, F
  <2> QED BY <2>1, <2>2 DEF SumFunction
<1> QED BY <1>5, <1>7, <1>8, <1>9, <1>10, <1>11

-----------------------------------------------------------------------------
(* Pages *)

\* What is defined for an offset by what it is for the next one, as long as there
\* is one within the list.
PagedBy(f, V, limit, total, b, h) ==
  /\ f \in [Nat -> V]
  /\ \A o \in Nat : f[o] = IF o + limit < total THEN h[<<o, f[o + limit]>>] ELSE b[o]

LEMMA PagedDefined ==
  ASSUME NEW V, NEW limit \in Nat \ {0}, NEW total \in Nat, NEW b, NEW h,
         \A o \in Nat : b[o] \in V, \A o \in Nat : \A v \in V : h[<<o, v>>] \in V
  PROVE  \E f : PagedBy(f, V, limit, total, b, h)
<1> DEFINE a == [o \in Nat |-> IF o < total THEN total - o ELSE 0]
           zero == [o \in Nat |-> 0]
           R == {z \in Nat \X Nat : a[z[1]] < a[z[2]]}
           Base == {o \in Nat : ~ (o + limit < total)}
           p == [o \in Nat |-> o + limit]
<1>1. IsWellFoundedOn(R, Nat)
  <2>1. a \in [Nat -> Nat] /\ zero \in [Nat -> Nat]
    OBVIOUS
  <2>2. \A x, y \in Nat : <<x, y>> \in R => a[x] < a[y]
    OBVIOUS
  <2> HIDE DEF a, zero, R
  <2> QED BY <2>1, <2>2, LexWellFounded
<1>2. ASSUME NEW o \in Nat \ Base PROVE p[o] \in Nat /\ <<p[o], o>> \in R
  <2>1. o + limit \in Nat /\ o + limit < total /\ o < total /\ total - (o + limit) < total - o
        /\ p[o] = o + limit
    OBVIOUS
  <2>2. a[o + limit] = total - (o + limit) /\ a[o] = total - o
    BY <2>1
  <2> QED BY <2>1, <2>2
<1>3. WellDefined(Nat, V, R, Base, p, b, h)
  <2>1. \A o \in Nat \cap Base : b[o] \in V
    OBVIOUS
  <2> HIDE DEF R, Base, p
  <2> QED BY <1>1, <1>2, <2>1 DEF WellDefined
<1>4. PICK f : Solves(f, Nat, V, Base, p, b, h)
  <2> HIDE DEF R, Base, p
  <2> QED BY <1>3, RecursionExists
<1>5. PagedBy(f, V, limit, total, b, h)
  BY <1>4 DEF Solves, PagedBy
<1> QED BY <1>5

\* Every page is where the one before it ends.
LEMMA PageShape ==
  ASSUME NEW S, NEW list \in Seq(S), NEW limit \in Nat \ {0}, NEW o \in Nat
  PROVE  /\ Page(list, o, limit) \in Seq(S)
         /\ o + limit < Len(list) => /\ Page(list, o, limit) = SubSeq(list, o + 1, o + limit)
                                     /\ NextCursor(o, limit, Len(list)) = o + limit
         /\ ~ (o + limit < Len(list)) => /\ Page(list, o, limit) = SubSeq(list, o + 1, Len(list))
                                         /\ NextCursor(o, limit, Len(list)) = None
<1>1. Len(list) \in Nat /\ \A i \in 1 .. Len(list) : list[i] \in S
  BY LenProperties, ElementOfSeq
<1>2. Min({o + limit, Len(list)}) = IF o + limit <= Len(list) THEN o + limit ELSE Len(list)
  BY <1>1, MinOfTwo
<1> DEFINE n == Min({o + limit, Len(list)})
<1>3. n \in Nat /\ n <= Len(list) /\ (~ (o + limit < Len(list)) => n = Len(list))
      /\ (o + limit < Len(list) => n = o + limit)
  BY <1>1, <1>2
<1> HIDE DEF n
<1>4. SubSeq(list, o + 1, n) \in Seq(S)
  <2>1. \A i \in o + 1 .. n : list[i] \in S
    BY <1>1, <1>3
  <2>2. o + 1 \in Int /\ n \in Int
    BY <1>3
  <2> QED BY <2>1, <2>2, SubSeqProperties
<1>5. Page(list, o, limit) = SubSeq(list, o + 1, n)
  BY DEF Page, n
<1> QED BY <1>3, <1>4, <1>5 DEF NextCursor

LEMMA PageWithin ==
  ASSUME NEW S, NEW list \in Seq(S), NEW limit \in Nat \ {0}, NEW o \in Nat, o + limit < Len(list)
  PROVE  /\ Page(list, o, limit) = SubSeq(list, o + 1, o + limit)
         /\ NextCursor(o, limit, Len(list)) = o + limit
<1> QED BY PageShape

LEMMA PageAtEnd ==
  ASSUME NEW S, NEW list \in Seq(S), NEW limit \in Nat \ {0}, NEW o \in Nat,
         ~ (o + limit < Len(list))
  PROVE  /\ Page(list, o, limit) \in Seq(S) /\ Page(list, o, limit) = SubSeq(list, o + 1, Len(list))
         /\ NextCursor(o, limit, Len(list)) = None
<1> QED BY PageShape

LEMMA LastOffset ==
  ASSUME NEW Bad \in SUBSET Nat, NEW total \in Nat, Bad # {}, \A o \in Bad : o <= total
  PROVE  \E o \in Bad : \A q \in Bad : q <= o
<1> DEFINE T == {n \in Nat : \E o \in Bad : n = total - o}
<1>1. PICK n \in T : \A k \in T : n <= k
  <2>1. T \in SUBSET Nat /\ T # {}
    <3>1. PICK o \in Bad : o \in Nat /\ o <= total
      OBVIOUS
    <3>2. total - o \in T
      BY <3>1
    <3> QED BY <3>2
  <2> HIDE DEF T
  <2> QED BY <2>1, LeastNatural
<1>2. PICK o \in Bad : n = total - o
  OBVIOUS
<1>3. ASSUME NEW q \in Bad PROVE q <= o
  <2>1. total - q \in T
    OBVIOUS
  <2>2. n <= total - q
    BY <1>1, <2>1
  <2> HIDE DEF T
  <2> QED BY <1>2, <2>2
<1> QED BY <1>3

\* Following the cursors gives the whole list.
LEMMA GatheredWhole ==
  ASSUME NEW S, NEW list \in Seq(S), NEW limit \in Nat \ {0}
  PROVE  Gathered(list, limit) = list
<1> DEFINE total == Len(list)
           page(o) == Page(list, o, limit)
           b == [o \in Nat |-> page(o) \o <<>>]
           h == [z \in Nat \X Seq(S) |-> page(z[1]) \o z[2]]
           next(o) == NextCursor(o, limit, Len(list))
<1>1. total \in Nat
  BY LenProperties
<1>2. None \notin Nat
  BY EngineAssumption
<1>3. \A o \in Nat : b[o] \in Seq(S)
  BY PageShape, EmptySeq, ConcatProperties
<1>4. ASSUME NEW o \in Nat, NEW v \in Seq(S) PROVE h[<<o, v>>] = page(o) \o v /\ page(o) \o v \in Seq(S)
  <2>1. page(o) \in Seq(S) /\ page(o) \o v \in Seq(S)
    BY PageShape, ConcatProperties
  <2>2. <<o, v>> \in Nat \X Seq(S)
    OBVIOUS
  <2> HIDE DEF page
  <2> QED BY <2>1, <2>2
<1>5. PICK f : PagedBy(f, Seq(S), limit, total, b, h)
  <2> HIDE DEF total, b, h
  <2> QED BY <1>1, <1>3, <1>4, PagedDefined
<1>6. ASSUME NEW o \in Nat
      PROVE  f[o] = page(o) \o IF next(o) = None THEN <<>> ELSE f[next(o)]
  <2>1. CASE o + limit < total
    <3>1. o + limit \in Nat
      OBVIOUS
    <3>2. f[o] = h[<<o, f[o + limit]>>] /\ f[o + limit] \in Seq(S)
      <4> HIDE DEF h, total, b
      <4> QED BY <1>5, <2>1, <3>1 DEF PagedBy
    <3>3. f[o] = page(o) \o f[o + limit]
      <4> HIDE DEF page, h
      <4> QED BY <1>4, <3>2
    <3>4. next(o) = o + limit /\ next(o) # None
      <4>1. next(o) = o + limit
        BY <2>1, PageShape
      <4> HIDE DEF next
      <4> QED BY <1>2, <3>1, <4>1
    <3> HIDE DEF page, next, total
    <3> QED BY <3>3, <3>4
  <2>2. CASE ~ (o + limit < total)
    <3>1. f[o] = page(o) \o <<>>
      BY <1>5, <2>2 DEF PagedBy
    <3>2. next(o) = None
      BY <2>2, PageShape
    <3> HIDE DEF page, next, total
    <3> QED BY <3>1, <3>2
  <2> QED BY <2>1, <2>2
<1>7. f \in [Nat -> Seq(S)]
  BY <1>5 DEF PagedBy
<1> DEFINE from[o \in Nat] ==
             LET n == NextCursor(o, limit, Len(list))
             IN  Page(list, o, limit) \o IF n = None THEN <<>> ELSE from[n]
<1>8. f = [o \in Nat |->
             LET n == NextCursor(o, limit, Len(list))
             IN  Page(list, o, limit) \o IF n = None THEN <<>> ELSE f[n]]
  BY <1>6, <1>7
<1>9. from = [o \in Nat |->
             LET n == NextCursor(o, limit, Len(list))
             IN  Page(list, o, limit) \o IF n = None THEN <<>> ELSE from[n]]
  <2> HIDE <1>5, <1>6, <1>7
  <2> HIDE DEF total, page, b, h, next
  <2> QED BY <1>8, Zenon
<1>10. Gathered(list, limit) = from[0]
  BY DEF Gathered
<1> HIDE DEF from
<1>11. \A o \in Nat : from[o] = page(o) \o IF next(o) = None THEN <<>> ELSE from[next(o)]
  BY <1>9
<1> DEFINE Bad == {o \in 0 .. total : from[o] # SubSeq(list, o + 1, total)}
<1>12. ASSUME Bad # {} PROVE FALSE
  <2>1. PICK o \in Bad : \A q \in Bad : q <= o
    <3>1. Bad \in SUBSET Nat /\ \A q \in Bad : q <= total
      BY <1>1
    <3> HIDE DEF Bad, total
    <3> QED BY <1>1, <1>12, <3>1, LastOffset
  <2>2. o \in Nat /\ o <= total /\ from[o] # SubSeq(list, o + 1, total)
    BY <1>1
  <2>3. CASE o + limit < total
    <3>1. next(o) = o + limit /\ page(o) = SubSeq(list, o + 1, o + limit) /\ next(o) # None
      <4>1. next(o) = o + limit /\ page(o) = SubSeq(list, o + 1, o + limit)
        <5>1. o \in Nat /\ o + limit < Len(list)
          BY <2>2, <2>3
        <5> HIDE DEF Bad
        <5> QED BY <5>1, PageWithin
      <4>2. o + limit \in Nat
        BY <2>2
      <4> HIDE DEF next, page
      <4> QED BY <1>2, <4>1, <4>2
    <3>2. o + limit \in 0 .. total /\ ~ (o + limit <= o)
      BY <1>1, <2>2, <2>3
    <3>3. o + limit \notin Bad
      <4> HIDE DEF Bad
      <4> QED BY <2>1, <3>2
    <3>4. from[o + limit] = SubSeq(list, (o + limit) + 1, total)
      BY <3>2, <3>3
    <3>5. from[o] = SubSeq(list, o + 1, o + limit) \o SubSeq(list, (o + limit) + 1, total)
      <4> HIDE DEF page, next, total
      <4> QED BY <1>11, <2>2, <3>1, <3>4
    <3>6. /\ o + 1 \in 1 .. Len(list) + 1 /\ o + limit \in (o + 1) - 1 .. Len(list)
          /\ total \in o + limit .. Len(list)
      BY <1>1, <2>2, <2>3
    <3>7. SubSeq(list, o + 1, o + limit) \o SubSeq(list, (o + limit) + 1, total)
            = SubSeq(list, o + 1, total)
      <4> HIDE DEF total
      <4> QED BY <3>6, ConcatAdjacentSubSeq
    <3> QED BY <2>2, <3>5, <3>7
  <2>4. CASE ~ (o + limit < total)
    <3>1. next(o) = None /\ page(o) = SubSeq(list, o + 1, total) /\ page(o) \in Seq(S)
      <4>1. o \in Nat /\ ~ (o + limit < Len(list))
        BY <2>2, <2>4
      <4> HIDE DEF Bad
      <4> QED BY <4>1, PageAtEnd
    <3>2. from[o] = page(o) \o <<>>
      <4> HIDE DEF page, next
      <4> QED BY <1>11, <2>2, <3>1
    <3>3. page(o) \o <<>> = page(o)
      BY <3>1, ConcatEmptySeq
    <3> QED BY <2>2, <3>1, <3>2, <3>3
  <2> QED BY <2>3, <2>4
<1>13. from[0] = SubSeq(list, 1, total)
  <2>1. 0 \in 0 .. total /\ 0 + 1 = 1
    BY <1>1
  <2>2. from[0] = SubSeq(list, 0 + 1, total)
    BY <1>12, <2>1
  <2> HIDE DEF total
  <2> QED BY <2>1, <2>2
<1> QED BY <1>10, <1>13, SubSeqFull

\* The pages of `stale' are pages, and between them they have the whole list.
IsChangedList(d, list) == list = ChangedList(Effective(d), << >>, TRUE)

LEMMA StalePagesCover ==
  ASSUME NEW d, NEW S, NEW list \in Seq(S), IsChangedList(d, list),
         NEW limit \in Nat \ {0}, NEW cellLimit
  PROVE  LET page(o) == StalePage(d, << >>, TRUE, o, limit, cellLimit)
             pages == StalePages(d, limit, cellLimit)
         IN  /\ \A g \in pages : \E o \in Nat : g = page(o)
             /\ \A i \in DOMAIN list : \E g \in pages : list[i] \in ToSet(g.changed)
<1> DEFINE total == Len(list)
           page(o) == StalePage(d, << >>, TRUE, o, limit, cellLimit)
           V == SUBSET {page(o) : o \in Nat}
           b == [o \in Nat |-> {page(o)} \cup {}]
           h == [z \in Nat \X V |-> {page(z[1])} \cup z[2]]
<1>1. total \in Nat /\ DOMAIN list = 1 .. total
  BY LenProperties
<1>2. None \notin Nat
  BY EngineAssumption
<1>3. ASSUME NEW o \in Nat
      PROVE  /\ page(o).changed = Page(list, o, limit)
             /\ page(o).next = NextCursor(o, limit, total)
  BY DEF StalePage, IsChangedList
<1> HIDE DEF page
<1>4. \A o \in Nat : b[o] \in V
  OBVIOUS
<1>5. ASSUME NEW o \in Nat, NEW v \in V PROVE h[<<o, v>>] = {page(o)} \cup v /\ {page(o)} \cup v \in V
  <2>1. {page(o)} \cup v \in V
    OBVIOUS
  <2>2. <<o, v>> \in Nat \X V
    OBVIOUS
  <2> HIDE DEF V
  <2> QED BY <2>1, <2>2
<1>6. PICK f : PagedBy(f, V, limit, total, b, h)
  <2> HIDE DEF total, b, h, V
  <2> QED BY <1>1, <1>4, <1>5, PagedDefined
<1>7. ASSUME NEW o \in Nat
      PROVE  f[o] = {page(o)} \cup IF page(o).next = None THEN {} ELSE f[page(o).next]
  <2>1. CASE o + limit < total
    <3>1. o + limit \in Nat
      OBVIOUS
    <3>2. f[o] = h[<<o, f[o + limit]>>] /\ f[o + limit] \in V
      <4> HIDE DEF h, total, b, V
      <4> QED BY <1>6, <2>1, <3>1 DEF PagedBy
    <3>3. f[o] = {page(o)} \cup f[o + limit]
      <4> HIDE DEF h, V
      <4> QED BY <1>5, <3>2
    <3>4. page(o).next = o + limit /\ page(o).next # None
      BY <1>2, <1>3, <2>1, <3>1 DEF NextCursor
    <3> QED BY <3>3, <3>4
  <2>2. CASE ~ (o + limit < total)
    <3>1. f[o] = {page(o)} \cup {}
      BY <1>6, <2>2 DEF PagedBy
    <3>2. page(o).next = None
      BY <1>3, <2>2 DEF NextCursor
    <3> QED BY <3>1, <3>2
  <2> QED BY <2>1, <2>2
<1>8. f \in [Nat -> V]
  BY <1>6 DEF PagedBy
<1> DEFINE from[o \in Nat] ==
             LET at == StalePage(d, << >>, TRUE, o, limit, cellLimit)
             IN  {at} \cup IF at.next = None THEN {} ELSE from[at.next]
<1>9. f = [o \in Nat |->
             LET at == StalePage(d, << >>, TRUE, o, limit, cellLimit)
             IN  {at} \cup IF at.next = None THEN {} ELSE f[at.next]]
  BY <1>7, <1>8 DEF page
<1>10. from = [o \in Nat |->
             LET at == StalePage(d, << >>, TRUE, o, limit, cellLimit)
             IN  {at} \cup IF at.next = None THEN {} ELSE from[at.next]]
  <2> HIDE <1>6, <1>7, <1>8
  <2> HIDE DEF total, b, h, V
  <2> QED BY <1>9, Zenon
<1>11. StalePages(d, limit, cellLimit) = from[0]
  BY DEF StalePages
<1> HIDE DEF from
<1>12. \A o \in Nat : from[o] = {page(o)} \cup IF page(o).next = None THEN {} ELSE from[page(o).next]
  BY <1>10 DEF page
<1> DEFINE covers(o) == /\ from[o] \in V
                        /\ \A i \in o + 1 .. total : \E g \in from[o] : list[i] \in ToSet(g.changed)
           Bad == {o \in 0 .. total : ~ covers(o)}
<1> HIDE DEF V
<1>13. ASSUME Bad # {} PROVE FALSE
  <2>1. PICK o \in Bad : \A q \in Bad : q <= o
    <3>1. Bad \in SUBSET Nat /\ \A q \in Bad : q <= total
      BY <1>1
    <3> HIDE DEF Bad, total
    <3> QED BY <1>1, <1>13, <3>1, LastOffset
  <2>2. o \in Nat /\ o <= total /\ ~ covers(o)
    BY <1>1
  <2>3. page(o) \in from[o]
    BY <1>12, <2>2
  <2>4. CASE o + limit < total
    <3>1. o + limit \in 0 .. total /\ o + limit \in Nat /\ ~ (o + limit <= o)
      BY <1>1, <2>2, <2>4
    <3>2. page(o).next = o + limit /\ page(o).next # None
      <4> HIDE DEF Bad
      <4> QED BY <1>2, <1>3, <2>2, <2>4, <3>1 DEF NextCursor
    <3>3. covers(o + limit)
      <4>1. o + limit \notin Bad
        <5> HIDE DEF Bad
        <5> QED BY <2>1, <3>1
      <4> HIDE DEF covers
      <4> QED BY <3>1, <4>1
    <3>4. from[o] = {page(o)} \cup from[o + limit]
      BY <1>12, <2>2, <3>2
    <3>5. from[o] \in V
      BY <2>2, <3>3, <3>4 DEF V
    <3>6. ASSUME NEW i \in o + 1 .. total PROVE \E g \in from[o] : list[i] \in ToSet(g.changed)
      <4>1. CASE i <= o + limit
        <5>1. Page(list, o, limit) = SubSeq(list, o + 1, o + limit)
          <6>1. o \in Nat /\ o + limit < Len(list)
            BY <2>2, <2>4
          <6> HIDE DEF Bad
          <6> QED BY <6>1, PageWithin
        <5>2. page(o).changed = SubSeq(list, o + 1, o + limit)
          BY <1>3, <2>2, <5>1
        <5>3. \A k \in o + 1 .. o + limit : list[k] \in S
          BY <1>1, <2>2, <2>4, ElementOfSeq
        <5>4. /\ Len(page(o).changed) = limit /\ page(o).changed \in Seq(S)
              /\ page(o).changed[i - o] = list[i]
          <6>1. /\ o + 1 \in Int /\ o + limit \in Int /\ o + 1 <= o + limit
                /\ (o + limit) - (o + 1) + 1 = limit /\ i - o \in 1 .. limit
                /\ (o + 1) + (i - o) - 1 = i
            BY <1>1, <2>2, <4>1
          <6> HIDE DEF Bad
          <6> QED BY <5>2, <5>3, <6>1, SubSeqProperties
        <5>5. i - o \in DOMAIN page(o).changed
          BY <1>1, <2>2, <4>1, <5>4, LenProperties
        <5> QED BY <2>3, <5>4, <5>5 DEF ToSet
      <4>2. CASE ~ (i <= o + limit)
        <5>1. i \in (o + limit) + 1 .. total
          BY <1>1, <2>2, <4>2
        <5> QED BY <3>3, <3>4, <5>1
      <4> QED BY <4>1, <4>2
    <3> QED BY <2>2, <3>5, <3>6
  <2>5. CASE ~ (o + limit < total)
    <3>1. page(o).next = None
      BY <1>3, <2>2, <2>5 DEF NextCursor
    <3>2. from[o] = {page(o)}
      BY <1>12, <2>2, <3>1
    <3>3. from[o] \in V
      BY <2>2, <3>2 DEF V
    <3>4. ASSUME NEW i \in o + 1 .. total PROVE list[i] \in ToSet(page(o).changed)
      <4>1. Page(list, o, limit) = SubSeq(list, o + 1, total)
        <5> HIDE DEF Bad
        <5> QED BY <2>2, <2>5, PageShape
      <4>2. page(o).changed = SubSeq(list, o + 1, total)
        BY <1>3, <2>2, <4>1
      <4>3. \A k \in o + 1 .. total : list[k] \in S
        BY <1>1, <2>2, ElementOfSeq
      <4>4. /\ Len(page(o).changed) = total - o /\ page(o).changed \in Seq(S)
            /\ page(o).changed[i - o] = list[i]
        <5>1. /\ o + 1 \in Int /\ total \in Int /\ o + 1 <= total
              /\ total - (o + 1) + 1 = total - o /\ i - o \in 1 .. total - o
              /\ (o + 1) + (i - o) - 1 = i
          BY <1>1, <2>2
        <5> HIDE DEF Bad, total
        <5> QED BY <4>2, <4>3, <5>1, SubSeqProperties
      <4>5. i - o \in DOMAIN page(o).changed
        <5>1. i - o \in 1 .. total - o
          BY <1>1, <2>2
        <5> HIDE DEF Bad, total
        <5> QED BY <4>4, <5>1, LenProperties
      <4> QED BY <4>4, <4>5 DEF ToSet
    <3> QED BY <2>2, <3>2, <3>3, <3>4
  <2> QED BY <2>4, <2>5
<1>14. covers(0)
  <2>1. 0 \in 0 .. total
    BY <1>1
  <2> HIDE DEF covers
  <2> QED BY <1>13, <2>1
<1>15. \A i \in DOMAIN list : i \in 0 + 1 .. total
  BY <1>1
<1> QED BY <1>11, <1>14, <1>15 DEF V, page

-----------------------------------------------------------------------------
(* Rolling up *)

\* A derived cell is one observation, where the effective view has no cell.
LEMMA DerivedShape ==
  ASSUME NEW d, NEW r
  PROVE  /\ DOMAIN Derived(Effective(d), r) \subseteq (MemberIds \X MemberIds) \ DOMAIN Effective(d).relations[r].cells
         /\ \A p \in DOMAIN Derived(Effective(d), r) :
              /\ Derived(Effective(d), r)[p] = <<Derived(Effective(d), r)[p][1]>>
              /\ ~ Derived(Effective(d), r)[p][1].proposed
              /\ Derived(Effective(d), r)[p][1].provenance = None /\ Derived(Effective(d), r)[p][1].evidence = 0
<1> QED BY DEF Derived

\* The rolled-up document has the cells of the document and the derived ones.
RolledCells(d, r) ==
  [p \in DOMAIN d.relations[r].cells \cup DOMAIN Derived(Effective(d), r) |->
     (IF p \in DOMAIN d.relations[r].cells THEN d.relations[r].cells[p] ELSE <<>>)
       \o (IF p \in DOMAIN Derived(Effective(d), r) THEN Derived(Effective(d), r)[p] ELSE <<>>)]

LEMMA RolledShape ==
  ASSUME NEW d, IsDocument(d), NEW n, n = RolledUp(d)
  PROVE  /\ n.dimensions = d.dimensions /\ n.scales = d.scales /\ n.contractions = d.contractions
         /\ DOMAIN n = DOMAIN d /\ DOMAIN n.relations = DOMAIN d.relations
         /\ \A r \in DOMAIN d.relations :
              /\ DOMAIN n.relations[r] = DOMAIN d.relations[r]
              /\ n.relations[r].from = d.relations[r].from
              /\ n.relations[r].to = d.relations[r].to
              /\ n.relations[r].type = d.relations[r].type
              /\ n.relations[r].scale = d.relations[r].scale
              /\ n.relations[r].policy = d.relations[r].policy
              /\ n.relations[r].status = d.relations[r].status
              /\ n.relations[r].successor = d.relations[r].successor
              /\ n.relations[r].cells = IF Rolls(Effective(d), r) THEN RolledCells(d, r)
                                        ELSE d.relations[r].cells
<1> DEFINE eff == Effective(d)
           relations == [r \in DOMAIN d.relations |->
              IF Rolls(eff, r) THEN [d.relations[r] EXCEPT !.cells = RolledCells(d, r)]
              ELSE d.relations[r]]
<1>1. n = [d EXCEPT !.relations = relations]
  BY DEF RolledUp, RolledCells
<1> HIDE DEF eff
<1>2. /\ n.dimensions = d.dimensions /\ n.scales = d.scales /\ n.contractions = d.contractions
      /\ n.relations = relations /\ DOMAIN n = DOMAIN d
  <2> HIDE DEF relations
  <2> QED BY <1>1 DEF IsDocument
<1>3. DOMAIN relations = DOMAIN d.relations
  OBVIOUS
<1>4. ASSUME NEW r \in DOMAIN d.relations
      PROVE  relations[r] = IF Rolls(eff, r) THEN [d.relations[r] EXCEPT !.cells = RolledCells(d, r)]
                            ELSE d.relations[r]
  OBVIOUS
<1> HIDE DEF relations
<1>5. ASSUME NEW r \in DOMAIN d.relations
      PROVE  /\ DOMAIN relations[r] = DOMAIN d.relations[r]
             /\ relations[r].from = d.relations[r].from /\ relations[r].to = d.relations[r].to
             /\ relations[r].type = d.relations[r].type /\ relations[r].scale = d.relations[r].scale
             /\ relations[r].policy = d.relations[r].policy
             /\ relations[r].status = d.relations[r].status
             /\ relations[r].successor = d.relations[r].successor
             /\ relations[r].cells = IF Rolls(eff, r) THEN RolledCells(d, r) ELSE d.relations[r].cells
  <2> DEFINE rel == d.relations[r]
  <2>1. DOMAIN rel = {"from", "to", "type", "scale", "policy", "status", "successor", "cells"}
    BY DEF IsDocument
  <2>2. CASE Rolls(eff, r)
    <3>1. relations[r] = [rel EXCEPT !.cells = RolledCells(d, r)]
      BY <1>4, <2>2
    <3> HIDE DEF rel
    <3>2. /\ DOMAIN relations[r] = DOMAIN rel
          /\ relations[r].from = rel.from /\ relations[r].to = rel.to
          /\ relations[r].type = rel.type /\ relations[r].scale = rel.scale
          /\ relations[r].policy = rel.policy /\ relations[r].status = rel.status
          /\ relations[r].successor = rel.successor /\ relations[r].cells = RolledCells(d, r)
      BY <2>1, <3>1
    <3> QED BY <2>2, <3>2 DEF rel
  <2>3. CASE ~ Rolls(eff, r)
    BY <1>4, <2>3
  <2> QED BY <2>2, <2>3
<1> QED BY <1>2, <1>3, <1>5 DEF eff

LEMMA RolledCellShape ==
  ASSUME NEW d, IsDocument(d), NEW r \in DOMAIN d.relations, NEW p \in DOMAIN RolledCells(d, r)
  PROVE  LET old == d.relations[r].cells
             cell == RolledCells(d, r)[p]
         IN  /\ cell \in Seq(Range(cell)) \ {<<>>}
             /\ p \in DOMAIN old /\ p \notin DOMAIN Derived(Effective(d), r) => cell = old[p]
             /\ p \notin DOMAIN old => cell = Derived(Effective(d), r)[p] /\ p \in DOMAIN Derived(Effective(d), r)
             /\ p \in DOMAIN old /\ p \in DOMAIN Derived(Effective(d), r) => cell = Append(old[p], Derived(Effective(d), r)[p][1])
<1> DEFINE old == d.relations[r].cells
           derived == Derived(Effective(d), r)
           x == derived[p][1]
           a == IF p \in DOMAIN old THEN old[p] ELSE <<>>
           b == IF p \in DOMAIN derived THEN derived[p] ELSE <<>>
           cell == RolledCells(d, r)[p]
<1>1. cell = a \o b /\ p \in DOMAIN old \cup DOMAIN derived
  BY DEF RolledCells
<1>2. p \in DOMAIN old => old[p] \in Seq(Range(old[p])) /\ old[p] # <<>>
  BY DEF IsDocument
<1>3. p \in DOMAIN derived => derived[p] = <<x>>
  BY DerivedShape
<1> DEFINE S == Range(a) \cup {x}
<1> HIDE DEF old, derived, x, cell
<1>4. a \in Seq(S)
  <2>1. CASE p \in DOMAIN old
    BY <1>2, <2>1, SeqMonotonic
  <2>2. CASE p \notin DOMAIN old
    BY <2>2, EmptySeq
  <2> QED BY <2>1, <2>2
<1>5. p \in DOMAIN derived => b = <<x>> /\ <<x>> \in Seq(S)
  BY <1>3
<1> HIDE DEF S
<1>6. CASE p \in DOMAIN old /\ p \notin DOMAIN derived
  <2>1. cell = old[p] \o <<>> /\ old[p] \o <<>> = old[p]
    BY <1>1, <1>2, <1>6, ConcatEmptySeq
  <2> QED BY <1>2, <1>6, <2>1 DEF old, derived, x, cell
<1>7. CASE p \notin DOMAIN old
  <2>1. p \in DOMAIN derived /\ cell = <<>> \o <<x>> /\ <<>> \o <<x>> = <<x>>
    BY <1>1, <1>5, <1>7, ConcatEmptySeq
  <2>2. <<x>> \in Seq(Range(<<x>>)) /\ <<x>> # <<>>
    BY <1>5, <2>1, SeqOfRange
  <2> QED BY <1>3, <1>7, <2>1, <2>2 DEF old, derived, x, cell
<1>8. CASE p \in DOMAIN old /\ p \in DOMAIN derived
  <2>1. a = old[p] /\ cell = a \o <<x>> /\ x \in S
    BY <1>1, <1>5, <1>8 DEF S
  <2> HIDE DEF a
  <2>2. a \o <<x>> = Append(a, x)
    BY <1>4, <2>1, AppendIsConcat
  <2>3. Append(a, x) \in Seq(S) /\ Append(a, x) # <<>>
    BY <1>4, <2>1, AppendProperties
  <2>4. cell = Append(old[p], x) /\ cell \in Seq(Range(cell)) /\ cell # <<>>
    BY <2>1, <2>2, <2>3, SeqOfRange
  <2> QED BY <1>8, <2>4 DEF old, derived, x, cell
<1> QED BY <1>6, <1>7, <1>8

LEMMA RolledIsDocument ==
  ASSUME NEW d, IsDocument(d)
  PROVE  IsDocument(RolledUp(d))
<1> DEFINE n == RolledUp(d)
<1>1. /\ DOMAIN n = DOMAIN d /\ DOMAIN n.relations = DOMAIN d.relations
      /\ \A r \in DOMAIN d.relations :
           /\ DOMAIN n.relations[r] = DOMAIN d.relations[r]
           /\ n.relations[r].cells = IF Rolls(Effective(d), r) THEN RolledCells(d, r)
                                     ELSE d.relations[r].cells
  <2> HIDE DEF n
  <2> QED BY RolledShape DEF n
<1> HIDE DEF n
<1>2. ASSUME NEW r \in DOMAIN n.relations, NEW p \in DOMAIN n.relations[r].cells
      PROVE  n.relations[r].cells[p] \in Seq(Range(n.relations[r].cells[p])) \ {<<>>}
  <2>1. CASE Rolls(Effective(d), r)
    BY <1>1, <2>1, RolledCellShape
  <2>2. CASE ~ Rolls(Effective(d), r)
    BY <1>1, <2>2 DEF IsDocument
  <2> QED BY <2>1, <2>2
<1>3. ASSUME NEW r \in DOMAIN n.relations
      PROVE DOMAIN n.relations[r] = {"from", "to", "type", "scale", "policy", "status", "successor", "cells"}
  BY <1>1 DEF IsDocument
<1>4. DOMAIN n = {"dimensions", "scales", "relations", "contractions"}
  BY <1>1 DEF IsDocument
<1>5. IsDocument(n)
  BY <1>2, <1>3, <1>4 DEF IsDocument
<1> QED BY <1>5 DEF n

-----------------------------------------------------------------------------
(* Lists of a document *)

LEMMA MembersFinite ==
  /\ IsFiniteSet(MemberIds) /\ IsFiniteSet(MemberIds \X MemberIds) /\ IsFiniteSet(DimensionIds)
<1>1. IsFiniteSet(MemberIds)
  BY EngineAssumption
<1>2. IsFiniteSet(DimensionIds)
  <2>1. DOMAIN DimensionOrder = 1 .. Len(DimensionOrder) /\ Len(DimensionOrder) \in Nat
    BY EngineAssumption, LenProperties
  <2>2. IsFiniteSet(DOMAIN DimensionOrder)
    BY <2>1, FS_Interval
  <2>3. IsFiniteSet({DimensionOrder[i] : i \in DOMAIN DimensionOrder})
    BY <2>2, FiniteImage
  <2> QED BY <2>3 DEF DimensionIds
<1> QED BY <1>1, <1>2, FS_Product

\* The cells of a view can be listed.
LEMMA CellsFinite ==
  ASSUME NEW d, DocumentOK(d), Figures(d)
  PROVE  /\ \A r \in DOMAIN d.relations :
              /\ IsFiniteSet(DOMAIN Effective(d).relations[r].cells)
              /\ IsFiniteSet(DOMAIN Effective(RolledUp(d)).relations[r].cells)
         /\ IsFiniteSet(CellsInUse(Effective(d)))
<1>1. IsDocument(d) /\ IsDocument(RolledUp(d)) /\ \A r \in DOMAIN d.relations : RelationOK(d.relations[r])
  BY RolledIsDocument DEF DocumentOK
<1>2. ASSUME NEW r \in DOMAIN d.relations
      PROVE DOMAIN Effective(d).relations[r].cells \subseteq MemberIds \X MemberIds
  <2>1. DOMAIN Effective(d).relations[r].cells \subseteq DOMAIN d.relations[r].cells
    BY <1>1, EffectiveShape
  <2> QED BY <1>1, <2>1 DEF RelationOK
<1>3. ASSUME NEW r \in DOMAIN d.relations
      PROVE DOMAIN Effective(RolledUp(d)).relations[r].cells \subseteq MemberIds \X MemberIds
  <2> DEFINE n == RolledUp(d)
  <2>1. /\ r \in DOMAIN n.relations
        /\ n.relations[r].cells = IF Rolls(Effective(d), r) THEN RolledCells(d, r)
                                  ELSE d.relations[r].cells
    <3> HIDE DEF n
    <3> QED BY <1>1, RolledShape DEF n
  <2>2. DOMAIN RolledCells(d, r) \subseteq MemberIds \X MemberIds
    BY <1>1, DerivedShape DEF RolledCells, RelationOK
  <2>3. DOMAIN n.relations[r].cells \subseteq MemberIds \X MemberIds
    <3> HIDE DEF n
    <3> QED BY <1>1, <2>1, <2>2 DEF RelationOK
  <2>4. DOMAIN Effective(n).relations[r].cells \subseteq DOMAIN n.relations[r].cells
    <3> HIDE DEF n
    <3> QED BY <1>1, <2>1, EffectiveShape DEF n
  <2> QED BY <2>3, <2>4
<1>4. IsFiniteSet(CellsInUse(Effective(d)))
  <2>1. ActiveRelations(Effective(d)) \subseteq DOMAIN d.relations
    BY <1>1, EffectiveShape DEF ActiveRelations
  <2>2. CellsInUse(Effective(d)) \subseteq (DOMAIN d.relations) \X (MemberIds \X MemberIds)
    BY <1>2, <2>1 DEF CellsInUse
  <2>3. IsFiniteSet((DOMAIN d.relations) \X (MemberIds \X MemberIds))
    BY MembersFinite, FS_Product DEF Figures
  <2> QED BY <2>2, <2>3, FS_Subset
<1> QED BY <1>2, <1>3, <1>4, MembersFinite, FS_Subset

\* A limit asked for is a number.
LEMMA LimitShape ==
  ASSUME NEW asked \in Limits, NEW default \in Nat, NEW max \in Nat
  PROVE  Limit(asked, default, max) \in Nat
<1>1. CASE asked = None
  BY <1>1 DEF Limit
<1>2. CASE asked # None
  <2>1. asked \in Nat
    BY <1>2, LimitsAssumption
  <2>2. Min({asked, max}) = IF asked <= max THEN asked ELSE max
    BY <2>1, MinOfTwo
  <2> QED BY <1>2, <2>1, <2>2 DEF Limit
<1> QED BY <1>1, <1>2

\* A page of none.
LEMMA PageOfNone ==
  ASSUME NEW S, NEW list \in Seq(S), NEW offset \in Nat
  PROVE  /\ Page(list, offset, 0) = <<>>
         /\ offset < Len(list) => NextCursor(offset, 0, Len(list)) = offset
<1>1. Len(list) \in Nat
  BY LenProperties
<1>2. Min({offset + 0, Len(list)}) = IF offset <= Len(list) THEN offset ELSE Len(list)
  BY <1>1, MinOfTwo
<1> DEFINE k == Min({offset + 0, Len(list)})
<1>3. k \in Int /\ k < offset + 1
  BY <1>1, <1>2
<1> HIDE DEF k
<1>4. SubSeq(list, offset + 1, k) = <<>>
  BY <1>3, SubSeqProperties
<1>5. Page(list, offset, 0) = <<>>
  BY <1>4 DEF Page, k
<1> QED BY <1>1, <1>5 DEF NextCursor

LEMMA ListIsWhole ==
  ASSUME NEW S, IsFiniteSet(S), NEW limit \in Nat
  PROVE  GivesAll(InOrder(S), limit) /\ ToSet(InOrder(S)) = S /\ InOrder(S) \in Seq(S)
<1>1. Lists(InOrder(S), S)
  BY InOrderLists
<1> DEFINE list == InOrder(S)
<1> HIDE DEF list
<1>2. Lists(list, S)
  BY <1>1 DEF list
<1>3. list \in Seq(S) /\ Len(list) \in Nat
  BY <1>2, LenProperties DEF Lists
<1>4. GivesAll(list, limit)
  <2>1. CASE limit > 0
    <3>1. limit \in Nat \ {0}
      BY <2>1
    <3> QED BY <1>3, <2>1, <3>1, GatheredWhole DEF GivesAll
  <2>2. CASE ~ (limit > 0)
    <3>1. limit = 0
      BY <2>2
    <3>2. \A offset \in 0 .. Len(list) - 1 : offset \in Nat /\ offset < Len(list)
      BY <1>3
    <3> QED BY <1>3, <2>2, <3>1, <3>2, PageOfNone DEF GivesAll
  <2> QED BY <2>1, <2>2
<1>5. ToSet(list) = S
  BY <1>2, <1>3, ElementOfSeq, LenProperties DEF Lists, ToSet
<1> QED BY <1>3, <1>4, <1>5 DEF list

\* What `stale' lists are the members whose file says otherwise.
LEMMA ChangedIsOutdated ==
  ASSUME DocumentOK(doc)
  PROVE  \E S : /\ IsFiniteSet(S) /\ S = Outdated
               /\ IsChangedList(doc, InOrder(S))
<1> DEFINE eff == Effective(doc)
           S == {x \in (DOMAIN eff.dimensions) \X MemberIds :
                   /\ x[2] \in MembersOf(eff, x[1])
                   /\ LET member == Members(eff, x[1])[x[2]]
                      IN  /\ member.status = "active"
                          /\ IsChanged(member.source, CurrentHash(member.source, << >>, TRUE))}
<1>1. eff.dimensions = doc.dimensions
  BY EffectiveShape DEF DocumentOK
<1>2. IsChangedList(doc, InOrder(S))
  BY DEF IsChangedList, ChangedList
<1> HIDE DEF eff
<1>3. \A d : Members(eff, d) = Members(doc, d) /\ MembersOf(eff, d) = MembersOf(doc, d)
  BY <1>1 DEF MembersOf, Members, Declared
<1>4. IsFiniteSet(S)
  <2>1. DOMAIN doc.dimensions \subseteq DimensionIds
    BY DEF DocumentOK
  <2>2. IsFiniteSet(DOMAIN doc.dimensions)
    BY <2>1, MembersFinite, FS_Subset
  <2>3. IsFiniteSet((DOMAIN doc.dimensions) \X MemberIds)
    BY <2>2, MembersFinite, FS_Product
  <2>4. S \subseteq (DOMAIN doc.dimensions) \X MemberIds
    BY <1>1
  <2> QED BY <2>3, <2>4, FS_Subset
<1>5. ASSUME NEW source, source = None \/ source.file \in Files \cup {None}
      PROVE  IsChanged(source, CurrentHash(source, << >>, TRUE))
               <=> /\ source # None /\ source.hash # None
                   /\ source.file \in Files \ OutsideFiles /\ Contents[source.file] # source.hash
  <2>1. DOMAIN << >> = {}
    OBVIOUS
  <2>2. None \notin Files /\ \A f \in Files : Contents[f] \notin {"unknown", "skipped"}
    BY EngineAssumption
  <2> QED BY <1>5, <2>1, <2>2 DEF IsChanged, CurrentHash
<1>6. ASSUME NEW d \in DOMAIN doc.dimensions, NEW m \in MembersOf(doc, d)
      PROVE  LET source == Members(doc, d)[m].source
             IN  source = None \/ source.file \in Files \cup {None}
  BY DEF DocumentOK, DimensionOK, MemberOK, MembersOf, Members, Declared
<1>7. S = Outdated
  <2>1. ASSUME NEW x \in (DOMAIN doc.dimensions) \X MemberIds, x[2] \in MembersOf(doc, x[1])
        PROVE  LET source == Members(doc, x[1])[x[2]].source
               IN  IsChanged(source, CurrentHash(source, << >>, TRUE))
                     <=> /\ source # None /\ source.hash # None
                         /\ source.file \in Files \ OutsideFiles /\ Contents[source.file] # source.hash
    BY <1>5, <1>6, <2>1
  <2>2. ASSUME NEW x \in (DOMAIN doc.dimensions) \X MemberIds
        PROVE  x \in S <=> /\ x[2] \in MembersOf(doc, x[1])
                           /\ Members(doc, x[1])[x[2]].status = "active"
                           /\ LET source == Members(doc, x[1])[x[2]].source
                              IN  IsChanged(source, CurrentHash(source, << >>, TRUE))
    BY <1>1, <1>3
  <2>3. S \subseteq (DOMAIN doc.dimensions) \X MemberIds /\ Outdated \subseteq (DOMAIN doc.dimensions) \X MemberIds
    BY <1>1 DEF Outdated
  <2>4. ASSUME NEW x \in (DOMAIN doc.dimensions) \X MemberIds
        PROVE  x \in Outdated <=> /\ x[2] \in MembersOf(doc, x[1])
                                  /\ Members(doc, x[1])[x[2]].status = "active"
                                  /\ LET source == Members(doc, x[1])[x[2]].source
                                     IN  /\ source # None /\ source.hash # None
                                         /\ source.file \in Files \ OutsideFiles
                                         /\ Contents[source.file] # source.hash
    BY DEF Outdated
  <2> HIDE DEF S
  <2> QED BY <2>1, <2>2, <2>3, <2>4
<1> HIDE DEF S
<1> QED BY <1>2, <1>4, <1>7

\* The list of a slice, the list of a trace and the pages of `stale'.
SlicePages(viewed, r, asked) ==
  GivesAll(SliceList(viewed, r, None, None), Limit(asked, 500, 5000))

LEMMA SliceIsWhole ==
  ASSUME DocumentOK(doc), Figures(doc), NEW rollup \in BOOLEAN, NEW asked \in Limits,
         NEW r \in DOMAIN doc.relations
  PROVE  SlicePages(Viewed(doc, rollup), r, asked)
<1> DEFINE v == Viewed(doc, rollup)
           S == {p \in Slice(v, r, None, None) :
                   /\ None = None \/ p[1] \in Resolve(v, None)
                   /\ None = None \/ p[2] \in Resolve(v, None)}
<1>1. IsFiniteSet(DOMAIN Effective(v).relations[r].cells)
  <2>1. CASE rollup
    BY <2>1, CellsFinite DEF Viewed
  <2>2. CASE ~ rollup
    BY <2>2, CellsFinite DEF Viewed
  <2> QED BY <2>1, <2>2
<1>2. SliceList(v, r, None, None) = InOrder(S)
  BY DEF SliceList
<1>3. S \subseteq DOMAIN Effective(v).relations[r].cells
  BY DEF Slice
<1>4. IsFiniteSet(S)
  <2> HIDE DEF S, v
  <2> QED BY <1>1, <1>3, FS_Subset
<1>5. GivesAll(InOrder(S), Limit(asked, 500, 5000))
  <2> HIDE DEF S
  <2> QED BY <1>4, LimitShape, ListIsWhole
<1> HIDE DEF S, v
<1>6. SlicePages(v, r, asked)
  BY <1>2, <1>5 DEF SlicePages
<1> QED BY <1>6 DEF v

TracePages(m, asked) ==
  GivesAll(TraceList(doc, m, None, None), Limit(asked, 200, 2000))

LEMMA TraceFinite ==
  ASSUME DocumentOK(doc), Figures(doc), NEW m
  PROVE  IsFiniteSet(Trace(doc, m))
<1> DEFINE eff == Effective(doc)
<1>1. IsFiniteSet(CellsInUse(eff))
  BY CellsFinite
<1> HIDE DEF eff
<1> DEFINE hops(axis, far, name) ==
             {[relation |-> x[1], direction |-> name, member |-> x[2][far]] :
                x \in {y \in CellsInUse(eff) : y[2][axis] = m}}
<1>2. ASSUME NEW axis, NEW far, NEW name PROVE IsFiniteSet(hops(axis, far, name))
  <2> DEFINE T == {y \in CellsInUse(eff) : y[2][axis] = m}
             hop == [x \in T |-> [relation |-> x[1], direction |-> name, member |-> x[2][far]]]
  <2>1. IsFiniteSet(T)
    BY <1>1, FS_Subset
  <2> HIDE DEF T, hop
  <2>2. IsFiniteSet({hop[x] : x \in T})
    BY <2>1, FiniteImage
  <2>3. {hop[x] : x \in T} = {[relation |-> x[1], direction |-> name, member |-> x[2][far]] : x \in T}
    BY DEF hop
  <2> QED BY <2>2, <2>3 DEF T
<1>3. Trace(doc, m) = hops(1, 2, "out") \cup hops(2, 1, "in")
  BY DEF Trace, TraceView, eff
<1> HIDE DEF hops
<1> QED BY <1>2, <1>3, FS_Union

LEMMA TraceIsWhole ==
  ASSUME DocumentOK(doc), Figures(doc), NEW m \in MemberIds, IsMember(doc, m), NEW asked \in Limits
  PROVE  TracePages(m, asked)
<1> DEFINE hops(n) == {x \in Trace(doc, n) : /\ None = None \/ x.relation = None
                                             /\ None = None \/ x.direction = None}
           of(n) == {[of |-> n, hop |-> h] : h \in hops(n)}
           S == UNION {of(n) : n \in Resolve(doc, m)}
<1>1. TraceList(doc, m, None, None) = InOrder(S)
  BY DEF TraceList
<1>2. S = of(m)
  BY DEF Resolve
<1>3. IsFiniteSet(hops(m))
  BY TraceFinite, FS_Subset
<1>4. IsFiniteSet(S)
  <2> HIDE DEF hops, S
  <2> DEFINE tagged == [h \in hops(m) |-> [of |-> m, hop |-> h]]
  <2>1. of(m) = {tagged[h] : h \in hops(m)}
    OBVIOUS
  <2> HIDE DEF tagged
  <2>2. IsFiniteSet(of(m))
    BY <1>3, <2>1, FiniteImage
  <2> QED BY <1>2, <2>2
<1> HIDE DEF S
<1>5. GivesAll(InOrder(S), Limit(asked, 200, 2000))
  BY <1>4, LimitShape, ListIsWhole
<1> QED BY <1>1, <1>5 DEF TracePages

StalePagesWhole(limit, cellLimit) ==
  LET pages == StalePages(doc, limit, cellLimit)
      outdated == Outdated
      touched == {x \in CellsInUse(Effective(doc)) :
                    \E y \in outdated : y[2] \in {x[2][1], x[2][2]}}
  IN  /\ UNION {ToSet(g.changed) : g \in pages} = outdated
      /\ UNION {g.affected : g \in pages} \subseteq touched
      /\ (\A g \in pages : ~ g.truncated) => UNION {g.affected : g \in pages} = touched

\* The affected cells of a page, cut short or not.
LEMMA AffectedShape ==
  ASSUME DocumentOK(doc), Figures(doc), NEW page, NEW cellLimit \in Nat
  PROVE  LET cells == AffectedCells(Effective(doc), page)
             list == InOrder(cells)
             part == ToSet(SubSeq(list, 1, Min({cellLimit, Len(list)})))
         IN  /\ part \subseteq cells
             /\ ~ (Len(list) > cellLimit) => part = cells
<1> DEFINE cells == AffectedCells(Effective(doc), page)
           list == InOrder(cells)
           k == Min({cellLimit, Len(list)})
<1>1. IsFiniteSet(cells)
  <2>1. cells \subseteq CellsInUse(Effective(doc))
    BY DEF AffectedCells
  <2> HIDE DEF cells
  <2> QED BY <2>1, CellsFinite, FS_Subset
<1> HIDE DEF cells
<1>2. Lists(list, cells)
  BY <1>1, InOrderLists
<1> HIDE DEF list
<1>3. list \in Seq(cells) /\ Len(list) \in Nat /\ DOMAIN list = 1 .. Len(list) /\ ToSet(list) = cells
  BY <1>2, ElementOfSeq, LenProperties DEF Lists, ToSet
<1>4. k \in 0 .. Len(list) /\ (~ (Len(list) > cellLimit) => k = Len(list))
  BY <1>3, MinOfTwo
<1> HIDE DEF k
<1>5. k \in Nat /\ 1 .. k \subseteq 1 .. Len(list)
  <2>1. k \in Nat /\ k <= Len(list) /\ Len(list) \in Nat
    <3> DEFINE n == Len(list)
    <3>1. n \in Nat
      BY <1>3
    <3>2. k \in 0 .. n
      BY <1>4
    <3> HIDE DEF n
    <3>3. k \in Nat /\ k <= n
      BY <3>1, <3>2
    <3> QED BY <3>1, <3>3 DEF n
  <2> HIDE DEF k
  <2> QED BY <2>1
<1>6. \A i \in 1 .. k : list[i] \in cells
  BY <1>3, <1>5, ElementOfSeq
<1>7. CASE k = 0
  <2>1. SubSeq(list, 1, k) = <<>>
    BY <1>3, <1>7, SubSeqProperties
  <2>2. ToSet(SubSeq(list, 1, k)) = {}
    <3>1. ToSet(<<>>) = {}
      BY DEF ToSet
    <3> QED BY <2>1, <3>1
  <2>3. Len(list) = 0 => cells = {}
    BY <1>3 DEF ToSet
  <2> QED BY <1>4, <1>7, <2>2, <2>3 DEF cells, list, k
<1>8. CASE k # 0
  <2>1. /\ SubSeq(list, 1, k) \in Seq(cells) /\ Len(SubSeq(list, 1, k)) = k
        /\ \A i \in 1 .. k : SubSeq(list, 1, k)[i] = list[i]
    <3>1. k \in Int /\ 1 <= k /\ 1 \in Int /\ k - 1 + 1 = k
      BY <1>8, <1>5
    <3>2. \A i \in 1 .. k : list[i] \in cells /\ 1 + i - 1 = i
      BY <1>5, <1>6
    <3> QED BY <1>3, <3>1, <3>2, SubSeqProperties
  <2>2. DOMAIN SubSeq(list, 1, k) = 1 .. k
    BY <2>1, LenProperties
  <2>3. ToSet(SubSeq(list, 1, k)) = {list[i] : i \in 1 .. k}
    BY <2>1, <2>2 DEF ToSet
  <2>4. {list[i] : i \in 1 .. k} \subseteq cells
    BY <1>6
  <2>5. k = Len(list) => {list[i] : i \in 1 .. k} = cells
    BY <1>3 DEF ToSet
  <2> QED BY <1>4, <2>3, <2>4, <2>5 DEF cells, list, k
<1> QED BY <1>7, <1>8

LEMMA PageIsPart ==
  ASSUME NEW S, NEW list \in Seq(S), NEW limit \in Nat \ {0}, NEW o \in Nat
  PROVE  ToSet(Page(list, o, limit)) \subseteq S
<1>1. Page(list, o, limit) \in Seq(S)
  BY PageShape
<1> HIDE DEF Page
<1> QED BY <1>1, ElementOfSeq, LenProperties DEF ToSet

LEMMA StaleIsWhole ==
  ASSUME DocumentOK(doc), Figures(doc), NEW limit \in Nat \ {0}, NEW cellLimit \in Nat
  PROVE  StalePagesWhole(limit, cellLimit)
<1>1. PICK S : IsFiniteSet(S) /\ S = Outdated /\ IsChangedList(doc, InOrder(S))
  BY ChangedIsOutdated
<1> DEFINE list == InOrder(S)
           page(o) == StalePage(doc, << >>, TRUE, o, limit, cellLimit)
           pages == StalePages(doc, limit, cellLimit)
           cells == CellsInUse(Effective(doc))
           touched == {x \in cells : \E y \in S : y[2] \in {x[2][1], x[2][2]}}
           affected(p) == AffectedCells(Effective(doc), p)
<1>2. list \in Seq(S) /\ ToSet(list) = S
  BY <1>1, ListIsWhole
<1>3. /\ \A g \in pages : \E o \in Nat : g = page(o)
      /\ \A i \in DOMAIN list : \E g \in pages : list[i] \in ToSet(g.changed)
  <2>1. IsChangedList(doc, list)
    BY <1>1
  <2> HIDE DEF list
  <2> QED BY <1>2, <2>1, StalePagesCover
<1>4. ASSUME NEW o \in Nat
      PROVE  /\ page(o).changed = Page(list, o, limit)
             /\ LET l == InOrder(affected(Page(list, o, limit)))
                IN  /\ page(o).affected = ToSet(SubSeq(l, 1, Min({cellLimit, Len(l)})))
                    /\ page(o).truncated = (Len(l) > cellLimit)
  BY <1>1 DEF StalePage, IsChangedList
<1> HIDE DEF page, list
<1>5. ASSUME NEW o \in Nat
      PROVE  /\ ToSet(page(o).changed) \subseteq S
             /\ page(o).affected \subseteq affected(page(o).changed)
             /\ ~ page(o).truncated => page(o).affected = affected(page(o).changed)
  <2>1. ToSet(page(o).changed) \subseteq S
    <3>1. ToSet(Page(list, o, limit)) \subseteq S
      BY <1>2, PageIsPart
    <3> QED BY <1>4, <3>1
  <2> HIDE DEF affected
  <2>2. LET l == InOrder(affected(Page(list, o, limit)))
            part == ToSet(SubSeq(l, 1, Min({cellLimit, Len(l)})))
        IN  /\ part \subseteq affected(Page(list, o, limit))
            /\ ~ (Len(l) > cellLimit) => part = affected(Page(list, o, limit))
    BY AffectedShape DEF affected
  <2> QED BY <1>4, <2>1, <2>2
<1>6. ASSUME NEW p
      PROVE  affected(p) = {x \in cells : \E y \in ToSet(p) : y[2] \in {x[2][1], x[2][2]}}
  BY DEF AffectedCells, ToSet
<1> HIDE DEF affected, cells, pages
<1>7. UNION {ToSet(g.changed) : g \in pages} = S
  <2>1. ASSUME NEW g \in pages PROVE ToSet(g.changed) \subseteq S
    BY <1>3, <1>5
  <2>2. ASSUME NEW y \in S PROVE \E g \in pages : y \in ToSet(g.changed)
    BY <1>2, <1>3 DEF ToSet
  <2> QED BY <2>1, <2>2
<1>8. ASSUME NEW g \in pages
      PROVE  /\ affected(g.changed) \subseteq touched /\ g.affected \subseteq affected(g.changed)
             /\ ~ g.truncated => g.affected = affected(g.changed)
  BY <1>3, <1>5, <1>6
<1>9. touched \subseteq UNION {affected(g.changed) : g \in pages}
  <2> SUFFICES ASSUME NEW x \in cells, NEW y \in S, y[2] \in {x[2][1], x[2][2]}
               PROVE  \E g \in pages : x \in affected(g.changed)
    OBVIOUS
  <2>1. PICK g \in pages : y \in ToSet(g.changed)
    BY <1>7
  <2> QED BY <1>6, <2>1
<1>10. /\ UNION {g.affected : g \in pages} \subseteq touched
       /\ (\A g \in pages : ~ g.truncated) => UNION {g.affected : g \in pages} = touched
  <2> HIDE DEF touched
  <2>1. UNION {g.affected : g \in pages} \subseteq touched
    BY <1>8
  <2>2. ASSUME \A g \in pages : ~ g.truncated PROVE touched \subseteq UNION {g.affected : g \in pages}
    BY <1>8, <1>9, <2>2
  <2> QED BY <2>1, <2>2
<1> HIDE DEF touched
<1>11. touched = {x \in CellsInUse(Effective(doc)) : \E y \in Outdated : y[2] \in {x[2][1], x[2][2]}}
  BY <1>1 DEF touched, cells
<1> QED BY <1>1, <1>7, <1>10, <1>11 DEF StalePagesWhole, pages

\* A first page of none leads to itself where there is an outdated member.
LEMMA StalePageOfNone ==
  ASSUME DocumentOK(doc), Figures(doc), NEW cellLimit
  PROVE  LET first == StalePage(doc, << >>, TRUE, 0, 0, cellLimit)
         IN  first.changed = <<>> /\ (first.next = 0 <=> Outdated # {})
<1>1. PICK S : IsFiniteSet(S) /\ S = Outdated /\ IsChangedList(doc, InOrder(S))
  BY ChangedIsOutdated
<1> DEFINE list == InOrder(S)
           first == StalePage(doc, << >>, TRUE, 0, 0, cellLimit)
<1>2. Lists(list, S)
  BY <1>1, InOrderLists
<1>3. first.changed = Page(list, 0, 0) /\ first.next = NextCursor(0, 0, Len(list))
  BY <1>1 DEF StalePage, IsChangedList
<1> HIDE DEF list, first
<1>4. /\ list \in Seq(S) /\ Len(list) \in Nat /\ DOMAIN list = 1 .. Len(list)
      /\ ToSet(list) = S
  BY <1>2, ElementOfSeq, LenProperties DEF Lists, ToSet
<1>5. Page(list, 0, 0) = <<>>
  BY <1>4, PageOfNone
<1>6. 0 < Len(list) <=> S # {}
  BY <1>4 DEF ToSet
<1>7. None # 0
  BY EngineAssumption
<1>8. first.next = 0 <=> S # {}
  BY <1>3, <1>4, <1>6, <1>7 DEF NextCursor
<1> QED BY <1>1, <1>3, <1>5, <1>8 DEF first

LEMMA StaleGivesAll ==
  ASSUME DocumentOK(doc), Figures(doc), NEW limit \in Nat, NEW cellLimit \in Nat
  PROVE  GivesAllStale(limit, cellLimit)
<1>1. CASE limit > 0
  <2>1. limit \in Nat \ {0}
    BY <1>1
  <2> QED BY <1>1, <2>1, StaleIsWhole DEF GivesAllStale, StalePagesWhole
<1>2. CASE ~ (limit > 0)
  <2>1. limit = 0
    BY <1>2
  <2> QED BY <1>2, <2>1, StalePageOfNone DEF GivesAllStale
<1> QED BY <1>1, <1>2

-----------------------------------------------------------------------------
(* Ancestors *)

\* The edges turned round, and the turns of the search for ancestors.
Reversed(edges) == {<<e[2], e[1]>> : e \in edges}

Turns == (SUBSET MemberIds) \X (SUBSET MemberIds)

SearchesUp(edges, f) ==
  /\ f \in [Turns -> Seq(SUBSET MemberIds)]
  /\ \A z \in Turns :
       LET next == Parents(edges, z[1]) \ z[2]
       IN  f[z] = IF next = {} THEN <<>> ELSE <<next>> \o f[<<next, z[2] \cup next>>]

LEMMA UpOrder ==
  ASSUME IsFiniteSet(MemberIds)
  PROVE  IsWellFoundedOn({z \in Turns \X Turns : z[2][2] \subseteq z[1][2] /\ z[1][2] # z[2][2]}, Turns)
<1> DEFINE D == Turns
           R == {z \in D \X D : z[2][2] \subseteq z[1][2] /\ z[1][2] # z[2][2]}
           a == [z \in D |-> Cardinality(MemberIds \ z[2])]
           zero == [z \in D |-> 0]
<1>1. ASSUME NEW x \in D, NEW y \in D, <<x, y>> \in R PROVE a[x] < a[y]
  <2>1. MemberIds \ x[2] \in SUBSET (MemberIds \ y[2]) /\ MemberIds \ x[2] # MemberIds \ y[2]
    BY <1>1 DEF Turns
  <2>2. IsFiniteSet(MemberIds \ y[2])
    BY FS_Subset
  <2>3. Cardinality(MemberIds \ x[2]) < Cardinality(MemberIds \ y[2])
    BY <2>1, <2>2, SmallerCardinality
  <2> QED BY <2>3
<1>2. a \in [D -> Nat]
  BY FS_Subset, FS_CardinalityType
<1>3. zero \in [D -> Nat]
  OBVIOUS
<1>4. IsWellFoundedOn(R, D)
  <2> HIDE DEF D, R, a, zero
  <2> QED BY <1>1, <1>2, <1>3, LexWellFounded
<1> QED BY <1>4

LEMMA SearchUpDefined ==
  ASSUME NEW edges, EdgesOK(edges)
  PROVE  \E f : SearchesUp(edges, f)
<1> DEFINE D == Turns
           V == Seq(SUBSET MemberIds)
           R == {z \in Turns \X Turns : z[2][2] \subseteq z[1][2] /\ z[1][2] # z[2][2]}
           next(z) == Parents(edges, z[1]) \ z[2]
           Base == {z \in D : next(z) = {}}
           p == [z \in D |-> <<next(z), z[2] \cup next(z)>>]
           b == [z \in D |-> <<>>]
           h == [y \in D \X V |-> <<next(y[1])>> \o y[2]]
<1>1. IsWellFoundedOn(R, D)
  <2> HIDE DEF R
  <2> QED BY UpOrder DEF EdgesOK, R
<1>2. ASSUME NEW z \in D
      PROVE  /\ next(z) \in SUBSET MemberIds
             /\ p[z] = <<next(z), z[2] \cup next(z)>> /\ p[z] \in D
  BY DEF Turns, Parents, EdgesOK
<1>3. ASSUME NEW z \in D \ Base PROVE p[z] \in D /\ <<p[z], z>> \in R
  <2>1. next(z) # {} /\ next(z) \cap z[2] = {}
    BY <1>3
  <2> HIDE DEF next
  <2> QED BY <1>2, <2>1
<1>4. \A z \in D \cap Base : b[z] \in V
  OBVIOUS
<1>5. \A z \in D \ Base : \A v \in V : h[<<z, v>>] = <<next(z)>> \o v /\ h[<<z, v>>] \in V
  <2> TAKE z \in D \ Base
  <2> TAKE v \in V
  <2>1. next(z) \in SUBSET MemberIds
    BY <1>2
  <2>2. <<next(z)>> \in V
    <3> HIDE DEF next
    <3> QED BY <2>1
  <2>3. <<next(z)>> \o v \in V
    <3> HIDE DEF next
    <3> QED BY <2>2, ConcatProperties
  <2>4. <<z, v>> \in D \X V
    OBVIOUS
  <2> HIDE DEF next, V, D
  <2> QED BY <2>3, <2>4
<1>6. WellDefined(D, V, R, Base, p, b, h)
  <2> HIDE DEF D, V, R, Base, p, b, h
  <2> QED BY <1>1, <1>3, <1>4, <1>5 DEF WellDefined
<1>7. PICK f : Solves(f, D, V, Base, p, b, h)
  <2> HIDE DEF D, V, R, Base, p, b, h
  <2> QED BY <1>6, RecursionExists
<1>8. f \in [D -> V]
  BY <1>7 DEF Solves
<1>9. ASSUME NEW z \in D
      PROVE  f[z] = IF next(z) = {} THEN <<>> ELSE <<next(z)>> \o f[<<next(z), z[2] \cup next(z)>>]
  <2>1. CASE z \in Base
    <3>1. f[z] = b[z]
      <4> HIDE DEF D, V, b, h, p, Base
      <4> QED BY <1>7, <2>1 DEF Solves
    <3> QED BY <2>1, <3>1
  <2>2. CASE z \notin Base
    <3>1. f[z] = h[<<z, f[p[z]]>>] /\ p[z] \in D
      <4>1. f[z] = h[<<z, f[p[z]]>>]
        <5> HIDE DEF D, V, b, h, p, Base
        <5> QED BY <1>7, <2>2 DEF Solves
      <4> QED BY <1>2, <4>1
    <3>2. f[p[z]] \in V
      <4> HIDE DEF D, V, p
      <4> QED BY <1>8, <3>1
    <3>3. f[z] = <<next(z)>> \o f[p[z]]
      <4> HIDE DEF D, V, p, h, next
      <4> QED BY <1>5, <2>2, <3>1, <3>2
    <3>4. next(z) # {}
      BY <2>2
    <3> HIDE DEF next
    <3> QED BY <1>2, <3>3, <3>4
  <2> QED BY <2>1, <2>2
<1> QED BY <1>8, <1>9 DEF SearchesUp

\* What a search finds from z on: nothing visited, the next members, with what is
\* visited all that is above, and nothing but that.
FoundUp(edges, f, z) ==
  LET found == UNION ToSet(f[z])
      next == Parents(edges, z[1]) \ z[2]
  IN  /\ found \cap z[2] = {} /\ next \subseteq found
      /\ Parents(edges, z[2]) \subseteq z[2] \cup Parents(edges, z[1])
           => Parents(edges, z[2] \cup found) \subseteq z[2] \cup found
      /\ \A C : next \subseteq C /\ Parents(edges, C) \subseteq C => found \subseteq C

LEMMA ParentsShape ==
  ASSUME NEW edges, NEW S, NEW T
  PROVE  /\ Parents(edges, S \cup T) = Parents(edges, S) \cup Parents(edges, T)
         /\ S \subseteq T => Parents(edges, S) \subseteq Parents(edges, T)
<1> QED BY DEF Parents

LEMMA SearchUpFinds ==
  ASSUME NEW edges, EdgesOK(edges), NEW f, SearchesUp(edges, f)
  PROVE  \A z \in Turns : FoundUp(edges, f, z)
<1> DEFINE D == Turns
           R == {z \in Turns \X Turns : z[2][2] \subseteq z[1][2] /\ z[1][2] # z[2][2]}
           Bad == {z \in D : ~ FoundUp(edges, f, z)}
<1>1. IsWellFoundedOn(R, D)
  <2> HIDE DEF R
  <2> QED BY UpOrder DEF EdgesOK, R
<1>2. ASSUME Bad # {} PROVE FALSE
  <2>1. PICK z \in Bad : \A y \in Bad : <<y, z>> \notin R
    <3>1. Bad \subseteq D
      OBVIOUS
    <3> HIDE DEF Bad, D, R
    <3> QED BY <1>1, <1>2, <3>1, WFMin
  <2> DEFINE next == Parents(edges, z[1]) \ z[2]
             y == <<next, z[2] \cup next>>
             found == UNION ToSet(f[z])
             rest == UNION ToSet(f[y])
  <2>2. z \in D /\ z[1] \in SUBSET MemberIds /\ z[2] \in SUBSET MemberIds /\ ~ FoundUp(edges, f, z)
    BY DEF Turns
  <2>3. next \in SUBSET MemberIds /\ next \cap z[2] = {}
    BY DEF Parents, EdgesOK
  <2>4. f[z] = IF next = {} THEN <<>> ELSE <<next>> \o f[y]
    BY <2>2 DEF SearchesUp
  <2> HIDE DEF next
  <2>5. CASE next = {}
    <3>1. found = {}
      BY <2>4, <2>5 DEF ToSet
    <3>2. Parents(edges, z[1]) \subseteq z[2]
      BY <2>5 DEF next
    <3>3. FoundUp(edges, f, z)
      BY <2>5, <3>1, <3>2 DEF FoundUp, next
    <3> QED BY <2>2, <3>3
  <2>6. CASE next # {}
    <3>1. y \in D /\ y[1] = next /\ y[2] = z[2] \cup next /\ <<y, z>> \in R
      BY <2>2, <2>3, <2>6 DEF Turns
    <3> HIDE DEF y
    <3>2. FoundUp(edges, f, y)
      BY <2>1, <3>1
    <3>3. f[y] \in Seq(SUBSET MemberIds)
      BY <3>1 DEF SearchesUp
    <3>4. found = next \cup rest
      <4>1. f[z] = <<next>> \o f[y]
        BY <2>4, <2>6
      <4>2. ToSet(f[z]) = {next} \cup ToSet(f[y])
        <5>1. <<next>> \in Seq(SUBSET MemberIds) /\ Len(<<next>>) = 1 /\ <<next>>[1] = next
          BY <2>3
        <5>2. /\ Len(f[z]) = 1 + Len(f[y]) /\ f[z] \in Seq(SUBSET MemberIds)
              /\ \A i \in 1 .. 1 + Len(f[y]) : f[z][i] = IF i <= 1 THEN <<next>>[i] ELSE f[y][i - 1]
          BY <3>3, <4>1, <5>1, ConcatProperties
        <5>3. Len(f[y]) \in Nat /\ DOMAIN f[y] = 1 .. Len(f[y]) /\ DOMAIN f[z] = 1 .. 1 + Len(f[y])
          BY <3>3, <5>2, LenProperties
        <5>4. f[z][1] = next /\ 1 \in DOMAIN f[z]
          BY <5>1, <5>2, <5>3
        <5>5. ASSUME NEW i \in DOMAIN f[y] PROVE i + 1 \in DOMAIN f[z] /\ f[z][i + 1] = f[y][i]
          <6>1. i \in Nat /\ i + 1 \in 1 .. 1 + Len(f[y]) /\ ~ (i + 1 <= 1) /\ (i + 1) - 1 = i
            BY <5>3
          <6> QED BY <5>2, <5>3, <6>1
        <5>6. ASSUME NEW i \in DOMAIN f[z], i # 1 PROVE i - 1 \in DOMAIN f[y] /\ f[z][i] = f[y][i - 1]
          <6>1. i \in 1 .. 1 + Len(f[y]) /\ ~ (i <= 1) /\ i - 1 \in 1 .. Len(f[y])
            BY <5>3, <5>6
          <6> QED BY <5>2, <5>3, <6>1
        <5> QED BY <5>4, <5>5, <5>6 DEF ToSet
      <4> QED BY <4>2
    <3> HIDE DEF found, rest
    <3>5. /\ rest \cap (z[2] \cup next) = {} /\ Parents(edges, next) \ (z[2] \cup next) \subseteq rest
          /\ Parents(edges, z[2] \cup next) \subseteq (z[2] \cup next) \cup Parents(edges, next)
               => Parents(edges, (z[2] \cup next) \cup rest) \subseteq (z[2] \cup next) \cup rest
          /\ \A C : Parents(edges, next) \ (z[2] \cup next) \subseteq C /\ Parents(edges, C) \subseteq C
                      => rest \subseteq C
      BY <3>1, <3>2 DEF FoundUp, rest
    <3>6. ASSUME Parents(edges, z[2]) \subseteq z[2] \cup Parents(edges, z[1])
          PROVE  Parents(edges, z[2] \cup found) \subseteq z[2] \cup found
      <4>1. Parents(edges, z[1]) \subseteq z[2] \cup next
        BY DEF next
      <4>2. Parents(edges, z[2] \cup next) \subseteq (z[2] \cup next) \cup Parents(edges, next)
        BY <3>6, <4>1, ParentsShape
      <4>3. (z[2] \cup next) \cup rest = z[2] \cup found
        BY <3>4
      <4> QED BY <3>5, <4>2, <4>3
    <3>7. ASSUME NEW C, next \subseteq C, Parents(edges, C) \subseteq C PROVE found \subseteq C
      <4>1. Parents(edges, next) \subseteq C
        BY <3>7, ParentsShape
      <4> QED BY <3>4, <3>5, <3>7, <4>1
    <3>8. found \cap z[2] = {} /\ next \subseteq found
      BY <2>3, <3>4, <3>5
    <3>9. FoundUp(edges, f, z)
      BY <3>6, <3>7, <3>8 DEF FoundUp, next, found
    <3> QED BY <2>2, <3>9
  <2> QED BY <2>5, <2>6
<1> QED BY <1>2

\* The ancestors of a member are what is above it in the hierarchy of its dimension.
LEMMA AncestorsAreAbove ==
  ASSUME NEW eff, NEW m \in MemberIds, EdgesOK(HierarchyEdges(eff, DimensionOf(eff, m)))
  PROVE  LET edges == HierarchyEdges(eff, DimensionOf(eff, m))
         IN  AncestorSet(eff, m) = Reached(Reversed(edges), m) \ {m}
<1> DEFINE edges == HierarchyEdges(eff, DimensionOf(eff, m))
           up == Reversed(edges)
<1>1. PICK f : SearchesUp(edges, f)
  BY SearchUpDefined
<1> HIDE DEF edges
<1> DEFINE search[turn \in (SUBSET MemberIds) \X (SUBSET MemberIds)] ==
        LET next == Parents(edges, turn[1]) \ turn[2]
        IN  IF next = {} THEN <<>> ELSE <<next>> \o search[<<next, turn[2] \cup next>>]
<1>2. f = [turn \in (SUBSET MemberIds) \X (SUBSET MemberIds) |->
            LET next == Parents(edges, turn[1]) \ turn[2]
            IN  IF next = {} THEN <<>> ELSE <<next>> \o f[<<next, turn[2] \cup next>>]]
  BY <1>1 DEF SearchesUp, Turns
<1>3. search = [turn \in (SUBSET MemberIds) \X (SUBSET MemberIds) |->
            LET next == Parents(edges, turn[1]) \ turn[2]
            IN  IF next = {} THEN <<>> ELSE <<next>> \o search[<<next, turn[2] \cup next>>]]
  <2> HIDE <1>1
  <2> QED BY <1>2, Zenon
<1>4. AncestorsView(eff, m) = search[<<{m}, {m}>>]
  BY DEF AncestorsView, edges
<1> HIDE DEF search
<1>5. ASSUME NEW z \in Turns
      PROVE  search[z] = LET next == Parents(edges, z[1]) \ z[2]
                         IN  IF next = {} THEN <<>> ELSE <<next>> \o search[<<next, z[2] \cup next>>]
  BY <1>3 DEF Turns
<1>6. \A z \in Turns : search[z] = f[z]
  <2> DEFINE Bad == {z \in Turns : search[z] # f[z]}
             R == {z \in Turns \X Turns : z[2][2] \subseteq z[1][2] /\ z[1][2] # z[2][2]}
  <2>1. SUFFICES ASSUME Bad # {} PROVE FALSE
    OBVIOUS
  <2>2. PICK z \in Bad : \A y \in Bad : <<y, z>> \notin R
    <3>1. Bad \subseteq Turns
      OBVIOUS
    <3>2. IsWellFoundedOn(R, Turns)
      <4> HIDE DEF R
      <4> QED BY UpOrder, EngineAssumption DEF R
    <3> HIDE DEF Bad, R
    <3> QED BY <2>1, <3>1, <3>2, WFMin
  <2> DEFINE next == Parents(edges, z[1]) \ z[2]
             y == <<next, z[2] \cup next>>
  <2>3. next \in SUBSET MemberIds /\ next \cap z[2] = {}
    BY EngineAssumption DEF Parents, edges, HierarchyEdges, ActiveEdges, ActiveMembers
  <2>4. /\ search[z] = IF next = {} THEN <<>> ELSE <<next>> \o search[y]
        /\ f[z] = IF next = {} THEN <<>> ELSE <<next>> \o f[y]
    BY <1>1, <1>5 DEF SearchesUp
  <2> HIDE DEF next
  <2>5. next # {} /\ search[y] # f[y]
    BY <2>4
  <2>6. y \in Turns /\ <<y, z>> \in R
    BY <2>3, <2>5 DEF Turns
  <2> HIDE DEF R, y
  <2>7. y \in Bad
    BY <2>5, <2>6
  <2> QED BY <2>2, <2>6, <2>7
<1> DEFINE start == <<{m}, {m}>>
           found == UNION ToSet(f[start])
           above == Reached(up, m)
<1>7. start \in Turns /\ start[1] = {m} /\ start[2] = {m}
  BY DEF Turns
<1>8. AncestorSet(eff, m) = found
  BY <1>4, <1>6, <1>7 DEF AncestorSet
<1>9. EdgesOK(edges)
  BY DEF edges
<1> HIDE DEF start
<1>10. FoundUp(edges, f, start)
  BY <1>1, <1>7, <1>9, SearchUpFinds
<1>11. /\ found \cap {m} = {} /\ Parents(edges, {m}) \ {m} \subseteq found
       /\ Parents(edges, {m} \cup found) \subseteq {m} \cup found
       /\ \A C : Parents(edges, {m}) \ {m} \subseteq C /\ Parents(edges, C) \subseteq C => found \subseteq C
  BY <1>7, <1>10 DEF FoundUp
<1>12. EdgesOK(up)
  BY <1>9 DEF EdgesOK, Reversed
<1>13. /\ \A e \in edges : \E x \in up : x[1] = e[2] /\ x[2] = e[1]
       /\ \A x \in up : \E e \in edges : x[1] = e[2] /\ x[2] = e[1]
  <2>1. ASSUME NEW e \in edges PROVE \E x \in up : x[1] = e[2] /\ x[2] = e[1]
    <3>1. <<e[2], e[1]>> \in up
      BY DEF Reversed
    <3> HIDE DEF up
    <3> QED BY <3>1
  <2>2. ASSUME NEW x \in up PROVE \E e \in edges : x[1] = e[2] /\ x[2] = e[1]
    <3>1. PICK e \in edges : x = <<e[2], e[1]>>
      BY DEF Reversed
    <3> QED BY <3>1
  <2> QED BY <2>1, <2>2
<1> HIDE DEF up
<1>14. NextTo(up, m) = Parents(edges, {m})
  <2>1. NextTo(up, m) = {x[2] : x \in {y \in up : y[1] = m}}
    BY DEF NextTo
  <2>2. Parents(edges, {m}) = {e[1] : e \in {g \in edges : g[2] \in {m}}}
    BY DEF Parents
  <2>3. ASSUME NEW n PROVE n \in NextTo(up, m) <=> \E x \in up : x[1] = m /\ x[2] = n
    BY <2>1
  <2>4. ASSUME NEW n PROVE n \in Parents(edges, {m}) <=> \E e \in edges : e[2] = m /\ e[1] = n
    BY <2>2
  <2>5. ASSUME NEW n PROVE n \in NextTo(up, m) <=> n \in Parents(edges, {m})
    <3>1. ASSUME NEW x \in up, x[1] = m, x[2] = n PROVE \E e \in edges : e[2] = m /\ e[1] = n
      <4>1. PICK e \in edges : x[1] = e[2] /\ x[2] = e[1]
        BY <1>13
      <4> QED BY <3>1, <4>1
    <3>2. ASSUME NEW e \in edges, e[2] = m, e[1] = n PROVE \E x \in up : x[1] = m /\ x[2] = n
      <4>1. PICK x \in up : x[1] = e[2] /\ x[2] = e[1]
        BY <1>13
      <4> QED BY <3>2, <4>1
    <3> QED BY <2>3, <2>4, <3>1, <3>2
  <2> QED BY <2>5
<1>15. ASSUME NEW C PROVE ClosedUnder(up, C) <=> Parents(edges, C) \subseteq C
  <2>1. ClosedUnder(up, C) <=> \A x \in up : x[1] \in C => x[2] \in C
    BY DEF ClosedUnder
  <2>2. Parents(edges, C) \subseteq C <=> \A e \in edges : e[2] \in C => e[1] \in C
    BY DEF Parents
  <2> QED BY <1>13, <2>1, <2>2
<1> HIDE DEF found
<1>16. /\ Parents(edges, {m}) \subseteq above /\ Parents(edges, above) \subseteq above
       /\ \A C : Parents(edges, {m}) \subseteq C /\ Parents(edges, C) \subseteq C => above \subseteq C
  <2>1. /\ NextTo(up, m) \subseteq Reached(up, m) /\ ClosedUnder(up, Reached(up, m))
        /\ \A C : NextTo(up, m) \subseteq C /\ ClosedUnder(up, C) => Reached(up, m) \subseteq C
    BY <1>12, ReachedIsLeast
  <2> QED BY <1>14, <1>15, <2>1
<1> HIDE DEF above
<1>17. found \subseteq above
  BY <1>11, <1>16
<1>18. above \subseteq {m} \cup found
  BY <1>11, <1>16
<1>19. found = above \ {m}
  BY <1>11, <1>17, <1>18
<1> QED BY <1>8, <1>19 DEF above, up, edges

\* The stronger of two tokens of a scale; a token of the strongest level is one of
\* those it is chosen from.
LEMMA StrongestTokenShape ==
  ASSUME NEW d, NEW s, s \in DOMAIN d.scales, LevelsOK(d.scales[s]),
         NEW tokens, tokens \subseteq Tokens(d, s), tokens # {}
  PROVE  StrongestToken(d, s, tokens) \in tokens
<1> DEFINE stronger(t, u) == \/ Value(d, s, t) > Value(d, s, u)
                             \/ Value(d, s, t) = Value(d, s, u) /\ Level(d, s, t) > Level(d, s, u)
           Good == {T \in SUBSET tokens : T # {} => \E t \in T : \A u \in T \ {t} : stronger(t, u)}
<1>1. ASSUME NEW t \in tokens
      PROVE  /\ Level(d, s, t) \in Nat /\ d.scales[s][Level(d, s, t)].token = t
             /\ Value(d, s, t) \in Int
  <2>1. \E i \in DOMAIN d.scales[s] : d.scales[s][i].token = t
    BY DEF Tokens
  <2>2. Level(d, s, t) \in DOMAIN d.scales[s] /\ d.scales[s][Level(d, s, t)].token = t
    BY <2>1 DEF Level
  <2>3. DOMAIN d.scales[s] \subseteq Nat
    BY LenProperties DEF LevelsOK
  <2> QED BY <2>2, <2>3 DEF LevelsOK, Value
<1>2. IsFiniteSet(tokens)
  <2>1. IsFiniteSet(Tokens(d, s))
    BY ValueShape
  <2> QED BY <2>1, FS_Subset
<1>3. ASSUME NEW t \in tokens, NEW u \in tokens, t # u PROVE stronger(t, u) \/ stronger(u, t)
  <2>1. Level(d, s, t) # Level(d, s, u)
    BY <1>1, <1>3
  <2>2. Level(d, s, t) \in Nat /\ Level(d, s, u) \in Nat /\ Value(d, s, t) \in Int /\ Value(d, s, u) \in Int
    BY <1>1
  <2> QED BY <2>1, <2>2
<1>4. ASSUME NEW t \in tokens, NEW u \in tokens, NEW v \in tokens, stronger(t, u), stronger(u, v)
      PROVE  stronger(t, v)
  <2>1. /\ Level(d, s, t) \in Nat /\ Level(d, s, u) \in Nat /\ Level(d, s, v) \in Nat
        /\ Value(d, s, t) \in Int /\ Value(d, s, u) \in Int /\ Value(d, s, v) \in Int
    BY <1>1
  <2> QED BY <1>4, <2>1
<1> HIDE DEF stronger
<1>5. ASSUME NEW T \in SUBSET tokens, T # {}, \A x \in T : T \ {x} \in Good PROVE T \in Good
  <2>1. PICK x \in T : TRUE
    BY <1>5
  <2>2. CASE T \ {x} = {}
    BY <2>1, <2>2
  <2>3. CASE T \ {x} # {}
    <3>1. PICK t \in T \ {x} : \A u \in (T \ {x}) \ {t} : stronger(t, u)
      BY <1>5, <2>3
    <3>2. CASE stronger(t, x)
      BY <3>1, <3>2
    <3>3. CASE stronger(x, t)
      <4>1. \A u \in T \ {x} : stronger(x, u)
        BY <1>4, <3>1, <3>3
      <4> QED BY <4>1
    <3> QED BY <1>3, <3>1, <3>2, <3>3
  <2> QED BY <2>2, <2>3
<1>6. tokens \in Good
  <2>1. {} \in Good
    OBVIOUS
  <2>2. \A T \in SUBSET tokens : T # {} /\ (\A x \in T : T \ {x} \in Good) => T \in Good
    BY <1>5
  <2>3. \A T \in SUBSET tokens : T \in Good
    <3> HIDE DEF Good
    <3> QED BY <1>2, <2>1, <2>2, AllSubsets
  <2> QED BY <2>3
<1>7. \E t \in tokens : \A u \in tokens \ {t} : stronger(t, u)
  BY <1>6
<1> QED BY <1>7 DEF StrongestToken, stronger

-----------------------------------------------------------------------------
(* What a roll-up derives *)

\* The observations that count are some of the cell's.
LEMMA RankExists ==
  ASSUME NEW S \in SUBSET Nat, IsFiniteSet(S)
  PROVE  \A k \in 1 .. Cardinality(S) : \E i \in S : Cardinality({j \in S : j <= i}) = k
<1> DEFINE ranked(T) == \A k \in 1 .. Cardinality(T) : \E i \in T : Cardinality({j \in T : j <= i}) = k
           Good == {T \in SUBSET S : ranked(T)}
<1>1. {} \in Good
  BY FS_EmptySet
<1>2. ASSUME NEW T \in SUBSET S, T # {}, \A x \in T : T \ {x} \in Good PROVE T \in Good
  <2>1. PICK x \in T : \A j \in T : j <= x
    <3>1. IsFiniteSet(T) /\ T \subseteq Int
      <4>1. IsFiniteSet(T)
        BY FS_Subset
      <4> QED BY <4>1
    <3>2. Max(T) \in T /\ \A j \in T : Max(T) >= j
      BY <1>2, <3>1, MaxOfInts
    <3>3. \A j \in T : j <= Max(T)
      <4> DEFINE m == Max(T)
      <4>1. m \in Nat /\ \A j \in T : j \in Nat /\ m >= j
        BY <3>2
      <4> HIDE DEF m
      <4>2. \A j \in T : j <= m
        BY <4>1
      <4> QED BY <4>2 DEF m
    <3> QED BY <3>2, <3>3
  <2> DEFINE U == T \ {x}
  <2>2. /\ ranked(U) /\ Cardinality(T) = Cardinality(U) + 1 /\ Cardinality(U) \in Nat
        /\ U \in SUBSET Nat /\ x \in Nat
    <3>1. IsFiniteSet(U) /\ x \notin U /\ T = U \cup {x}
      BY <2>1, FS_Subset
    <3>2. Cardinality(T) = Cardinality(U) + 1 /\ Cardinality(U) \in Nat
      <4> HIDE DEF U
      <4> QED BY <3>1, FS_AddElement, FS_CardinalityType
    <3> QED BY <1>2, <2>1, <3>2
  <2>3. {j \in T : j <= x} = T
    BY <2>1
  <2>4. ASSUME NEW i \in U PROVE {j \in T : j <= i} = {j \in U : j <= i}
    <3>1. ~ (x <= i)
      BY <2>1, <2>2
    <3> QED BY <3>1
  <2>5. ASSUME NEW k \in 1 .. Cardinality(T) PROVE \E i \in T : Cardinality({j \in T : j <= i}) = k
    <3>1. CASE k = Cardinality(T)
      BY <2>1, <2>3, <3>1
    <3>2. CASE k # Cardinality(T)
      <4>1. k \in 1 .. Cardinality(U)
        <5> HIDE DEF U
        <5> QED BY <2>2, <3>2
      <4>2. PICK i \in U : Cardinality({j \in U : j <= i}) = k
        BY <2>2, <4>1
      <4>3. i \in T /\ Cardinality({j \in T : j <= i}) = k
        BY <2>4, <4>2
      <4> QED BY <4>3
    <3> QED BY <3>1, <3>2
  <2> QED BY <2>5
<1>3. \A T \in SUBSET S : T \in Good
  <2> HIDE DEF Good
  <2> QED BY <1>1, <1>2, AllSubsets
<1> QED BY <1>3

LEMMA AcceptedFrom ==
  ASSUME NEW cell, cell \in Seq(Range(cell))
  PROVE  \A k \in DOMAIN Accepted(cell) : \E j \in Confirmed(cell) : Accepted(cell)[k] = cell[j]
<1> DEFINE f == Restrict(cell, Confirmed(cell))
<1>1. /\ IsFiniteSet(Confirmed(cell)) /\ Confirmed(cell) \in SUBSET Nat
      /\ DOMAIN Accepted(cell) = 1 .. Cardinality(Confirmed(cell))
  BY AcceptedShape
<1>2. DOMAIN f = Confirmed(cell) /\ \A j \in Confirmed(cell) : f[j] = cell[j]
  BY DEF Restrict
<1> HIDE DEF f
<1>3. ASSUME NEW k \in DOMAIN Accepted(cell) PROVE \E j \in Confirmed(cell) : Accepted(cell)[k] = cell[j]
  <2> DEFINE i == CHOOSE i \in DOMAIN f : Cardinality({j \in DOMAIN f : j <= i}) = k
  <2>1. Accepted(cell)[k] = f[i]
    BY <1>1, <1>2 DEF Accepted, InTurn, f
  <2>2. \E n \in DOMAIN f : Cardinality({j \in DOMAIN f : j <= n}) = k
    BY <1>1, <1>2, RankExists
  <2>3. i \in DOMAIN f
    BY <2>2
  <2> HIDE DEF i
  <2> QED BY <1>2, <2>1, <2>3
<1> QED BY <1>3

\* What is above a member in the hierarchy of a dimension, and whether a cell has
\* an end point below that of another.
Above(eff, e, m) == Reached(Reversed(HierarchyEdges(eff, e)), m) \ {m}

Stands(eff, r, p) ==
  \E q \in ActiveEdges(eff, r) :
    \/ q[2] = p[2] /\ p[1] \in Above(eff, eff.relations[r].from, q[1])
    \/ q[1] = p[1] /\ p[2] \in Above(eff, eff.relations[r].to, q[2])

LEMMA MemberShape ==
  ASSUME NEW d, DocumentOK(d), NEW e, NEW m \in MembersOf(d, e)
  PROVE  e \in DOMAIN d.dimensions /\ m \in MemberIds
<1>1. e \in DOMAIN d.dimensions
  <2>1. DOMAIN << >> = {}
    OBVIOUS
  <2> QED BY <2>1 DEF MembersOf, Members, Declared
<1> QED BY <1>1 DEF DocumentOK, DimensionOK, MembersOf, Members, Declared

\* The hierarchy of a dimension is between its members.
LEMMA HierarchyShape ==
  ASSUME NEW d, DocumentOK(d), NEW e
  PROVE  LET eff == Effective(d)
         IN  /\ HierarchyEdges(eff, e) \subseteq MembersOf(d, e) \X MembersOf(d, e)
             /\ EdgesOK(HierarchyEdges(eff, e))
             /\ HierarchyEdges(eff, e) # {} => HasHierarchy(eff, e)
<1> DEFINE eff == Effective(d)
<1>1. /\ DOMAIN eff.relations = DOMAIN d.relations
      /\ \A r \in DOMAIN d.relations :
              /\ eff.relations[r].from = d.relations[r].from
              /\ eff.relations[r].type = d.relations[r].type
              /\ DOMAIN eff.relations[r].cells \subseteq DOMAIN d.relations[r].cells
  <2> HIDE DEF eff
  <2> QED BY EffectiveShape DEF DocumentOK, eff
<1> HIDE DEF eff
<1>2. ASSUME NEW x \in HierarchyEdges(eff, e)
      PROVE  /\ x \in MembersOf(d, e) \X MembersOf(d, e) /\ x \in MemberIds \X MemberIds
             /\ HasHierarchy(eff, e)
  <2>1. PICK r \in ActiveRelations(eff) : /\ eff.relations[r].type = "contains"
                                          /\ eff.relations[r].from = e /\ x \in ActiveEdges(eff, r)
    BY DEF HierarchyEdges
  <2>2. r \in DOMAIN d.relations /\ x \in DOMAIN d.relations[r].cells
    BY <1>1, <2>1 DEF ActiveRelations, ActiveEdges
  <2>3. d.relations[r].type = "contains" /\ d.relations[r].from = e /\ d.relations[r].to = e
    BY <1>1, <2>1, <2>2 DEF DocumentOK, Loads, HierarchyLoads
  <2>4. x \in MemberIds \X MemberIds /\ x[1] \in MembersOf(d, e) /\ x[2] \in MembersOf(d, e)
    BY <2>2, <2>3 DEF DocumentOK, Loads, CellsResolve, RelationOK
  <2>5. HasHierarchy(eff, e)
    BY <2>1 DEF HasHierarchy
  <2> QED BY <2>4, <2>5
<1>3. EdgesOK(HierarchyEdges(eff, e))
  BY <1>2, EngineAssumption DEF EdgesOK
<1> QED BY <1>2, <1>3 DEF eff

LEMMA AboveShape ==
  ASSUME NEW d, DocumentOK(d), Separate(d), NEW e, NEW m \in MembersOf(d, e)
  PROVE  /\ IsMember(Effective(d), m) /\ AncestorSet(Effective(d), m) = Above(Effective(d), e, m)
         /\ AncestorSet(Effective(d), m) \subseteq MembersOf(d, e)
         /\ AncestorSet(Effective(d), m) # {} => HasHierarchy(Effective(d), e)
<1> DEFINE eff == Effective(d)
           edges == HierarchyEdges(eff, e)
<1>1. e \in DOMAIN d.dimensions /\ m \in MemberIds
  BY MemberShape
<1>2. DimensionOf(eff, m) = e
  <2>1. eff.dimensions = d.dimensions
    BY EffectiveShape DEF DocumentOK
  <2>2. DimensionOf(d, m) = e
    BY <1>1, OwnDimension
  <2>3. DimensionOf(eff, m) = DimensionOf(d, m)
    BY <2>1 DEF DimensionOf, MembersOf, Members, Declared
  <2> QED BY <2>2, <2>3
<1>3. IsMember(eff, m)
  BY <1>1, <1>2, EngineAssumption DEF IsMember, DocumentOK
<1>4. EdgesOK(edges) /\ edges \subseteq MembersOf(d, e) \X MembersOf(d, e) /\ (edges # {} => HasHierarchy(eff, e))
  BY HierarchyShape
<1>5. AncestorSet(Effective(d), m) = Above(eff, e, m)
  BY <1>1, <1>2, <1>4, AncestorsAreAbove DEF Above
<1> HIDE DEF edges, eff
<1> DEFINE up == Reversed(edges)
<1>6. EdgesOK(up) /\ up \subseteq MembersOf(d, e) \X MembersOf(d, e) /\ (up # {} => edges # {})
  BY <1>4 DEF EdgesOK, Reversed
<1> HIDE DEF up
<1>7. Reached(up, m) \subseteq MembersOf(d, e)
  <2>1. NextTo(up, m) \subseteq MembersOf(d, e) /\ ClosedUnder(up, MembersOf(d, e))
    BY <1>6 DEF NextTo, ClosedUnder
  <2> QED BY <1>6, <2>1, ReachedIsLeast
<1>8. up = {} => Reached(up, m) = {}
  <2>1. up = {} => NextTo(up, m) \subseteq {} /\ ClosedUnder(up, {})
    BY DEF NextTo, ClosedUnder
  <2> QED BY <1>6, <2>1, ReachedIsLeast
<1> QED BY <1>3, <1>4, <1>5, <1>6, <1>7, <1>8 DEF Above, up, edges, eff

\* The end points of a cell in use.
LEMMA EdgeShape ==
  ASSUME NEW d, DocumentOK(d), NEW r \in DOMAIN d.relations, NEW q \in ActiveEdges(Effective(d), r)
  PROVE  /\ q[1] \in MembersOf(d, d.relations[r].from) /\ q[2] \in MembersOf(d, d.relations[r].to)
         /\ q \in DOMAIN Effective(d).relations[r].cells /\ q \in DOMAIN d.relations[r].cells
         /\ q = <<q[1], q[2]>>
<1>1. /\ DOMAIN Effective(d).relations[r].cells \subseteq DOMAIN d.relations[r].cells
  BY EffectiveShape DEF DocumentOK
<1>2. q \in DOMAIN Effective(d).relations[r].cells /\ q \in DOMAIN d.relations[r].cells
  BY <1>1 DEF ActiveEdges
<1>3. q = <<q[1], q[2]>>
  BY DEF ActiveEdges
<1> QED BY <1>2, <1>3 DEF DocumentOK, Loads, CellsResolve

\* What a derived cell stands for: cells with an end point below its own.
LEMMA StandsForShape ==
  ASSUME NEW d, DocumentOK(d), Separate(d), NEW r \in DOMAIN d.relations, NEW above,
         above = [m \in {n \in MemberIds : IsMember(Effective(d), n)} |-> AncestorSet(Effective(d), m)],
         NEW p
  PROVE  StandsFor(Effective(d), r, above, p) # {} <=> Stands(Effective(d), r, p)
<1> DEFINE eff == Effective(d)
           rel == eff.relations[r]
           low(q) == q[2] = p[2] /\ p[1] \in Above(eff, rel.from, q[1])
           high(q) == q[1] = p[1] /\ p[2] \in Above(eff, rel.to, q[2])
           left(q) == q[2] = p[2] /\ p[1] \in above[q[1]] /\ HasHierarchy(eff, rel.from)
           right(q) == q[1] = p[1] /\ p[2] \in above[q[2]] /\ HasHierarchy(eff, rel.to)
<1>1. rel.from = d.relations[r].from /\ rel.to = d.relations[r].to
  BY EffectiveShape DEF DocumentOK
<1>2. ASSUME NEW q \in ActiveEdges(eff, r)
      PROVE  /\ above[q[1]] = Above(eff, rel.from, q[1])
             /\ above[q[1]] # {} => HasHierarchy(eff, rel.from)
             /\ above[q[2]] = Above(eff, rel.to, q[2])
             /\ above[q[2]] # {} => HasHierarchy(eff, rel.to)
  <2>1. q[1] \in MembersOf(d, rel.from) /\ q[2] \in MembersOf(d, rel.to)
    BY <1>1, EdgeShape
  <2> HIDE DEF rel
  <2>2. ASSUME NEW e, NEW m \in MembersOf(d, e)
        PROVE  above[m] = Above(eff, e, m) /\ (above[m] # {} => HasHierarchy(eff, e))
    <3>1. m \in MemberIds /\ IsMember(eff, m) /\ AncestorSet(Effective(d), m) = Above(eff, e, m)
          /\ (AncestorSet(Effective(d), m) # {} => HasHierarchy(eff, e))
      BY MemberShape, AboveShape
    <3>2. above[m] = AncestorSet(Effective(d), m)
      BY <3>1
    <3> QED BY <3>1, <3>2
  <2> QED BY <2>1, <2>2
<1>3. StandsFor(eff, r, above, p) = {q \in ActiveEdges(eff, r) : left(q) \/ right(q)}
  BY DEF StandsFor
<1>4. Stands(eff, r, p) <=> \E q \in ActiveEdges(eff, r) : low(q) \/ high(q)
  BY DEF Stands
<1>5. \A q \in ActiveEdges(eff, r) : (left(q) \/ right(q)) <=> (low(q) \/ high(q))
  BY <1>2
<1> HIDE DEF left, right, low, high, eff
<1>6. StandsFor(eff, r, above, p) # {} <=> Stands(eff, r, p)
  BY <1>3, <1>4, <1>5
<1> QED BY <1>6 DEF eff

\* The cells that are derived, each with a token its relation's scale knows.
LEMMA DerivedStands ==
  ASSUME NEW d, DocumentOK(d), Figures(d), Separate(d), NEW r \in DOMAIN d.relations
  PROVE  LET eff == Effective(d)
             rel == eff.relations[r]
         IN  /\ DOMAIN Derived(Effective(d), r)
                  = {p \in (MemberIds \X MemberIds) \ DOMAIN rel.cells : Stands(eff, r, p)}
             /\ \A p \in DOMAIN Derived(Effective(d), r) :
                  rel.scale \in DOMAIN d.scales => Derived(Effective(d), r)[p][1].token \in Tokens(d, rel.scale)
<1> DEFINE eff == Effective(d)
           rel == eff.relations[r]
           free == (MemberIds \X MemberIds) \ DOMAIN rel.cells
           above == [m \in {n \in MemberIds : IsMember(eff, n)} |-> AncestorSet(Effective(d), m)]
           stands == [p \in free |-> StandsFor(eff, r, above, p)]
           tokens(p) == UNION {{rel.cells[q][i].token : i \in DOMAIN rel.cells[q]} : q \in stands[p]}
<1>1. /\ DOMAIN Derived(Effective(d), r) = {q \in DOMAIN stands : stands[q] # {}}
      /\ \A p \in DOMAIN Derived(Effective(d), r) : Derived(Effective(d), r)[p][1].token = StrongestToken(eff, rel.scale, tokens(p))
  BY DEF Derived
<1>2. ASSUME NEW p \in free PROVE stands[p] # {} <=> Stands(eff, r, p)
  <2>1. stands[p] = StandsFor(eff, r, above, p)
    OBVIOUS
  <2>2. StandsFor(eff, r, above, p) # {} <=> Stands(eff, r, p)
    <3>1. above = [m \in {n \in MemberIds : IsMember(Effective(d), n)} |-> AncestorSet(Effective(d), m)]
      OBVIOUS
    <3> HIDE DEF above
    <3> QED BY <3>1, StandsForShape
  <2> QED BY <2>1, <2>2
<1>3. ASSUME NEW p \in free, NEW q \in stands[p] PROVE q \in ActiveEdges(eff, r)
  BY DEF StandsFor
<1>4. DOMAIN stands = free
  OBVIOUS
<1> HIDE DEF stands, above
<1>5. /\ eff.scales = d.scales /\ rel.scale = d.relations[r].scale
      /\ \A q \in DOMAIN rel.cells : /\ q \in DOMAIN d.relations[r].cells
                                     /\ rel.cells[q] = Accepted(d.relations[r].cells[q])
                                     /\ Confirmed(d.relations[r].cells[q]) # {}
  BY EffectiveShape DEF DocumentOK
<1>6. ASSUME NEW q \in DOMAIN rel.cells, rel.scale \in DOMAIN d.scales
      PROVE  /\ DOMAIN rel.cells[q] # {}
             /\ \A i \in DOMAIN rel.cells[q] : rel.cells[q][i].token \in Tokens(d, rel.scale)
  <2> DEFINE cell == d.relations[r].cells[q]
  <2>1. cell \in Seq(Range(cell)) /\ Confirmed(cell) # {} /\ rel.cells[q] = Accepted(cell)
    BY <1>5 DEF DocumentOK, IsDocument
  <2>2. \A j \in DOMAIN cell : cell[j].token \in Tokens(d, rel.scale)
    BY <1>5, <1>6 DEF DocumentOK, Loads, ObservationsLoad
  <2> HIDE DEF cell, rel
  <2>3. DOMAIN Accepted(cell) = 1 .. Cardinality(Confirmed(cell)) /\ Cardinality(Confirmed(cell)) \in Nat
    BY <2>1, AcceptedShape
  <2>4. Cardinality(Confirmed(cell)) # 0
    BY <2>1, AcceptedShape, FS_EmptySet
  <2>5. 1 \in DOMAIN Accepted(cell)
    BY <2>3, <2>4
  <2>6. Confirmed(cell) \subseteq DOMAIN cell
    BY DEF Confirmed
  <2> QED BY <2>1, <2>2, <2>5, <2>6, AcceptedFrom
<1>7. ASSUME NEW p \in DOMAIN Derived(Effective(d), r), rel.scale \in DOMAIN d.scales
      PROVE  Derived(Effective(d), r)[p][1].token \in Tokens(d, rel.scale)
  <2>1. p \in free /\ stands[p] # {}
    BY <1>1, <1>4
  <2>2. \A q \in stands[p] : q \in DOMAIN rel.cells
    BY <1>3, <2>1 DEF ActiveEdges
  <2>3. tokens(p) # {} /\ tokens(p) \subseteq Tokens(d, rel.scale)
    <3> HIDE DEF rel
    <3>1. PICK q \in stands[p] : TRUE
      BY <2>1
    <3>2. PICK i \in DOMAIN rel.cells[q] : TRUE
      BY <1>6, <1>7, <2>2
    <3>3. rel.cells[q][i].token \in tokens(p)
      BY <3>1, <3>2
    <3>4. ASSUME NEW t \in tokens(p) PROVE t \in Tokens(d, rel.scale)
      <4>1. PICK o \in stands[p] : t \in {rel.cells[o][j].token : j \in DOMAIN rel.cells[o]}
        OBVIOUS
      <4>2. o \in DOMAIN rel.cells
        BY <2>2
      <4> QED BY <1>6, <1>7, <4>1, <4>2
    <3> HIDE DEF tokens
    <3> QED BY <3>3, <3>4
  <2> HIDE DEF tokens, rel
  <2>4. Tokens(eff, rel.scale) = Tokens(d, rel.scale)
    BY <1>5 DEF Tokens
  <2>5. rel.scale \in DOMAIN eff.scales /\ LevelsOK(eff.scales[rel.scale])
    BY <1>5, <1>7 DEF Figures
  <2> HIDE DEF eff
  <2>6. StrongestToken(eff, rel.scale, tokens(p)) \in tokens(p)
    BY <2>3, <2>4, <2>5, StrongestTokenShape
  <2> QED BY <1>1, <2>3, <2>6
<1> HIDE DEF rel, eff, free
<1>8. DOMAIN Derived(Effective(d), r) = {p \in free : Stands(eff, r, p)}
  BY <1>1, <1>2, <1>4
<1> QED BY <1>7, <1>8 DEF rel, eff, free

\* The cells of a relation of the document rolled up: those it had, and those of
\* the members above.
LEMMA RolledCellsShape ==
  ASSUME NEW d, DocumentOK(d), Figures(d), Separate(d), NEW r \in DOMAIN d.relations
  PROVE  LET eff == Effective(d)
             rel == d.relations[r]
             cells == RolledUp(d).relations[r].cells
             real == DOMAIN eff.relations[r].cells
             rolls == rel.status = "active" /\ rel.from # rel.to
             derived == {p \in MemberIds \X MemberIds : rolls /\ Stands(eff, r, p)} \ real
         IN  /\ DOMAIN cells = DOMAIN rel.cells \cup derived
             /\ \A p \in DOMAIN rel.cells \ derived : cells[p] = rel.cells[p]
             /\ \A p \in derived :
                  /\ cells[p] = IF p \in DOMAIN rel.cells THEN Append(rel.cells[p], Derived(Effective(d), r)[p][1])
                                ELSE Derived(Effective(d), r)[p]
                  /\ p \in DOMAIN Derived(Effective(d), r)
             /\ rel.type = "contains" => cells = rel.cells
<1> DEFINE eff == Effective(d)
           rel == d.relations[r]
           cells == RolledUp(d).relations[r].cells
           real == DOMAIN eff.relations[r].cells
           rolls == rel.status = "active" /\ rel.from # rel.to
           standing == {p \in MemberIds \X MemberIds : rolls /\ Stands(eff, r, p)}
           derived == standing \ real
<1>1. cells = IF Rolls(eff, r) THEN RolledCells(d, r) ELSE rel.cells
  BY RolledShape DEF DocumentOK
<1>2. /\ eff.relations[r].from = rel.from /\ eff.relations[r].to = rel.to
      /\ eff.relations[r].type = rel.type /\ eff.relations[r].status = rel.status
      /\ r \in DOMAIN eff.relations
  BY EffectiveShape DEF DocumentOK
<1>3. rel.type = "contains" => rel.from = rel.to
  BY DEF DocumentOK, Loads, HierarchyLoads
<1>4. DOMAIN Derived(Effective(d), r) = {p \in MemberIds \X MemberIds : Stands(eff, r, p)} \ real
  <2> DEFINE D == DOMAIN Derived(Effective(d), r)
  <2>1. D = {p \in (MemberIds \X MemberIds) \ real : Stands(eff, r, p)}
    BY DerivedStands
  <2> HIDE DEF D, real, eff
  <2>2. D = {p \in MemberIds \X MemberIds : Stands(eff, r, p)} \ real
    BY <2>1
  <2> QED BY <2>2 DEF D, real, eff
<1> HIDE DEF real
<1>5. CASE Rolls(eff, r)
  <2>1. rolls
    BY <1>2, <1>5 DEF Rolls, ActiveRelations
  <2>2. DOMAIN Derived(Effective(d), r) = derived
    BY <1>4, <2>1
  <2>3. cells = RolledCells(d, r) /\ rel.type # "contains"
    BY <1>1, <1>2, <1>5 DEF Rolls
  <2>4. DOMAIN cells = DOMAIN rel.cells \cup derived
    BY <2>2, <2>3 DEF RolledCells
  <2>5. ASSUME NEW p \in DOMAIN rel.cells \cup derived
        PROVE  /\ p \in DOMAIN rel.cells /\ p \notin derived => cells[p] = rel.cells[p]
               /\ p \in derived =>
                    /\ p \in DOMAIN Derived(Effective(d), r)
                    /\ cells[p] = IF p \in DOMAIN rel.cells THEN Append(rel.cells[p], Derived(Effective(d), r)[p][1])
                                  ELSE Derived(Effective(d), r)[p]
    <3>1. p \in DOMAIN RolledCells(d, r) /\ IsDocument(d)
      BY <2>3, <2>4 DEF DocumentOK
    <3>2. /\ p \in DOMAIN rel.cells /\ p \notin DOMAIN Derived(Effective(d), r) => RolledCells(d, r)[p] = rel.cells[p]
          /\ p \notin DOMAIN rel.cells => RolledCells(d, r)[p] = Derived(Effective(d), r)[p]
          /\ p \in DOMAIN rel.cells /\ p \in DOMAIN Derived(Effective(d), r)
               => RolledCells(d, r)[p] = Append(rel.cells[p], Derived(Effective(d), r)[p][1])
      BY <3>1, RolledCellShape
    <3> HIDE DEF derived, cells, rel
    <3> QED BY <2>2, <2>3, <3>2
  <2> HIDE DEF derived, cells
  <2>6. /\ \A p \in DOMAIN rel.cells \ derived : cells[p] = rel.cells[p]
        /\ \A p \in derived :
             /\ cells[p] = IF p \in DOMAIN rel.cells THEN Append(rel.cells[p], Derived(Effective(d), r)[p][1])
                           ELSE Derived(Effective(d), r)[p]
             /\ p \in DOMAIN Derived(Effective(d), r)
    BY <2>5
  <2> QED BY <2>3, <2>4, <2>6 DEF derived, cells, standing, rolls, eff, rel, real
<1>6. CASE ~ Rolls(eff, r)
  <2>1. cells = rel.cells
    BY <1>1, <1>6
  <2>2. ASSUME NEW p \in MemberIds \X MemberIds, rolls, Stands(eff, r, p) PROVE FALSE
    <3>1. r \in ActiveRelations(eff) /\ eff.relations[r].type # "contains"
          /\ eff.relations[r].from # eff.relations[r].to
      BY <1>2, <1>3, <2>2 DEF ActiveRelations
    <3>2. ~ HasHierarchy(eff, rel.from) /\ ~ HasHierarchy(eff, rel.to)
      BY <1>2, <1>6, <3>1 DEF Rolls
    <3>3. PICK q \in ActiveEdges(eff, r) :
            \/ q[2] = p[2] /\ p[1] \in Above(eff, rel.from, q[1])
            \/ q[1] = p[1] /\ p[2] \in Above(eff, rel.to, q[2])
      BY <1>2, <2>2 DEF Stands
    <3>4. q[1] \in MembersOf(d, rel.from) /\ q[2] \in MembersOf(d, rel.to)
      BY EdgeShape
    <3>5. Above(eff, rel.from, q[1]) = {} /\ Above(eff, rel.to, q[2]) = {}
      BY <3>2, <3>4, AboveShape
    <3> QED BY <3>3, <3>5
  <2>3. derived = {}
    BY <2>2
  <2> HIDE DEF derived, cells, rel
  <2>4. /\ DOMAIN cells = DOMAIN rel.cells \cup derived
        /\ \A p \in DOMAIN rel.cells \ derived : cells[p] = rel.cells[p]
        /\ \A p \in derived : FALSE
    BY <2>1, <2>3
  <2> QED BY <2>1, <2>4 DEF derived, cells, standing, rolls, eff, rel, real
<1> QED BY <1>5, <1>6

LEMMA RolledLoads ==
  ASSUME NEW d, DocumentOK(d), Figures(d), Separate(d)
  PROVE  Loads(RolledUp(d))
<1> DEFINE n == RolledUp(d)
           eff == Effective(d)
           derived(r) == {p \in MemberIds \X MemberIds :
                            /\ d.relations[r].status = "active" /\ d.relations[r].from # d.relations[r].to
                            /\ Stands(eff, r, p)} \ DOMAIN eff.relations[r].cells
           old(r) == d.relations[r].cells
           new(r) == n.relations[r].cells
<1>1. /\ n.dimensions = d.dimensions /\ n.scales = d.scales /\ n.contractions = d.contractions
      /\ DOMAIN n.relations = DOMAIN d.relations
      /\ \A r \in DOMAIN d.relations :
           /\ n.relations[r].from = d.relations[r].from /\ n.relations[r].to = d.relations[r].to
           /\ n.relations[r].type = d.relations[r].type /\ n.relations[r].scale = d.relations[r].scale
  <2> HIDE DEF n
  <2> QED BY RolledShape DEF n, DocumentOK
<1>2. ASSUME NEW r \in DOMAIN d.relations
      PROVE  /\ DOMAIN new(r) = DOMAIN old(r) \cup derived(r)
             /\ \A p \in DOMAIN old(r) \ derived(r) : new(r)[p] = old(r)[p]
             /\ \A p \in derived(r) :
                  /\ new(r)[p] = IF p \in DOMAIN old(r) THEN Append(old(r)[p], Derived(Effective(d), r)[p][1])
                                 ELSE Derived(Effective(d), r)[p]
                  /\ p \in DOMAIN Derived(Effective(d), r)
             /\ d.relations[r].type = "contains" => new(r) = old(r)
  BY RolledCellsShape
<1>3. ASSUME NEW r \in DOMAIN d.relations, NEW p \in derived(r)
      PROVE  p[1] \in MembersOf(d, d.relations[r].from) /\ p[2] \in MembersOf(d, d.relations[r].to)
  <2>1. eff.relations[r].from = d.relations[r].from /\ eff.relations[r].to = d.relations[r].to
    BY EffectiveShape DEF DocumentOK
  <2>2. PICK q \in ActiveEdges(eff, r) :
            \/ q[2] = p[2] /\ p[1] \in Above(eff, d.relations[r].from, q[1])
            \/ q[1] = p[1] /\ p[2] \in Above(eff, d.relations[r].to, q[2])
    BY <2>1 DEF Stands
  <2>3. q[1] \in MembersOf(d, d.relations[r].from) /\ q[2] \in MembersOf(d, d.relations[r].to)
    BY EdgeShape
  <2>4. /\ Above(eff, d.relations[r].from, q[1]) \subseteq MembersOf(d, d.relations[r].from)
        /\ Above(eff, d.relations[r].to, q[2]) \subseteq MembersOf(d, d.relations[r].to)
    <3>1. \A e : \A m \in MembersOf(d, e) : Above(eff, e, m) \subseteq MembersOf(d, e)
      BY AboveShape
    <3> HIDE DEF eff
    <3> QED BY <2>3, <3>1
  <2> QED BY <2>2, <2>3, <2>4
<1> HIDE DEF n, derived, new, old
<1>4. ASSUME NEW c \in DOMAIN n.contractions PROVE ChainLoads(n, n.contractions[c].chain)
  <2>1. ChainLoads(d, n.contractions[c].chain)
    BY <1>1 DEF DocumentOK, Loads
  <2> QED BY <1>1, <2>1 DEF ChainLoads
<1>5. ASSUME NEW r \in DOMAIN n.relations PROVE CellsResolve(n, n.relations[r])
  <2>1. r \in DOMAIN d.relations /\ \A e : MembersOf(n, e) = MembersOf(d, e)
    BY <1>1 DEF MembersOf, Members, Declared
  <2>2. \A p \in DOMAIN old(r) : /\ p[1] \in MembersOf(d, d.relations[r].from)
                                 /\ p[2] \in MembersOf(d, d.relations[r].to)
    BY <2>1 DEF DocumentOK, Loads, CellsResolve, old
  <2>3. \A p \in DOMAIN new(r) : /\ p[1] \in MembersOf(d, d.relations[r].from)
                                 /\ p[2] \in MembersOf(d, d.relations[r].to)
    BY <1>2, <1>3, <2>1, <2>2
  <2> QED BY <1>1, <2>1, <2>3 DEF CellsResolve, new
<1>6. ASSUME NEW r \in DOMAIN n.relations PROVE ObservationsLoad(n, n.relations[r])
  <2>1. r \in DOMAIN d.relations
    BY <1>1
  <2> DEFINE s == d.relations[r].scale
             fine(o) == o.token \in Tokens(d, s) /\ (o.provenance = "inferred" => o.evidence > 0)
  <2>2. SUFFICES ASSUME s \in DOMAIN d.scales
                 PROVE \A p \in DOMAIN new(r) : \A i \in DOMAIN new(r)[p] : fine(new(r)[p][i])
    <3> DEFINE rel == n.relations[r]
    <3>1. rel.scale = s /\ rel.cells = new(r) /\ Tokens(n, s) = Tokens(d, s) /\ n.scales = d.scales
      BY <1>1, <2>1 DEF Tokens, new
    <3>2. ASSUME s \in DOMAIN d.scales => \A p \in DOMAIN new(r) : \A i \in DOMAIN new(r)[p] : fine(new(r)[p][i])
          PROVE ObservationsLoad(n, rel)
      <4> HIDE DEF rel
      <4> QED BY <3>1, <3>2 DEF ObservationsLoad
    <3> QED BY <2>2, <3>2
  <2>3. \A p \in DOMAIN old(r) : \A i \in DOMAIN old(r)[p] : fine(old(r)[p][i])
    BY <2>2, <2>1 DEF DocumentOK, Loads, ObservationsLoad, old
  <2>4. ASSUME NEW p \in DOMAIN Derived(Effective(d), r)
        PROVE  Derived(Effective(d), r)[p] = <<Derived(Effective(d), r)[p][1]>> /\ fine(Derived(Effective(d), r)[p][1])
    <3>1. Derived(Effective(d), r)[p] = <<Derived(Effective(d), r)[p][1]>> /\ Derived(Effective(d), r)[p][1].provenance = None
      BY DerivedShape
    <3>2. eff.relations[r].scale = s
      BY <2>1, EffectiveShape DEF DocumentOK
    <3>3. Derived(Effective(d), r)[p][1].token \in Tokens(d, s)
      BY <2>2, <2>1, <3>2, DerivedStands
    <3> QED BY <3>1, <3>3, EngineAssumption
  <2>5. \A p \in DOMAIN old(r) : old(r)[p] \in Seq(Range(old(r)[p]))
    BY <2>1 DEF DocumentOK, IsDocument, old
  <2> HIDE DEF fine
  <2>6. ASSUME NEW p \in DOMAIN new(r), NEW i \in DOMAIN new(r)[p] PROVE fine(new(r)[p][i])
    <3>1. CASE p \notin derived(r)
      BY <1>2, <2>1, <2>3, <3>1
    <3>2. CASE p \in derived(r) /\ p \notin DOMAIN old(r)
      <4>1. new(r)[p] = <<Derived(Effective(d), r)[p][1]>> /\ fine(Derived(Effective(d), r)[p][1])
        BY <1>2, <2>1, <2>4, <3>2
      <4> QED BY <4>1
    <3>3. CASE p \in derived(r) /\ p \in DOMAIN old(r)
      <4> DEFINE x == Derived(Effective(d), r)[p][1]
                 cell == old(r)[p]
                 S == Range(cell) \cup {x}
      <4>1. new(r)[p] = Append(cell, x) /\ fine(x)
        BY <1>2, <2>1, <2>4, <3>3
      <4>2. \A j \in DOMAIN cell : fine(cell[j])
        BY <2>3, <3>3
      <4>3. cell \in Seq(Range(cell))
        BY <2>5, <3>3
      <4> HIDE DEF x, cell
      <4>4. cell \in Seq(S) /\ x \in S
        BY <4>3, SeqMonotonic
      <4> HIDE DEF S
      <4>5. /\ DOMAIN Append(cell, x) = 1 .. Len(cell) + 1 /\ DOMAIN cell = 1 .. Len(cell) /\ Len(cell) \in Nat
            /\ \A j \in 1 .. Len(cell) : Append(cell, x)[j] = cell[j]
            /\ Append(cell, x)[Len(cell) + 1] = x
        BY <4>4, AppendProperties, LenProperties
      <4>6. ASSUME NEW j \in DOMAIN Append(cell, x) PROVE fine(Append(cell, x)[j])
        <5>1. j \in 1 .. Len(cell) \/ j = Len(cell) + 1
          BY <4>5
        <5> QED BY <4>1, <4>2, <4>5, <5>1
      <4> QED BY <4>1, <4>6
    <3> QED BY <3>1, <3>2, <3>3
  <2> QED BY <2>6
<1>7. ASSUME NEW r \in DOMAIN n.relations PROVE HierarchyLoads(n, r)
  <2>1. r \in DOMAIN d.relations /\ ActiveMembers(n) = ActiveMembers(d)
    BY <1>1 DEF ActiveMembers, MembersOf, Members, Declared
  <2>2. d.relations[r].type = "contains" => ActiveEdges(n, r) = ActiveEdges(d, r)
    BY <1>2, <2>1 DEF ActiveEdges, new, old
  <2>3. HierarchyLoads(d, r)
    BY <2>1 DEF DocumentOK, Loads
  <2> QED BY <1>1, <2>1, <2>2, <2>3 DEF HierarchyLoads
<1>8. Loads(n)
  BY <1>4, <1>5, <1>6, <1>7 DEF Loads
<1> QED BY <1>8 DEF n

\* The cells in the effective view are those that some observation counts in.
LEMMA EffectiveCells ==
  ASSUME NEW d, IsDocument(d), NEW r \in DOMAIN d.relations
  PROVE  DOMAIN Effective(d).relations[r].cells
           = {p \in DOMAIN d.relations[r].cells : Confirmed(d.relations[r].cells[p]) # {}}
<1> DEFINE cells(rel) == [p \in {q \in DOMAIN rel.cells : Confirmed(rel.cells[q]) # {}} |->
                            Accepted(rel.cells[p])]
           relations == [x \in DOMAIN d.relations |->
                           [d.relations[x] EXCEPT !.cells = cells(d.relations[x])]]
           old == d.relations[r]
           c == cells(old)
<1>1. Effective(d).relations = relations
  <2>1. Effective(d) = [d EXCEPT !.relations = relations]
    BY DEF Effective
  <2> HIDE DEF relations
  <2> QED BY <2>1 DEF IsDocument
<1>2. relations[r] = [old EXCEPT !.cells = c]
  OBVIOUS
<1>3. "cells" \in DOMAIN old
  BY DEF IsDocument
<1>4. relations[r].cells = c
  <2> HIDE DEF old, c, relations
  <2> QED BY <1>2, <1>3
<1>5. DOMAIN c = {p \in DOMAIN old.cells : Confirmed(old.cells[p]) # {}}
  <2> HIDE DEF old
  <2> QED OBVIOUS
<1> HIDE DEF relations, c
<1> QED BY <1>1, <1>4, <1>5

\* A relation of the document rolled up, and what it holds besides its own cells.
LEMMA RolledRelation ==
  ASSUME NEW d, DocumentOK(d), Figures(d), Separate(d), NEW r \in DOMAIN d.relations
  PROVE  LET eff == Effective(d)
             rel == d.relations[r]
             cells == RolledUp(d).relations[r].cells
             real == DOMAIN eff.relations[r].cells
             rolls == rel.status = "active" /\ rel.from # rel.to
         IN  /\ {p \in DOMAIN cells : Confirmed(cells[p]) # {}}
                  = real \cup {p \in MemberIds \X MemberIds : rolls /\ Stands(eff, r, p)}
             /\ \A p \in real : cells[p] = rel.cells[p]
<1> DEFINE eff == Effective(d)
           rel == d.relations[r]
           cells == RolledUp(d).relations[r].cells
           real == DOMAIN eff.relations[r].cells
           rolls == rel.status = "active" /\ rel.from # rel.to
           standing == {p \in MemberIds \X MemberIds : rolls /\ Stands(eff, r, p)}
           derived == standing \ real
<1>1. /\ DOMAIN cells = DOMAIN rel.cells \cup derived
      /\ \A p \in DOMAIN rel.cells \ derived : cells[p] = rel.cells[p]
      /\ \A p \in derived :
           /\ cells[p] = IF p \in DOMAIN rel.cells THEN Append(rel.cells[p], Derived(Effective(d), r)[p][1])
                         ELSE Derived(Effective(d), r)[p]
           /\ p \in DOMAIN Derived(Effective(d), r)
  BY RolledCellsShape
<1>2. real = {p \in DOMAIN rel.cells : Confirmed(rel.cells[p]) # {}}
  <2>1. IsDocument(d)
    BY DEF DocumentOK
  <2> QED BY <2>1, EffectiveCells
<1>3. \A p \in DOMAIN rel.cells : rel.cells[p] \in Seq(Range(rel.cells[p]))
  BY DEF DocumentOK, IsDocument
<1> HIDE DEF real, standing, rel, cells
<1>4. ASSUME NEW p \in derived PROVE Confirmed(cells[p]) # {}
  <2> DEFINE x == Derived(Effective(d), r)[p][1]
  <2>1. Derived(Effective(d), r)[p] = <<x>> /\ ~ x.proposed
    BY <1>1, DerivedShape
  <2> HIDE DEF x
  <2>2. CASE p \notin DOMAIN rel.cells
    <3>1. cells[p] = <<x>>
      BY <1>1, <2>1, <2>2
    <3>2. 1 \in DOMAIN cells[p] /\ ~ cells[p][1].proposed
      BY <2>1, <3>1
    <3> QED BY <3>2 DEF Confirmed
  <2>3. CASE p \in DOMAIN rel.cells
    <3> DEFINE cell == rel.cells[p]
               S == Range(cell) \cup {x}
    <3>1. cells[p] = Append(cell, x) /\ cell \in Seq(Range(cell))
      BY <1>1, <1>3, <2>3 DEF x
    <3> HIDE DEF cell
    <3>2. cell \in Seq(S) /\ x \in S
      BY <3>1, SeqMonotonic
    <3> HIDE DEF S
    <3>3. DOMAIN Append(cell, x) = 1 .. Len(cell) + 1 /\ Len(cell) \in Nat /\ Append(cell, x)[Len(cell) + 1] = x
      BY <3>2, AppendProperties, LenProperties
    <3>4. Len(cell) + 1 \in DOMAIN cells[p] /\ ~ cells[p][Len(cell) + 1].proposed
      BY <2>1, <3>1, <3>3
    <3> QED BY <3>4 DEF Confirmed
  <2> QED BY <2>2, <2>3
<1>5. \A p \in real : p \in DOMAIN rel.cells \ derived /\ cells[p] = rel.cells[p]
  BY <1>1, <1>2
<1>6. ASSUME NEW p \in DOMAIN rel.cells \ derived PROVE Confirmed(cells[p]) # {} <=> p \in real
  BY <1>1, <1>2
<1> HIDE DEF derived
<1>7. {p \in DOMAIN cells : Confirmed(cells[p]) # {}} = real \cup derived
  BY <1>1, <1>4, <1>5, <1>6
<1>8. real \cup derived = real \cup standing
  BY DEF derived
<1> QED BY <1>5, <1>7, <1>8 DEF standing, eff, rel, cells, real

-----------------------------------------------------------------------------
(* Proposals *)

\* The observations that count of a cell with one more.
LEMMA RankUnique ==
  ASSUME NEW S \in SUBSET Nat, IsFiniteSet(S), NEW i \in S, NEW j \in S,
         Cardinality({k \in S : k <= i}) = Cardinality({k \in S : k <= j})
  PROVE  i = j
<1>1. ASSUME NEW a \in S, NEW b \in S, a < b
      PROVE  Cardinality({k \in S : k <= a}) < Cardinality({k \in S : k <= b})
  <2> DEFINE A == {k \in S : k <= a}
             B == {k \in S : k <= b}
  <2>1. a \in Nat /\ b \in Nat /\ \A k \in S : k \in Nat
    OBVIOUS
  <2>2. A \in SUBSET B
    <3>1. ASSUME NEW k \in S, k <= a PROVE k <= b
      BY <1>1, <2>1, <3>1
    <3> QED BY <3>1
  <2>3. b \in B /\ b \notin A
    BY <1>1, <2>1
  <2>4. IsFiniteSet(B)
    BY FS_Subset
  <2> HIDE DEF A, B
  <2>5. Cardinality(A) < Cardinality(B)
    BY <2>2, <2>3, <2>4, SmallerCardinality
  <2> QED BY <2>5 DEF A, B
<1>2. Cardinality({k \in S : k <= i}) \in Nat
  <2>1. IsFiniteSet({k \in S : k <= i})
    BY FS_Subset
  <2> QED BY <2>1, FS_CardinalityType
<1>3. ~ (i < j) /\ ~ (j < i)
  BY <1>1, <1>2
<1>4. i \in Nat /\ j \in Nat
  OBVIOUS
<1> QED BY <1>3, <1>4

LEMMA AcceptedIsSeq ==
  ASSUME NEW S, NEW cell \in Seq(S)
  PROVE  /\ Accepted(cell) \in Seq(S) /\ Len(Accepted(cell)) = Cardinality(Confirmed(cell))
         /\ cell \in Seq(Range(cell)) /\ Cardinality(Confirmed(cell)) \in Nat
<1>1. cell \in Seq(Range(cell))
  BY SeqOfRange
<1>2. /\ DOMAIN Accepted(cell) = 1 .. Cardinality(Confirmed(cell)) /\ Cardinality(Confirmed(cell)) \in Nat
  BY <1>1, AcceptedShape
<1>3. \A k \in DOMAIN Accepted(cell) : Accepted(cell)[k] \in S
  <2>1. \A k \in DOMAIN Accepted(cell) : \E j \in Confirmed(cell) : Accepted(cell)[k] = cell[j]
    BY <1>1, AcceptedFrom
  <2>2. Confirmed(cell) \subseteq 1 .. Len(cell)
    BY LenProperties DEF Confirmed
  <2> QED BY <2>1, <2>2, ElementOfSeq
<1>4. Accepted(cell) = [k \in DOMAIN Accepted(cell) |-> Accepted(cell)[k]]
  BY DEF Accepted, InTurn
<1> DEFINE a == Accepted(cell)
           n == Cardinality(Confirmed(cell))
<1> HIDE DEF a, n
<1>5. a = [k \in 1 .. n |-> a[k]] /\ n \in Nat /\ \A k \in 1 .. n : a[k] \in S
  BY <1>2, <1>3, <1>4 DEF a, n
<1>6. a \in Seq(S) /\ Len(a) = n
  BY <1>5, FunctionIsSeq
<1> QED BY <1>1, <1>2, <1>6 DEF a, n

LEMMA AcceptedAppend ==
  ASSUME NEW S, NEW cell \in Seq(S), NEW x \in S
  PROVE  Accepted(Append(cell, x)) = IF x.proposed THEN Accepted(cell) ELSE Append(Accepted(cell), x)
<1> DEFINE n == Len(cell)
           more == Append(cell, x)
           C == Confirmed(cell)
           D == Confirmed(more)
           f == Restrict(cell, C)
           g == Restrict(more, D)
<1>1. /\ n \in Nat /\ DOMAIN cell = 1 .. n /\ DOMAIN more = 1 .. n + 1
      /\ \A i \in 1 .. n : more[i] = cell[i]
      /\ more[n + 1] = x /\ more \in Seq(S)
  BY AppendProperties, LenProperties
<1> HIDE DEF more
<1>2. D = IF x.proposed THEN C ELSE C \cup {n + 1}
  <2>1. D = {i \in 1 .. n + 1 : ~ more[i].proposed} /\ C = {i \in 1 .. n : ~ cell[i].proposed}
    BY <1>1 DEF Confirmed
  <2>2. 1 .. n + 1 = (1 .. n) \cup {n + 1}
    BY <1>1
  <2> HIDE DEF D, C, n
  <2>3. ASSUME NEW i PROVE i \in D <=> (i \in C \/ (i = n + 1 /\ ~ x.proposed))
    <3>1. CASE i \in 1 .. n
      <4>1. i # n + 1
        BY <1>1, <3>1
      <4> QED BY <1>1, <2>1, <2>2, <3>1, <4>1
    <3>2. CASE i \notin 1 .. n
      BY <1>1, <2>1, <2>2, <3>2
    <3> QED BY <3>1, <3>2
  <2>4. CASE x.proposed
    BY <2>3, <2>4
  <2>5. CASE ~ x.proposed
    BY <2>3, <2>5
  <2> QED BY <2>4, <2>5
<1>3. C \subseteq 1 .. n /\ IsFiniteSet(C) /\ Cardinality(C) \in Nat
  <2>1. C \subseteq 1 .. n
    BY <1>1 DEF Confirmed
  <2>2. IsFiniteSet(1 .. n)
    BY <1>1, FS_Interval
  <2> HIDE DEF C
  <2> QED BY <2>1, <2>2, FS_Subset, FS_CardinalityType
<1>4. DOMAIN f = C /\ DOMAIN g = D /\ (\A i \in C : f[i] = cell[i]) /\ \A j \in D : g[j] = more[j]
  BY DEF Restrict
<1>5. f = [i \in C |-> cell[i]] /\ g = [i \in D |-> more[i]]
  BY DEF Restrict
<1>6. Accepted(cell) = InTurn(f) /\ Accepted(more) = InTurn(g)
  BY DEF Accepted
<1> HIDE DEF C, D, f, g, n
<1>7. CASE x.proposed
  <2>1. f = g
    BY <1>1, <1>2, <1>3, <1>5, <1>7
  <2> QED BY <1>6, <1>7, <2>1 DEF more
<1>8. CASE ~ x.proposed
  <2> DEFINE rank(T, i) == Cardinality({j \in T : j <= i})
             at(T, k) == CHOOSE i \in T : rank(T, i) = k
             c == Cardinality(C)
             a == Accepted(cell)
  <2>1. D = C \cup {n + 1} /\ n + 1 \notin C /\ IsFiniteSet(D) /\ Cardinality(D) = c + 1 /\ c \in Nat
    <3>1. n + 1 \notin C /\ D = C \cup {n + 1}
      BY <1>1, <1>2, <1>3, <1>8
    <3> QED BY <1>3, <3>1, FS_AddElement
  <2>2. D \in SUBSET Nat /\ C \in SUBSET Nat
    BY <1>1, <1>3, <2>1
  <2>3. ASSUME NEW i \in C PROVE rank(D, i) = rank(C, i)
    <3>1. ~ (n + 1 <= i)
      BY <1>1, <1>3
    <3>2. {j \in D : j <= i} = {j \in C : j <= i}
      BY <2>1, <3>1
    <3> QED BY <3>2
  <2>4. rank(D, n + 1) = c + 1
    <3>1. \A j \in D : j <= n + 1
      BY <1>1, <1>3, <2>1
    <3>2. {j \in D : j <= n + 1} = D
      BY <3>1
    <3> QED BY <2>1, <3>2
  <2>5. ASSUME NEW k \in 1 .. c PROVE at(C, k) \in C /\ rank(C, at(C, k)) = k
    <3>1. \E i \in C : rank(C, i) = k
      BY <1>3, <2>2, RankExists
    <3> HIDE DEF rank
    <3> QED BY <3>1
  <2>6. ASSUME NEW k \in 1 .. c + 1 PROVE at(D, k) \in D /\ rank(D, at(D, k)) = k
    <3>1. \E i \in D : rank(D, i) = k
      BY <2>1, <2>2, RankExists
    <3> HIDE DEF rank
    <3> QED BY <3>1
  <2>7. \A i, j \in D : rank(D, i) = rank(D, j) => i = j
    BY <2>1, <2>2, RankUnique
  <2>8. /\ a = [k \in 1 .. c |-> f[at(C, k)]]
        /\ Accepted(more) = [k \in 1 .. c + 1 |-> g[at(D, k)]]
    BY <1>4, <1>6, <2>1 DEF InTurn
  <2> HIDE DEF rank, at, c, a
  <2>9. ASSUME NEW k \in 1 .. c PROVE at(D, k) = at(C, k) /\ g[at(D, k)] = f[at(C, k)]
    <3>1. at(C, k) \in D /\ rank(D, at(C, k)) = k
      BY <2>1, <2>3, <2>5
    <3>2. k \in 1 .. c + 1
      BY <2>1
    <3>3. at(D, k) = at(C, k)
      BY <2>6, <2>7, <3>1, <3>2
    <3> QED BY <1>1, <1>3, <1>4, <2>5, <3>1, <3>3
  <2>10. at(D, c + 1) = n + 1 /\ g[at(D, c + 1)] = x
    <3>1. c + 1 \in 1 .. c + 1 /\ n + 1 \in D
      BY <2>1
    <3>2. at(D, c + 1) = n + 1
      BY <2>4, <2>6, <2>7, <3>1
    <3>3. g[n + 1] = x
      BY <1>1, <1>4, <3>1
    <3> QED BY <3>2, <3>3
  <2>11. a \in Seq(S) /\ Len(a) = c
    BY AcceptedIsSeq DEF a, c, C
  <2>12. /\ Append(a, x) = [k \in 1 .. c + 1 |-> Append(a, x)[k]]
         /\ \A k \in 1 .. c : Append(a, x)[k] = a[k]
         /\ Append(a, x)[c + 1] = x
    <3>1. /\ Append(a, x) \in Seq(S) /\ Len(Append(a, x)) = c + 1
          /\ \A k \in 1 .. c : Append(a, x)[k] = a[k]
          /\ Append(a, x)[c + 1] = x
      BY <2>11, AppendProperties
    <3>2. Append(a, x) \in [1 .. c + 1 -> S]
      BY <3>1, LenProperties
    <3> QED BY <3>1, <3>2
  <2>13. ASSUME NEW k \in 1 .. c + 1 PROVE g[at(D, k)] = Append(a, x)[k]
    <3>1. k \in 1 .. c \/ k = c + 1
      BY <2>1
    <3>2. CASE k \in 1 .. c
      BY <2>8, <2>9, <2>12, <3>2
    <3> QED BY <2>10, <2>12, <3>1, <3>2
  <2>14. Accepted(more) = Append(a, x)
    <3> HIDE DEF at
    <3> QED BY <2>8, <2>12, <2>13
  <2> QED BY <1>8, <2>14 DEF a, more
<1> QED BY <1>7, <1>8

\* A cell without its proposals is what counts of it, and all of that does.
LEMMA KeptShape ==
  ASSUME NEW S, NEW cell \in Seq(S)
  PROVE  /\ WithoutProposals(cell) = Accepted(cell)
         /\ Accepted(Accepted(cell)) = Accepted(cell)
<1> DEFINE n == Len(cell)
           pre(k) == [i \in 1 .. k |-> cell[i]]
           f == [k \in 0 .. n |-> Accepted(pre(k))]
<1>1. n \in Nat /\ DOMAIN cell = 1 .. n /\ (\A i \in 1 .. n : cell[i] \in S) /\ cell = [i \in 1 .. n |-> cell[i]]
  BY LenProperties, ElementOfSeq
<1> HIDE DEF n
<1>2. ASSUME NEW k \in 0 .. n PROVE pre(k) \in Seq(S) /\ Len(pre(k)) = k
  <2>1. k \in Nat /\ \A i \in 1 .. k : i \in 1 .. n
    BY <1>1
  <2>2. pre(k) \in [1 .. k -> S]
    BY <1>1, <2>1
  <2>3. DOMAIN pre(k) = 1 .. k
    OBVIOUS
  <2> HIDE DEF pre
  <2>4. pre(k) \in Seq(S)
    BY <2>1, <2>2, FunctionIsSeq
  <2>5. DOMAIN pre(k) = 1 .. Len(pre(k)) /\ Len(pre(k)) \in Nat
    BY <2>4, LenProperties
  <2> QED BY <2>1, <2>3, <2>4, <2>5
<1>3. f[0] = <<>>
  <2>1. 0 \in 0 .. n /\ f[0] = Accepted(pre(0))
    BY <1>1
  <2>2. pre(0) \in Seq(S) /\ Len(pre(0)) = 0
    BY <1>2, <2>1
  <2>3. DOMAIN pre(0) = {}
    OBVIOUS
  <2> HIDE DEF pre, f
  <2>4. Confirmed(pre(0)) = {}
    BY <2>3 DEF Confirmed
  <2>5. Accepted(pre(0)) \in Seq(S) /\ Len(Accepted(pre(0))) = 0
    BY <2>2, <2>4, AcceptedIsSeq, FS_EmptySet
  <2>6. Accepted(pre(0)) = <<>>
    BY <2>5, EmptySeq
  <2> QED BY <2>1, <2>6
<1>4. ASSUME NEW k \in 1 .. n
      PROVE  f[k] = IF cell[k].proposed THEN f[k - 1] ELSE Append(f[k - 1], cell[k])
  <2>1. k \in 0 .. n /\ k - 1 \in 0 .. n /\ k - 1 \in Nat /\ (k - 1) + 1 = k
    BY <1>1
  <2>2. cell[k] \in S /\ pre(k - 1) \in Seq(S) /\ Len(pre(k - 1)) = k - 1
    BY <1>1, <1>2, <2>1
  <2>3. pre(k) = Append(pre(k - 1), cell[k])
    <3> DEFINE more == Append(pre(k - 1), cell[k])
    <3>1. /\ more \in Seq(S) /\ Len(more) = k
          /\ \A i \in 1 .. k - 1 : more[i] = pre(k - 1)[i]
          /\ more[k] = cell[k]
      <4> HIDE DEF pre
      <4> QED BY <2>1, <2>2, AppendProperties
    <3>2. \A i \in 1 .. k - 1 : pre(k - 1)[i] = cell[i]
      OBVIOUS
    <3> HIDE DEF more
    <3>3. more = [i \in 1 .. k |-> more[i]]
      BY <3>1, LenProperties
    <3>4. \A i \in 1 .. k : i \in 1 .. k - 1 \/ i = k
      BY <2>1
    <3>5. \A i \in 1 .. k : more[i] = cell[i]
      BY <3>1, <3>2, <3>4
    <3> QED BY <3>3, <3>5 DEF more
  <2>4. f[k] = Accepted(pre(k)) /\ f[k - 1] = Accepted(pre(k - 1))
    BY <2>1
  <2> HIDE DEF pre, f
  <2> QED BY <2>2, <2>3, <2>4, AcceptedAppend
<1>5. f[n] = Accepted(cell) /\ n \in 0 .. n
  <2>1. pre(n) = cell
    BY <1>1
  <2>2. n \in 0 .. n
    BY <1>1
  <2> QED BY <2>1, <2>2
<1>6. f = [k \in 0 .. n |-> f[k]]
  OBVIOUS
<1> HIDE DEF f, pre
<1>7. ASSUME NEW k \in 0 .. n PROVE k = 0 \/ k \in 1 .. n
  BY <1>1
<1>8. f = [k \in 0 .. n |-> IF k = 0 THEN <<>> ELSE IF cell[k].proposed THEN f[k - 1]
                            ELSE Append(f[k - 1], cell[k])]
  <2>1. ASSUME NEW k \in 0 .. n
        PROVE  f[k] = IF k = 0 THEN <<>> ELSE IF cell[k].proposed THEN f[k - 1]
                            ELSE Append(f[k - 1], cell[k])
    <3>1. CASE k = 0
      BY <1>3, <3>1
    <3>2. CASE k # 0
      BY <1>4, <1>7, <3>2
    <3> QED BY <3>1, <3>2
  <2> QED BY <1>6, <2>1
<1> DEFINE kept[k \in 0 .. n] ==
             IF k = 0 THEN <<>> ELSE IF cell[k].proposed THEN kept[k - 1]
             ELSE Append(kept[k - 1], cell[k])
<1>9. kept = [k \in 0 .. n |-> IF k = 0 THEN <<>> ELSE IF cell[k].proposed THEN kept[k - 1]
                               ELSE Append(kept[k - 1], cell[k])]
  <2> HIDE <1>1, <1>2, <1>3, <1>4, <1>5, <1>6, <1>7
  <2> QED BY <1>8, Zenon
<1>10. WithoutProposals(cell) = kept[n]
  BY DEF WithoutProposals, n
<1> HIDE DEF kept
<1>11. kept[0] = <<>>
  <2>1. 0 \in 0 .. n
    BY <1>1
  <2> QED BY <1>9, <2>1
<1>12. ASSUME NEW k \in 1 .. n
       PROVE  kept[k] = IF cell[k].proposed THEN kept[k - 1] ELSE Append(kept[k - 1], cell[k])
  <2>1. k \in 0 .. n /\ k # 0
    BY <1>1
  <2> QED BY <1>9, <2>1
<1> DEFINE Good == {k \in Nat : k <= n => /\ kept[k] = f[k] /\ f[k] \in Seq(S)
                                          /\ Accepted(f[k]) = f[k]}
<1>13. 0 \in Good
  <2>1. <<>> \in Seq(S)
    BY EmptySeq
  <2>2. Accepted(<<>>) = <<>>
    <3>1. Confirmed(<<>>) = {}
      BY <2>1, LenProperties, EmptySeq DEF Confirmed
    <3>2. Accepted(<<>>) \in Seq(S) /\ Len(Accepted(<<>>)) = 0
      BY <2>1, <3>1, AcceptedIsSeq, FS_EmptySet
    <3> QED BY <3>2, EmptySeq
  <2> QED BY <1>3, <1>11, <2>1, <2>2
<1>14. ASSUME NEW k \in Nat, k \in Good PROVE k + 1 \in Good
  <2>1. SUFFICES ASSUME k + 1 <= n
                 PROVE  /\ kept[k + 1] = f[k + 1] /\ f[k + 1] \in Seq(S)
                        /\ Accepted(f[k + 1]) = f[k + 1]
    OBVIOUS
  <2>2. k + 1 \in 1 .. n /\ (k + 1) - 1 = k /\ k <= n
    BY <1>1, <2>1
  <2>3. kept[k] = f[k] /\ f[k] \in Seq(S) /\ Accepted(f[k]) = f[k]
    BY <1>14, <2>2
  <2> HIDE DEF Good
  <2> DEFINE x == cell[k + 1]
  <2>4. x \in S
    BY <1>1, <2>2
  <2>5. /\ f[k + 1] = IF x.proposed THEN f[k] ELSE Append(f[k], x)
        /\ kept[k + 1] = IF x.proposed THEN kept[k] ELSE Append(kept[k], x)
    BY <1>4, <1>12, <2>2
  <2> HIDE DEF x
  <2>6. CASE x.proposed
    BY <2>3, <2>5, <2>6
  <2>7. CASE ~ x.proposed
    <3>1. f[k + 1] = Append(f[k], x) /\ kept[k + 1] = Append(f[k], x)
      BY <2>3, <2>5, <2>7
    <3>2. Append(f[k], x) \in Seq(S)
      BY <2>3, <2>4, AppendProperties
    <3>3. Accepted(Append(f[k], x)) = Append(f[k], x)
      BY <2>3, <2>4, <2>7, AcceptedAppend
    <3> QED BY <3>1, <3>2, <3>3
  <2> QED BY <2>6, <2>7
<1>15. n \in Good
  <2> HIDE DEF Good
  <2> QED BY <1>1, <1>13, <1>14, CountingInduction
<1> QED BY <1>1, <1>5, <1>10, <1>15

\* What the effective view makes of a relation's cells.
Counted(cells) == [p \in {q \in DOMAIN cells : Confirmed(cells[q]) # {}} |-> Accepted(cells[p])]

\* The parts of two documents that have the same effective view.
SameBut(m, n) ==
  /\ m.dimensions = n.dimensions /\ m.scales = n.scales /\ m.contractions = n.contractions
  /\ DOMAIN m.relations = DOMAIN n.relations
  /\ \A r \in DOMAIN n.relations : \A g \in DOMAIN n.relations[r] \ {"cells"} :
       m.relations[r][g] = n.relations[r][g]

LEMMA EffectiveSame ==
  ASSUME NEW m, NEW n, IsDocument(m), IsDocument(n), SameBut(m, n),
         \A r \in DOMAIN n.relations : Counted(m.relations[r].cells) = Counted(n.relations[r].cells)
  PROVE  Effective(m) = Effective(n)
<1> DEFINE of(d) == [r \in DOMAIN d.relations |->
                       [d.relations[r] EXCEPT !.cells = Counted(d.relations[r].cells)]]
<1>1. Effective(m) = [m EXCEPT !.relations = of(m)] /\ Effective(n) = [n EXCEPT !.relations = of(n)]
  BY DEF Effective, Counted
<1>2. ASSUME NEW r \in DOMAIN n.relations
      PROVE  [m.relations[r] EXCEPT !.cells = Counted(m.relations[r].cells)]
               = [n.relations[r] EXCEPT !.cells = Counted(n.relations[r].cells)]
  <2> DEFINE a == m.relations[r]
             b == n.relations[r]
             c == Counted(b.cells)
  <2>1. DOMAIN a = DOMAIN b /\ "cells" \in DOMAIN a /\ Counted(a.cells) = c
    BY DEF SameBut, IsDocument
  <2>2. \A g \in DOMAIN b \ {"cells"} : a[g] = b[g]
    BY DEF SameBut
  <2> HIDE DEF a, b, c
  <2>3. [a EXCEPT !.cells = c] = [b EXCEPT !.cells = c]
    BY <2>1, <2>2
  <2> QED BY <2>1, <2>3 DEF a, b, c
<1>3. of(m) = of(n)
  BY <1>2 DEF SameBut
<1> HIDE DEF of
<1>4. /\ DOMAIN m = {"dimensions", "scales", "relations", "contractions"} /\ DOMAIN n = DOMAIN m
      /\ \A f \in DOMAIN m \ {"relations"} : m[f] = n[f]
  BY DEF SameBut, IsDocument
<1>5. [m EXCEPT !.relations = of(m)] = [n EXCEPT !.relations = of(m)]
  BY <1>4
<1> QED BY <1>1, <1>3, <1>5

\* The effective view is a document: it has the parts of the one it is of, with the
\* cells counted.
LEMMA EffectiveIsDocument ==
  ASSUME NEW d, IsDocument(d)
  PROVE  /\ IsDocument(Effective(d)) /\ SameBut(Effective(d), d)
         /\ \A r \in DOMAIN d.relations : Effective(d).relations[r].cells = Counted(d.relations[r].cells)
<1> DEFINE of == [r \in DOMAIN d.relations |->
                    [d.relations[r] EXCEPT !.cells = Counted(d.relations[r].cells)]]
           eff == Effective(d)
<1>1. eff = [d EXCEPT !.relations = of]
  BY DEF Effective, Counted
<1>2. ASSUME NEW r \in DOMAIN d.relations
      PROVE  /\ DOMAIN of[r] = DOMAIN d.relations[r]
             /\ of[r].cells = Counted(d.relations[r].cells)
             /\ \A g \in DOMAIN d.relations[r] \ {"cells"} : of[r][g] = d.relations[r][g]
  <2> DEFINE rel == d.relations[r]
             c == Counted(rel.cells)
  <2>1. of[r] = [rel EXCEPT !.cells = c] /\ "cells" \in DOMAIN rel
    BY DEF IsDocument
  <2> HIDE DEF rel, of, c
  <2>2. /\ DOMAIN of[r] = DOMAIN rel /\ of[r].cells = c
        /\ \A g \in DOMAIN rel \ {"cells"} : of[r][g] = rel[g]
    BY <2>1
  <2> QED BY <2>2 DEF rel, c
<1>3. DOMAIN of = DOMAIN d.relations
  OBVIOUS
<1> HIDE DEF of, eff
<1>4. /\ DOMAIN eff = {"dimensions", "scales", "relations", "contractions"} /\ eff.relations = of
      /\ eff.dimensions = d.dimensions /\ eff.scales = d.scales /\ eff.contractions = d.contractions
  BY <1>1 DEF IsDocument
<1>5. SameBut(eff, d)
  BY <1>2, <1>3, <1>4 DEF SameBut
<1>6. ASSUME NEW r \in DOMAIN d.relations, NEW p \in DOMAIN of[r].cells
      PROVE  of[r].cells[p] \in Seq(Range(of[r].cells[p])) \ {<<>>}
  <2> DEFINE cell == d.relations[r].cells[p]
  <2>1. p \in DOMAIN d.relations[r].cells /\ Confirmed(cell) # {} /\ of[r].cells[p] = Accepted(cell)
    <3>1. of[r].cells = Counted(d.relations[r].cells)
      BY <1>2
    <3>2. p \in DOMAIN Counted(d.relations[r].cells) /\ of[r].cells[p] = Counted(d.relations[r].cells)[p]
      BY <3>1
    <3> QED BY <3>2 DEF Counted
  <2>2. cell \in Seq(Range(cell))
    BY <2>1 DEF IsDocument
  <2> HIDE DEF cell
  <2>3. /\ Accepted(cell) \in Seq(Range(cell)) /\ Len(Accepted(cell)) = Cardinality(Confirmed(cell))
        /\ Cardinality(Confirmed(cell)) # 0
    BY <2>1, <2>2, AcceptedIsSeq, AcceptedShape, FS_EmptySet
  <2>4. Accepted(cell) # <<>> /\ Accepted(cell) \in Seq(Range(Accepted(cell)))
    BY <2>3, EmptySeq, SeqOfRange
  <2> QED BY <2>1, <2>4
<1>7. IsDocument(eff)
  BY <1>2, <1>3, <1>4, <1>6 DEF IsDocument
<1> QED BY <1>2, <1>4, <1>5, <1>7 DEF eff

\* Of the cells that count all count.
LEMMA CountedTwice ==
  ASSUME NEW cells, \A p \in DOMAIN cells : cells[p] \in Seq(Range(cells[p]))
  PROVE  Counted(Counted(cells)) = Counted(cells)
<1> DEFINE once == Counted(cells)
<1>1. ASSUME NEW p \in DOMAIN once
      PROVE  Confirmed(once[p]) # {} /\ Accepted(once[p]) = once[p]
  <2> DEFINE cell == cells[p]
  <2>1. p \in DOMAIN cells /\ Confirmed(cell) # {} /\ once[p] = Accepted(cell)
    BY DEF Counted
  <2>2. cell \in Seq(Range(cell))
    BY <2>1
  <2> HIDE DEF cell, once
  <2>3. Accepted(Accepted(cell)) = Accepted(cell) /\ Accepted(cell) \in Seq(Range(cell))
    BY <2>2, KeptShape, AcceptedIsSeq
  <2>4. Cardinality(Confirmed(Accepted(cell))) = Cardinality(Confirmed(cell))
    BY <2>2, <2>3, AcceptedIsSeq
  <2>5. Cardinality(Confirmed(cell)) # 0
    BY <2>1, <2>2, AcceptedShape, FS_EmptySet
  <2>6. Confirmed(Accepted(cell)) # {}
    BY <2>4, <2>5, FS_EmptySet
  <2> QED BY <2>1, <2>3, <2>6
<1>2. once = [p \in DOMAIN once |-> once[p]]
  BY DEF Counted
<1> HIDE DEF once
<1>3. Counted(once) = [p \in DOMAIN once |-> once[p]]
  BY <1>1 DEF Counted
<1> QED BY <1>2, <1>3 DEF once

LEMMA EffectiveTwice ==
  ASSUME NEW d, IsDocument(d)
  PROVE  Effective(Effective(d)) = Effective(d)
<1> DEFINE eff == Effective(d)
<1>1. /\ IsDocument(eff) /\ SameBut(eff, d)
      /\ \A r \in DOMAIN d.relations : eff.relations[r].cells = Counted(d.relations[r].cells)
  BY EffectiveIsDocument
<1> HIDE DEF eff
<1>2. ASSUME NEW r \in DOMAIN d.relations
      PROVE  Counted(eff.relations[r].cells) = Counted(d.relations[r].cells)
  BY <1>1, CountedTwice DEF IsDocument
<1>3. Effective(eff) = Effective(d)
  BY <1>1, <1>2, EffectiveSame
<1> QED BY <1>3 DEF eff

\* What counts of a relation rolled up, in terms of the effective view.
CountedAbove(eff, r) ==
  LET cells == eff.relations[r].cells
      derived == Derived(eff, r)
  IN  [p \in DOMAIN cells \cup DOMAIN derived |-> IF p \in DOMAIN cells THEN cells[p] ELSE derived[p]]

LEMMA AcceptedOfOne ==
  ASSUME NEW cell, cell \in Seq(Range(cell)), NEW x, ~ x.proposed
  PROVE  /\ Confirmed(Append(cell, x)) # {}
         /\ Accepted(Append(cell, x)) = Append(Accepted(cell), x)
         /\ Confirmed(<<x>>) # {} /\ Accepted(<<x>>) = <<x>>
         /\ Confirmed(cell) = {} => Accepted(Append(cell, x)) = <<x>>
<1> DEFINE S == Range(cell) \cup {x}
<1>1. cell \in Seq(S) /\ x \in S /\ <<>> \in Seq(S)
  BY SeqMonotonic, EmptySeq
<1> HIDE DEF S
<1>2. ASSUME NEW c \in Seq(S) PROVE Confirmed(Append(c, x)) # {} /\ Accepted(Append(c, x)) = Append(Accepted(c), x)
  <2>1. /\ DOMAIN Append(c, x) = 1 .. Len(c) + 1 /\ Len(c) \in Nat
        /\ Append(c, x)[Len(c) + 1] = x
    BY <1>1, AppendProperties, LenProperties
  <2>2. Len(c) + 1 \in Confirmed(Append(c, x))
    BY <2>1 DEF Confirmed
  <2> QED BY <1>1, <2>2, AcceptedAppend
<1>3. ASSUME NEW c \in Seq(S), Confirmed(c) = {} PROVE Accepted(c) = <<>>
  <2>1. Accepted(c) \in Seq(S) /\ Len(Accepted(c)) = 0
    BY <1>3, AcceptedIsSeq, FS_EmptySet
  <2> QED BY <2>1, EmptySeq
<1>4. Confirmed(<<>>) = {}
  BY <1>1, LenProperties, EmptySeq DEF Confirmed
<1>5. Append(<<>>, x) = <<x>>
  OBVIOUS
<1> QED BY <1>1, <1>2, <1>3, <1>4, <1>5

LEMMA RolledCounted ==
  ASSUME NEW d, IsDocument(d), NEW r \in DOMAIN d.relations
  PROVE  Counted(RolledCells(d, r)) = CountedAbove(Effective(d), r)
<1> DEFINE eff == Effective(d)
           old == d.relations[r].cells
           now == eff.relations[r].cells
           derived == Derived(eff, r)
           rolled == RolledCells(d, r)
<1>1. now = Counted(old)
  BY EffectiveIsDocument
<1>2. \A p \in DOMAIN old : old[p] \in Seq(Range(old[p]))
  BY DEF IsDocument
<1>3. /\ DOMAIN derived \cap DOMAIN now = {}
      /\ \A p \in DOMAIN derived : derived[p] = <<derived[p][1]>> /\ ~ derived[p][1].proposed
  BY DerivedShape
<1>4. DOMAIN rolled = DOMAIN old \cup DOMAIN derived
  BY DEF RolledCells
<1>5. ASSUME NEW p \in DOMAIN rolled
      PROVE  /\ p \in DOMAIN old /\ p \notin DOMAIN derived => rolled[p] = old[p]
             /\ p \notin DOMAIN old => rolled[p] = derived[p]
             /\ p \in DOMAIN old /\ p \in DOMAIN derived => rolled[p] = Append(old[p], derived[p][1])
  BY RolledCellShape
<1> HIDE DEF rolled, derived, now, old, eff
<1>6. /\ DOMAIN now = {p \in DOMAIN old : Confirmed(old[p]) # {}}
      /\ \A p \in DOMAIN now : now[p] = Accepted(old[p])
  BY <1>1 DEF Counted
<1>7. ASSUME NEW p \in DOMAIN rolled
      PROVE  /\ Confirmed(rolled[p]) # {} <=> p \in DOMAIN now \cup DOMAIN derived
             /\ p \in DOMAIN now => Accepted(rolled[p]) = now[p]
             /\ p \in DOMAIN derived => Accepted(rolled[p]) = derived[p]
  <2>1. CASE p \in DOMAIN now
    BY <1>3, <1>5, <1>6, <2>1
  <2>2. CASE p \in DOMAIN derived
    <3> DEFINE x == derived[p][1]
    <3>1. derived[p] = <<x>> /\ ~ x.proposed /\ p \notin DOMAIN now
      BY <1>3, <2>2
    <3>2. /\ p \in DOMAIN old => rolled[p] = Append(old[p], x) /\ Confirmed(old[p]) = {}
          /\ p \notin DOMAIN old => rolled[p] = derived[p]
      BY <1>5, <1>6, <2>2, <3>1
    <3> HIDE DEF x
    <3>3. CASE p \in DOMAIN old
      BY <1>2, <2>2, <3>1, <3>2, <3>3, AcceptedOfOne
    <3>4. CASE p \notin DOMAIN old
      <4>1. <<x>> \in Seq(Range(<<x>>))
        <5>1. <<x>> \in Seq({x})
          OBVIOUS
        <5> QED BY <5>1, SeqOfRange
      <4> QED BY <2>2, <3>1, <3>2, <3>4, <4>1, AcceptedOfOne
    <3> QED BY <3>3, <3>4
  <2>3. CASE p \notin DOMAIN now \cup DOMAIN derived
    BY <1>4, <1>5, <1>6, <2>3
  <2> QED BY <2>1, <2>2, <2>3
<1> DEFINE all == DOMAIN now \cup DOMAIN derived
<1>8. {p \in DOMAIN rolled : Confirmed(rolled[p]) # {}} = all
  BY <1>4, <1>6, <1>7
<1>9. \A p \in all : Accepted(rolled[p]) = IF p \in DOMAIN now THEN now[p] ELSE derived[p]
  BY <1>4, <1>6, <1>7
<1>10. Counted(rolled) = [p \in all |-> Accepted(rolled[p])]
  BY <1>8 DEF Counted
<1>11. Counted(rolled) = [p \in all |-> IF p \in DOMAIN now THEN now[p] ELSE derived[p]]
  BY <1>9, <1>10
<1> QED BY <1>11 DEF CountedAbove, rolled, now, derived, eff

\* Rolling up makes of a document and of its effective view two documents with the
\* same effective view.
LEMMA RolledSame ==
  ASSUME NEW d, IsDocument(d)
  PROVE  Effective(RolledUp(Effective(d))) = Effective(RolledUp(d))
<1> DEFINE eff == Effective(d)
           m == RolledUp(eff)
           n == RolledUp(d)
<1>1. IsDocument(eff) /\ SameBut(eff, d) /\ Effective(eff) = eff
      /\ \A r \in DOMAIN d.relations : eff.relations[r].cells = Counted(d.relations[r].cells)
  BY EffectiveIsDocument, EffectiveTwice
<1> HIDE DEF eff
<1>2. IsDocument(m) /\ IsDocument(n)
  BY <1>1, RolledIsDocument
<1>3. ASSUME NEW o, IsDocument(o), Effective(o) = eff
      PROVE  /\ SameBut(RolledUp(o), o)
             /\ \A r \in DOMAIN o.relations :
                  RolledUp(o).relations[r].cells = IF Rolls(eff, r) THEN RolledCells(o, r)
                                                   ELSE o.relations[r].cells
  <2> DEFINE z == RolledUp(o)
  <2>1. /\ z.dimensions = o.dimensions /\ z.scales = o.scales /\ z.contractions = o.contractions
        /\ DOMAIN z.relations = DOMAIN o.relations
        /\ \A r \in DOMAIN o.relations :
             /\ z.relations[r].from = o.relations[r].from
             /\ z.relations[r].to = o.relations[r].to
             /\ z.relations[r].type = o.relations[r].type
             /\ z.relations[r].scale = o.relations[r].scale
             /\ z.relations[r].policy = o.relations[r].policy
             /\ z.relations[r].status = o.relations[r].status
             /\ z.relations[r].successor = o.relations[r].successor
             /\ z.relations[r].cells = IF Rolls(eff, r) THEN RolledCells(o, r)
                                       ELSE o.relations[r].cells
    <3> HIDE DEF z
    <3> QED BY <1>3, RolledShape DEF z
  <2> HIDE DEF z
  <2>2. \A r \in DOMAIN o.relations :
          DOMAIN o.relations[r] = {"from", "to", "type", "scale", "policy", "status", "successor", "cells"}
    BY <1>3 DEF IsDocument
  <2>3. SameBut(z, o)
    BY <2>1, <2>2 DEF SameBut
  <2> QED BY <2>1, <2>3 DEF z
<1>4. SameBut(m, eff) /\ SameBut(n, d)
  BY <1>1, <1>3 DEF eff
<1>5. ASSUME NEW r \in DOMAIN d.relations
      PROVE  Counted(m.relations[r].cells) = Counted(n.relations[r].cells)
  <2>1. r \in DOMAIN eff.relations
    BY <1>1 DEF SameBut
  <2>2. /\ m.relations[r].cells = IF Rolls(eff, r) THEN RolledCells(eff, r) ELSE eff.relations[r].cells
        /\ n.relations[r].cells = IF Rolls(eff, r) THEN RolledCells(d, r) ELSE d.relations[r].cells
    BY <1>1, <1>3, <2>1 DEF eff
  <2> HIDE DEF m, n
  <2>3. CASE Rolls(eff, r)
    <3>1. Counted(RolledCells(eff, r)) = CountedAbove(eff, r)
      BY <1>1, <2>1, RolledCounted
    <3>2. Counted(RolledCells(d, r)) = CountedAbove(eff, r)
      BY RolledCounted DEF eff
    <3> QED BY <2>2, <2>3, <3>1, <3>2
  <2>4. CASE ~ Rolls(eff, r)
    <3>1. \A p \in DOMAIN d.relations[r].cells : d.relations[r].cells[p] \in Seq(Range(d.relations[r].cells[p]))
      BY DEF IsDocument
    <3>2. Counted(Counted(d.relations[r].cells)) = Counted(d.relations[r].cells)
      BY <3>1, CountedTwice
    <3> QED BY <1>1, <2>2, <2>4, <3>2
  <2> QED BY <2>3, <2>4
<1> HIDE DEF m, n
<1>6. SameBut(m, n)
  <2>1. ASSUME NEW r \in DOMAIN n.relations, NEW g \in DOMAIN n.relations[r] \ {"cells"}
        PROVE  m.relations[r][g] = n.relations[r][g]
    <3>1. r \in DOMAIN d.relations /\ r \in DOMAIN eff.relations
      BY <1>1, <1>4 DEF SameBut
    <3>2. /\ DOMAIN n.relations[r] = DOMAIN d.relations[r]
          /\ DOMAIN eff.relations[r] = DOMAIN d.relations[r]
      BY <1>1, <1>2, <3>1 DEF IsDocument
    <3> QED BY <1>1, <1>4, <3>1, <3>2 DEF SameBut
  <2> QED BY <1>1, <1>4, <2>1 DEF SameBut
<1>7. DOMAIN n.relations = DOMAIN d.relations
  BY <1>4 DEF SameBut
<1>8. Effective(m) = Effective(n)
  BY <1>2, <1>5, <1>6, <1>7, EffectiveSame
<1> QED BY <1>8 DEF m, n, eff

\* The document without its proposals is its effective view.
LEMMA UnproposedIsEffective == ASSUME IsDocument(doc) PROVE Unproposed = Effective(doc)
<1> DEFINE kept(r) == [p \in {q \in DOMAIN doc.relations[r].cells :
                               WithoutProposals(doc.relations[r].cells[q]) # <<>>} |->
                         WithoutProposals(doc.relations[r].cells[p])]
           counted(r) == Counted(doc.relations[r].cells)
<1>1. Unproposed = [doc EXCEPT !.relations =
                      [r \in DOMAIN doc.relations |-> [doc.relations[r] EXCEPT !.cells = kept(r)]]]
  BY DEF Unproposed
<1>2. Effective(doc) = [doc EXCEPT !.relations =
                      [r \in DOMAIN doc.relations |-> [doc.relations[r] EXCEPT !.cells = counted(r)]]]
  BY DEF Effective, Counted
<1>3. ASSUME NEW r \in DOMAIN doc.relations PROVE kept(r) = counted(r)
  <2> DEFINE cells == doc.relations[r].cells
  <2>1. ASSUME NEW p \in DOMAIN cells
        PROVE  /\ WithoutProposals(cells[p]) = Accepted(cells[p])
               /\ Accepted(cells[p]) # <<>> <=> Confirmed(cells[p]) # {}
    <3> DEFINE cell == cells[p]
    <3>1. cell \in Seq(Range(cell))
      BY DEF IsDocument
    <3> HIDE DEF cell
    <3>2. WithoutProposals(cell) = Accepted(cell) /\ Accepted(cell) \in Seq(Range(cell))
          /\ Len(Accepted(cell)) = Cardinality(Confirmed(cell))
      BY <3>1, KeptShape, AcceptedIsSeq
    <3>3. Cardinality(Confirmed(cell)) = 0 <=> Confirmed(cell) = {}
      BY <3>1, AcceptedShape, FS_EmptySet
    <3>4. Accepted(cell) # <<>> <=> Confirmed(cell) # {}
      BY <3>2, <3>3, EmptySeq
    <3> QED BY <3>2, <3>4 DEF cell
  <2> HIDE DEF cells
  <2>2. {q \in DOMAIN cells : WithoutProposals(cells[q]) # <<>>}
          = {q \in DOMAIN cells : Confirmed(cells[q]) # {}}
    BY <2>1
  <2>3. [p \in {q \in DOMAIN cells : WithoutProposals(cells[q]) # <<>>} |-> WithoutProposals(cells[p])]
          = Counted(cells)
    BY <2>1, <2>2 DEF Counted
  <2> QED BY <2>3 DEF cells
<1> HIDE DEF kept, counted
<1> QED BY <1>1, <1>2, <1>3

\* Every analysis of a document is that of its effective view.
LEMMA AnalysedEffective ==
  ASSUME NEW d, IsDocument(d)
  PROVE  Analysed(Effective(d)) = Analysed(d)
<1> DEFINE e == Effective(d)
<1>1. /\ e.dimensions = d.dimensions /\ e.contractions = d.contractions
      /\ DOMAIN e.relations = DOMAIN d.relations
  BY EffectiveIsDocument DEF SameBut
<1>2. Effective(e) = e
  BY EffectiveTwice
<1>3. Effective(RolledUp(e)) = Effective(RolledUp(d))
  BY RolledSame
<1>4. /\ Coverage(e) = Coverage(d) /\ Orphans(e) = Orphans(d) /\ GapsNext(e) = GapsNext(d)
      /\ Describe(e) = Describe(d) /\ Tensions(e) = Tensions(d)
  BY <1>2 DEF Coverage, Orphans, GapsNext, Describe, Tensions
<1>5. /\ \A c : Contract(e, c) = Contract(d, c)
      /\ \A r, axis : Marginalize(e, r, axis) = Marginalize(d, r, axis)
      /\ \A m : Trace(e, m) = Trace(d, m)
      /\ \A m : Ancestors(e, m) = Ancestors(d, m)
      /\ \A r : Slice(e, r, None, None) = Slice(d, r, None, None)
  BY <1>2 DEF Contract, Marginalize, Trace, Ancestors, Slice
<1> HIDE DEF e
<1>6. /\ \A f : Members(e, f) = Members(d, f)
      /\ \A f : MembersOf(e, f) = MembersOf(d, f)
  BY <1>1 DEF Members, MembersOf, Declared
<1>7. \A m : DimensionOf(e, m) = DimensionOf(d, m)
  <2> TAKE m
  <2>1. {i \in 1 .. Len(DimensionOrder) : m \in MembersOf(e, DimensionOrder[i])}
          = {i \in 1 .. Len(DimensionOrder) : m \in MembersOf(d, DimensionOrder[i])}
    BY <1>6
  <2> QED BY <2>1 DEF DimensionOf, SelectInSeq
<1>8. {n \in MemberIds : IsMember(e, n)} = {n \in MemberIds : IsMember(d, n)}
  BY <1>7 DEF IsMember
<1>9. Findings(e) = Findings(d)
  BY <1>1, <1>4, <1>6 DEF Findings, StaleReferences
<1>10. /\ [c \in DOMAIN e.contractions |-> Contract(e, c)] = [c \in DOMAIN d.contractions |-> Contract(d, c)]
       /\ [m \in MemberIds |-> Trace(e, m)] = [m \in MemberIds |-> Trace(d, m)]
       /\ [r \in DOMAIN e.relations |-> Slice(e, r, None, None)]
            = [r \in DOMAIN d.relations |-> Slice(d, r, None, None)]
  BY <1>1, <1>5
<1>11. [m \in {n \in MemberIds : IsMember(e, n)} |-> Ancestors(e, m)]
         = [m \in {n \in MemberIds : IsMember(d, n)} |-> Ancestors(d, m)]
  BY <1>5, <1>8
<1>12. [x \in (DOMAIN e.relations) \X {"from", "to"} |-> Marginalize(e, x[1], x[2])]
         = [x \in (DOMAIN d.relations) \X {"from", "to"} |-> Marginalize(d, x[1], x[2])]
  BY <1>1, <1>5
<1>13. Analysed(e) = Analysed(d)
  BY <1>3, <1>4, <1>9, <1>10, <1>11, <1>12 DEF Analysed
<1> QED BY <1>13 DEF e

-----------------------------------------------------------------------------
(* The sums of a contraction *)

\* The ways of each length along a chain, the products on a way, the frontiers.
WaysUpTo(d, chain) ==
  LET ways[n \in 0 .. Len(chain)] ==
        IF n = 0 THEN {<<m>> : m \in MemberIds}
        ELSE {Append(x[1], x[2][2]) :
                x \in {y \in ways[n - 1] \X DOMAIN d.relations[chain[n]].cells :
                        Last(y[1]) = y[2][1]}}
  IN  ways

Products(d, chain, way) ==
  LET product[n \in 0 .. Len(chain)] ==
        IF n = 0 THEN 1
        ELSE product[n - 1] * Strongest(d, chain[n], <<way[n], way[n + 1]>>)
  IN  product

Frontiers(d, combination, chain) ==
  LET frontier[n \in 1 .. Len(chain)] ==
        IF n = 1 THEN FirstFrontier(d, chain[1])
        ELSE NextFrontier(d, combination, frontier[n - 1], chain[n])
  IN  frontier

\* The ways that are one relation longer.
Longer(d, r, ways) ==
  {Append(x[1], x[2][2]) : x \in {y \in ways \X DOMAIN d.relations[r].cells : Last(y[1]) = y[2][1]}}

LEMMA WaysEquation ==
  ASSUME NEW d, NEW chain, Len(chain) \in Nat, NEW W, W = WaysUpTo(d, chain)
  PROVE  /\ W[0] = {<<m>> : m \in MemberIds}
         /\ \A n \in 1 .. Len(chain) : W[n] = Longer(d, chain[n], W[n - 1])
<1> DEFINE first == {<<m>> : m \in MemberIds}
           step(f, n) == Longer(d, chain[n], f[n - 1])
           eq(f, k) == f = [n \in 0 .. k |-> IF n = 0 THEN first ELSE step(f, n)]
           Good == {k \in Nat : \E f : eq(f, k)}
<1>1. 0 \in Good
  <2> DEFINE f == [n \in 0 .. 0 |-> first]
  <2>1. f = [n \in 0 .. 0 |-> IF n = 0 THEN first ELSE step(f, n)]
    <3> HIDE DEF step, first
    <3> QED OBVIOUS
  <2> HIDE DEF f
  <2> QED BY <2>1
<1>2. ASSUME NEW k \in Nat, k \in Good PROVE k + 1 \in Good
  <2>1. PICK f : eq(f, k)
    BY <1>2
  <2> DEFINE g == [n \in 0 .. k + 1 |-> IF n = k + 1 THEN step(f, n) ELSE f[n]]
  <2>2. \A n \in 0 .. k : f[n] = IF n = 0 THEN first ELSE step(f, n)
    <3> HIDE DEF step, first
    <3>1. f = [n \in 0 .. k |-> IF n = 0 THEN first ELSE step(f, n)]
      BY <2>1
    <3> DEFINE h == [n \in 0 .. k |-> IF n = 0 THEN first ELSE step(f, n)]
    <3>2. \A n \in 0 .. k : h[n] = IF n = 0 THEN first ELSE step(f, n)
      OBVIOUS
    <3>3. f = h
      BY <3>1
    <3> HIDE DEF h
    <3> QED BY <3>2, <3>3
  <2>3. \A n \in 0 .. k : g[n] = f[n]
    OBVIOUS
  <2>4. ASSUME NEW n \in 0 .. k + 1 PROVE g[n] = IF n = 0 THEN first ELSE step(g, n)
    <3>1. CASE n = 0
      <4>1. g[n] = f[n] /\ n \in 0 .. k
        BY <2>3, <3>1
      <4> HIDE DEF g, first, step
      <4> QED BY <2>2, <3>1, <4>1
    <3>2. CASE n # 0
      <4>1. n - 1 \in 0 .. k /\ g[n - 1] = f[n - 1]
        BY <2>3, <3>2
      <4>2. step(g, n) = step(f, n)
        <5> HIDE DEF g
        <5> QED BY <4>1
      <4>3. g[n] = step(f, n)
        <5>1. CASE n = k + 1
          <6> HIDE DEF step
          <6> QED BY <5>1
        <5>2. CASE n # k + 1
          <6>1. n \in 0 .. k
            BY <5>2
          <6> HIDE DEF g, first, step
          <6> QED BY <2>2, <2>3, <3>2, <6>1
        <5> QED BY <5>1, <5>2
      <4> HIDE DEF g, step, first
      <4> QED BY <3>2, <4>2, <4>3
    <3> QED BY <3>1, <3>2
  <2>5. g = [n \in 0 .. k + 1 |-> g[n]]
    OBVIOUS
  <2> HIDE DEF g, step, first
  <2>6. g = [n \in 0 .. k + 1 |-> IF n = 0 THEN first ELSE step(g, n)]
    BY <2>4, <2>5, Zenon
  <2>7. k + 1 \in Nat
    OBVIOUS
  <2> QED BY <2>6, <2>7
<1>3. \A k \in Nat : k \in Good
  <2> HIDE DEF Good
  <2> QED BY <1>1, <1>2, CountingInduction
<1>4. PICK f : eq(f, Len(chain))
  <2>1. Len(chain) \in Good
    BY <1>3
  <2> QED BY <2>1
<1> DEFINE ways[n \in 0 .. Len(chain)] ==
             IF n = 0 THEN {<<m>> : m \in MemberIds}
             ELSE {Append(x[1], x[2][2]) :
                     x \in {y \in ways[n - 1] \X DOMAIN d.relations[chain[n]].cells :
                             Last(y[1]) = y[2][1]}}
<1>5. W = ways
  BY DEF WaysUpTo
<1>6. f = [n \in 0 .. Len(chain) |->
             IF n = 0 THEN {<<m>> : m \in MemberIds}
             ELSE {Append(x[1], x[2][2]) :
                     x \in {y \in f[n - 1] \X DOMAIN d.relations[chain[n]].cells :
                             Last(y[1]) = y[2][1]}}]
  BY <1>4, Zenon DEF Longer
<1>7. ways = [n \in 0 .. Len(chain) |->
             IF n = 0 THEN {<<m>> : m \in MemberIds}
             ELSE {Append(x[1], x[2][2]) :
                     x \in {y \in ways[n - 1] \X DOMAIN d.relations[chain[n]].cells :
                             Last(y[1]) = y[2][1]}}]
  <2> HIDE <1>1, <1>2, <1>3, <1>4, <1>5
  <2> QED BY <1>6, Zenon
<1> HIDE DEF ways
<1>8. W[0] = first
  <2>1. 0 \in 0 .. Len(chain)
    OBVIOUS
  <2> QED BY <1>5, <1>7, <2>1
<1>9. ASSUME NEW n \in 1 .. Len(chain) PROVE W[n] = Longer(d, chain[n], W[n - 1])
  <2>1. n \in 0 .. Len(chain) /\ n # 0
    OBVIOUS
  <2>2. ways[n] = Longer(d, chain[n], ways[n - 1])
    BY <1>7, <2>1 DEF Longer
  <2> QED BY <1>5, <2>2
<1> QED BY <1>8, <1>9

Multiplies(d, chain, way, P) ==
  /\ P[0] = 1
  /\ \A n \in 1 .. Len(chain) : P[n] = P[n - 1] * Strongest(d, chain[n], <<way[n], way[n + 1]>>)

LEMMA ProductsEquation ==
  ASSUME NEW d, NEW chain, Len(chain) \in Nat, NEW way, NEW P, P = Products(d, chain, way)
  PROVE  Multiplies(d, chain, way, P)
<1> DEFINE first == 1
           step(f, n) == f[n - 1] * Strongest(d, chain[n], <<way[n], way[n + 1]>>)
           eq(f, k) == f = [n \in 0 .. k |-> IF n = 0 THEN first ELSE step(f, n)]
           Good == {k \in Nat : \E f : eq(f, k)}
<1>1. 0 \in Good
  <2> DEFINE f == [n \in 0 .. 0 |-> first]
  <2>1. f = [n \in 0 .. 0 |-> IF n = 0 THEN first ELSE step(f, n)]
    <3> HIDE DEF step, first
    <3> QED OBVIOUS
  <2> HIDE DEF f
  <2> QED BY <2>1
<1>2. ASSUME NEW k \in Nat, k \in Good PROVE k + 1 \in Good
  <2>1. PICK f : eq(f, k)
    BY <1>2
  <2> DEFINE g == [n \in 0 .. k + 1 |-> IF n = k + 1 THEN step(f, n) ELSE f[n]]
  <2>2. \A n \in 0 .. k : f[n] = IF n = 0 THEN first ELSE step(f, n)
    <3> HIDE DEF step, first
    <3>1. f = [n \in 0 .. k |-> IF n = 0 THEN first ELSE step(f, n)]
      BY <2>1
    <3> DEFINE h == [n \in 0 .. k |-> IF n = 0 THEN first ELSE step(f, n)]
    <3>2. \A n \in 0 .. k : h[n] = IF n = 0 THEN first ELSE step(f, n)
      OBVIOUS
    <3>3. f = h
      BY <3>1
    <3> HIDE DEF h
    <3> QED BY <3>2, <3>3
  <2>3. \A n \in 0 .. k : g[n] = f[n]
    OBVIOUS
  <2>4. ASSUME NEW n \in 0 .. k + 1 PROVE g[n] = IF n = 0 THEN first ELSE step(g, n)
    <3>1. CASE n = 0
      <4>1. g[n] = f[n] /\ n \in 0 .. k
        BY <2>3, <3>1
      <4> HIDE DEF g, first, step
      <4> QED BY <2>2, <3>1, <4>1
    <3>2. CASE n # 0
      <4>1. n - 1 \in 0 .. k /\ g[n - 1] = f[n - 1]
        BY <2>3, <3>2
      <4>2. step(g, n) = step(f, n)
        <5> HIDE DEF g
        <5> QED BY <4>1
      <4>3. g[n] = step(f, n)
        <5>1. CASE n = k + 1
          <6> HIDE DEF step
          <6> QED BY <5>1
        <5>2. CASE n # k + 1
          <6>1. n \in 0 .. k
            BY <5>2
          <6> HIDE DEF g, first, step
          <6> QED BY <2>2, <2>3, <3>2, <6>1
        <5> QED BY <5>1, <5>2
      <4> HIDE DEF g, step, first
      <4> QED BY <3>2, <4>2, <4>3
    <3> QED BY <3>1, <3>2
  <2>5. g = [n \in 0 .. k + 1 |-> g[n]]
    OBVIOUS
  <2> HIDE DEF g, step, first
  <2>6. g = [n \in 0 .. k + 1 |-> IF n = 0 THEN first ELSE step(g, n)]
    BY <2>4, <2>5, Zenon
  <2>7. k + 1 \in Nat
    OBVIOUS
  <2> QED BY <2>6, <2>7
<1>3. \A k \in Nat : k \in Good
  <2> HIDE DEF Good
  <2> QED BY <1>1, <1>2, CountingInduction
<1>4. PICK f : eq(f, Len(chain))
  <2>1. Len(chain) \in Good
    BY <1>3
  <2> QED BY <2>1
<1> DEFINE product[n \in 0 .. Len(chain)] ==
             IF n = 0 THEN 1
             ELSE product[n - 1] * Strongest(d, chain[n], <<way[n], way[n + 1]>>)
<1>5. P = product
  BY DEF Products
<1>6. f = [n \in 0 .. Len(chain) |->
             IF n = 0 THEN 1
             ELSE f[n - 1] * Strongest(d, chain[n], <<way[n], way[n + 1]>>)]
  BY <1>4, Zenon
<1>7. product = [n \in 0 .. Len(chain) |->
             IF n = 0 THEN 1
             ELSE product[n - 1] * Strongest(d, chain[n], <<way[n], way[n + 1]>>)]
  <2> HIDE <1>1, <1>2, <1>3, <1>4, <1>5
  <2> QED BY <1>6, Zenon
<1> HIDE DEF product
<1>8. P[0] = first
  <2>1. 0 \in 0 .. Len(chain)
    OBVIOUS
  <2> QED BY <1>5, <1>7, <2>1
<1>9. ASSUME NEW n \in 1 .. Len(chain) PROVE P[n] = P[n - 1] * Strongest(d, chain[n], <<way[n], way[n + 1]>>)
  <2>1. n \in 0 .. Len(chain) /\ n # 0
    OBVIOUS
  <2>2. product[n] = product[n - 1] * Strongest(d, chain[n], <<way[n], way[n + 1]>>)
    BY <1>7, <2>1
  <2> QED BY <1>5, <2>2
<1> QED BY <1>8, <1>9 DEF Multiplies

LEMMA FrontiersEquation ==
  ASSUME NEW d, NEW combination, NEW chain, Len(chain) \in Nat \ {0},
         NEW F, F = Frontiers(d, combination, chain)
  PROVE  /\ F[1] = FirstFrontier(d, chain[1])
         /\ \A n \in 2 .. Len(chain) :
              F[n] = NextFrontier(d, combination, F[n - 1], chain[n])
<1> DEFINE first == FirstFrontier(d, chain[1])
           step(f, n) == NextFrontier(d, combination, f[n - 1], chain[n])
           eq(f, k) == f = [n \in 1 .. k |-> IF n = 1 THEN first ELSE step(f, n)]
           Good == {k \in Nat : \E f : eq(f, k + 1)}
<1>1. 0 \in Good
  <2> DEFINE f == [n \in 1 .. 1 |-> first]
  <2>1. f = [n \in 1 .. 1 |-> IF n = 1 THEN first ELSE step(f, n)]
    <3> HIDE DEF step, first
    <3> QED OBVIOUS
  <2> HIDE DEF f
  <2> QED BY <2>1
<1>2. ASSUME NEW k \in Nat, k \in Good PROVE k + 1 \in Good
  <2> DEFINE K == k + 1
  <2>1. PICK f : eq(f, K)
    BY <1>2
  <2> DEFINE g == [n \in 1 .. K + 1 |-> IF n = K + 1 THEN step(f, n) ELSE f[n]]
  <2>2. \A n \in 1 .. K : f[n] = IF n = 1 THEN first ELSE step(f, n)
    <3> HIDE DEF step, first
    <3>1. f = [n \in 1 .. K |-> IF n = 1 THEN first ELSE step(f, n)]
      BY <2>1
    <3> DEFINE h == [n \in 1 .. K |-> IF n = 1 THEN first ELSE step(f, n)]
    <3>2. \A n \in 1 .. K : h[n] = IF n = 1 THEN first ELSE step(f, n)
      OBVIOUS
    <3>3. f = h
      BY <3>1
    <3> HIDE DEF h
    <3> QED BY <3>2, <3>3
  <2>3. \A n \in 1 .. K : g[n] = f[n]
    OBVIOUS
  <2>4. ASSUME NEW n \in 1 .. K + 1 PROVE g[n] = IF n = 1 THEN first ELSE step(g, n)
    <3>1. CASE n = 1
      <4>1. g[n] = f[n] /\ n \in 1 .. K
        BY <2>3, <3>1
      <4> HIDE DEF g, first, step
      <4> QED BY <2>2, <3>1, <4>1
    <3>2. CASE n # 1
      <4>1. n - 1 \in 1 .. K /\ g[n - 1] = f[n - 1]
        BY <2>3, <3>2
      <4>2. step(g, n) = step(f, n)
        <5> HIDE DEF g
        <5> QED BY <4>1
      <4>3. g[n] = step(f, n)
        <5>1. CASE n = K + 1
          <6> HIDE DEF step
          <6> QED BY <5>1
        <5>2. CASE n # K + 1
          <6>1. n \in 1 .. K
            BY <5>2
          <6> HIDE DEF g, first, step
          <6> QED BY <2>2, <2>3, <3>2, <6>1
        <5> QED BY <5>1, <5>2
      <4> HIDE DEF g, step, first
      <4> QED BY <3>2, <4>2, <4>3
    <3> QED BY <3>1, <3>2
  <2>5. g = [n \in 1 .. K + 1 |-> g[n]]
    OBVIOUS
  <2> HIDE DEF g, step, first
  <2>6. g = [n \in 1 .. K + 1 |-> IF n = 1 THEN first ELSE step(g, n)]
    BY <2>4, <2>5, Zenon
  <2>7. k + 1 \in Nat /\ (k + 1) + 1 = K + 1
    OBVIOUS
  <2> QED BY <2>6, <2>7
<1>3. \A k \in Nat : k \in Good
  <2> HIDE DEF Good
  <2> QED BY <1>1, <1>2, CountingInduction
<1>4. PICK f : eq(f, Len(chain))
  <2>1. Len(chain) - 1 \in Nat /\ (Len(chain) - 1) + 1 = Len(chain)
    OBVIOUS
  <2>2. Len(chain) - 1 \in Good
    <3> HIDE DEF Good
    <3> QED BY <1>3, <2>1
  <2> QED BY <2>1, <2>2
<1> DEFINE frontier[n \in 1 .. Len(chain)] ==
             IF n = 1 THEN FirstFrontier(d, chain[1])
             ELSE NextFrontier(d, combination, frontier[n - 1], chain[n])
<1>5. F = frontier
  BY DEF Frontiers
<1>6. f = [n \in 1 .. Len(chain) |->
             IF n = 1 THEN FirstFrontier(d, chain[1])
             ELSE NextFrontier(d, combination, f[n - 1], chain[n])]
  BY <1>4, Zenon
<1>7. frontier = [n \in 1 .. Len(chain) |->
             IF n = 1 THEN FirstFrontier(d, chain[1])
             ELSE NextFrontier(d, combination, frontier[n - 1], chain[n])]
  <2> HIDE <1>1, <1>2, <1>3, <1>4, <1>5
  <2> QED BY <1>6, Zenon
<1> HIDE DEF frontier
<1>8. F[1] = first
  <2>1. 1 \in 1 .. Len(chain)
    OBVIOUS
  <2> QED BY <1>5, <1>7, <2>1
<1>9. ASSUME NEW n \in 2 .. Len(chain) PROVE F[n] = NextFrontier(d, combination, F[n - 1], chain[n])
  <2>1. n \in 1 .. Len(chain) /\ n # 1
    OBVIOUS
  <2>2. frontier[n] = NextFrontier(d, combination, frontier[n - 1], chain[n])
    BY <1>7, <2>1
  <2> QED BY <1>5, <2>2
<1> QED BY <1>8, <1>9

\* Chains of declared relations whose cells are between members and have numbers.
ChainOK(d, chain) ==
  /\ chain \in Seq(DOMAIN d.relations) \ {<<>>}
  /\ \A r \in DOMAIN d.relations :
       /\ DOMAIN d.relations[r].cells \subseteq MemberIds \X MemberIds
       /\ \A p \in DOMAIN d.relations[r].cells : Strongest(d, r, p) \in Int

\* A way of n relations has n + 1 members, with a cell from each to the next.
WayOf(d, chain, n) ==
  {w \in Seq(MemberIds) :
     /\ Len(w) = n + 1
     /\ \A i \in 1 .. n : <<w[i], w[i + 1]>> \in DOMAIN d.relations[chain[i]].cells}

\* What it means to go on by one cell of the n-th relation.
GoesOn(d, chain, n, V, w) ==
  \E v \in V, b \in MemberIds :
    <<v[n], b>> \in DOMAIN d.relations[chain[n]].cells /\ w = Append(v, b)

Meets(d, chain, n, v, b) ==
  /\ v \in WayOf(d, chain, n - 1) /\ b \in MemberIds
  /\ <<v[n], b>> \in DOMAIN d.relations[chain[n]].cells

IsFrom(w, n, v, b) == w[n + 1] = b /\ \A i \in 1 .. n : w[i] = v[i]

LEMMA ChainShape ==
  ASSUME NEW d, NEW chain, ChainOK(d, chain)
  PROVE  /\ Len(chain) \in Nat \ {0}
         /\ \A n \in 1 .. Len(chain) : chain[n] \in DOMAIN d.relations
<1>1. Len(chain) \in Nat /\ \A n \in 1 .. Len(chain) : chain[n] \in DOMAIN d.relations
  BY LenProperties, ElementOfSeq DEF ChainOK
<1>2. Len(chain) # 0
  BY EmptySeq DEF ChainOK
<1> QED BY <1>1, <1>2

\* The ways that are longer by one are those that end with another cell.
LEMMA LongerShape ==
  ASSUME NEW d, NEW chain, ChainOK(d, chain), NEW n \in 1 .. Len(chain),
         NEW V, V \subseteq WayOf(d, chain, n - 1), NEW w
  PROVE  w \in Longer(d, chain[n], V) <=> GoesOn(d, chain, n, V, w)
<1> DEFINE cells == DOMAIN d.relations[chain[n]].cells
           meet == {y \in V \X cells : Last(y[1]) = y[2][1]}
<1>1. cells \subseteq MemberIds \X MemberIds
  BY ChainShape DEF ChainOK
<1>2. \A v \in V : Last(v) = v[n]
  <2>1. n - 1 + 1 = n
    BY ChainShape
  <2> QED BY <2>1 DEF WayOf, Last
<1>3. Longer(d, chain[n], V) = {Append(x[1], x[2][2]) : x \in meet}
  BY DEF Longer
<1> HIDE DEF cells
<1>4. ASSUME NEW v \in V, NEW b \in MemberIds, <<v[n], b>> \in cells, w = Append(v, b)
      PROVE  w \in {Append(x[1], x[2][2]) : x \in meet}
  <2> DEFINE z == <<v, <<v[n], b>>>>
  <2>1. z \in meet /\ z[1] = v /\ z[2][2] = b
    BY <1>2, <1>4
  <2> HIDE DEF z, meet
  <2>2. w = Append(z[1], z[2][2])
    BY <1>4, <2>1
  <2> QED BY <2>1, <2>2
<1>5. ASSUME NEW x \in meet, w = Append(x[1], x[2][2])
      PROVE  \E v \in V, b \in MemberIds : <<v[n], b>> \in cells /\ w = Append(v, b)
  <2>1. x[1] \in V /\ x[2] \in cells /\ Last(x[1]) = x[2][1]
    OBVIOUS
  <2>2. x[2] = <<x[2][1], x[2][2]>> /\ x[2][2] \in MemberIds
    BY <1>1, <2>1
  <2>3. <<x[1][n], x[2][2]>> \in cells
    BY <1>2, <2>1, <2>2
  <2> QED BY <1>5, <2>1, <2>2, <2>3
<1> HIDE DEF meet
<1> QED BY <1>3, <1>4, <1>5 DEF cells, GoesOn

\* A way and a cell that goes on from it are a way.
LEMMA AppendWay ==
  ASSUME NEW d, NEW chain, ChainOK(d, chain), NEW n \in 1 .. Len(chain),
         NEW v, NEW b, Meets(d, chain, n, v, b), NEW w, w = Append(v, b)
  PROVE  w \in WayOf(d, chain, n) /\ IsFrom(w, n, v, b)
<1>1. /\ b \in MemberIds /\ <<v[n], b>> \in DOMAIN d.relations[chain[n]].cells
      /\ v \in Seq(MemberIds) /\ Len(v) = n /\ n \in Nat
      /\ \A i \in 1 .. n - 1 : <<v[i], v[i + 1]>> \in DOMAIN d.relations[chain[i]].cells
  BY ChainShape DEF WayOf, Meets
<1>2. /\ w \in Seq(MemberIds) /\ Len(w) = n + 1
      /\ \A i \in 1 .. n : w[i] = v[i]
      /\ w[n + 1] = b
  BY <1>1, AppendProperties
<1>3. ASSUME NEW i \in 1 .. n PROVE <<w[i], w[i + 1]>> \in DOMAIN d.relations[chain[i]].cells
  <2>1. CASE i = n
    BY <1>1, <1>2, <2>1
  <2>2. CASE i # n
    <3>1. i \in 1 .. n - 1 /\ i + 1 \in 1 .. n
      BY <1>1, <2>2
    <3> QED BY <1>1, <1>2, <3>1
  <2> QED BY <2>1, <2>2
<1> QED BY <1>2, <1>3 DEF WayOf, IsFrom

LEMMA WaysShape ==
  ASSUME NEW d, NEW chain, ChainOK(d, chain), NEW W, W = WaysUpTo(d, chain)
  PROVE  /\ \A n \in 0 .. Len(chain) : W[n] \subseteq WayOf(d, chain, n) /\ IsFiniteSet(W[n])
         /\ \A n \in 1 .. Len(chain) : \A w : w \in W[n] <=> GoesOn(d, chain, n, W[n - 1], w)
<1> DEFINE Good == {n \in Nat : n <= Len(chain) =>
                      W[n] \subseteq WayOf(d, chain, n) /\ IsFiniteSet(W[n])}
<1>1. Len(chain) \in Nat
  BY ChainShape
<1>2. /\ W[0] = {<<m>> : m \in MemberIds}
      /\ \A n \in 1 .. Len(chain) : W[n] = Longer(d, chain[n], W[n - 1])
  BY <1>1, WaysEquation
<1>3. 0 \in Good
  <2>1. W[0] \subseteq WayOf(d, chain, 0)
    <3>1. ASSUME NEW m \in MemberIds PROVE <<m>> \in WayOf(d, chain, 0)
      <4>1. <<m>> \in Seq(MemberIds) /\ Len(<<m>>) = 1
        OBVIOUS
      <4> QED BY <4>1 DEF WayOf
    <3> QED BY <1>2, <3>1
  <2>2. IsFiniteSet(W[0])
    <3> DEFINE f == [m \in MemberIds |-> <<m>>]
    <3>1. W[0] = {f[m] : m \in MemberIds}
      BY <1>2
    <3> HIDE DEF f
    <3> QED BY <3>1, FiniteImage, MembersFinite
  <2> QED BY <2>1, <2>2
<1>4. ASSUME NEW k \in Nat, k \in Good PROVE k + 1 \in Good
  <2>1. SUFFICES ASSUME k + 1 <= Len(chain)
                 PROVE  W[k + 1] \subseteq WayOf(d, chain, k + 1) /\ IsFiniteSet(W[k + 1])
    OBVIOUS
  <2> DEFINE n == k + 1
  <2>2. n \in 1 .. Len(chain) /\ n - 1 = k /\ k <= Len(chain)
    BY <1>1, <2>1
  <2>3. W[n - 1] \subseteq WayOf(d, chain, n - 1) /\ IsFiniteSet(W[n - 1])
    BY <1>4, <2>2
  <2>4. W[n] = Longer(d, chain[n], W[n - 1])
    BY <1>2, <2>2
  <2> HIDE DEF n
  <2>5. W[n] \subseteq WayOf(d, chain, n)
    <3>1. ASSUME NEW w \in W[n] PROVE w \in WayOf(d, chain, n)
      <4>1. GoesOn(d, chain, n, W[n - 1], w)
        BY <2>2, <2>3, <2>4, LongerShape
      <4>2. PICK v \in W[n - 1], b \in MemberIds :
              <<v[n], b>> \in DOMAIN d.relations[chain[n]].cells /\ w = Append(v, b)
        BY <4>1 DEF GoesOn
      <4> QED BY <2>2, <2>3, <4>2, AppendWay DEF Meets
    <3> QED BY <3>1
  <2>6. IsFiniteSet(W[n])
    <3> DEFINE meet == {y \in W[n - 1] \X DOMAIN d.relations[chain[n]].cells :
                          Last(y[1]) = y[2][1]}
               f == [x \in meet |-> Append(x[1], x[2][2])]
    <3>1. IsFiniteSet(DOMAIN d.relations[chain[n]].cells)
      <4>1. DOMAIN d.relations[chain[n]].cells \subseteq MemberIds \X MemberIds
        BY <2>2, ChainShape DEF ChainOK
      <4> QED BY <4>1, FS_Subset, MembersFinite
    <3>2. IsFiniteSet(W[n - 1] \X DOMAIN d.relations[chain[n]].cells)
      BY <2>3, <3>1, FS_Product
    <3>3. IsFiniteSet(meet)
      BY <3>2, FS_Subset
    <3>4. W[n] = {f[x] : x \in meet}
      BY <2>4 DEF Longer
    <3> HIDE DEF f, meet
    <3> QED BY <3>3, <3>4, FiniteImage
  <2> QED BY <2>5, <2>6 DEF n
<1>5. \A n \in Nat : n \in Good
  <2> HIDE DEF Good
  <2> QED BY <1>3, <1>4, CountingInduction
<1>6. \A n \in 0 .. Len(chain) : W[n] \subseteq WayOf(d, chain, n) /\ IsFiniteSet(W[n])
  BY <1>1, <1>5
<1>7. ASSUME NEW n \in 1 .. Len(chain), NEW w
      PROVE  w \in W[n] <=> GoesOn(d, chain, n, W[n - 1], w)
  <2>1. n - 1 \in 0 .. Len(chain)
    BY <1>1
  <2>2. W[n] = Longer(d, chain[n], W[n - 1])
    BY <1>2
  <2>3. W[n - 1] \subseteq WayOf(d, chain, n - 1)
    BY <1>6, <2>1
  <2> HIDE <1>2, <1>5, <1>6
  <2> QED BY <2>2, <2>3, LongerShape
<1> QED BY <1>6, <1>7

\* The product on a way that goes on is that of the way before, times the cell.
LEMMA ProductGoesOn ==
  ASSUME NEW d, NEW chain, ChainOK(d, chain), NEW n \in 1 .. Len(chain),
         NEW v, NEW b, Meets(d, chain, n, v, b)
  PROVE  Products(d, chain, Append(v, b))[n]
           = Products(d, chain, v)[n - 1] * Strongest(d, chain[n], <<v[n], b>>)
<1> DEFINE w == Append(v, b)
           P == Products(d, chain, w)
           Q == Products(d, chain, v)
           Good == {i \in Nat : i <= n - 1 => P[i] = Q[i]}
<1>1. Len(chain) \in Nat /\ n \in Nat
  BY ChainShape
<1>2. w = Append(v, b)
  OBVIOUS
<1>3. Multiplies(d, chain, w, P)
  BY <1>1, ProductsEquation
<1>4. Multiplies(d, chain, v, Q)
  BY <1>1, ProductsEquation
<1> HIDE DEF w, P, Q
<1>5. IsFrom(w, n, v, b)
  BY <1>2, AppendWay
<1>6. 0 \in Good
  BY <1>3, <1>4 DEF Multiplies
<1>7. ASSUME NEW k \in Nat, k \in Good PROVE k + 1 \in Good
  <2>1. SUFFICES ASSUME k + 1 <= n - 1 PROVE P[k + 1] = Q[k + 1]
    OBVIOUS
  <2>2. P[k] = Q[k]
    BY <1>1, <1>7, <2>1
  <2>3. k + 1 \in 1 .. Len(chain) /\ k + 1 \in 1 .. n /\ k + 1 + 1 \in 1 .. n /\ k + 1 - 1 = k
    BY <1>1, <2>1
  <2>4. P[k + 1] = P[k] * Strongest(d, chain[k + 1], <<w[k + 1], w[k + 1 + 1]>>)
    BY <1>3, <2>3 DEF Multiplies
  <2>5. Q[k + 1] = Q[k] * Strongest(d, chain[k + 1], <<v[k + 1], v[k + 1 + 1]>>)
    BY <1>4, <2>3 DEF Multiplies
  <2>6. w[k + 1] = v[k + 1] /\ w[k + 1 + 1] = v[k + 1 + 1]
    BY <1>5, <2>3 DEF IsFrom
  <2> QED BY <2>2, <2>4, <2>5, <2>6
<1>8. \A i \in Nat : i \in Good
  <2> HIDE DEF Good
  <2> QED BY <1>6, <1>7, CountingInduction
<1>9. P[n - 1] = Q[n - 1]
  <2>1. n - 1 \in Nat /\ n - 1 <= n - 1
    BY <1>1
  <2> QED BY <1>8, <2>1
<1>10. P[n] = P[n - 1] * Strongest(d, chain[n], <<w[n], w[n + 1]>>) /\ w[n] = v[n]
  <2>1. n \in 1 .. n
    BY <1>1
  <2> QED BY <1>5, <1>3, <2>1 DEF Multiplies, IsFrom
<1> QED BY <1>5, <1>9, <1>10 DEF w, P, Q, IsFrom

LEMMA ProductIsInt ==
  ASSUME NEW d, NEW chain, ChainOK(d, chain), NEW n \in 0 .. Len(chain),
         NEW w \in WayOf(d, chain, n)
  PROVE  Products(d, chain, w)[n] \in Int
<1> DEFINE P == Products(d, chain, w)
           Good == {i \in Nat : i <= n => P[i] \in Int}
<1>1. Len(chain) \in Nat /\ n \in Nat
  BY ChainShape
<1>2. Multiplies(d, chain, w, P)
  BY <1>1, ProductsEquation
<1> HIDE DEF P
<1>3. 0 \in Good
  BY <1>2 DEF Multiplies
<1>4. ASSUME NEW k \in Nat, k \in Good PROVE k + 1 \in Good
  <2>1. SUFFICES ASSUME k + 1 <= n PROVE P[k + 1] \in Int
    OBVIOUS
  <2> DEFINE i == k + 1
             c == Strongest(d, chain[i], <<w[i], w[i + 1]>>)
  <2>2. i \in 1 .. Len(chain) /\ i \in 1 .. n /\ i - 1 = k /\ P[k] \in Int
    BY <1>1, <1>4, <2>1
  <2> HIDE DEF i
  <2>3. c \in Int
    <3>1. <<w[i], w[i + 1]>> \in DOMAIN d.relations[chain[i]].cells
      BY <2>2 DEF WayOf
    <3>2. chain[i] \in DOMAIN d.relations
      BY <2>2, ChainShape
    <3> QED BY <3>1, <3>2 DEF ChainOK
  <2>4. P[i] = P[k] * c
    BY <1>2, <2>2 DEF Multiplies
  <2> HIDE DEF c
  <2>5. P[i] \in Int
    BY <2>2, <2>3, <2>4
  <2> QED BY <2>5 DEF i
<1>5. \A i \in Nat : i \in Good
  <2> HIDE DEF Good
  <2> QED BY <1>3, <1>4, CountingInduction
<1>6. P[n] \in Int
  BY <1>1, <1>5
<1> QED BY <1>6 DEF P

\* The ways of n relations between two members that start with a value, and the
\* sum of their products.
Joining(d, chain, n, p) ==
  {w \in WaysUpTo(d, chain)[n] :
     w[1] = p[1] /\ w[n + 1] = p[2] /\ Strongest(d, chain[1], <<w[1], w[2]>>) > 0}

WaysTotal(d, chain, n, p) ==
  SumFunction([w \in Joining(d, chain, n, p) |-> Products(d, chain, w)[n]])

\* What a frontier holds after n relations.
Sums(d, combination, chain, n, frontier) ==
  /\ DOMAIN frontier = {p \in MemberIds \X MemberIds : Joining(d, chain, n, p) # {}}
  /\ combination # "min" =>
       \A p \in DOMAIN frontier : frontier[p].value = WaysTotal(d, chain, n, p)

LEMMA JoiningShape ==
  ASSUME NEW d, NEW chain, ChainOK(d, chain), NEW n \in 1 .. Len(chain), NEW p
  PROVE  /\ IsFiniteSet(Joining(d, chain, n, p))
         /\ Joining(d, chain, n, p) \subseteq WayOf(d, chain, n)
         /\ \A w \in Joining(d, chain, n, p) : Products(d, chain, w)[n] \in Int
<1> DEFINE W == WaysUpTo(d, chain)
<1>1. n \in 0 .. Len(chain)
  BY ChainShape
<1>2. W[n] \subseteq WayOf(d, chain, n) /\ IsFiniteSet(W[n])
  BY <1>1, WaysShape
<1>3. Joining(d, chain, n, p) \subseteq W[n]
  BY DEF Joining
<1>4. IsFiniteSet(Joining(d, chain, n, p)) /\ Joining(d, chain, n, p) \subseteq WayOf(d, chain, n)
  BY <1>2, <1>3, FS_Subset
<1> QED BY <1>1, <1>4, ProductIsInt

\* A list of one with an element added.
LEMMA PairAppended ==
  ASSUME NEW S, NEW a \in S, NEW b \in S
  PROVE  Append(<<a>>, b) = <<a, b>>
<1> DEFINE v == <<a>>
           w == Append(v, b)
<1>1. v \in Seq(S) /\ Len(v) = 1 /\ v[1] = a
  OBVIOUS
<1> HIDE DEF v
<1>2. v \in Seq(S) /\ Len(v) \in Nat /\ DOMAIN v = 1 .. Len(v)
  BY <1>1, LenProperties
<1>3. /\ w \in Seq(S) /\ Len(w) = Len(v) + 1
      /\ \A i \in DOMAIN v : w[i] = v[i]
      /\ w[Len(v) + 1] = b
  BY <1>2, AppendProperties
<1> HIDE DEF w
<1>4. 1 \in DOMAIN v
  BY <1>1
<1>5. Len(w) = 2 /\ w[1] = a /\ w[2] = b
  BY <1>1, <1>3, <1>4
<1>6. w = [i \in 1 .. 2 |-> w[i]]
  BY <1>3, <1>5, LenProperties
<1>7. w = <<a, b>>
  BY <1>5, <1>6
<1> QED BY <1>7 DEF v, w

\* A way between two members is one up to the last but one of them, and a cell.
Through(d, chain, n, p, w) ==
  \E k \in MemberIds : \E v \in Joining(d, chain, n, <<p[1], k>>) :
    <<k, p[2]>> \in DOMAIN d.relations[chain[n + 1]].cells /\ w = Append(v, p[2])

LEMMA JoiningGoesOn ==
  ASSUME NEW d, NEW chain, ChainOK(d, chain), NEW n \in 1 .. Len(chain) - 1,
         NEW p \in MemberIds \X MemberIds, NEW w
  PROVE  w \in Joining(d, chain, n + 1, p) <=> Through(d, chain, n, p, w)
<1> DEFINE W == WaysUpTo(d, chain)
           cells == DOMAIN d.relations[chain[n + 1]].cells
<1>1. /\ Len(chain) \in Nat /\ n \in Nat /\ n >= 1
      /\ n \in 0 .. Len(chain) /\ n + 1 \in 1 .. Len(chain) /\ (n + 1) - 1 = n
      /\ 1 \in 1 .. n + 1 /\ 2 \in 1 .. n + 1 /\ n + 1 \in 1 .. n + 1
  BY ChainShape
<1>2. W[n] \subseteq WayOf(d, chain, n)
  BY <1>1, WaysShape
<1>3. w \in W[n + 1] <=> GoesOn(d, chain, n + 1, W[n], w)
  <2>1. w \in W[n + 1] <=> GoesOn(d, chain, n + 1, W[(n + 1) - 1], w)
    <3> HIDE DEF W
    <3> QED BY <1>1, WaysShape DEF W
  <2> QED BY <1>1, <2>1
<1> HIDE DEF W
<1>4. ASSUME NEW v \in W[n], NEW b \in MemberIds, <<v[n + 1], b>> \in cells, w = Append(v, b)
      PROVE  /\ w[1] = v[1] /\ w[2] = v[2] /\ w[(n + 1) + 1] = b
             /\ v[n + 1] \in MemberIds
  <2>1. Meets(d, chain, n + 1, v, b)
    BY <1>1, <1>2, <1>4 DEF Meets
  <2>2. IsFrom(w, n + 1, v, b)
    BY <1>1, <1>4, <2>1, AppendWay
  <2>3. v[n + 1] \in MemberIds
    <3>1. v \in Seq(MemberIds) /\ Len(v) = n + 1
      BY <1>2 DEF WayOf
    <3> QED BY <1>1, <3>1, ElementOfSeq
  <2> QED BY <1>1, <2>2, <2>3 DEF IsFrom
<1>5. ASSUME w \in Joining(d, chain, n + 1, p) PROVE Through(d, chain, n, p, w)
  <2>1. /\ w \in W[n + 1] /\ w[1] = p[1] /\ w[(n + 1) + 1] = p[2]
        /\ Strongest(d, chain[1], <<w[1], w[2]>>) > 0
    BY <1>5 DEF Joining, W
  <2>2. PICK v \in W[n], b \in MemberIds : <<v[n + 1], b>> \in cells /\ w = Append(v, b)
    BY <1>3, <2>1 DEF GoesOn
  <2> DEFINE k == v[n + 1]
  <2>3. /\ v[1] = p[1] /\ b = p[2] /\ k \in MemberIds
        /\ Strongest(d, chain[1], <<v[1], v[2]>>) > 0
    BY <1>4, <2>1, <2>2
  <2>4. v \in Joining(d, chain, n, <<p[1], k>>)
    BY <2>3 DEF Joining, W
  <2> HIDE DEF k
  <2>5. <<k, p[2]>> \in cells /\ w = Append(v, p[2])
    BY <2>2, <2>3 DEF k
  <2> QED BY <2>3, <2>4, <2>5 DEF Through
<1>6. ASSUME Through(d, chain, n, p, w) PROVE w \in Joining(d, chain, n + 1, p)
  <2>1. PICK k \in MemberIds : \E v \in Joining(d, chain, n, <<p[1], k>>) :
          <<k, p[2]>> \in cells /\ w = Append(v, p[2])
    BY <1>6 DEF Through
  <2>2. PICK v \in Joining(d, chain, n, <<p[1], k>>) :
          <<k, p[2]>> \in cells /\ w = Append(v, p[2])
    BY <2>1
  <2>3. /\ v \in W[n] /\ v[1] = p[1] /\ v[n + 1] = k
        /\ Strongest(d, chain[1], <<v[1], v[2]>>) > 0
    BY DEF Joining, W
  <2>4. p[2] \in MemberIds
    OBVIOUS
  <2>5. w[1] = v[1] /\ w[2] = v[2] /\ w[(n + 1) + 1] = p[2]
    BY <1>4, <2>2, <2>3, <2>4
  <2>6. w \in W[n + 1]
    BY <1>3, <2>2, <2>3, <2>4 DEF GoesOn
  <2> QED BY <2>3, <2>5, <2>6 DEF Joining, W
<1> QED BY <1>5, <1>6

\* The first frontier holds the sums over the ways of one relation.
LEMMA FirstSums ==
  ASSUME NEW d, NEW combination, NEW chain, ChainOK(d, chain)
  PROVE  Sums(d, combination, chain, 1, FirstFrontier(d, chain[1]))
<1> DEFINE W == WaysUpTo(d, chain)
           r == chain[1]
           cells == DOMAIN d.relations[r].cells
           starts == {q \in cells : Strongest(d, r, q) > 0}
           f == FirstFrontier(d, r)
<1>1. Len(chain) \in Nat /\ 1 \in 1 .. Len(chain) /\ r \in DOMAIN d.relations
  BY ChainShape
<1>2. cells \subseteq MemberIds \X MemberIds /\ \A q \in cells : Strongest(d, r, q) \in Int
  BY <1>1 DEF ChainOK
<1>3. ASSUME NEW p \in MemberIds \X MemberIds, NEW w PROVE w \in W[1] /\ w[1] = p[1] /\ w[2] = p[2] <=> w = p /\ p \in cells
  <2>1. \A x : x \in W[0] <=> \E m \in MemberIds : x = <<m>>
    BY <1>1, WaysEquation
  <2>2. w \in W[1] <=> GoesOn(d, chain, 1, W[0], w)
    <3>1. w \in W[1] <=> GoesOn(d, chain, 1, W[1 - 1], w)
      <4> HIDE DEF W
      <4> QED BY <1>1, WaysShape DEF W
    <3> QED BY <3>1
  <2> HIDE DEF W
  <2>3. w \in W[1] <=> \E m, b \in MemberIds : <<m, b>> \in cells /\ w = <<m, b>>
    <3>1. ASSUME NEW v \in W[0], NEW b \in MemberIds, <<v[1], b>> \in cells, w = Append(v, b)
          PROVE  \E m \in MemberIds : <<m, b>> \in cells /\ w = <<m, b>>
      <4>1. PICK m \in MemberIds : v = <<m>>
        BY <2>1
      <4>2. v[1] = m /\ Append(v, b) = <<m, b>>
        BY <4>1, PairAppended
      <4> QED BY <3>1, <4>2
    <3>2. ASSUME NEW m \in MemberIds, NEW b \in MemberIds, <<m, b>> \in cells, w = <<m, b>>
          PROVE  GoesOn(d, chain, 1, W[0], w)
      <4> DEFINE v == <<m>>
      <4>1. v \in W[0]
        BY <2>1
      <4>2. v[1] = m /\ Append(v, b) = <<m, b>>
        BY PairAppended
      <4> HIDE DEF v
      <4> QED BY <3>2, <4>1, <4>2 DEF GoesOn
    <3>3. GoesOn(d, chain, 1, W[0], w) =>
            \E v \in W[0], b \in MemberIds : <<v[1], b>> \in cells /\ w = Append(v, b)
      BY DEF GoesOn
    <3> DEFINE pair == \E m, b \in MemberIds : <<m, b>> \in cells /\ w = <<m, b>>
    <3>4. ASSUME w \in W[1] PROVE pair
      <4>1. PICK v \in W[0], b \in MemberIds : <<v[1], b>> \in cells /\ w = Append(v, b)
        BY <2>2, <3>3, <3>4
      <4>2. \E m \in MemberIds : <<m, b>> \in cells /\ w = <<m, b>>
        BY <3>1, <4>1
      <4> QED BY <4>2
    <3>5. ASSUME pair PROVE w \in W[1]
      <4>1. GoesOn(d, chain, 1, W[0], w)
        BY <3>2, <3>5
      <4> QED BY <2>2, <4>1
    <3> HIDE DEF pair
    <3>6. w \in W[1] <=> pair
      BY <3>4, <3>5
    <3> QED BY <3>6 DEF pair
  <2>4. p = <<p[1], p[2]>> /\ p[1] \in MemberIds /\ p[2] \in MemberIds
    OBVIOUS
  <2>5. ASSUME w \in W[1], w[1] = p[1], w[2] = p[2] PROVE w = p /\ p \in cells
    <3>1. PICK m \in MemberIds, b \in MemberIds : <<m, b>> \in cells /\ w = <<m, b>>
      BY <2>3, <2>5
    <3>2. m = p[1] /\ b = p[2]
      BY <2>5, <3>1
    <3> QED BY <2>4, <3>1, <3>2
  <2>6. ASSUME w = p, p \in cells PROVE w \in W[1] /\ w[1] = p[1] /\ w[2] = p[2]
    BY <2>3, <2>4, <2>6
  <2> QED BY <2>5, <2>6
<1>4. ASSUME NEW p \in MemberIds \X MemberIds
      PROVE  Joining(d, chain, 1, p) = IF p \in starts THEN {p} ELSE {}
  <2>1. p = <<p[1], p[2]>>
    OBVIOUS
  <2>2. ASSUME NEW w PROVE w \in Joining(d, chain, 1, p) <=> w = p /\ p \in starts
    <3>1. w \in Joining(d, chain, 1, p) <=>
            w \in W[1] /\ w[1] = p[1] /\ w[1 + 1] = p[2] /\ Strongest(d, r, <<w[1], w[2]>>) > 0
      BY DEF Joining
    <3>2. 1 + 1 = 2
      OBVIOUS
    <3> HIDE DEF W, cells, r
    <3> QED BY <1>3, <2>1, <3>1, <3>2
  <2> HIDE DEF starts
  <2> QED BY <2>2
<1>5. DOMAIN f = starts
  BY DEF FirstFrontier
<1>6. DOMAIN f = {p \in MemberIds \X MemberIds : Joining(d, chain, 1, p) # {}}
  BY <1>2, <1>4, <1>5
<1>7. ASSUME NEW p \in starts PROVE f[p].value = WaysTotal(d, chain, 1, p)
  <2> DEFINE P == Products(d, chain, p)
             g == [w \in Joining(d, chain, 1, p) |-> Products(d, chain, w)[1]]
  <2>1. p \in MemberIds \X MemberIds /\ p = <<p[1], p[2]>> /\ Strongest(d, r, p) \in Int
    BY <1>2
  <2>2. Joining(d, chain, 1, p) = {p}
    BY <1>4, <2>1
  <2>3. P[1] = Strongest(d, r, p)
    <3>1. Multiplies(d, chain, p, P)
      BY <1>1, ProductsEquation
    <3> HIDE DEF P
    <3>2. P[0] = 1 /\ P[1] = P[1 - 1] * Strongest(d, chain[1], <<p[1], p[1 + 1]>>)
      BY <1>1, <3>1 DEF Multiplies
    <3>3. P[1] = 1 * Strongest(d, r, p)
      BY <2>1, <3>2
    <3> QED BY <2>1, <3>3
  <2>4. g[p] = Strongest(d, r, p) /\ DOMAIN g = {p}
    BY <2>2, <2>3
  <2> HIDE DEF g
  <2>5. Summable(g, {p}) /\ Summable(g, {})
    BY <2>1, <2>4, FS_Singleton, FS_EmptySet DEF Summable
  <2>6. SumFunctionOnSet(g, {p}) = g[p] + SumFunctionOnSet(g, {p} \ {p})
    BY <2>5, SumRecursion
  <2>7. {p} \ {p} = {} /\ SumFunctionOnSet(g, {}) = 0
    BY <2>5, SumRecursion
  <2>8. SumFunction(g) = SumFunctionOnSet(g, {p})
    BY <2>4 DEF SumFunction
  <2>9. WaysTotal(d, chain, 1, p) = SumFunction(g)
    BY DEF WaysTotal, g
  <2>10. f[p].value = Strongest(d, r, p)
    BY DEF FirstFrontier
  <2>11. SumFunctionOnSet(g, {p}) = Strongest(d, r, p)
    <3> DEFINE s == Strongest(d, r, p)
    <3>1. SumFunctionOnSet(g, {p}) = s + 0 /\ s \in Int
      BY <2>1, <2>4, <2>6, <2>7
    <3> HIDE DEF s
    <3>2. SumFunctionOnSet(g, {p}) = s
      BY <3>1
    <3> QED BY <3>2 DEF s
  <2> HIDE DEF f
  <2> QED BY <2>8, <2>9, <2>10, <2>11
<1> HIDE DEF f, starts
<1>8. \A p \in DOMAIN f : f[p].value = WaysTotal(d, chain, 1, p)
  BY <1>5, <1>7
<1> QED BY <1>6, <1>8 DEF Sums, f, r

\* The product on a way of n + 1 relations is that on one of n, times a cell.
Worthier(d, chain, n, v, w, p) ==
  Products(d, chain, w)[n + 1] = Products(d, chain, v)[n] * Strongest(d, chain[n + 1], p)

\* What a way to the last but one member says of the ways that go on from it.
LEMMA JoiningOn ==
  ASSUME NEW d, NEW chain, ChainOK(d, chain), NEW n \in 1 .. Len(chain) - 1,
         NEW a, NEW b \in MemberIds, NEW k \in MemberIds,
         <<k, b>> \in DOMAIN d.relations[chain[n + 1]].cells,
         NEW v \in Joining(d, chain, n, <<a, k>>), NEW w, w = Append(v, b)
  PROVE  /\ v \in WayOf(d, chain, n) /\ v[n + 1] = k
         /\ IsFrom(w, n + 1, v, b)
         /\ Worthier(d, chain, n, v, w, <<k, b>>)
<1>1. /\ Len(chain) \in Nat /\ n \in 1 .. Len(chain) /\ n + 1 \in 1 .. Len(chain) /\ (n + 1) - 1 = n
  BY ChainShape
<1>2. v \in WayOf(d, chain, n)
  BY <1>1, JoiningShape
<1>3. v[n + 1] = k
  BY DEF Joining
<1>4. Meets(d, chain, n + 1, v, b)
  BY <1>1, <1>2, <1>3 DEF Meets
<1>5. IsFrom(w, n + 1, v, b)
  BY <1>1, <1>4, AppendWay
<1> DEFINE N == n + 1
<1>6. N \in 1 .. Len(chain) /\ N - 1 = n /\ Meets(d, chain, N, v, b)
  BY <1>1, <1>4
<1> HIDE DEF N
<1>7. Products(d, chain, Append(v, b))[N]
        = Products(d, chain, v)[N - 1] * Strongest(d, chain[N], <<v[N], b>>)
  BY <1>6, ProductGoesOn
<1>8. Products(d, chain, w)[n + 1]
        = Products(d, chain, v)[n] * Strongest(d, chain[n + 1], <<k, b>>)
  BY <1>3, <1>6, <1>7 DEF N
<1> QED BY <1>2, <1>3, <1>5, <1>8 DEF Worthier

Onward(d, chain, n, a, k, b) == {Append(v, b) : v \in Joining(d, chain, n, <<a, k>>)}

Worths(d, chain, n, ways, G) == \A w \in ways : G[w] = Products(d, chain, w)[n]

\* The ways between two members through one before the last: their sum is that of
\* the ways to it, times the last cell.
LEMMA PartSums ==
  ASSUME NEW d, NEW chain, ChainOK(d, chain), NEW n \in 1 .. Len(chain) - 1,
         NEW a, NEW b \in MemberIds, NEW k \in MemberIds,
         <<k, b>> \in DOMAIN d.relations[chain[n + 1]].cells,
         NEW part, part = Onward(d, chain, n, a, k, b),
         NEW G, Worths(d, chain, n + 1, part, G)
  PROVE  SumFunctionOnSet(G, part)
           = WaysTotal(d, chain, n, <<a, k>>) * Strongest(d, chain[n + 1], <<k, b>>)
<1> DEFINE J == Joining(d, chain, n, <<a, k>>)
           c == Strongest(d, chain[n + 1], <<k, b>>)
           K == [v \in J |-> Append(v, b)]
           Q == [v \in J |-> Products(d, chain, v)[n]]
           H == [v \in J |-> Q[v] * c]
<1>1. /\ Len(chain) \in Nat /\ n \in Nat /\ n \in 1 .. Len(chain) /\ n + 1 \in 1 .. Len(chain)
      /\ chain[n + 1] \in DOMAIN d.relations
  BY ChainShape
<1>2. c \in Int
  BY <1>1 DEF ChainOK
<1>3. Summable(Q, J)
  <2>1. IsFiniteSet(J) /\ \A v \in J : Products(d, chain, v)[n] \in Int
    BY <1>1, JoiningShape
  <2>2. \A v \in J : Q[v] = Products(d, chain, v)[n]
    OBVIOUS
  <2> HIDE DEF J, Q
  <2> QED BY <2>1, <2>2 DEF Summable
<1>4. Summable(H, J)
  <2>1. \A v \in J : H[v] = Q[v] * c
    OBVIOUS
  <2>2. \A x \in Int : x * c \in Int
    BY <1>2
  <2> HIDE DEF H, Q, J, c
  <2> QED BY <1>3, <2>1, <2>2 DEF Summable
<1>5. SumFunctionOnSet(H, J) = SumFunctionOnSet(Q, J) * c
  <2>1. \A v \in J : H[v] = Q[v] * c
    OBVIOUS
  <2> HIDE DEF H, Q, J, c
  <2> QED BY <1>2, <1>3, <2>1, SumScaled
<1>6. ASSUME NEW v \in J PROVE H[v] = G[K[v]]
  <2>1. H[v] = Products(d, chain, v)[n] * c /\ K[v] = Append(v, b)
    OBVIOUS
  <2>2. Products(d, chain, K[v])[n + 1] = Products(d, chain, v)[n] * c
    <3> DEFINE w == Append(v, b)
    <3>1. w = Append(v, b) /\ K[v] = w
      OBVIOUS
    <3> HIDE DEF w, K
    <3>2. Worthier(d, chain, n, v, w, <<k, b>>)
      BY <3>1, JoiningOn
    <3> QED BY <3>1, <3>2 DEF Worthier
  <2>3. K[v] \in part
    BY DEF Onward
  <2> QED BY <2>1, <2>2, <2>3 DEF Worths
<1>7. ASSUME NEW v \in J, NEW u \in J, K[v] = K[u] PROVE v = u
  <2> DEFINE w == Append(v, b)
  <2>1. w = Append(v, b) /\ w = Append(u, b)
    BY <1>7
  <2> HIDE DEF w, K
  <2>2. v \in WayOf(d, chain, n) /\ IsFrom(w, n + 1, v, b)
    BY <2>1, JoiningOn
  <2>3. u \in WayOf(d, chain, n) /\ IsFrom(w, n + 1, u, b)
    BY <2>1, JoiningOn
  <2>4. \A i \in 1 .. n + 1 : v[i] = u[i]
    BY <2>2, <2>3 DEF IsFrom
  <2>5. v \in Seq(MemberIds) /\ u \in Seq(MemberIds) /\ Len(v) = n + 1 /\ Len(u) = n + 1
    BY <2>2, <2>3 DEF WayOf
  <2>6. v \in [1 .. n + 1 -> MemberIds] /\ u \in [1 .. n + 1 -> MemberIds]
    BY <2>5, LenProperties
  <2> QED BY <2>4, <2>6
<1>8. SumFunctionOnSet(H, J) = SumFunctionOnSet(G, {K[v] : v \in J})
  <2> HIDE DEF H, J, K, Q
  <2> QED BY <1>4, <1>6, <1>7, SumSame
<1>9. {K[v] : v \in J} = part
  BY DEF Onward
<1>10. WaysTotal(d, chain, n, <<a, k>>) = SumFunctionOnSet(Q, J)
  BY DEF WaysTotal, SumFunction
<1> HIDE DEF H, J, K, Q, c
<1>11. SumFunctionOnSet(G, part) = WaysTotal(d, chain, n, <<a, k>>) * c
  BY <1>5, <1>8, <1>9, <1>10
<1> QED BY <1>11 DEF c

\* A frontier that holds the sums is carried to one that does.
LEMMA NextSums ==
  ASSUME NEW d, NEW combination, NEW chain, ChainOK(d, chain), NEW n \in 1 .. Len(chain) - 1,
         NEW f, Sums(d, combination, chain, n, f),
         NEW g, g = NextFrontier(d, combination, f, chain[n + 1])
  PROVE  Sums(d, combination, chain, n + 1, g)
<1> DEFINE r == chain[n + 1]
           cells == DOMAIN d.relations[r].cells
           combined(x, y) == IF combination = "min" THEN Min({x, y}) ELSE x * y
           mids(p) == {k \in MemberIds : <<p[1], k>> \in DOMAIN f /\ <<k, p[2]>> \in cells}
           through(p, k) == combined(f[<<p[1], k>>].value, Strongest(d, r, <<k, p[2]>>))
           sum(p) == SumFunction([k \in mids(p) |-> through(p, k)])
<1>1. n \in 1 .. Len(chain) /\ n + 1 \in 1 .. Len(chain) /\ n \in Nat
  BY ChainShape
<1>2. /\ DOMAIN g = {q \in MemberIds \X MemberIds : mids(q) # {}}
      /\ \A p \in DOMAIN g : g[p].value = sum(p)
  BY DEF NextFrontier
<1>3. DOMAIN f = {p \in MemberIds \X MemberIds : Joining(d, chain, n, p) # {}}
  BY DEF Sums
<1> HIDE DEF cells, r
<1>4. ASSUME NEW p \in MemberIds \X MemberIds
      PROVE  mids(p) = {k \in MemberIds : Joining(d, chain, n, <<p[1], k>>) # {} /\ <<k, p[2]>> \in cells}
  BY <1>3
<1>5. ASSUME NEW p \in MemberIds \X MemberIds
      PROVE  mids(p) # {} <=> Joining(d, chain, n + 1, p) # {}
  <2>1. ASSUME NEW k \in mids(p) PROVE Joining(d, chain, n + 1, p) # {}
    <3>1. k \in MemberIds /\ <<k, p[2]>> \in cells
      BY <1>4
    <3>2. PICK v \in Joining(d, chain, n, <<p[1], k>>) : TRUE
      BY <1>4
    <3>3. Through(d, chain, n, p, Append(v, p[2]))
      BY <3>1, <3>2 DEF Through, cells, r
    <3>4. Append(v, p[2]) \in Joining(d, chain, n + 1, p)
      BY <3>3, JoiningGoesOn
    <3> QED BY <3>4
  <2>2. ASSUME NEW w \in Joining(d, chain, n + 1, p) PROVE mids(p) # {}
    <3>1. Through(d, chain, n, p, w)
      BY JoiningGoesOn
    <3>2. PICK k \in MemberIds : \E v \in Joining(d, chain, n, <<p[1], k>>) :
            <<k, p[2]>> \in cells /\ w = Append(v, p[2])
      BY <3>1 DEF Through, cells, r
    <3>3. k \in mids(p)
      <4> HIDE DEF mids
      <4> QED BY <1>4, <3>2
    <3> QED BY <3>3
  <2> HIDE DEF mids
  <2> QED BY <2>1, <2>2
<1>6. ASSUME combination # "min", NEW p \in MemberIds \X MemberIds
      PROVE  sum(p) = WaysTotal(d, chain, n + 1, p)
  <2> DEFINE S == Joining(d, chain, n + 1, p)
             G == [w \in S |-> Products(d, chain, w)[n + 1]]
             T == mids(p)
             H == [k \in T |-> through(p, k)]
             of == [w \in S |-> w[n + 1]]
             Of(k) == {w \in S : of[w] = k}
  <2>1. p[1] \in MemberIds /\ p[2] \in MemberIds
    OBVIOUS
  <2>2. IsFiniteSet(T)
    <3>1. T \subseteq MemberIds
      OBVIOUS
    <3> HIDE DEF T
    <3> QED BY <3>1, FS_Subset, MembersFinite
  <2>3. Summable(G, S)
    <3>1. IsFiniteSet(S) /\ \A w \in S : Products(d, chain, w)[n + 1] \in Int
      BY <1>1, JoiningShape
    <3>2. \A w \in S : G[w] = Products(d, chain, w)[n + 1]
      OBVIOUS
    <3> HIDE DEF S, G
    <3> QED BY <3>1, <3>2 DEF Summable
  <2>4. \A k : k \in T <=> k \in MemberIds /\ Joining(d, chain, n, <<p[1], k>>) # {} /\ <<k, p[2]>> \in cells
    <3> HIDE DEF mids
    <3> QED BY <1>4
  <2>5. ASSUME NEW k \in MemberIds, <<k, p[2]>> \in cells,
               NEW v \in Joining(d, chain, n, <<p[1], k>>), NEW w, w = Append(v, p[2])
        PROVE  w[n + 1] = k /\ w \in S
    <3>1. v[n + 1] = k
      BY DEF Joining
    <3>2. IsFrom(w, n + 1, v, p[2])
      <4>1. <<k, p[2]>> \in DOMAIN d.relations[chain[n + 1]].cells
        BY <2>5 DEF cells, r
      <4> DEFINE a == p[1]
                 b == p[2]
      <4>2. b \in MemberIds /\ <<k, b>> \in DOMAIN d.relations[chain[n + 1]].cells
        BY <2>1, <4>1
      <4>3. v \in Joining(d, chain, n, <<a, k>>) /\ w = Append(v, b)
        BY <2>5
      <4> HIDE DEF a, b
      <4>4. IsFrom(w, n + 1, v, b)
        <5> HIDE DEF S, G, T, H, of, Of, mids
        <5> QED BY <4>2, <4>3, JoiningOn
      <4> QED BY <4>4 DEF b
    <3>3. n + 1 \in 1 .. n + 1
      BY <1>1
    <3>4. w[n + 1] = k
      BY <3>1, <3>2, <3>3 DEF IsFrom
    <3>5. Through(d, chain, n, p, w)
      BY <2>5 DEF Through, cells, r
    <3>6. w \in S
      BY <3>5, JoiningGoesOn
    <3> QED BY <3>4, <3>6
  <2>6. ASSUME NEW w \in S
        PROVE  \E k \in T : \E v \in Joining(d, chain, n, <<p[1], k>>) :
                 /\ <<k, p[2]>> \in cells /\ w = Append(v, p[2])
                 /\ w[n + 1] = k
    <3>1. Through(d, chain, n, p, w)
      BY JoiningGoesOn
    <3>2. PICK k \in MemberIds : \E v \in Joining(d, chain, n, <<p[1], k>>) :
            <<k, p[2]>> \in cells /\ w = Append(v, p[2])
      BY <3>1 DEF Through, cells, r
    <3>3. PICK v \in Joining(d, chain, n, <<p[1], k>>) : <<k, p[2]>> \in cells /\ w = Append(v, p[2])
      BY <3>2
    <3> HIDE DEF S, T
    <3>4. k \in T
      BY <2>4, <3>3
    <3>5. w[n + 1] = k
      BY <2>5, <3>3
    <3> QED BY <3>3, <3>4, <3>5
  <2> HIDE DEF T
  <2>7. \A w \in S : of[w] \in T
    BY <2>6
  <2>8. ASSUME NEW k \in T
        PROVE  Of(k) = {Append(v, p[2]) : v \in Joining(d, chain, n, <<p[1], k>>)}
    <3> DEFINE J == Joining(d, chain, n, <<p[1], k>>)
    <3>1. ASSUME NEW w \in Of(k) PROVE \E v \in J : w = Append(v, p[2])
      <4>1. w \in S /\ w[n + 1] = k
        OBVIOUS
      <4> HIDE DEF S
      <4> QED BY <2>6, <4>1
    <3>2. ASSUME NEW v \in J PROVE Append(v, p[2]) \in Of(k)
      <4> DEFINE w == Append(v, p[2])
      <4>1. w = Append(v, p[2])
        OBVIOUS
      <4> HIDE DEF w
      <4>2. w[n + 1] = k /\ w \in S
        BY <2>4, <2>5, <4>1
      <4>3. w \in Of(k)
        BY <4>2
      <4> QED BY <4>1, <4>3
    <3> HIDE DEF Of, J
    <3>3. Of(k) = {Append(v, p[2]) : v \in J}
      BY <3>1, <3>2
    <3> QED BY <3>3 DEF J
  <2>9. ASSUME NEW k \in T PROVE H[k] = SumFunctionOnSet(G, Of(k))
    <3> DEFINE J == Joining(d, chain, n, <<p[1], k>>)
               c == Strongest(d, chain[n + 1], <<k, p[2]>>)
    <3>1. H[k] = f[<<p[1], k>>].value * c
      BY <1>6 DEF r
    <3>2. <<p[1], k>> \in DOMAIN f /\ k \in MemberIds /\ <<k, p[2]>> \in cells
      BY <1>3, <2>1, <2>4
    <3>3. f[<<p[1], k>>].value = WaysTotal(d, chain, n, <<p[1], k>>)
      BY <1>6, <3>2 DEF Sums
    <3> DEFINE part == {Append(v, p[2]) : v \in J}
    <3>4. Worths(d, chain, n + 1, part, G)
      <4>1. ASSUME NEW w \in part PROVE w \in S
        <5>1. PICK v \in J : w = Append(v, p[2])
          OBVIOUS
        <5> HIDE DEF part, S
        <5> QED BY <2>5, <3>2, <5>1
      <4> HIDE DEF part, S
      <4> QED BY <4>1 DEF Worths
    <3>5. SumFunctionOnSet(G, part) = WaysTotal(d, chain, n, <<p[1], k>>) * c
      <4> DEFINE a == p[1]
                 b == p[2]
      <4>1. part = Onward(d, chain, n, a, k, b)
        BY DEF Onward
      <4>2. <<k, b>> \in DOMAIN d.relations[chain[n + 1]].cells
        BY <3>2 DEF cells, r
      <4>3. b \in MemberIds /\ k \in MemberIds
        BY <2>1, <3>2
      <4> HIDE DEF G, part, J, a, b, c
      <4>4. SumFunctionOnSet(G, part)
              = WaysTotal(d, chain, n, <<a, k>>) * Strongest(d, chain[n + 1], <<k, b>>)
        BY <3>4, <4>1, <4>2, <4>3, PartSums
      <4> QED BY <4>4 DEF a, b, c
    <3> HIDE DEF H, G, Of, c
    <3> QED BY <2>8, <3>1, <3>3, <3>5
  <2>10. SumFunctionOnSet(G, S) = SumFunctionOnSet(H, T)
    <3>1. Splits(S, G, T, of, H)
      <4>1. \A k \in T : H[k] = SumFunctionOnSet(G, {w \in S : of[w] = k})
        BY <2>9
      <4> HIDE DEF H, G, S, of
      <4> QED BY <2>7, <4>1 DEF Splits
    <3> HIDE DEF H, G, S, of
    <3> QED BY <2>2, <2>3, <3>1, SumByParts
  <2>11. sum(p) = SumFunctionOnSet(H, T)
    BY DEF SumFunction, T
  <2>12. WaysTotal(d, chain, n + 1, p) = SumFunctionOnSet(G, S)
    BY DEF SumFunction, WaysTotal
  <2> HIDE DEF H, G, S
  <2> QED BY <2>10, <2>11, <2>12
<1> HIDE DEF mids, sum
<1>7. DOMAIN g = {p \in MemberIds \X MemberIds : Joining(d, chain, n + 1, p) # {}}
  BY <1>2, <1>5
<1>8. combination # "min" => \A p \in DOMAIN g : g[p].value = WaysTotal(d, chain, n + 1, p)
  BY <1>2, <1>6
<1> QED BY <1>7, <1>8 DEF Sums

\* So the last frontier holds the sums over the ways along the whole chain.
LEMMA FrontiersSum ==
  ASSUME NEW d, NEW combination, NEW chain, ChainOK(d, chain)
  PROVE  Sums(d, combination, chain, Len(chain), Frontiers(d, combination, chain)[Len(chain)])
<1> DEFINE F == Frontiers(d, combination, chain)
           Good == {k \in Nat : k + 1 <= Len(chain) => Sums(d, combination, chain, k + 1, F[k + 1])}
<1>1. Len(chain) \in Nat \ {0}
  BY ChainShape
<1>2. /\ F[1] = FirstFrontier(d, chain[1])
      /\ \A n \in 2 .. Len(chain) : F[n] = NextFrontier(d, combination, F[n - 1], chain[n])
  BY <1>1, FrontiersEquation
<1> HIDE DEF F
<1>3. 0 \in Good
  <2>1. Sums(d, combination, chain, 1, F[1])
    BY <1>2, FirstSums
  <2>2. 0 + 1 = 1
    OBVIOUS
  <2> QED BY <2>1, <2>2
<1>4. ASSUME NEW k \in Nat, k \in Good PROVE k + 1 \in Good
  <2> DEFINE n == k + 1
  <2>1. SUFFICES ASSUME n + 1 <= Len(chain) PROVE Sums(d, combination, chain, n + 1, F[n + 1])
    OBVIOUS
  <2>2. n \in 1 .. Len(chain) - 1 /\ n + 1 \in 2 .. Len(chain) /\ (n + 1) - 1 = n /\ n <= Len(chain)
    BY <1>1, <2>1
  <2>3. Sums(d, combination, chain, n, F[n])
    BY <1>4, <2>2
  <2> HIDE DEF n
  <2>4. F[n + 1] = NextFrontier(d, combination, F[n], chain[n + 1])
    BY <1>2, <2>2
  <2> QED BY <2>2, <2>3, <2>4, NextSums
<1>5. \A k \in Nat : k \in Good
  <2> HIDE DEF Good
  <2> QED BY <1>3, <1>4, CountingInduction
<1>6. Sums(d, combination, chain, Len(chain), F[Len(chain)])
  <2>1. Len(chain) - 1 \in Nat /\ (Len(chain) - 1) + 1 = Len(chain) /\ Len(chain) <= Len(chain)
    BY <1>1
  <2>2. Len(chain) - 1 \in Good
    BY <1>5, <2>1
  <2> QED BY <2>1, <2>2
<1> QED BY <1>6 DEF F

\* The numbers of a view.
LEMMA ViewNumbers ==
  ASSUME NEW eff, ViewFigures(eff)
  PROVE  /\ \A r \in DOMAIN eff.relations :
              \A p \in DOMAIN eff.relations[r].cells : Strongest(eff, r, p) \in Int
         /\ \A e, m : m \in MembersOf(eff, e) => Given(Weight(eff, e, m), 1) \in Int
<1>1. ASSUME NEW r \in DOMAIN eff.relations, NEW p \in DOMAIN eff.relations[r].cells
      PROVE  Strongest(eff, r, p) \in Int
  <2>1. LET s == eff.relations[r].scale IN s \in DOMAIN eff.scales => LevelsOK(eff.scales[s])
    BY DEF ViewFigures
  <2>2. IsFiniteSet(DOMAIN eff.relations[r].cells[p])
    BY DEF ViewFigures
  <2> QED BY <2>1, <2>2, StrongestShape
<1>2. ASSUME NEW e, NEW m \in MembersOf(eff, e) PROVE Given(Weight(eff, e, m), 1) \in Int
  <2> DEFINE member == Members(eff, e)[m]
             scale == eff.dimensions[e].weightScale
  <2>1. e \in DOMAIN eff.dimensions /\ m \in DOMAIN eff.dimensions[e].members
    BY MembersOfDeclared
  <2>2. member.weight \in Int \cup {None}
    BY <2>1 DEF ViewFigures, DimensionOK, MemberOK, Members, Declared
  <2>3. \A t \in Tokens(eff, scale) : Value(eff, scale, t) \in Int
    <3>1. scale \in DOMAIN eff.scales => LevelsOK(eff.scales[scale])
      BY DEF ViewFigures
    <3> HIDE DEF scale
    <3> QED BY <3>1, ValueShape
  <2>4. Weight(eff, e, m) \in Int \cup {None}
    <3>1. Weight(eff, e, m) = IF member.weight # None THEN member.weight
            ELSE IF scale # None /\ member.token \in Tokens(eff, scale)
            THEN Value(eff, scale, member.token) ELSE None
      BY DEF Weight
    <3> HIDE DEF member, scale
    <3> QED BY <2>2, <2>3, <3>1
  <2> QED BY <2>4 DEF Given
<1> QED BY <1>1, <1>2

\* The ranking of a contraction in a view, from the last frontier.
LEMMA RankingShape ==
  ASSUME NEW d, NEW c, NEW ctr, ctr = d.contractions[c], ctr.chain # <<>>,
         Range(ctr.chain) \subseteq DOMAIN d.relations,
         NEW last, last = Frontiers(d, ctr.combination, ctr.chain)[Len(ctr.chain)]
  PROVE  LET source == d.relations[ctr.chain[1]].from
             weight(m) == IF ctr.bySource /\ m \in MembersOf(d, source)
                          THEN Given(Weight(d, source, m), 1) ELSE 1
             ranked == ContractView(d, c)
         IN  /\ DOMAIN ranked = DOMAIN last
             /\ \A p \in DOMAIN last : ranked[p].net = last[p].value * weight(p[1])
<1> DEFINE e == d.contractions[c]
           end == Frontiers(d, e.combination, e.chain)[Len(e.chain)]
           source == d.relations[e.chain[1]].from
           weight(m) == IF e.bySource /\ m \in MembersOf(d, source)
                        THEN Given(Weight(d, source, m), 1) ELSE 1
           contested == {f.member : f \in {t \in TensionsView(d) : t.kind = "conflict"}}
           entry(p) == [net |-> end[p].value * weight(p[1]),
                        path |-> {p[1], p[2]} \cup end[p].seen,
                        critical |-> ({p[1], p[2]} \cup end[p].seen) \cap contested # {}]
           given == e.chain = <<>> \/ ~ Range(e.chain) \subseteq DOMAIN d.relations
<1>1. ContractView(d, c) = IF given THEN << >> ELSE [p \in DOMAIN end |-> entry(p)]
  BY Zenon DEF ContractView, Frontiers
<1>2. ~ given /\ e = ctr
  OBVIOUS
<1>3. end = last
  OBVIOUS
<1>4. \A p : entry(p).net = end[p].value * weight(p[1])
  OBVIOUS
<1>5. ContractView(d, c) = [p \in DOMAIN end |-> entry(p)]
  <2> HIDE DEF given, end, entry
  <2> QED BY <1>1, <1>2
<1> HIDE DEF end, entry
<1>6. /\ DOMAIN ContractView(d, c) = DOMAIN last
      /\ \A p \in DOMAIN last : ContractView(d, c)[p].net = last[p].value * weight(p[1])
  <2> HIDE DEF weight
  <2> QED BY <1>3, <1>4, <1>5
<1> QED BY <1>2, <1>6

\* The ranking of a contraction, with the ways through what is retired, which the
\* code ranks too.
SumsAllWays(ranked, eff, ctr) ==
  LET chain == ctr.chain
      all == Ways(eff, chain)
      ways(p) == {w \in all : /\ w[1] = p[1] /\ w[Len(chain) + 1] = p[2]
                              /\ Strongest(eff, chain[1], <<w[1], w[2]>>) > 0}
      factor(m) == IF ~ ctr.bySource THEN 1
                   ELSE Given(Weight(doc, doc.relations[chain[1]].from, m), 1)
  IN  IF chain = <<>> \/ ~ Range(chain) \subseteq DOMAIN doc.relations THEN DOMAIN ranked = {}
      ELSE /\ DOMAIN ranked = {p \in MemberIds \X MemberIds : ways(p) # {}}
           /\ ctr.combination # "min" =>
                \A p \in DOMAIN ranked :
                  ranked[p].net = factor(p[1])
                                   * SumFunction([w \in ways(p) |-> Worth(eff, chain, w)])

\* contract in a view: the sums over the ways, times the weight of the source.
LEMMA ContractedSums ==
  ASSUME DocumentOK(doc), Figures(doc), NEW c \in DOMAIN doc.contractions
  PROVE  SumsAllWays(Contract(doc, c), Effective(doc), doc.contractions[c])
<1> DEFINE eff == Effective(doc)
           ctr == doc.contractions[c]
           chain == ctr.chain
           N == Len(chain)
           ranked == Contract(doc, c)
           last == Frontiers(eff, ctr.combination, chain)[N]
           source == doc.relations[chain[1]].from
           weight(m) == IF ctr.bySource /\ m \in MembersOf(eff, source)
                        THEN Given(Weight(eff, source, m), 1) ELSE 1
           factor(m) == IF ~ ctr.bySource THEN 1
                        ELSE Given(Weight(doc, doc.relations[chain[1]].from, m), 1)
           ways(p) == Joining(eff, chain, N, p)
           given == chain = <<>> \/ ~ Range(chain) \subseteq DOMAIN doc.relations
<1>1. /\ eff.dimensions = doc.dimensions /\ eff.scales = doc.scales
      /\ eff.contractions = doc.contractions
      /\ DOMAIN eff.relations = DOMAIN doc.relations
      /\ \A r \in DOMAIN doc.relations : eff.relations[r].from = doc.relations[r].from
  <2>1. /\ eff.dimensions = doc.dimensions /\ eff.scales = doc.scales
        /\ DOMAIN eff.relations = DOMAIN doc.relations
        /\ \A r \in DOMAIN doc.relations : eff.relations[r].from = doc.relations[r].from
    <3> HIDE DEF eff
    <3> QED BY EffectiveShape DEF DocumentOK, eff
  <2>2. eff.contractions = doc.contractions
    BY DEF Effective, DocumentOK, IsDocument
  <2> QED BY <2>1, <2>2
<1>2. ViewFigures(eff)
  BY EffectiveOK
<1> HIDE DEF eff
<1>3. ASSUME given PROVE DOMAIN ranked = {}
  <2>1. ranked = ContractView(eff, c)
    BY DEF Contract, eff
  <2>2. ContractView(eff, c) = << >>
    BY <1>1, <1>3 DEF ContractView
  <2> QED BY <2>1, <2>2
<1>4. ASSUME ~ given
      PROVE  /\ DOMAIN ranked = DOMAIN last
             /\ \A p \in DOMAIN last : ranked[p].net = last[p].value * weight(p[1])
  <2>1. ranked = ContractView(eff, c)
    BY DEF Contract, eff
  <2>2. source = eff.relations[chain[1]].from
    <3>1. chain \in Seq(Range(chain)) /\ chain # <<>> /\ Range(chain) \subseteq DOMAIN doc.relations
      BY <1>4 DEF Figures
    <3>2. Len(chain) \in Nat /\ Len(chain) # 0
      BY <3>1, LenProperties, EmptySeq
    <3>3. chain[1] \in Range(chain)
      BY <3>1, <3>2, ElementOfSeq
    <3> QED BY <1>1, <3>1, <3>3
  <2>3. ctr = eff.contractions[c] /\ chain # <<>> /\ Range(chain) \subseteq DOMAIN eff.relations
    BY <1>1, <1>4
  <2> HIDE DEF last, ranked, ctr
  <2>4. last = Frontiers(eff, ctr.combination, ctr.chain)[Len(ctr.chain)]
    BY DEF last
  <2>5. LET start == eff.relations[ctr.chain[1]].from
            heft(m) == IF ctr.bySource /\ m \in MembersOf(eff, start)
                       THEN Given(Weight(eff, start, m), 1) ELSE 1
        IN  /\ DOMAIN ContractView(eff, c) = DOMAIN last
            /\ \A p \in DOMAIN last : ContractView(eff, c)[p].net = last[p].value * heft(p[1])
    BY <2>3, <2>4, RankingShape
  <2> HIDE DEF source
  <2> QED BY <2>1, <2>2, <2>5
<1>5. ASSUME ~ given PROVE ChainOK(eff, chain)
  <2>1. chain \in Seq(Range(chain)) /\ chain # <<>> /\ Range(chain) \subseteq DOMAIN eff.relations
    BY <1>1, <1>5 DEF Figures
  <2>2. chain \in Seq(DOMAIN eff.relations)
    BY <2>1, SeqMonotonic
  <2> QED BY <1>2, <2>1, <2>2, ViewNumbers DEF ChainOK, ViewFigures
<1>6. ASSUME ~ given PROVE Sums(eff, ctr.combination, chain, N, last)
  BY <1>5, <1>6, FrontiersSum
<1>7. ASSUME ~ given, NEW p
      PROVE  /\ ways(p) = {w \in Ways(eff, chain) : /\ w[1] = p[1] /\ w[N + 1] = p[2]
                                                    /\ Strongest(eff, chain[1], <<w[1], w[2]>>) > 0}
             /\ WaysTotal(eff, chain, N, p) = SumFunction([w \in ways(p) |-> Worth(eff, chain, w)])
             /\ WaysTotal(eff, chain, N, p) \in Int
  <2>1. Ways(eff, chain) = WaysUpTo(eff, chain)[N]
    BY DEF Ways, WaysUpTo
  <2>2. ASSUME NEW w PROVE Worth(eff, chain, w) = Products(eff, chain, w)[N]
    BY DEF Worth, Products
  <2>3. ways(p) = {w \in Ways(eff, chain) : /\ w[1] = p[1] /\ w[N + 1] = p[2]
                                            /\ Strongest(eff, chain[1], <<w[1], w[2]>>) > 0}
    BY <2>1 DEF Joining
  <2> DEFINE Q == [w \in ways(p) |-> Products(eff, chain, w)[N]]
  <2>4. Q = [w \in ways(p) |-> Worth(eff, chain, w)]
    <3> HIDE DEF ways, N
    <3> QED BY <2>2
  <2>5. WaysTotal(eff, chain, N, p) = SumFunctionOnSet(Q, ways(p)) /\ WaysTotal(eff, chain, N, p) = SumFunction(Q)
    BY DEF WaysTotal, SumFunction
  <2>6. N \in 1 .. N
    BY <1>5, <1>7, ChainShape
  <2>7. Summable(Q, ways(p))
    <3>1. IsFiniteSet(ways(p)) /\ \A w \in ways(p) : Products(eff, chain, w)[N] \in Int
      BY <1>5, <1>7, <2>6, JoiningShape
    <3>2. \A w \in ways(p) : Q[w] = Products(eff, chain, w)[N]
      OBVIOUS
    <3> HIDE DEF Q, ways
    <3> QED BY <3>1, <3>2 DEF Summable
  <2>8. SumFunctionOnSet(Q, ways(p)) \in Int
    <3> HIDE DEF Q, ways
    <3> QED BY <2>7, SumRecursion
  <2>9. WaysTotal(eff, chain, N, p) = SumFunction([w \in ways(p) |-> Worth(eff, chain, w)])
    BY <2>4, <2>5
  <2> QED BY <2>3, <2>5, <2>8, <2>9
<1>8. ASSUME ~ given, NEW p \in MemberIds \X MemberIds, ways(p) # {}
      PROVE  weight(p[1]) = factor(p[1]) /\ factor(p[1]) \in Int
  <2>1. PICK w \in ways(p) : TRUE
    BY <1>8
  <2>2. w \in WayOf(eff, chain, N) /\ N \in Nat /\ 1 \in 1 .. N /\ chain[1] \in DOMAIN eff.relations
    BY <1>5, <1>8, ChainShape, JoiningShape
  <2>3. <<w[1], w[1 + 1]>> \in DOMAIN eff.relations[chain[1]].cells /\ w[1] = p[1]
    BY <2>2 DEF WayOf, Joining
  <2>4. p[1] \in MembersOf(eff, source)
    <3>1. eff.relations[chain[1]].from = source
      BY <1>1, <2>2
    <3> DEFINE z == <<w[1], w[1 + 1]>>
    <3>2. z \in DOMAIN eff.relations[chain[1]].cells /\ z[1] = p[1]
      BY <2>3
    <3> HIDE DEF z
    <3>3. CellsResolve(eff, eff.relations[chain[1]])
      BY <1>2, <2>2 DEF ViewFigures
    <3> QED BY <3>1, <3>2, <3>3 DEF CellsResolve
  <2>5. Weight(eff, source, p[1]) = Weight(doc, source, p[1])
    BY <1>1 DEF Weight, Members, Declared, Tokens, Value, Level
  <2>6. Given(Weight(eff, source, p[1]), 1) \in Int
    BY <1>2, <2>4, ViewNumbers
  <2> HIDE DEF source
  <2>7. factor(p[1]) = IF ~ ctr.bySource THEN 1 ELSE Given(Weight(eff, source, p[1]), 1)
    BY <2>5 DEF source
  <2> QED BY <2>4, <2>6, <2>7
<1>9. ASSUME ~ given
      PROVE  /\ DOMAIN ranked = {p \in MemberIds \X MemberIds : ways(p) # {}}
             /\ ctr.combination # "min" =>
                  \A p \in DOMAIN ranked :
                    ranked[p].net = factor(p[1])
                                      * SumFunction([w \in ways(p) |-> Worth(eff, chain, w)])
  <2>1. DOMAIN ranked = {p \in MemberIds \X MemberIds : ways(p) # {}}
    BY <1>4, <1>6, <1>9 DEF Sums
  <2>2. ASSUME ctr.combination # "min", NEW p \in DOMAIN ranked
        PROVE  ranked[p].net = factor(p[1]) * SumFunction([w \in ways(p) |-> Worth(eff, chain, w)])
    <3> DEFINE total == SumFunction([w \in ways(p) |-> Worth(eff, chain, w)])
               a == weight(p[1])
               b == factor(p[1])
    <3>1. ranked[p].net = last[p].value * a
      BY <1>4, <1>9
    <3>2. last[p].value = WaysTotal(eff, chain, N, p)
      BY <1>4, <1>6, <1>9, <2>2 DEF Sums
    <3>3. WaysTotal(eff, chain, N, p) = total /\ total \in Int
      BY <1>7, <1>9
    <3>4. a = b /\ b \in Int
      BY <1>8, <1>9, <2>1
    <3> HIDE DEF total, a, b, ranked, last, ways
    <3>5. ranked[p].net = b * total
      BY <3>1, <3>2, <3>3, <3>4
    <3> QED BY <3>5 DEF total, b
  <2> QED BY <2>1, <2>2
<1>10. SumsAllWays(ranked, eff, ctr)
  <2>1. CASE given
    BY <1>3, <2>1 DEF SumsAllWays
  <2>2. CASE ~ given
    <3> DEFINE listed(p) == {w \in Ways(eff, chain) :
                               /\ w[1] = p[1] /\ w[N + 1] = p[2]
                               /\ Strongest(eff, chain[1], <<w[1], w[2]>>) > 0}
    <3>1. \A p : ways(p) = listed(p)
      BY <1>7, <2>2
    <3> HIDE DEF ranked, ways, listed
    <3>2. /\ DOMAIN ranked = {p \in MemberIds \X MemberIds : listed(p) # {}}
          /\ ctr.combination # "min" =>
               \A p \in DOMAIN ranked :
                 ranked[p].net = factor(p[1])
                                   * SumFunction([w \in listed(p) |-> Worth(eff, chain, w)])
      <4>1. DOMAIN ranked = {p \in MemberIds \X MemberIds : listed(p) # {}}
        BY <1>9, <2>2, <3>1
      <4>2. ASSUME ctr.combination # "min", NEW p \in DOMAIN ranked
            PROVE  ranked[p].net = factor(p[1])
                                     * SumFunction([w \in listed(p) |-> Worth(eff, chain, w)])
        <5>1. ways(p) = listed(p)
          BY <3>1
        <5>2. ranked[p].net = factor(p[1]) * SumFunction([w \in ways(p) |-> Worth(eff, chain, w)])
          BY <1>9, <2>2, <4>2
        <5> HIDE DEF factor
        <5> QED BY <5>1, <5>2
      <4> QED BY <4>1, <4>2
    <3> QED BY <2>2, <3>2 DEF SumsAllWays, listed
  <2> QED BY <2>1, <2>2
<1> QED BY <1>10 DEF eff

\* What is said of all ways holds of those that meet nothing retired.
LEMMA SumsInUse ==
  ASSUME NEW ranked, NEW eff, NEW ctr, SumsAllWays(ranked, eff, ctr)
  PROVE  SumsWays(ranked, eff, ctr)
<1> DEFINE chain == ctr.chain
           given == chain = <<>> \/ ~ Range(chain) \subseteq DOMAIN doc.relations
           ways(p) == {w \in Ways(eff, chain) :
                         /\ w[1] = p[1] /\ w[Len(chain) + 1] = p[2]
                         /\ Strongest(eff, chain[1], <<w[1], w[2]>>) > 0}
           inUse(p) == \A w \in ways(p) : Range(w) \subseteq ActiveMembers(eff)
           factor(m) == IF ~ ctr.bySource THEN 1
                        ELSE Given(Weight(doc, doc.relations[chain[1]].from, m), 1)
           joined == {p \in MemberIds \X MemberIds : ways(p) # {}}
           exact(p) == ranked[p].net = factor(p[1])
                                        * SumFunction([w \in ways(p) |-> Worth(eff, chain, w)])
<1>1. CASE given
  BY <1>1 DEF SumsAllWays, SumsWays
<1>2. CASE ~ given
  <2>1. /\ DOMAIN ranked = joined
        /\ ctr.combination # "min" => \A p \in DOMAIN ranked : exact(p)
    BY <1>2 DEF SumsAllWays
  <2>2. /\ {p \in DOMAIN ranked : inUse(p)}
              = {p \in MemberIds \X MemberIds : ways(p) # {} /\ inUse(p)}
        /\ ctr.combination # "min" => \A p \in DOMAIN ranked : inUse(p) => exact(p)
    <3> HIDE DEF inUse, exact, ways
    <3> QED BY <2>1
  <2> QED BY <1>2, <2>2 DEF SumsWays
<1> QED BY <1>1, <1>2

-----------------------------------------------------------------------------
(* Theorems *)

\* A client that starts from a document in which no member is in two dimensions
\* (one made by the writes, or an import that has none) leads it, by accepted
\* writes in any order, to documents of the same kind that the loader takes:
\* each write keeps what the eight others rely on (write.rs).
THEOREM EngineTypes == Spec /\ Separate(doc) => []TypeOK
<1> DEFINE Inv == EngineInv /\ Separate(doc)
<1>1. Init /\ Separate(doc) => Inv
  BY EngineInvInit
<1>2. Inv /\ [Next]_vars => Inv'
  <2>1. ASSUME Inv, Next PROVE Inv'
    BY <2>1, WriteKeeps
  <2>2. ASSUME Inv, UNCHANGED vars PROVE Inv'
    BY <2>2, EngineInvNext DEF vars
  <2> QED
    BY <2>1, <2>2
<1>3. Inv => TypeOK
  BY DEF EngineInv, TypeOK
<1> HIDE DEF Inv
<1> QED
  BY <1>1, <1>2, <1>3, PTL DEF Spec

\* No write deletes anything, whatever the document was, one that names a member
\* in two dimensions included: a declaration keeps the cells and the retirement
\* of the relation it replaces, a roster the members it leaves out, and a cell
\* its observations in their order (write.rs).
THEOREM WritesLoseNothing == Spec => NothingIsLost
<1>1. EngineInv /\ [Next]_vars => [Kept(doc, doc')]_vars
  BY WriteKeeps
<1> QED
  BY <1>1, EngineInvHolds, PTL DEF Spec, NothingIsLost

\* A roster for which sync_members reports a no-op would not have changed the
\* document, even if it lists a member twice; and one that lists each member
\* once and would not have changed it is reported as a no-op.  The session
\* writes nothing on a no-op, so no change of a roster is dropped, and none is
\* written for nothing (SyncSummary::is_noop).
THEOREM NoopsAreExact == Spec => []NoopChangesNothing
<1>1. EngineInv => NoopChangesNothing
  <2> SUFFICES ASSUME EngineInv, NEW d \in DOMAIN doc.dimensions, NEW roster \in Rosters
               PROVE  /\ SyncIsNoop(doc, d, roster) => Synced(doc, d, roster) = doc
                      /\ (/\ Synced(doc, d, roster) = doc
                          /\ IsInjective([i \in DOMAIN roster |-> roster[i].id]))
                           => SyncIsNoop(doc, d, roster)
    BY DEF NoopChangesNothing
  <2>1. DocumentOK(doc)
    BY DEF EngineInv
  <2>2. ASSUME IsInjective([i \in DOMAIN roster |-> roster[i].id])
        PROVE  \A i, j \in DOMAIN roster : roster[i].id = roster[j].id => i = j
    BY <2>2 DEF IsInjective
  <2> QED
    BY <2>1, <2>2, NoopKeeps, UnchangedIsNoop
<1> QED
  BY <1>1, EngineInvHolds, PTL

\* CycleSearchIsExact: the search of the loader, on the hierarchy of any document
\* and with one more edge.
THEOREM CyclesAreFound == Spec => []CycleSearchIsExact
<1>1. CycleSearchIsExact
  <2>1. SUFFICES ASSUME NEW r \in DOMAIN doc.relations,
                        NEW e \in ActiveMembers(doc) \X ActiveMembers(doc)
                 PROVE  LET edges == ActiveEdges(doc, r) \cup {e}
                            found == FindCycle(Adjacency(edges))
                        IN  IF \E n \in ActiveMembers(doc) : n \in Reached(edges, n)
                            THEN found # <<>> /\ IsCycle(edges, found)
                            ELSE found = <<>>
    BY DEF CycleSearchIsExact
  <2> DEFINE edges == ActiveEdges(doc, r) \cup {e}
  <2>2. /\ edges \subseteq ActiveMembers(doc) \X ActiveMembers(doc)
        /\ ActiveMembers(doc) \subseteq MemberIds
    BY DEF ActiveEdges, ActiveMembers
  <2>3. EdgesOK(edges)
    BY <2>2, EngineAssumption DEF EdgesOK
  <2> HIDE DEF edges
  <2>4. ASSUME NEW n \in MemberIds, n \in Reached(edges, n) PROVE n \in ActiveMembers(doc)
    <3>1. /\ NextTo(edges, n) \subseteq ActiveMembers(doc)
          /\ ClosedUnder(edges, ActiveMembers(doc))
      BY <2>2 DEF NextTo, ClosedUnder
    <3> QED BY <2>3, <2>4, <3>1, ReachedIsLeast
  <2>5. LET found == FindCycle(Adjacency(edges))
        IN  IF \E n \in MemberIds : n \in Reached(edges, n)
            THEN found # <<>> /\ IsCycle(edges, found)
            ELSE found = <<>>
    BY <2>3, SearchIsExact
  <2> QED BY <2>2, <2>4, <2>5 DEF edges
<1> QED BY <1>1, PTL

\* OppositionIsNeverHidden: in every document the writes lead to, the two sides
\* of a tension are weighed apart, and a force against a member is reported
\* however small it is beside the support (tensions).
THEOREM OppositionIsReported == Spec /\ Separate(doc) => []OppositionIsNeverHidden
<1>1. TypeOK => OppositionIsNeverHidden
  <2> DEFINE eff == Effective(doc)
  <2>1. ASSUME TypeOK PROVE ViewOK(eff)
    BY <2>1, EffectiveOK DEF TypeOK
  <2> SUFFICES ASSUME TypeOK, NEW m \in ActiveMembers(eff)
      PROVE  LET reports == {t \in Tensions(doc) : t.member = m}
             IN  IF ForceCells(eff, m, "opposes") = {} THEN reports = {}
                 ELSE \E t \in reports : t.kind = "conflict"
                        <=> Total(eff, m, "supports") <= Total(eff, m, "opposes")
    BY DEF OppositionIsNeverHidden, ForceCells, Total
  <2> HIDE DEF eff
  <2> DEFINE report(n) == Report(eff, n, Side(eff, n, FALSE), Side(eff, n, TRUE))
             s == Total(eff, m, "supports")
             o == Total(eff, m, "opposes")
  <2>2. /\ Side(eff, m, FALSE) = s /\ s \in Nat
        /\ Side(eff, m, TRUE) = o /\ o \in Nat
        /\ ForceCells(eff, m, "opposes") = {} => o = 0
        /\ ForceCells(eff, m, "opposes") # {} => o > 0
    <3>1. ViewOK(eff)
      BY <2>1
    <3>2. ("supports" = "opposes") = FALSE /\ ("opposes" = "opposes") = TRUE
      OBVIOUS
    <3> HIDE DEF s, o
    <3>3. Side(eff, m, "supports" = "opposes") = s /\ s \in Nat
      BY <3>1, SideIsTotal DEF s
    <3>4. /\ Side(eff, m, "opposes" = "opposes") = o /\ o \in Nat
          /\ ForceCells(eff, m, "opposes") = {} => o = 0
          /\ ForceCells(eff, m, "opposes") # {} => o > 0
      BY <3>1, SideIsTotal DEF o
    <3> QED BY <3>2, <3>3, <3>4
  <2>3. Tensions(doc) = {t \in {report(n) : n \in ActiveMembers(eff)} : t.kind # "none"}
    BY DEF Tensions, TensionsView, eff
  <2>4. \A n : report(n).member = n
    BY DEF Report
  <2>5. report(m).kind = Tension(s, o)
    BY <2>2 DEF Report
  <2> HIDE DEF report, s, o
  <2>6. CASE ForceCells(eff, m, "opposes") = {}
    <3>1. report(m).kind = "none"
      BY <2>2, <2>5, <2>6 DEF Tension
    <3> QED BY <2>3, <2>4, <2>6, <3>1
  <2>7. CASE ForceCells(eff, m, "opposes") # {}
    <3>1. report(m).kind = IF s <= o THEN "conflict" ELSE "tension"
      BY <2>2, <2>5, <2>7 DEF Tension
    <3>2. report(m) \in Tensions(doc)
      BY <2>3, <3>1
    <3> QED BY <2>4, <2>7, <3>1, <3>2 DEF s, o
  <2> QED BY <2>6, <2>7
<1> QED BY <1>1, EngineTypes, PTL

\* PagesAreWhole: in every document the writes lead to and at every limit but 0,
\* following the cursors of `slice' and `trace' gives the list, and those of `stale'
\* every member whose file has changed and, where nothing was cut short, every cell
\* that rests on one; at limit 0 a cursor leads to its own, empty page (queries.rs).
THEOREM CursorsReachEverything == Spec => []PagesAreWhole
<1>1. EngineInv => PagesAreWhole
  <2> SUFFICES ASSUME DocumentOK(doc), Figures(doc) PROVE PagesAreWhole
    BY DEF EngineInv
  <2> SUFFICES ASSUME NEW asked \in Limits
               PROVE  /\ \A viewed \in {Viewed(doc, rollup) : rollup \in BOOLEAN},
                           r \in DOMAIN doc.relations :
                           GivesAll(SliceList(viewed, r, None, None), Limit(asked, 500, 5000))
                      /\ \A m \in MemberIds : IsMember(doc, m) =>
                           GivesAll(TraceList(doc, m, None, None), Limit(asked, 200, 2000))
                      /\ \A cells \in Limits :
                           GivesAllStale(Limit(asked, 100, 1000), Limit(cells, 500, 5000))
    BY DEF PagesAreWhole
  <2>1. ASSUME NEW viewed \in {Viewed(doc, rollup) : rollup \in BOOLEAN},
               NEW r \in DOMAIN doc.relations
        PROVE  GivesAll(SliceList(viewed, r, None, None), Limit(asked, 500, 5000))
    BY SliceIsWhole DEF SlicePages
  <2>2. ASSUME NEW m \in MemberIds, IsMember(doc, m)
        PROVE  GivesAll(TraceList(doc, m, None, None), Limit(asked, 200, 2000))
    BY <2>2, TraceIsWhole DEF TracePages
  <2>3. ASSUME NEW cells \in Limits
        PROVE  GivesAllStale(Limit(asked, 100, 1000), Limit(cells, 500, 5000))
    BY LimitShape, StaleGivesAll
  <2> QED BY <2>1, <2>2, <2>3
<1> QED BY <1>1, EngineInvHolds, PTL

\* RollupIsExact: in every document the writes lead to, rolling up gives a document
\* the loader takes, with the cells of the original as they were and those of the
\* members above them by any number of `contains' relations (rolled_up).
THEOREM RollupDerivesWhatIsAbove == Spec /\ Separate(doc) => []RollupIsExact
<1>1. TypeOK => RollupIsExact
  <2> DEFINE eff == Effective(doc)
             rolled == RolledUp(doc)
             up(d) == {<<e[2], e[1]>> : e \in HierarchyEdges(eff, d)}
             above == [x \in (DOMAIN doc.dimensions) \X MemberIds |-> Reached(up(x[1]), x[2]) \ {x[2]}]
             stands(r, p) ==
               \E q \in ActiveEdges(eff, r) :
                 \/ q[2] = p[2] /\ p[1] \in above[<<eff.relations[r].from, q[1]>>]
                 \/ q[1] = p[1] /\ p[2] \in above[<<eff.relations[r].to, q[2]>>]
             simple(r) == doc.relations[r].status = "active"
                            /\ doc.relations[r].from # doc.relations[r].to
  <2> SUFFICES ASSUME DocumentOK(doc), Figures(doc), Separate(doc)
               PROVE  /\ Loads(rolled)
                      /\ \A r \in DOMAIN doc.relations :
                           LET real == DOMAIN eff.relations[r].cells
                               cells == rolled.relations[r].cells
                           IN  /\ {p \in DOMAIN cells : Confirmed(cells[p]) # {}}
                                    = real \cup {p \in MemberIds \X MemberIds : simple(r) /\ stands(r, p)}
                               /\ \A p \in real : cells[p] = doc.relations[r].cells[p]
    BY DEF RollupIsExact, RollsUpTo, TypeOK
  <2>1. Loads(rolled)
    BY RolledLoads
  <2>2. ASSUME NEW r \in DOMAIN doc.relations, NEW p PROVE stands(r, p) <=> Stands(eff, r, p)
    <3> DEFINE from == eff.relations[r].from
               to == eff.relations[r].to
    <3>1. from = doc.relations[r].from /\ to = doc.relations[r].to
      BY EffectiveShape DEF DocumentOK
    <3>2. ASSUME NEW e, NEW m \in MembersOf(doc, e) PROVE above[<<e, m>>] = Above(eff, e, m)
      <4>1. <<e, m>> \in (DOMAIN doc.dimensions) \X MemberIds
        BY MemberShape
      <4>2. above[<<e, m>>] = Reached(up(e), m) \ {m}
        BY <4>1
      <4> QED BY <4>2 DEF Above, Reversed
    <3> HIDE DEF above, from, to, eff
    <3>3. ASSUME NEW q \in ActiveEdges(eff, r)
          PROVE  above[<<from, q[1]>>] = Above(eff, from, q[1]) /\ above[<<to, q[2]>>] = Above(eff, to, q[2])
      <4>1. q[1] \in MembersOf(doc, from) /\ q[2] \in MembersOf(doc, to)
        BY <3>1, EdgeShape DEF eff
      <4> QED BY <3>2, <4>1
    <3> QED BY <3>3 DEF Stands, from, to
  <2> HIDE DEF stands, eff, rolled
  <2>3. ASSUME NEW r \in DOMAIN doc.relations
        PROVE  LET real == DOMAIN eff.relations[r].cells
                   cells == rolled.relations[r].cells
               IN  /\ {p \in DOMAIN cells : Confirmed(cells[p]) # {}}
                        = real \cup {p \in MemberIds \X MemberIds : simple(r) /\ stands(r, p)}
                   /\ \A p \in real : cells[p] = doc.relations[r].cells[p]
    <3>1. LET real == DOMAIN eff.relations[r].cells
              cells == rolled.relations[r].cells
          IN  /\ {p \in DOMAIN cells : Confirmed(cells[p]) # {}}
                   = real \cup {p \in MemberIds \X MemberIds : simple(r) /\ Stands(eff, r, p)}
              /\ \A p \in real : cells[p] = doc.relations[r].cells[p]
      BY RolledRelation DEF eff, rolled
    <3> QED BY <2>2, <3>1
  <2> QED BY <2>1, <2>3
<1> QED BY <1>1, EngineTypes, PTL

\* ProposalsDecideNothing: in every document the writes lead to, each analysis says
\* what it says of the document without its proposals, and every proposed
\* observation of a relation in use is listed for review (effective, proposals).
THEOREM ProposalsAreReviewedFirst == Spec => []ProposalsDecideNothing
<1>1. EngineInv => ProposalsDecideNothing
  <2> SUFFICES ASSUME DocumentOK(doc) PROVE ProposalsDecideNothing
    BY DEF EngineInv
  <2>1. Analysed(Unproposed) = Analysed(doc)
    BY UnproposedIsEffective, AnalysedEffective DEF DocumentOK
  <2>2. ASSUME NEW r \in ActiveRelations(doc), NEW p \in DOMAIN doc.relations[r].cells,
               NEW i \in DOMAIN doc.relations[r].cells[p], doc.relations[r].cells[p][i].proposed
        PROVE  \E x \in Proposals(doc) :
                 x.relation = r /\ x.cell = p /\ x.observation = doc.relations[r].cells[p][i]
    <3> DEFINE of(y) == doc.relations[y[1]].cells[y[2]]
               from(y) == {[relation |-> y[1], cell |-> y[2], observation |-> of(y)[j]] :
                             j \in {k \in DOMAIN of(y) : of(y)[k].proposed}}
               z == <<r, p>>
               x == [relation |-> r, cell |-> p, observation |-> doc.relations[r].cells[p][i]]
    <3>1. z \in CellsInUse(doc)
      BY DEF CellsInUse
    <3>2. x \in from(z)
      BY <2>2
    <3>3. Proposals(doc) = UNION {from(y) : y \in CellsInUse(doc)}
      BY DEF Proposals
    <3>4. x \in Proposals(doc)
      <4> HIDE DEF from, x, z
      <4> QED BY <3>1, <3>2, <3>3
    <3> QED BY <3>4
  <2> QED BY <2>1, <2>2 DEF ProposalsDecideNothing
<1> QED BY <1>1, EngineInvHolds, PTL

\* ContractionSumsWays: in every document the writes lead to, a contraction along
\* relations in use ranks the pairs of end points that a way joins, each with the
\* sum over the ways of the products along them, times the weight of its source
\* (contract), as long as nothing on the ways is retired.
THEOREM ContractionsSumWays == Spec => []ContractionSumsWays
<1>1. EngineInv => ContractionSumsWays
  <2> SUFFICES ASSUME EngineInv, NEW c \in DOMAIN doc.contractions
               PROVE  SumsWays(Contract(doc, c), Effective(doc), doc.contractions[c])
    BY DEF ContractionSumsWays
  <2>1. SumsAllWays(Contract(doc, c), Effective(doc), doc.contractions[c])
    BY ContractedSums DEF EngineInv
  <2> QED BY <2>1, SumsInUse
<1> QED BY <1>1, EngineInvHolds, PTL
=============================================================================
