-------------------------------- MODULE Writes --------------------------------
(***************************************************************************)
(* The nine writes of the engine's write API.  Each has the condition      *)
(* under which its own checks pass, and the document it then builds; what  *)
(* they have in common, the loader, is in the module Documents.            *)
(***************************************************************************)
EXTENDS Documents

\* register_dimension.  spec: [id, weightScale]; an existing dimension keeps
\* its members and its metadata where the spec gives none.
MayRegister(doc, spec) == spec.weightScale # None => spec.weightScale \in DOMAIN doc.scales

Registered(doc, spec) ==
  LET dimension ==
        IF Declared(doc, spec.id)
        THEN [doc.dimensions[spec.id] EXCEPT !.weightScale = Given(spec.weightScale, @)]
        ELSE [weightScale |-> spec.weightScale, members |-> << >>]
  IN  [doc EXCEPT !.dimensions = With(@, spec.id, dimension)]

\* declare_scale.  spec: [id, levels]; the levels replace the old ones.
MayScale(doc, spec) ==
  \A i, j \in DOMAIN spec.levels :
    spec.levels[i].token = spec.levels[j].token => i = j

Scaled(doc, spec) == [doc EXCEPT !.scales = With(@, spec.id, spec.levels)]

\* declare_relation.  spec: [id, from, to, type, scale, policy]; an existing
\* relation keeps its cells and its status.
MayRelate(doc, spec) ==
  /\ Declared(doc, spec.from) /\ Declared(doc, spec.to)
  /\ spec.scale \in DOMAIN doc.scales
  /\ spec.type \in RelationTypes
  /\ spec.policy \in Policies

\* Mutant: the relation is declared anew.
RelatedAnew(doc, spec) ==
  [doc EXCEPT !.relations = With(@, spec.id,
     [from |-> spec.from, to |-> spec.to, type |-> spec.type, scale |-> spec.scale,
      policy |-> spec.policy, status |-> "active", successor |-> None, cells |-> << >>])]

Related(doc, spec) ==
  LET old == IF spec.id \in DOMAIN doc.relations THEN doc.relations[spec.id]
             ELSE [status |-> "active", successor |-> None, cells |-> << >>]
  IN  [doc EXCEPT !.relations = With(@, spec.id,
         [from |-> spec.from, to |-> spec.to, type |-> spec.type,
          scale |-> spec.scale, policy |-> spec.policy, status |-> old.status,
          successor |-> old.successor, cells |-> old.cells])]

\* declare_contraction.  spec: [id, chain, combination, bySource], the last
\* two optional and kept when an existing contraction is declared without.
MayContract(doc, spec) == \A i \in DOMAIN spec.chain : spec.chain[i] \in DOMAIN doc.relations

Contracted(doc, spec) ==
  LET old == IF spec.id \in DOMAIN doc.contractions THEN doc.contractions[spec.id]
             ELSE [combination |-> "product", bySource |-> TRUE]
  IN  [doc EXCEPT !.contractions = With(@, spec.id,
         [chain |-> spec.chain,
          combination |-> Given(spec.combination, old.combination),
          bySource |-> Given(spec.bySource, old.bySource)])]

\* validate_member_spec.  spec: [id, weight, token, source]; a numeric weight
\* needs a source system, a token must be one of the dimension's weightScale.
SpecAllowed(doc, d, spec) ==
  /\ spec.weight # None => spec.source # None /\ spec.source.system
  /\ spec.token # None =>
       /\ doc.dimensions[d].weightScale # None
       /\ spec.token \in Tokens(doc, doc.dimensions[d].weightScale)

MemberFrom(spec) ==
  [weight |-> spec.weight, token |-> spec.token, source |-> spec.source,
   status |-> "active", successor |-> None]

\* Mutant: a member of another dimension is taken as new.
MaySyncAnywhere(doc, d, roster) ==
  Declared(doc, d) /\ \A i \in DOMAIN roster : SpecAllowed(doc, d, roster[i])

\* sync_members.  The roster, a sequence of specs, is authoritative for the
\* dimension: a member it does not list is deprecated, never deleted.
MaySync(doc, d, roster) ==
  /\ Declared(doc, d)
  /\ \A i \in DOMAIN roster :
       /\ DimensionOf(doc, roster[i].id) \in {None, d}
       /\ SpecAllowed(doc, d, roster[i])

\* A listed member takes the spec's content; one that is new or deprecated is
\* written anew.
Listed(members, m, spec) ==
  IF m \notin DOMAIN members \/ members[m].status = "deprecated" THEN MemberFrom(spec)
  ELSE [members[m] EXCEPT !.weight = spec.weight, !.token = spec.token, !.source = spec.source]

\* The members after the first n entries; of several entries for a member the
\* last counts, and those no entry of the roster lists are deprecated first.
Entries(roster, m, n) == {i \in 1 .. n : roster[i].id = m}

After(members, roster, n) ==
  [m \in DOMAIN members \cup {roster[i].id : i \in 1 .. n} |->
     IF Entries(roster, m, n) # {} THEN Listed(members, m, roster[Max(Entries(roster, m, n))])
     ELSE IF Entries(roster, m, Len(roster)) # {} THEN members[m]
     ELSE [members[m] EXCEPT !.status = "deprecated"]]

Synced(doc, d, roster) ==
  [doc EXCEPT !.dimensions[d].members = After(@, roster, Len(roster))]

\* Mutant: the source is not compared.
ContentDiffersIgnoringSource(member, spec) ==
  member.weight # spec.weight \/ member.token # spec.token

ContentDiffers(member, spec) ==
  \/ member.weight # spec.weight
  \/ member.token # spec.token
  \/ member.source # spec.source

\* SyncSummary::is_noop: nothing was added, updated, deprecated or brought
\* back; each entry of the roster is compared with what it found.
SyncIsNoop(doc, d, roster) ==
  LET members == Members(doc, d)
      before(i) == After(members, roster, i - 1)
  IN  /\ \A m \in DOMAIN members :
           Entries(roster, m, Len(roster)) # {} \/ members[m].status = "deprecated"
      /\ \A i \in DOMAIN roster :
           /\ roster[i].id \in DOMAIN before(i)
           /\ before(i)[roster[i].id].status = "active"
           /\ ~ ContentDiffers(before(i)[roster[i].id], roster[i])

\* propose_member.
MayPropose(doc, d, spec) ==
  /\ Declared(doc, d)
  /\ DimensionOf(doc, spec.id) = None
  /\ SpecAllowed(doc, d, spec)

Proposed(doc, d, spec) ==
  [doc EXCEPT !.dimensions[d].members = With(@, spec.id, MemberFrom(spec))]

\* observe.  An observation is [token, proposed, provenance, sourced, measured,
\* evidence].  A measured value needs provenance `observed' and a source, and
\* must not fall in the range of another level.
MeasurementAllowed(doc, s, o) ==
  LET levels == doc.scales[s]
      holds(level) == o.measured \in level.range
      bucket == SelectInSeq(levels, holds)
  IN  o.measured # None =>
        /\ o.provenance = "observed" /\ o.sourced
        /\ bucket # 0 => levels[bucket].token = o.token

MayObserve(doc, r, from, to, o) ==
  /\ r \in ActiveRelations(doc)
  /\ from \in MembersOf(doc, doc.relations[r].from)
  /\ to \in MembersOf(doc, doc.relations[r].to)
  /\ o.token \in Tokens(doc, doc.relations[r].scale)
  /\ MeasurementAllowed(doc, doc.relations[r].scale, o)

\* An observation equal to one on the cell is not added again.
Added(cell, o) == IF Contains(cell, o) THEN cell ELSE Append(cell, o)

Cell(doc, r, p) ==
  IF p \in DOMAIN doc.relations[r].cells THEN doc.relations[r].cells[p] ELSE <<>>

Observed(doc, r, from, to, o) ==
  LET p == <<from, to>>
  IN  [doc EXCEPT !.relations[r].cells = With(@, p, Added(Cell(doc, r, p), o))]

\* attach_evidence, to the observation given or to the last; the relation may
\* be deprecated.
MayAttach(doc, r, p, index) ==
  /\ r \in DOMAIN doc.relations
  /\ p \in DOMAIN doc.relations[r].cells
  /\ IF index = None THEN Cell(doc, r, p) # <<>> ELSE index \in DOMAIN Cell(doc, r, p)

Attached(doc, r, p, index) ==
  LET i == IF index = None THEN Len(Cell(doc, r, p)) ELSE index
  IN  [doc EXCEPT !.relations[r].cells[p][i].evidence = @ + 1]

\* deprecate; ids of members and relations are kept apart by TargetsAreDistinct.
MayDeprecate(doc, target, successor) ==
  \/ /\ target \in DOMAIN doc.relations
     /\ successor # None => successor \in DOMAIN doc.relations
  \/ /\ IsMember(doc, target)
     /\ successor # None => IsMember(doc, successor)

Retired(entry, successor) ==
  [entry EXCEPT !.status = "deprecated", !.successor = Given(successor, @)]

Deprecated(doc, target, successor) ==
  IF target \in DOMAIN doc.relations
  THEN [doc EXCEPT !.relations[target] = Retired(@, successor)]
  ELSE [doc EXCEPT !.dimensions[DimensionOf(doc, target)].members[target] =
          Retired(@, successor)]
=============================================================================
