-------------------------------- MODULE Engine --------------------------------
(***************************************************************************)
(* A client that writes to one document through the engine's write API: a  *)
(* behaviour is a sequence of accepted writes.  Rejected ones return an    *)
(* error and no document.                                                  *)
(***************************************************************************)
EXTENDS Writes, Queries

CONSTANTS
  InitialDocuments,   \* documents a client may start from
  DimensionSpecs, ScaleSpecs, RelationSpecs, ContractionSpecs, MemberSpecs,
  Rosters, Observations,
  ObservedCells,      \* the <<relation, from, to>> a client observes
  Retirements,        \* the <<element, successor>> a client deprecates
  MaxWrites           \* bound on the writes of a behaviour

\* Inputs of a client, as the schema has them; whether a token is known, an id
\* declared or an amount sourced is for the writes to check.
SpecOK(spec) ==
  /\ spec.id \in MemberIds /\ spec.weight \in Int \cup {None}
  /\ spec.source = None \/ spec.source.file \in Files \cup {None}

ObservationOK(o) == IsMap(o) /\ "evidence" \in DOMAIN o /\ o.evidence \in Nat

-----------------------------------------------------------------------------
(* Types *)

\* The tokens a scale declares at some time, and those an import names anyway.
TokenNames ==
  UNION {{spec.levels[i].token : i \in DOMAIN spec.levels} : spec \in ScaleSpecs}
    \cup UNION {UNION {Tokens(d, s) : s \in DOMAIN d.scales} : d \in InitialDocuments}
    \cup UNION {UNION {{Members(d, e)[m].token : m \in MembersOf(d, e)} :
                         e \in DOMAIN d.dimensions} : d \in InitialDocuments}

MemberOK(member) ==
  /\ IsRecord(member, {"weight", "token", "source", "status", "successor"})
  /\ member.weight \in Int \cup {None} /\ member.token \in TokenNames \cup {None}
  /\ member.source = None \/ member.source.file \in Files \cup {None}
  /\ member.status \in Statuses /\ member.successor \in MemberIds \cup {None}

DimensionOK(dimension) ==
  /\ IsRecord(dimension, {"weightScale", "members"})
  /\ IsMap(dimension.members) /\ DOMAIN dimension.members \subseteq MemberIds
  /\ \A m \in DOMAIN dimension.members : MemberOK(dimension.members[m])

RelationOK(rel) ==
  /\ {rel.from, rel.to} \subseteq DimensionIds
  /\ rel.type \in RelationTypes /\ rel.policy \in Policies /\ rel.status \in Statuses
  /\ DOMAIN rel.cells \subseteq MemberIds \X MemberIds
  /\ \A p \in DOMAIN rel.cells : \A i \in DOMAIN rel.cells[p] : ObservationOK(rel.cells[p][i])

\* The document has the shape of the schema and the loader takes it.
DocumentOK(d) ==
  /\ IsDocument(d) /\ IsMap(d) /\ IsMap(d.dimensions)
  /\ DOMAIN d.dimensions \subseteq DimensionIds
  /\ \A e \in DOMAIN d.dimensions : DimensionOK(d.dimensions[e])
  /\ \A s \in DOMAIN d.scales : Tokens(d, s) \subseteq TokenNames
  /\ \A r \in DOMAIN d.relations : RelationOK(d.relations[r])
  /\ Loads(d)

\* The levels of a scale are a list, and each has a number the Units go up to; the
\* relations can be counted, and a contraction has a list of them.
LevelsOK(levels) ==
  /\ levels \in Seq(Range(levels))
  /\ \A i \in DOMAIN levels : levels[i].value \in Int /\ levels[i].value <= Units

Figures(d) ==
  /\ IsFiniteSet(DOMAIN d.relations) /\ \A s \in DOMAIN d.scales : LevelsOK(d.scales[s])
  /\ \A c \in DOMAIN d.contractions :
       LET chain == d.contractions[c].chain IN chain \in Seq(Range(chain))

\* No member belongs to two dimensions.  The writes see to it, the loader does not.
Separate(d) ==
  \A e, f \in DOMAIN d.dimensions : e # f => MembersOf(d, e) \cap MembersOf(d, f) = {}

ASSUME EngineAssumption ==
  /\ MaxWrites \in Nat /\ IsFiniteSet(MemberIds)
  /\ DimensionOrder \in Seq(DimensionIds) /\ None \notin DimensionIds \cup Files \cup Nat
  /\ Units \in Nat /\ None # "inferred"
  /\ \A f \in Files : Contents[f] \notin {"unknown", "skipped"}
  /\ \A d \in InitialDocuments : DocumentOK(d) /\ Figures(d)
  /\ \A spec \in DimensionSpecs : spec.id \in DimensionIds
  /\ \A spec \in ScaleSpecs : LevelsOK(spec.levels)
  /\ \A spec \in ContractionSpecs : spec.chain \in Seq(Range(spec.chain))
  /\ \A spec \in MemberSpecs : SpecOK(spec)
  /\ \A roster \in Rosters :
       roster \in Seq(Range(roster)) /\ \A spec \in Range(roster) : SpecOK(spec)
  /\ \A o \in Observations : ObservationOK(o)
  /\ ObservedCells \subseteq RelationIds \X MemberIds \X MemberIds

-----------------------------------------------------------------------------
(* The client *)

VARIABLES
  doc,     \* the document of the model
  writes   \* number of writes accepted

vars == <<doc, writes>>

\* The last line of every write: the loader takes the document or refuses it.
Accept(next) ==
  /\ writes < MaxWrites
  /\ Loads(next)
  /\ doc' = next
  /\ writes' = writes + 1

RegisterDimension(spec) == MayRegister(doc, spec) /\ Accept(Registered(doc, spec))

DeclareScale(spec) == MayScale(doc, spec) /\ Accept(Scaled(doc, spec))

DeclareRelation(spec) == MayRelate(doc, spec) /\ Accept(Related(doc, spec))

DeclareContraction(spec) == MayContract(doc, spec) /\ Accept(Contracted(doc, spec))

SyncMembers(d, roster) == MaySync(doc, d, roster) /\ Accept(Synced(doc, d, roster))

ProposeMember(d, spec) == MayPropose(doc, d, spec) /\ Accept(Proposed(doc, d, spec))

Observe(r, from, to, o) ==
  MayObserve(doc, r, from, to, o) /\ Accept(Observed(doc, r, from, to, o))

AttachEvidence(r, p, index) ==
  MayAttach(doc, r, p, index) /\ Accept(Attached(doc, r, p, index))

Deprecate(target, successor) ==
  MayDeprecate(doc, target, successor) /\ Accept(Deprecated(doc, target, successor))

Init == doc \in InitialDocuments /\ writes = 0

Next ==
  \/ \E spec \in DimensionSpecs : RegisterDimension(spec)
  \/ \E spec \in ScaleSpecs : DeclareScale(spec)
  \/ \E spec \in RelationSpecs : DeclareRelation(spec)
  \/ \E spec \in ContractionSpecs : DeclareContraction(spec)
  \/ \E d \in DimensionIds, roster \in Rosters : SyncMembers(d, roster)
  \/ \E d \in DimensionIds, spec \in MemberSpecs : ProposeMember(d, spec)
  \/ \E cell \in ObservedCells, o \in Observations :
       Observe(cell[1], cell[2], cell[3], o)
  \/ \E cell \in ObservedCells, index \in {None, 1} :
       AttachEvidence(cell[1], <<cell[2], cell[3]>>, index)
  \/ \E x \in Retirements : Deprecate(x[1], x[2])

Spec == Init /\ [][Next]_vars

-----------------------------------------------------------------------------
(* Properties *)

\* What `from_doc' checked before a write still holds after any other, and no
\* write puts a member in two dimensions (write.rs: a successful write is always
\* a loadable model).
TypeOK == writes \in 0 .. MaxWrites /\ DocumentOK(doc) /\ Figures(doc) /\ Separate(doc)

\* Nothing a client has written is ever deleted: members, relations and
\* contractions stay, a cell keeps its observations in order, an observation
\* its evidence; and a retired relation stays retired.
CellKept(old, new) ==
  /\ Len(old) <= Len(new)
  /\ \A i \in DOMAIN old :
       /\ [new[i] EXCEPT !.evidence = 0] = [old[i] EXCEPT !.evidence = 0]
       /\ new[i].evidence >= old[i].evidence

Kept(old, new) ==
  /\ \A d \in DOMAIN old.dimensions : MembersOf(old, d) \subseteq MembersOf(new, d)
  /\ DOMAIN old.contractions \subseteq DOMAIN new.contractions
  /\ \A r \in DOMAIN old.relations :
       /\ r \in DOMAIN new.relations
       /\ old.relations[r].status = "deprecated" => new.relations[r].status = "deprecated"
       /\ \A p \in DOMAIN old.relations[r].cells :
            /\ p \in DOMAIN new.relations[r].cells
            /\ CellKept(old.relations[r].cells[p], new.relations[r].cells[p])

NothingIsLost == [][Kept(doc, doc')]_vars

\* SyncSummary::is_noop is what the session goes by to write nothing at all: a
\* roster is a no-op exactly when synchronising it changes no member (each
\* listed once; a roster may list one twice, with other content, and back).
NoopChangesNothing ==
  \A d \in DOMAIN doc.dimensions : \A roster \in Rosters :
    MaySync(doc, d, roster) =>
      /\ SyncIsNoop(doc, d, roster) => Synced(doc, d, roster) = doc
      /\ Synced(doc, d, roster) = doc /\ IsInjective([i \in DOMAIN roster |-> roster[i].id])
           => SyncIsNoop(doc, d, roster)
=============================================================================
