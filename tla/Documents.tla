------------------------------ MODULE Documents ------------------------------
(***************************************************************************)
(* The engine's document and its loader, Model::from_doc.  A write (module *)
(* Writes) is accepted when its own checks pass and the loader takes the   *)
(* document it built; a rejected write returns an error and nothing else.  *)
(*                                                                         *)
(* Abstractions.  A dimension, scale, relation or contraction is found     *)
(* under its id; dimensions are declared in the order of DimensionOrder.   *)
(* Evidence is counted.  A source reference is whether it names a system,  *)
(* the file it names and the hash it records.  Labels, kinds, attributes   *)
(* and rationales are left out.                                            *)
(***************************************************************************)
EXTENDS Integers, Sequences, FiniteSets, SequencesExt, Functions

CONSTANTS
  None,            \* an optional field that is not given
  MemberIds, ScaleIds, RelationIds, ContractionIds,
  DimensionOrder   \* the dimension ids, in the order they are declared

DimensionIds == {DimensionOrder[i] : i \in DOMAIN DimensionOrder}

ASSUME TargetsAreDistinct == MemberIds \cap RelationIds = {}

-----------------------------------------------------------------------------
(* Shape of a document *)

RelationTypes == {"supports", "opposes", "constrains", "contains"}
Policies == {"none", "every_from", "every_to", "both"}
Statuses == {"active", "deprecated"}

IsMap(f) == f = [x \in DOMAIN f |-> f[x]]
IsRecord(f, fields) == IsMap(f) /\ DOMAIN f = fields

\* A document is a record of four functions, each over the ids declared.
IsDocument(doc) ==
  /\ DOMAIN doc = {"dimensions", "scales", "relations", "contractions"}
  /\ \A r \in DOMAIN doc.relations :
       LET rel == doc.relations[r]
       IN  /\ DOMAIN rel = {"from", "to", "type", "scale", "policy", "status",
                            "successor", "cells"}
           /\ \A p \in DOMAIN rel.cells : rel.cells[p] \in Seq(Range(rel.cells[p])) \ {<<>>}

NoDocument ==
  [dimensions |-> << >>, scales |-> << >>, relations |-> << >>,
   contractions |-> << >>]

Declared(doc, d) == d \in DOMAIN doc.dimensions
Members(doc, d) == IF Declared(doc, d) THEN doc.dimensions[d].members ELSE << >>
MembersOf(doc, d) == DOMAIN Members(doc, d)

\* The scale's tokens, each with its value; the levels are in declared order.
Tokens(doc, s) ==
  IF s \in DOMAIN doc.scales THEN {doc.scales[s][i].token : i \in DOMAIN doc.scales[s]}
                             ELSE {}
Level(doc, s, t) ==
  CHOOSE i \in DOMAIN doc.scales[s] : doc.scales[s][i].token = t
Value(doc, s, t) == doc.scales[s][Level(doc, s, t)].value

\* The dimension of a member: the first declared that lists it.
DimensionOf(doc, m) ==
  LET lists(d) == m \in MembersOf(doc, d)
      i == SelectInSeq(DimensionOrder, lists)
  IN  IF i = 0 THEN None ELSE DimensionOrder[i]

IsMember(doc, m) == DimensionOf(doc, m) # None

ActiveMembers(doc) ==
  {m \in MemberIds : \E d \in DOMAIN doc.dimensions :
     m \in MembersOf(doc, d) /\ Members(doc, d)[m].status = "active"}

ActiveRelations(doc) ==
  {r \in DOMAIN doc.relations : doc.relations[r].status = "active"}

\* The cells of the relations in use, as <<relation, <<from, to>>>>.
CellsInUse(doc) ==
  UNION {{<<r, p>> : p \in DOMAIN doc.relations[r].cells} : r \in ActiveRelations(doc)}

\* An optional field, or what stands for it.
Given(value, otherwise) == IF value = None THEN otherwise ELSE value

\* A document with one entry of one of its four parts replaced or added.
With(part, id, entry) ==
  [x \in DOMAIN part \cup {id} |-> IF x = id THEN entry ELSE part[x]]

-----------------------------------------------------------------------------
(* The loader *)

\* find_cycle: depth-first search with an explicit stack.  `path' is the stack,
\* each node on it (a gray one) with the children not yet looked at; `done' are
\* the black nodes.  The order of nodes and children, by id, is left to CHOOSE.
Visits(nodes) ==
  [path : Seq([node : nodes, left : SUBSET nodes]), done : SUBSET nodes]

Enter(adj, path, n) == Append(path, [node |-> n, left |-> adj[n]])

\* The child that is looked at next, and the path with it taken off the children.
Child(at) == CHOOSE c \in Last(at.path).left : TRUE
Looked(at) ==
  Append(Front(at.path), [Last(at.path) EXCEPT !.left = @ \ {Child(at)}])

\* Where the child is on the path already.
Closing(at) ==
  {i \in DOMAIN at.path : Last(at.path).left # {} /\ at.path[i].node = Child(at)}

\* One turn of the loops, when the child is not on the path.
Visit(adj, at) ==
  IF at.path = <<>> THEN
    [at EXCEPT !.path = Enter(adj, <<>>, CHOOSE n \in DOMAIN adj \ at.done : TRUE)]
  ELSE IF Last(at.path).left = {} THEN
    [path |-> Front(at.path), done |-> at.done \cup {Last(at.path).node}]
  ELSE IF Child(at) \in at.done THEN [at EXCEPT !.path = Looked(at)]
  ELSE [at EXCEPT !.path = Enter(adj, Looked(at), Child(at))]

\* The nodes of the path from the i-th on.
CycleFrom(path, i) == [k \in 1 .. Len(path) - i + 1 |-> path[i + k - 1].node]

Unvisited == [path |-> <<>>, done |-> {}]

\* Mutant: a gray child is passed over like a black one.
FindCyclePassing(adj) ==
  LET search[at \in Visits(DOMAIN adj)] ==
        IF at.path = <<>> /\ at.done = DOMAIN adj THEN <<>>
        ELSE IF Closing(at) # {} THEN search[[at EXCEPT !.path = Looked(at)]]
        ELSE search[Visit(adj, at)]
  IN  search[Unvisited]

FindCycle(adj) ==
  LET search[at \in Visits(DOMAIN adj)] ==
        IF at.path = <<>> /\ at.done = DOMAIN adj THEN <<>>
        ELSE IF Closing(at) # {}
             THEN CycleFrom(at.path, CHOOSE i \in Closing(at) : TRUE)
        ELSE search[Visit(adj, at)]
  IN  search[Unvisited]

\* The edges of a `contains' relation between active members.
ActiveEdges(doc, r) ==
  DOMAIN doc.relations[r].cells \cap (ActiveMembers(doc) \X ActiveMembers(doc))

Adjacency(edges) ==
  [n \in {e[1] : e \in edges} \cup {e[2] : e \in edges} |->
     {e[2] : e \in {f \in edges : f[1] = n}}]

\* A chain does not repeat a relation, and what one relation of it ends on
\* the next starts from.
ChainLoads(doc, chain) ==
  /\ \A i, j \in DOMAIN chain : chain[i] = chain[j] => i = j
  /\ \A i \in 1 .. Len(chain) - 1 :
       {chain[i], chain[i + 1]} \subseteq DOMAIN doc.relations =>
         doc.relations[chain[i]].to = doc.relations[chain[i + 1]].from

CellsResolve(doc, rel) ==
  \A p \in DOMAIN rel.cells :
    p[1] \in MembersOf(doc, rel.from) /\ p[2] \in MembersOf(doc, rel.to)

\* Tokens and evidence are looked at where the scale is declared.
ObservationsLoad(doc, rel) ==
  rel.scale \in DOMAIN doc.scales =>
    \A p \in DOMAIN rel.cells : \A i \in DOMAIN rel.cells[p] :
      LET o == rel.cells[p][i]
      IN  /\ o.token \in Tokens(doc, rel.scale)
          /\ o.provenance = "inferred" => o.evidence > 0

HierarchyLoads(doc, r) ==
  LET rel == doc.relations[r]
  IN  rel.type = "contains" =>
        rel.from = rel.to /\ FindCycle(Adjacency(ActiveEdges(doc, r))) = <<>>

Loads(doc) ==
  /\ \A c \in DOMAIN doc.contractions : ChainLoads(doc, doc.contractions[c].chain)
  /\ \A r \in DOMAIN doc.relations :
       /\ CellsResolve(doc, doc.relations[r])
       /\ ObservationsLoad(doc, doc.relations[r])
       /\ HierarchyLoads(doc, r)
=============================================================================
