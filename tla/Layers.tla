------------------------------- MODULE Layers -------------------------------
(***************************************************************************)
(* The three documents of a persisted model (ADR-0004: Configuration,      *)
(* Dimensions, State), how they are merged into the engine model, how a    *)
(* mutated model is split back into them, and the engine's writes at the   *)
(* level the session depends on: which names a write adds, replaces or     *)
(* retires, which names it refers to, and when it is rejected.             *)
(*                                                                         *)
(* Abstractions.  An id@version pair is one key, and a document found      *)
(* under its key carries that key.  A Dimensions document has one          *)
(* dimension, registered or not, and a cell is named by its relation and   *)
(* one member, its two end points being alike.  There is one scale:        *)
(* `tokens' are its levels, {} before it is declared.  An Evidence value   *)
(* is the requestId of the command that attached it.  Labels, weights,     *)
(* successors, provenance and contractions are left out.                   *)
(***************************************************************************)
EXTENDS Naturals, Sequences

CONSTANTS
  StateIds,    \* stateId: names state/<id>.json and audit/<id>.jsonl
  ConfigIds,   \* configId@version: names config/<id>@<version>.json
  DimSetIds,   \* dimensionSetId@version: names dimensions/<id>@<version>.json
  Relations,   \* relation ids
  Members,     \* member ids
  Tokens,      \* observation tokens of the scale
  RequestIds   \* requestId of the command envelope

\* `deprecate' resolves its target among members and relations; an id that
\* names both is rejected as ambiguous, so the ids are kept apart.
ASSUME DistinctTargets == Relations \cap Members = {}

-----------------------------------------------------------------------------
(* Documents *)

Lifecycle == {"absent", "active", "deprecated"}

Observation == [token: Tokens, evidence: Seq(RequestIds)]

\* A cell is its observations; it exists once it has one.
Cells == [Relations -> [Members -> Seq(Observation)]]

Configuration ==
  [id: ConfigIds, dimensionSetRef: DimSetIds,
   tokens: SUBSET Tokens, relations: [Relations -> Lifecycle]]

Dimensions ==
  [id: DimSetIds, registered: BOOLEAN, members: [Members -> Lifecycle]]

State ==
  [id: StateIds, configRef: ConfigIds, cells: Cells,
   revision: Nat, locked: BOOLEAN]

\* The merged document the engine loads and mutates.
Model ==
  [tokens: SUBSET Tokens, relations: [Relations -> Lifecycle],
   registered: BOOLEAN, members: [Members -> Lifecycle], cells: Cells]

NoCells == [r \in Relations |-> [m \in Members |-> <<>>]]

EmptyConfiguration(c, d) ==
  [id |-> c, dimensionSetRef |-> d, tokens |-> {},
   relations |-> [r \in Relations |-> "absent"]]

EmptyDimensions(d) ==
  [id |-> d, registered |-> FALSE, members |-> [m \in Members |-> "absent"]]

EmptyState(s, c, locked) ==
  [id |-> s, configRef |-> c, cells |-> NoCells, revision |-> 0, locked |-> locked]

-----------------------------------------------------------------------------
(* Merge, load and split *)

\* merge::merge refuses a State cell on a relation the Configuration lacks.
Mergeable(config, state) ==
  \A r \in Relations, m \in Members :
    state.cells[r][m] # <<>> => config.relations[r] # "absent"

Merge(config, dims, state) ==
  [tokens |-> config.tokens, relations |-> config.relations,
   registered |-> dims.registered, members |-> dims.members,
   cells |-> state.cells]

\* Model::from_doc refuses a cell of an unknown member, and a token that is
\* not a level of the scale (when the scale is declared).
Loadable(model) ==
  \A r \in Relations, m \in Members :
    LET cell == model.cells[r][m]
    IN  /\ cell # <<>> => model.members[m] # "absent"
        /\ model.tokens # {} =>
             \A i \in DOMAIN cell : cell[i].token \in model.tokens

\* merge::split keeps the identity of the previous documents and takes each
\* layer's content from the model; the session then stamps the revision.
SplitConfiguration(model, prev) ==
  [prev EXCEPT !.tokens = model.tokens, !.relations = model.relations]

SplitDimensions(model, prev) ==
  [prev EXCEPT !.registered = model.registered, !.members = model.members]

\* Mutant: the revision is not stamped.
SplitStateUnstamped(model, prev, revision) == [prev EXCEPT !.cells = model.cells]

SplitState(model, prev, revision) ==
  [prev EXCEPT !.cells = model.cells, !.revision = revision]

-----------------------------------------------------------------------------
(* The engine's writes.  An op is a record whose `kind' is the op kind of  *)
(* the command envelope.                                                   *)

MutationOp ==
       [kind: {"dimension.register"}]
  \cup [kind: {"scale.declare"}, tokens: SUBSET Tokens \ {{}}]
  \cup [kind: {"relation.declare"}, relation: Relations]
  \cup [kind: {"members.sync"}, roster: SUBSET Members]
  \cup [kind: {"member.propose"}, member: Members]
  \cup [kind: {"observe"}, relation: Relations, member: Members, token: Tokens]
  \cup [kind: {"evidence.attach"}, relation: Relations, member: Members]
  \cup [kind: {"deprecate"}, target: Relations \cup Members]

\* The checks a write makes on its arguments.
Admissible(model, op) ==
  CASE op.kind = "relation.declare" -> model.registered /\ model.tokens # {}
    [] op.kind = "members.sync" -> model.registered
    [] op.kind = "member.propose" ->
         model.registered /\ model.members[op.member] = "absent"
    [] op.kind = "observe" ->
         /\ model.relations[op.relation] = "active"
         /\ model.members[op.member] # "absent"
         /\ op.token \in model.tokens
    [] op.kind = "evidence.attach" -> model.cells[op.relation][op.member] # <<>>
    [] op.kind = "deprecate" ->
         IF op.target \in Relations THEN model.relations[op.target] # "absent"
                                    ELSE model.members[op.target] # "absent"
    [] OTHER -> TRUE

\* Mutant: a status the schema does not have.
SyncedRemoved(members, roster) ==
  [m \in Members |-> IF m \in roster THEN "active" ELSE "removed"]

\* The roster is authoritative: the rest is deprecated, never deleted.
Synced(members, roster) ==
  [m \in Members |-> IF m \in roster THEN "active"
                     ELSE IF members[m] = "absent" THEN "absent"
                     ELSE "deprecated"]

\* Mutant: the new observation replaces the others.
ObservedOver(cell, token) == <<[token |-> token, evidence |-> <<>>]>>

\* An observation equal to one on the cell is not added; one that has been
\* given evidence since is not equal to its bare self.
Observed(cell, token) ==
  LET observation == [token |-> token, evidence |-> <<>>]
  IN  IF \E i \in DOMAIN cell : cell[i] = observation THEN cell
      ELSE Append(cell, observation)

\* Evidence goes to the last observation of the cell.
Attached(cell, request) ==
  [cell EXCEPT ![Len(cell)].evidence = Append(@, request)]

\* The document a write builds; `request' names the evidence it attaches.
Written(model, op, request) ==
  CASE op.kind = "dimension.register" -> [model EXCEPT !.registered = TRUE]
    [] op.kind = "scale.declare" -> [model EXCEPT !.tokens = op.tokens]
    [] op.kind = "relation.declare" ->
         IF model.relations[op.relation] = "absent"
         THEN [model EXCEPT !.relations[op.relation] = "active"]
         ELSE model
    [] op.kind = "members.sync" ->
         [model EXCEPT !.members = Synced(model.members, op.roster)]
    [] op.kind = "member.propose" ->
         [model EXCEPT !.members[op.member] = "active"]
    [] op.kind = "observe" ->
         [model EXCEPT !.cells[op.relation][op.member] = Observed(@, op.token)]
    [] op.kind = "evidence.attach" ->
         [model EXCEPT !.cells[op.relation][op.member] = Attached(@, request)]
    [] op.kind = "deprecate" ->
         IF op.target \in Relations
         THEN [model EXCEPT !.relations[op.target] = "deprecated"]
         ELSE [model EXCEPT !.members[op.target] = "deprecated"]

\* A write succeeds when its checks pass and the loader takes its document.
Succeeds(model, op, request) ==
  Admissible(model, op) /\ Loadable(Written(model, op, request))

\* Mutant: op kinds are missing from the test for the layer to rewrite.
RewritesConfigurationFew(op, model, config) == op.kind = "deprecate"

\* The layers an op rewrites besides State.  All but `deprecate' go by the
\* kind; `deprecate' is compared by content with the documents held.
RewritesConfiguration(op, model, config) ==
  \/ op.kind \in {"scale.declare", "relation.declare"}
  \/ op.kind = "deprecate" /\ SplitConfiguration(model, config) # config

RewritesDimensions(op, model, dims) ==
  \/ op.kind \in {"dimension.register", "members.sync", "member.propose"}
  \/ op.kind = "deprecate" /\ SplitDimensions(model, dims) # dims
=============================================================================
