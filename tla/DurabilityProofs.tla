-------------------------- MODULE DurabilityProofs --------------------------
(***************************************************************************)
(* Nothing a client was promised is lost: every state on disk can be       *)
(* opened, and what it gives holds the effect of every request in its      *)
(* audit log, wherever a process was killed.  And seen from outside, a     *)
(* model is changed by one request at a time and as a whole: Session       *)
(* implements DurableModel.  One process, no failing file operation, and   *)
(* for the latter states that share no documents.                          *)
(***************************************************************************)
EXTENDS SessionRefinement, StoreProofs

-----------------------------------------------------------------------------
(* What opening a state gives, and what may become of it *)

\* A scale is declared with all its tokens.  One that leaves some out is checked
\* against the cells of the open model only, and other states on the same
\* configuration may hold what it leaves out.
WholeScale ==
  \A r \in RequestIds : \A op \in Commands[r] :
    op.kind = "scale.declare" => op.tokens = Tokens

\* The states found in the store can be opened.
CommittedResolves ==
  \A s \in StateIds : Committed.states[s] # None =>
    LET state == Committed.states[s]
        config == Committed.configs[state.configRef]
        dims == Committed.dimensions[config.dimensionSetRef]
    IN  config # None /\ dims # None /\ HoldsModel(Merge(config, dims, state))

MergedAt(s) == Merge(ConfigOf(s), DimsOf(s), states[s])

\* Nothing that a model holds is gone from a later one.
Keeps(old, new) ==
  /\ new.tokens \in {old.tokens, Tokens}
  /\ old.registered => new.registered
  /\ \A r \in Relations :
       /\ old.relations[r] # "absent" => new.relations[r] # "absent"
       /\ old.relations[r] = "deprecated" => new.relations[r] = "deprecated"
  /\ \A x \in Members : old.members[x] # "absent" => new.members[x] # "absent"
  /\ \A r \in Relations, x \in Members : CellGrows(old.cells[r][x], new.cells[r][x])

\* The effect of op, requested by r, is in the model.
Effect(m, r, op) ==
  CASE op.kind = "dimension.register" -> m.registered
    [] op.kind = "relation.declare" -> m.relations[op.relation] # "absent"
    [] op.kind = "members.sync" -> \A x \in op.roster : m.members[x] # "absent"
    [] op.kind = "member.propose" -> m.members[op.member] # "absent"
    [] op.kind = "observe" ->
         LET cell == m.cells[op.relation][op.member]
         IN  \E i \in DOMAIN cell : cell[i].token = op.token
    [] op.kind = "evidence.attach" ->
         LET cell == m.cells[op.relation][op.member]
         IN  \E i \in DOMAIN cell : \E j \in DOMAIN cell[i].evidence :
               cell[i].evidence[j] = r
    [] op.kind = "deprecate" ->
         IF op.target \in Relations
         THEN m.relations[op.target] = "deprecated"
         ELSE m.members[op.target] # "absent"
    [] OTHER -> TRUE

\* What a command in flight has sent, and what the mutation has built on the
\* open model: everything that was there, and the effect of its op.
Carries(p) ==
  LET op == sent[current[p]].op
  IN  /\ phase[p] \notin {"idle", "down"} => sent[current[p]] # None
      /\ phase[p] \in ReadPhases \cup EarlyPhases \cup LatePhases => op.kind = "model.open"
      /\ phase[p] \in WritePhases => Effect(next[p], current[p], op)
      /\ phase[p] \in PutPhases => Keeps(model[p], next[p])

\* The line of a request that was sent, and whose effect is there.
Audited(s, line) ==
  /\ states[s] # None /\ Resolves(s)
  /\ sent[line.request] # None
  /\ Stored(s, line.request, sent[line.request].op)

AuditedInv(named) ==
  /\ DocsInv(named)
  /\ \A p \in Procs : Carries(p)
  /\ \A s \in StateIds : \A i \in 1 .. Len(Lines(s)) : Audited(s, Lines(s)[i])

-----------------------------------------------------------------------------
(* Models only gain *)

LEMMA PrefixElements ==
  ASSUME NEW S, NEW a \in Seq(S), NEW b \in Seq(S), IsPrefixOf(a, b)
  PROVE  Len(a) <= Len(b) /\ \A i \in 1 .. Len(a) : b[i] = a[i]
<1> DEFINE n == Len(a)
<1>1. n \in Nat /\ Len(b) \in Nat /\ n <= Len(b) /\ SubSeq(b, 1, n) = a
  BY LenProperties DEF IsPrefixOf
<1>2. \A i \in 1 .. n : b[i] \in S
  <2> TAKE i \in 1 .. n
  <2>1. i \in 1 .. Len(b)
    BY <1>1
  <2> QED BY <2>1, ElementOfSeq
<1> HIDE DEF n
<1>3. \A i \in 1 .. n - 1 + 1 : SubSeq(b, 1, n)[i] = b[1 + i - 1]
  BY <1>1, <1>2, SubSeqProperties
<1>4. \A i \in 1 .. n : a[i] = b[i]
  BY <1>1, <1>3
<1> QED BY <1>1, <1>4 DEF n

\* An effect stays in a model that keeps what another holds.
LEMMA KeepsEffect ==
  ASSUME NEW old \in Model, NEW new \in Model, Keeps(old, new), NEW r,
         NEW op \in Op, Effect(old, r, op)
  PROVE  Effect(new, r, op)
<1> DEFINE was == old.cells[op.relation][op.member]
           is == new.cells[op.relation][op.member]
<1>1. ASSUME op.relation \in Relations, op.member \in Members
      PROVE  /\ was \in Seq(Observation) /\ is \in Seq(Observation)
             /\ DOMAIN was = 1 .. Len(was) /\ DOMAIN is = 1 .. Len(is)
             /\ \A i \in DOMAIN was :
                  /\ i \in DOMAIN is /\ is[i].token = was[i].token
                  /\ IsPrefixOf(was[i].evidence, is[i].evidence)
                  /\ was[i].evidence \in Seq(RequestIds)
                  /\ is[i].evidence \in Seq(RequestIds)
  <2>1. was \in Seq(Observation) /\ is \in Seq(Observation)
    BY <1>1 DEF Model, Cells
  <2> HIDE DEF was, is
  <2>2. /\ DOMAIN was = 1 .. Len(was) /\ DOMAIN is = 1 .. Len(is)
        /\ Len(was) \in Nat /\ Len(is) \in Nat
    BY <2>1, LenProperties
  <2>3. CellGrows(was, is)
    BY <1>1 DEF Keeps, was, is
  <2>4. ASSUME NEW i \in DOMAIN was
        PROVE  /\ i \in DOMAIN is /\ is[i].token = was[i].token
               /\ IsPrefixOf(was[i].evidence, is[i].evidence)
               /\ was[i].evidence \in Seq(RequestIds)
               /\ is[i].evidence \in Seq(RequestIds)
    <3>1. i \in 1 .. Len(was) /\ i \in 1 .. Len(is)
      BY <2>2, <2>3 DEF CellGrows
    <3>2. was[i] \in Observation /\ is[i] \in Observation
      BY <2>1, <3>1, ElementOfSeq
    <3> QED BY <2>2, <2>3, <3>1, <3>2 DEF CellGrows, Observation
  <2> QED BY <2>1, <2>2, <2>4
<1> HIDE DEF was, is
<1>2. CASE op.kind = "observe"
  <2>1. op.relation \in Relations /\ op.member \in Members
    BY <1>2 DEF Op, MutationOp, OpenOp
  <2>2. PICK i \in DOMAIN was : was[i].token = op.token
    BY <1>2 DEF Effect, was
  <2>3. i \in DOMAIN is /\ is[i].token = op.token
    BY <1>1, <2>1, <2>2
  <2> QED BY <1>2, <2>3 DEF Effect, is
<1>3. CASE op.kind = "evidence.attach"
  <2>1. op.relation \in Relations /\ op.member \in Members
    BY <1>3 DEF Op, MutationOp, OpenOp
  <2>2. PICK i \in DOMAIN was : \E j \in DOMAIN was[i].evidence : was[i].evidence[j] = r
    BY <1>3 DEF Effect, was
  <2>3. PICK j \in DOMAIN was[i].evidence : was[i].evidence[j] = r
    BY <2>2
  <2>4. /\ i \in DOMAIN is /\ IsPrefixOf(was[i].evidence, is[i].evidence)
        /\ was[i].evidence \in Seq(RequestIds)
        /\ is[i].evidence \in Seq(RequestIds)
    BY <1>1, <2>1, <2>2
  <2>5. j \in DOMAIN is[i].evidence /\ is[i].evidence[j] = r
    <3>1. /\ Len(was[i].evidence) <= Len(is[i].evidence)
          /\ \A k \in 1 .. Len(was[i].evidence) : is[i].evidence[k] = was[i].evidence[k]
      BY <2>4, PrefixElements
    <3>2. /\ DOMAIN was[i].evidence = 1 .. Len(was[i].evidence)
          /\ DOMAIN is[i].evidence = 1 .. Len(is[i].evidence)
          /\ Len(was[i].evidence) \in Nat /\ Len(is[i].evidence) \in Nat
      BY <2>4, LenProperties
    <3> QED BY <2>3, <3>1, <3>2
  <2> QED BY <1>3, <2>4, <2>5 DEF Effect, is
<1>4. CASE op.kind \in {"dimension.register", "relation.declare", "members.sync",
                        "member.propose", "deprecate"}
  BY <1>4 DEF Effect, Keeps, Op, MutationOp, OpenOp
<1>5. CASE op.kind \in {"scale.declare", "model.open", "model.status", "import"}
  BY <1>5 DEF Effect
<1> QED
  BY <1>2, <1>3, <1>4, <1>5 DEF Op, MutationOp, OpenOp

LEMMA KeepsSelf ==
  ASSUME NEW m \in Model
  PROVE  Keeps(m, m)
<1>1. \A r \in Relations, x \in Members : m.cells[r][x] \in Seq(Observation)
  BY DEF Model, Cells
<1> QED BY <1>1, CellGrowsSelf DEF Keeps

\* A write keeps what the model holds, unless it declares a smaller scale:
\* names are retired, never removed, and a retired relation is not declared
\* again (write.rs).
LEMMA WrittenKeeps ==
  ASSUME NEW m \in Model, NEW op \in MutationOp, NEW request \in RequestIds,
         Admissible(m, op), op.kind = "scale.declare" => op.tokens = Tokens
  PROVE  Keeps(m, Written(m, op, request))
<1> DEFINE w == Written(m, op, request)
<1>1. \A r \in Relations, x \in Members : CellGrows(m.cells[r][x], w.cells[r][x])
  BY WrittenGrows
<1>2. CASE op.kind \in {"observe", "evidence.attach"}
  <2>1. /\ w.tokens = m.tokens /\ w.relations = m.relations
        /\ w.registered = m.registered /\ w.members = m.members
    BY <1>2 DEF Written, Model
  <2> QED BY <1>1, <2>1 DEF Keeps
<1>3. CASE op.kind = "dimension.register"
  <2>1. /\ w.tokens = m.tokens /\ w.relations = m.relations
        /\ w.registered /\ w.members = m.members
    BY <1>3 DEF Written, Model
  <2> QED BY <1>1, <2>1 DEF Keeps
<1>4. CASE op.kind = "relation.declare"
  <2>1. /\ w.tokens = m.tokens /\ w.registered = m.registered /\ w.members = m.members
        /\ \A r \in Relations :
             w.relations[r] = m.relations[r]
               \/ (m.relations[r] = "absent" /\ w.relations[r] = "active")
    <3>1. op.relation \in Relations
      BY <1>4 DEF MutationOp
    <3>2. CASE m.relations[op.relation] = "absent"
      <4>1. w = [m EXCEPT !.relations[op.relation] = "active"]
        BY <1>4, <3>2 DEF Written
      <4> HIDE DEF w
      <4> QED BY <3>1, <3>2, <4>1 DEF Model
    <3>3. CASE m.relations[op.relation] # "absent"
      <4>1. w = m
        BY <1>4, <3>3 DEF Written
      <4> QED BY <4>1
    <3> QED BY <3>2, <3>3
  <2> QED BY <1>1, <2>1 DEF Keeps
<1>5. CASE op.kind = "members.sync"
  <2>1. /\ w.tokens = m.tokens /\ w.relations = m.relations
        /\ w.registered = m.registered /\ w.members = Synced(m.members, op.roster)
    BY <1>5 DEF Written, Model
  <2> QED BY <1>1, <2>1 DEF Keeps, Synced
<1>6. CASE op.kind = "member.propose"
  <2>1. /\ w.tokens = m.tokens /\ w.relations = m.relations
        /\ w.registered = m.registered
        /\ \A x \in Members : w.members[x] \in {m.members[x], "active"}
    BY <1>6 DEF Written, Model, MutationOp
  <2> QED BY <1>1, <2>1 DEF Keeps
<1>7. CASE op.kind = "deprecate"
  <2>1. /\ w.tokens = m.tokens /\ w.registered = m.registered
        /\ \A r \in Relations : w.relations[r] \in {m.relations[r], "deprecated"}
        /\ \A x \in Members : w.members[x] \in {m.members[x], "deprecated"}
    BY <1>7 DEF Written, Model, MutationOp
  <2> QED BY <1>1, <2>1 DEF Keeps
<1>8. CASE op.kind = "scale.declare"
  <2>1. /\ w.tokens = Tokens /\ w.registered = m.registered
        /\ w.relations = m.relations /\ w.members = m.members
    BY <1>8 DEF Written, Model
  <2> QED BY <1>1, <2>1 DEF Keeps
<1> QED
  BY <1>2, <1>3, <1>4, <1>5, <1>6, <1>7, <1>8 DEF MutationOp

\* A write leaves its effect in the model.
LEMMA WrittenEffect ==
  ASSUME NEW m \in Model, NEW op \in MutationOp, NEW request \in RequestIds,
         Admissible(m, op)
  PROVE  Effect(Written(m, op, request), request, op)
<1> DEFINE w == Written(m, op, request)
           was == m.cells[op.relation][op.member]
<1>1. CASE op.kind = "observe"
  <2> DEFINE o == [token |-> op.token, evidence |-> <<>>]
  <2>1. op.relation \in Relations /\ op.member \in Members /\ op.token \in Tokens
    BY <1>1 DEF MutationOp
  <2>2. was \in Seq(Observation) /\ o \in Observation
    <3>1. was \in Seq(Observation)
      BY <2>1 DEF Model, Cells
    <3>2. o \in Observation
      BY <2>1 DEF Observation
    <3> QED BY <3>1, <3>2
  <2>3. w.cells[op.relation][op.member] = Observed(was, op.token)
    BY <1>1, <2>1 DEF Written, Model, Cells
  <2> HIDE DEF was
  <2>4. \E i \in DOMAIN Observed(was, op.token) : Observed(was, op.token)[i].token = op.token
    <3>1. CASE \E i \in DOMAIN was : was[i] = o
      BY <3>1 DEF Observed
    <3>2. CASE ~ \E i \in DOMAIN was : was[i] = o
      <4>1. Observed(was, op.token) = Append(was, o)
        BY <3>2 DEF Observed
      <4>2. /\ Len(Append(was, o)) = Len(was) + 1 /\ Len(was) \in Nat
            /\ Append(was, o)[Len(was) + 1] = o
            /\ DOMAIN Append(was, o) = 1 .. Len(Append(was, o))
        BY <2>2, AppendProperties, LenProperties
      <4>3. Len(was) + 1 \in DOMAIN Append(was, o)
        BY <4>2
      <4> QED BY <4>1, <4>2, <4>3
    <3> QED BY <3>1, <3>2
  <2> QED BY <1>1, <2>3, <2>4 DEF Effect
<1>2. CASE op.kind = "evidence.attach"
  <2> DEFINE n == Len(was)
             o == [was[n] EXCEPT !.evidence = Append(@, request)]
             is == [was EXCEPT ![n] = o]
  <2>1. op.relation \in Relations /\ op.member \in Members /\ was # <<>>
    BY <1>2 DEF MutationOp, Admissible
  <2>2. was \in Seq(Observation)
    BY <2>1 DEF Model, Cells
  <2>3. w.cells[op.relation][op.member] = Attached(was, request)
    BY <1>2, <2>1 DEF Written, Model, Cells
  <2> HIDE DEF was
  <2>4. n \in 1 .. Len(was) /\ Len(was) \in Nat
    BY <2>1, <2>2, EmptySeq, LenProperties
  <2>5. was[n] \in Observation
    BY <2>2, <2>4, ElementOfSeq
  <2>6. was[n].evidence \in Seq(RequestIds)
    BY <2>5 DEF Observation
  <2>7. o.evidence = Append(was[n].evidence, request)
    BY <2>5 DEF Observation
  <2>8. o \in Observation
    BY <2>5, <2>6, <2>7, AppendProperties DEF Observation
  <2>9. \E j \in DOMAIN o.evidence : o.evidence[j] = request
    <3> DEFINE ev == was[n].evidence
    <3>1. /\ Len(Append(ev, request)) = Len(ev) + 1 /\ Len(ev) \in Nat
          /\ Append(ev, request)[Len(ev) + 1] = request
          /\ DOMAIN Append(ev, request) = 1 .. Len(Append(ev, request))
      BY <2>6, AppendProperties, LenProperties
    <3> HIDE DEF ev
    <3>2. Len(ev) + 1 \in DOMAIN Append(ev, request)
      BY <3>1
    <3> QED BY <2>7, <3>1, <3>2 DEF ev
  <2> HIDE DEF o
  <2>10. /\ Len(is) = Len(was) /\ is \in Seq(Observation)
         /\ \A j \in 1 .. Len(was) : is[j] = IF j = n THEN o ELSE was[j]
    BY <2>2, <2>4, <2>8, ExceptSeq
  <2>11. n \in DOMAIN is /\ is[n] = o
    <3>1. DOMAIN is = 1 .. Len(is)
      BY <2>10, LenProperties
    <3> QED BY <2>4, <2>10, <3>1
  <2>12. Attached(was, request) = is
    BY DEF Attached, o
  <2> HIDE DEF is, n
  <2> QED BY <1>2, <2>3, <2>9, <2>11, <2>12 DEF Effect
<1>3. CASE op.kind = "relation.declare"
  BY <1>3 DEF Effect, Written, Model, MutationOp
<1>4. CASE op.kind = "members.sync"
  BY <1>4 DEF Effect, Written, Model, MutationOp, Synced
<1>5. CASE op.kind = "member.propose"
  BY <1>5 DEF Effect, Written, Model, MutationOp
<1>6. CASE op.kind = "deprecate"
  BY <1>6 DEF Effect, Written, Model, MutationOp
<1>7. CASE op.kind \in {"dimension.register", "scale.declare"}
  BY <1>7 DEF Effect, Written, Model
<1> QED
  BY <1>1, <1>2, <1>3, <1>4, <1>5, <1>6, <1>7 DEF MutationOp

-----------------------------------------------------------------------------
(* What opening each state gives *)

\* model.open merges and loads what the references lead to.
LEMMA ResolvesIs ==
  ASSUME NEW s \in StateIds
  PROVE  Resolves(s) <=> ConfigOf(s) # None /\ DimsOf(s) # None /\ HoldsModel(MergedAt(s))
BY DEF Resolves, HoldsModel, HoldsRelations, MergedAt, Mergeable, Merge

\* What is in the log is read from the merged model.
LEMMA StoredIs ==
  ASSUME NEW s \in StateIds, NEW r, NEW op
  PROVE  Stored(s, r, op) <=> Effect(MergedAt(s), r, op)
BY DEF Stored, Effect, MergedAt, Merge

LEMMA MergedType ==
  ASSUME TypeInv, NEW s \in StateIds, states[s] # None, Resolves(s)
  PROVE  /\ MergedAt(s) \in Model
         /\ states[s] \in State /\ states[s].configRef \in ConfigIds
         /\ ConfigOf(s) \in Configuration /\ ConfigOf(s).dimensionSetRef \in DimSetIds
         /\ DimsOf(s) \in Dimensions
<1>1. states[s] \in State
  BY TypesOf DEF TypeInv, TypeOK, DiskOK
<1>2. states[s].configRef \in ConfigIds
  BY <1>1 DEF State
<1>3. ConfigOf(s) \in Configuration
  BY <1>2, DiskTypes DEF Resolves, ConfigOf
<1>4. ConfigOf(s).dimensionSetRef \in DimSetIds
  BY <1>3 DEF Configuration
<1>5. DimsOf(s) \in Dimensions
  BY <1>4, DiskTypes DEF Resolves, DimsOf
<1> QED BY <1>1, <1>2, <1>3, <1>4, <1>5, MergeType DEF MergedAt

\* A layer that only gains keeps every state over it loadable: the names its
\* cells are on stay there, retired or not.
LEMMA KeepsHolds ==
  ASSUME NEW old \in Model, NEW new \in Model, Keeps(old, new),
         new.cells = old.cells, HoldsModel(old)
  PROVE  HoldsModel(new)
<1>1. HoldsRelations(new)
  BY DEF Keeps, HoldsModel, HoldsRelations
<1>2. ASSUME NEW r \in Relations, NEW x \in Members
      PROVE  /\ new.cells[r][x] # <<>> => new.members[x] # "absent"
             /\ new.tokens # {} =>
                  \A i \in DOMAIN new.cells[r][x] : new.cells[r][x][i].token \in new.tokens
  <2>1. new.cells[r][x] # <<>> => new.members[x] # "absent"
    BY DEF Keeps, HoldsModel, Loadable
  <2>2. ASSUME new.tokens # {}, NEW i \in DOMAIN new.cells[r][x]
        PROVE  new.cells[r][x][i].token \in new.tokens
    <3>1. CASE new.tokens = old.tokens
      BY <2>2, <3>1 DEF HoldsModel, Loadable
    <3>2. CASE new.tokens = Tokens
      <4>1. new.cells[r][x] \in Seq(Observation)
        BY DEF Model, Cells
      <4>2. i \in 1 .. Len(new.cells[r][x])
        BY <2>2, <4>1, LenProperties
      <4>3. new.cells[r][x][i] \in Observation
        BY <4>1, <4>2, ElementOfSeq
      <4> QED BY <3>2, <4>3 DEF Observation
    <3> QED BY <3>1, <3>2 DEF Keeps
  <2> QED BY <2>1, <2>2
<1> QED BY <1>1, <1>2 DEF HoldsModel, Loadable

\* State s is still there, opening it succeeds and gives all it gave before.
Survives(s) == states'[s] # None /\ Resolves(s)' /\ Keeps(MergedAt(s), MergedAt(s)')

\* A step that puts no document, or the same again.
LEMMA SameSurvives ==
  ASSUME TypeInv, NEW s \in StateIds, states[s] # None, Resolves(s),
         states'[s] = states[s], ConfigOf(s)' = ConfigOf(s), DimsOf(s)' = DimsOf(s)
  PROVE  Survives(s)
<1>1. MergedAt(s)' = MergedAt(s)
  BY DEF MergedAt
<1>2. Resolves(s)'
  BY DEF Resolves
<1> QED BY <1>1, <1>2, MergedType, KeepsSelf DEF Survives

\* A step that puts another configuration or dimensions under the state.
LEMMA GainSurvives ==
  ASSUME TypeInv, TypeInv', NEW s \in StateIds, states[s] # None, Resolves(s),
         states'[s] = states[s], ConfigOf(s)' \in Configuration, DimsOf(s)' \in Dimensions,
         Keeps(MergedAt(s), MergedAt(s)')
  PROVE  Survives(s)
<1> DEFINE m == MergedAt(s)'
<1>1. /\ MergedAt(s) \in Model /\ states[s] \in State
  BY MergedType
<1>2. m \in Model /\ m.cells = MergedAt(s).cells
  BY <1>1, MergeType DEF MergedAt, Merge
<1>3. HoldsModel(MergedAt(s))
  BY ResolvesIs
<1> HIDE DEF m
<1>4. HoldsModel(m)
  BY <1>1, <1>2, <1>3, KeepsHolds DEF m
<1>5. Resolves(s)'
  <2>1. ConfigOf(s)' # None /\ DimsOf(s)' # None
    BY IdsOf
  <2>2. HoldsModel(MergedAt(s))'
    BY <1>4 DEF m
  <2> QED
    BY <2>1, <2>2 DEF Resolves, HoldsModel, HoldsRelations, MergedAt, Mergeable, Merge
<1> QED BY <1>5 DEF Survives

-----------------------------------------------------------------------------
(* Every step leaves every state openable, with all it gave before *)

\* Creating a state, open_model writes documents under ids that are free, so
\* that no state resolves through them, or the documents that are there.
LEMMA CreateSurvives ==
  ASSUME NEW named, DocsInv(named), NEW p \in Procs,
         CreatePutConfig(p) \/ CreatePutDims(p) \/ CreatePutState(p),
         NEW s \in StateIds, states[s] # None, Resolves(s)
  PROVE  Survives(s)
<1> DEFINE d == docs[p]
<1>1. TypeInv /\ Sole(p) /\ DocsJoined(p)
  BY DEF DocsInv, StateInv, SoleInv
<1>2. phase[p] \in EarlyPhases /\ d \in Backing
  BY <1>1, TypesOf DEF CreatePutConfig, CreatePutDims, CreatePutState, InFlight,
     EarlyPhases
<1>3. /\ d.config.id \in ConfigIds /\ d.dims.id \in DimSetIds /\ d.state.id \in StateIds
  BY <1>2, IdsOf
<1>4. /\ configs[d.config.id] \in {None, d.config}
      /\ dimensions[d.dims.id] \in {None, d.dims}
      /\ states[d.state.id] = None
  BY <1>1, <1>2 DEF DocsJoined, Sole, DocsInHand
<1>5. /\ states[s].configRef \in ConfigIds /\ ConfigOf(s) # None
      /\ ConfigOf(s).dimensionSetRef \in DimSetIds /\ DimsOf(s) # None
  BY <1>1, MergedType DEF Resolves
<1>6. CASE CreatePutConfig(p)
  <2>1. /\ configs' = [configs EXCEPT ![d.config.id] = d.config]
        /\ states' = states /\ dimensions' = dimensions
    BY <1>6 DEF CreatePutConfig
  <2>2. ConfigOf(s)' = ConfigOf(s)
    BY <1>1, <1>3, <1>4, <1>5, <2>1, DiskTypes DEF ConfigOf
  <2>3. DimsOf(s)' = DimsOf(s)
    BY <2>1, <2>2 DEF DimsOf
  <2> QED BY <1>1, <2>1, <2>2, <2>3, SameSurvives
<1>7. CASE CreatePutDims(p)
  <2>1. /\ dimensions' = [dimensions EXCEPT ![d.dims.id] = d.dims]
        /\ states' = states /\ configs' = configs
    BY <1>7 DEF CreatePutDims
  <2>2. ConfigOf(s)' = ConfigOf(s)
    BY <2>1 DEF ConfigOf
  <2>3. DimsOf(s)' = DimsOf(s)
    BY <1>1, <1>3, <1>4, <1>5, <2>1, <2>2, DiskTypes DEF DimsOf
  <2> QED BY <1>1, <2>1, <2>2, <2>3, SameSurvives
<1>8. CASE CreatePutState(p)
  <2>1. /\ states' = [states EXCEPT ![d.state.id] = d.state]
        /\ configs' = configs /\ dimensions' = dimensions
    BY <1>8 DEF CreatePutState
  <2>2. states'[s] = states[s]
    BY <1>1, <1>3, <1>4, <2>1, TypesOf
  <2>3. ConfigOf(s)' = ConfigOf(s)
    BY <2>1, <2>2 DEF ConfigOf
  <2>4. DimsOf(s)' = DimsOf(s)
    BY <2>1, <2>3 DEF DimsOf
  <2> QED BY <1>1, <2>2, <2>3, <2>4, SameSurvives
<1> QED BY <1>6, <1>7, <1>8

\* A mutation writes layers that keep what the open model holds, and so what
\* every state over the same layer holds.
LEMMA PutLayerSurvives ==
  ASSUME NEW named, DocsInv(named), TypeInv', NEW p \in Procs, Carries(p),
         PutConfig(p) \/ PutDims(p),
         NEW s \in StateIds, states[s] # None, Resolves(s)
  PROVE  Survives(s)
<1> DEFINE b == backing[p]
           n == next[p]
           config2 == SplitConfiguration(n, b.config)
           dims2 == SplitDimensions(n, b.dims)
<1>1. TypeInv /\ ExactDocs(p)
  BY DEF DocsInv, StateInv, SoleInv
<1>2. /\ phase[p] \in PutPhases /\ b \in Backing /\ b # None /\ n \in Model
  BY <1>1, TypesOf, NoneAssumption DEF PutConfig, PutDims, InFlight, PutPhases
<1>3. /\ b.config \in Configuration /\ b.dims \in Dimensions /\ b.state \in State
      /\ b.config.id \in ConfigIds /\ b.dims.id \in DimSetIds
  BY <1>2, IdsOf
<1>4. /\ Keeps(model[p], n) /\ model[p] = MergeOf(b) /\ dimensions[b.dims.id] = b.dims
  BY <1>1, <1>2 DEF Carries, ExactDocs, PutConfig, PutDims, PutPhases, LoggedPhases
<1>5. /\ states[s] \in State
      /\ states[s].configRef \in ConfigIds /\ ConfigOf(s) \in Configuration
      /\ ConfigOf(s).dimensionSetRef \in DimSetIds /\ DimsOf(s) \in Dimensions
  BY <1>1, MergedType
<1>6. \A rel \in Relations, m \in Members :
        CellGrows(states[s].cells[rel][m], states[s].cells[rel][m])
  <2>1. \A rel \in Relations, m \in Members : states[s].cells[rel][m] \in Seq(Observation)
    BY <1>5 DEF State, Cells
  <2> QED BY <2>1, CellGrowsSelf
<1>7. CASE PutConfig(p)
  <2>1. /\ configs' = [configs EXCEPT ![config2.id] = config2]
        /\ states' = states /\ dimensions' = dimensions /\ phase[p] = "put.config"
    BY <1>7 DEF PutConfig
  <2>2. /\ config2 \in Configuration /\ config2.id = b.config.id
        /\ config2.dimensionSetRef = b.config.dimensionSetRef
        /\ config2.tokens = n.tokens /\ config2.relations = n.relations
    BY <1>2, <1>3 DEF SplitConfiguration, Configuration, Model
  <2>3. configs[b.config.id] = b.config
    BY <1>1, <1>2, <2>1 DEF ExactDocs
  <2> HIDE DEF config2
  <2>4. CASE states[s].configRef # b.config.id
    <3>1. ConfigOf(s)' = ConfigOf(s)
      BY <1>1, <1>3, <1>5, <2>1, <2>2, <2>4, DiskTypes DEF ConfigOf
    <3>2. DimsOf(s)' = DimsOf(s)
      BY <2>1, <3>1 DEF DimsOf
    <3> QED BY <1>1, <2>1, <3>1, <3>2, SameSurvives
  <2>5. CASE states[s].configRef = b.config.id
    <3>1. ConfigOf(s) = b.config /\ ConfigOf(s)' = config2
      BY <1>1, <1>3, <2>1, <2>2, <2>3, <2>5, DiskTypes DEF ConfigOf
    <3>2. DimsOf(s)' = DimsOf(s)
      BY <2>1, <2>2, <3>1 DEF DimsOf
    <3>3. MergedAt(s)' = Merge(config2, DimsOf(s), states[s])
      BY <2>1, <3>1, <3>2 DEF MergedAt
    <3>4. MergedAt(s) = Merge(b.config, DimsOf(s), states[s])
      BY <3>1 DEF MergedAt
    <3>5. Keeps(MergedAt(s), Merge(config2, DimsOf(s), states[s]))
      <4>1. /\ n.tokens \in {b.config.tokens, Tokens}
            /\ \A r \in Relations :
                 /\ b.config.relations[r] # "absent" => n.relations[r] # "absent"
                 /\ b.config.relations[r] = "deprecated" => n.relations[r] = "deprecated"
        BY <1>4 DEF Keeps, MergeOf, Merge
      <4> QED BY <1>6, <2>2, <3>4, <4>1 DEF Keeps, Merge
    <3> QED BY <1>1, <1>5, <2>1, <2>2, <3>1, <3>2, <3>3, <3>5, GainSurvives
  <2> QED BY <2>4, <2>5
<1>8. CASE PutDims(p)
  <2>1. /\ dimensions' = [dimensions EXCEPT ![dims2.id] = dims2]
        /\ states' = states /\ configs' = configs
    BY <1>8 DEF PutDims
  <2>2. /\ dims2 \in Dimensions /\ dims2.id = b.dims.id
        /\ dims2.registered = n.registered /\ dims2.members = n.members
    BY <1>2, <1>3 DEF SplitDimensions, Dimensions, Model
  <2>3. dimensions[b.dims.id] = b.dims
    BY <1>1, <1>2, <1>8 DEF ExactDocs, PutDims
  <2>4. ConfigOf(s)' = ConfigOf(s)
    BY <2>1 DEF ConfigOf
  <2> HIDE DEF dims2
  <2>5. CASE ConfigOf(s).dimensionSetRef # b.dims.id
    <3>1. DimsOf(s)' = DimsOf(s)
      BY <1>1, <1>3, <1>5, <2>1, <2>2, <2>4, <2>5, DiskTypes DEF DimsOf
    <3> QED BY <1>1, <2>1, <2>4, <3>1, SameSurvives
  <2>6. CASE ConfigOf(s).dimensionSetRef = b.dims.id
    <3>1. DimsOf(s) = b.dims /\ DimsOf(s)' = dims2
      BY <1>1, <1>3, <2>1, <2>2, <2>3, <2>4, <2>6, DiskTypes DEF DimsOf
    <3>2. MergedAt(s)' = Merge(ConfigOf(s), dims2, states[s])
      BY <2>1, <2>4, <3>1 DEF MergedAt
    <3>3. MergedAt(s) = Merge(ConfigOf(s), b.dims, states[s])
      BY <3>1 DEF MergedAt
    <3>4. Keeps(MergedAt(s), Merge(ConfigOf(s), dims2, states[s]))
      <4>1. /\ b.dims.registered => n.registered
            /\ \A x \in Members : b.dims.members[x] # "absent" => n.members[x] # "absent"
        BY <1>4 DEF Keeps, MergeOf, Merge
      <4> QED BY <1>6, <2>2, <3>3, <4>1 DEF Keeps, Merge
    <3> QED BY <1>1, <1>5, <2>1, <2>2, <2>4, <3>1, <3>2, <3>4, GainSurvives
  <2> QED BY <2>5, <2>6
<1> QED BY <1>7, <1>8

\* The state document follows: the layers are written, so what opening it
\* gives is the model of the mutation.
LEMMA PutStateSurvives ==
  ASSUME NEW named, DocsInv(named), TypeInv', NEW p \in Procs, Carries(p), PutState(p),
         NEW s \in StateIds, states[s] # None, Resolves(s)
  PROVE  Survives(s)
<1> DEFINE b == backing[p]
           n == next[p]
           config2 == SplitConfiguration(n, b.config)
           dims2 == SplitDimensions(n, b.dims)
           state2 == SplitState(n, b.state, revision[p] + 1)
<1>1. TypeInv /\ ExactDocs(p) /\ ExactState(p)
  BY DEF DocsInv, StateInv, SoleInv
<1>2. /\ phase[p] = "put.state" /\ b \in Backing /\ b # None /\ n \in Model
      /\ states' = [states EXCEPT ![state2.id] = state2]
      /\ configs' = configs /\ dimensions' = dimensions
  BY <1>1, TypesOf, NoneAssumption DEF PutState, InFlight, PutPhases
<1>3. /\ b.config \in Configuration /\ b.dims \in Dimensions /\ b.state \in State
      /\ b.state.id \in StateIds
  BY <1>2, IdsOf
<1>4. /\ Keeps(model[p], n) /\ HoldsModel(n) /\ Joined(b) /\ model[p] = MergeOf(b)
      /\ configs[b.config.id] = config2 /\ dimensions[b.dims.id] = dims2
      /\ states[b.state.id] = b.state
  BY <1>1, <1>2 DEF Carries, ExactDocs, ExactState, PutPhases, WritePhases, LoggedPhases
<1>5. /\ n = Merge(config2, dims2, state2)
      /\ config2.id = b.config.id /\ config2.dimensionSetRef = b.config.dimensionSetRef
      /\ dims2.id = b.dims.id /\ state2.configRef = b.state.configRef
      /\ state2.id = b.state.id /\ state2 \in State
      /\ config2 \in Configuration /\ dims2 \in Dimensions
  <2>1. revision[p] + 1 \in Nat
    BY <1>1, TypesOf
  <2>2. state2.id = b.state.id
    BY <1>3 DEF SplitState, State
  <2> QED BY <1>2, <1>3, <2>1, <2>2, MergeOfSplit, SplitType
<1> HIDE DEF config2, dims2, state2
<1>6. CASE s # b.state.id
  <2>1. states'[s] = states[s]
    BY <1>1, <1>2, <1>3, <1>5, <1>6, TypesOf
  <2>2. ConfigOf(s)' = ConfigOf(s)
    BY <1>2, <2>1 DEF ConfigOf
  <2>3. DimsOf(s)' = DimsOf(s)
    BY <1>2, <2>2 DEF DimsOf
  <2> QED BY <1>1, <2>1, <2>2, <2>3, SameSurvives
<1>7. CASE s = b.state.id
  <2>1. states'[s] = state2
    BY <1>1, <1>2, <1>3, <1>5, <1>7, TypesOf
  <2>2. ConfigOf(s) = config2 /\ ConfigOf(s)' = config2
    BY <1>2, <1>4, <1>5, <1>7, <2>1 DEF ConfigOf, Joined
  <2>3. DimsOf(s) = dims2 /\ DimsOf(s)' = dims2
    BY <1>2, <1>4, <1>5, <2>2 DEF DimsOf, Joined
  <2>4. MergedAt(s)' = n /\ MergedAt(s) = Merge(config2, dims2, b.state)
    BY <1>4, <1>5, <1>7, <2>1, <2>2, <2>3 DEF MergedAt
  <2>5. config2.tokens = n.tokens /\ config2.relations = n.relations
        /\ dims2.registered = n.registered /\ dims2.members = n.members
    BY <1>5 DEF Merge
  <2>6. Keeps(MergedAt(s), n)
    <3>1. \A rel \in Relations, m \in Members :
            CellGrows(b.state.cells[rel][m], n.cells[rel][m])
      BY <1>4 DEF Keeps, MergeOf, Merge
    <3> QED BY <2>4, <2>5, <3>1 DEF Keeps, Merge
  <2>7. Resolves(s)'
    <3>1. ConfigOf(s)' # None /\ DimsOf(s)' # None
      BY <1>5, <2>2, <2>3, IdsOf
    <3>2. HoldsModel(MergedAt(s))'
      BY <1>4, <2>4
    <3> QED
      BY <3>1, <3>2 DEF Resolves, HoldsModel, HoldsRelations, MergedAt, Mergeable, Merge
  <2>8. states'[s] # None
    BY <1>5, <2>1, IdsOf
  <2> QED BY <2>4, <2>6, <2>7, <2>8 DEF Survives
<1> QED BY <1>6, <1>7

\* The steps that put a document.
LEMMA DocumentsPut ==
  ASSUME Next
  PROVE  \/ UNCHANGED <<configs, dimensions, states>>
         \/ \E p \in Procs : \/ CreatePutConfig(p) \/ CreatePutDims(p) \/ CreatePutState(p)
                             \/ PutConfig(p) \/ PutDims(p) \/ PutState(p)
<1>1. PICK p \in Procs :
        \/ Start(p) \/ Step(p) \/ Fault(p)
        \/ \E r \in RequestIds : \E e \in Sendable(r) :
             Receive(p, r, e) \/ CreateReadError(p, r, e)
  BY DEF Next
<1>2. CASE Start(p) \/ Fault(p)
  BY <1>2 DEF Start, Fault, OpenError, ReplaysError, PutError, CreateAuditError,
     AuditError, Crash, disk
<1>3. CASE Step(p)
  BY <1>3 DEF Step, OpenReadConfig, OpenReadDims, OpenReadAudit, OpenFails,
     CreateAppendLine, CreateAppendAudit, AppendLine, AppendAudit, disk
<1>4. ASSUME NEW r \in RequestIds, NEW e, Receive(p, r, e) \/ CreateReadError(p, r, e)
      PROVE  UNCHANGED <<configs, dimensions, states>>
  BY <1>4 DEF Receive, CreateReadError, Create, ReplayCached, ReplayAudited, Import,
     Status, OpenExisting, OpenCreate, Refuse, NoOp, MutateEphemeral, MutatePersisted,
     disk
<1> QED
  BY <1>1, <1>2, <1>3, <1>4

LEMMA StepSurvives ==
  ASSUME NEW named, AuditedInv(named), TypeInv', [Next]_vars,
         NEW s \in StateIds, states[s] # None, Resolves(s)
  PROVE  Survives(s)
<1>1. DocsInv(named) /\ TypeInv /\ \A p \in Procs : Carries(p)
  BY DEF AuditedInv, DocsInv, StateInv, SoleInv
<1>2. CASE UNCHANGED <<configs, dimensions, states>>
  <2>1. ConfigOf(s)' = ConfigOf(s) /\ DimsOf(s)' = DimsOf(s)
    BY <1>2 DEF ConfigOf, DimsOf
  <2> QED BY <1>1, <1>2, <2>1, SameSurvives
<1>3. CASE \E p \in Procs : \/ CreatePutConfig(p) \/ CreatePutDims(p) \/ CreatePutState(p)
                            \/ PutConfig(p) \/ PutDims(p) \/ PutState(p)
  BY <1>1, <1>3, CreateSurvives, PutLayerSurvives, PutStateSurvives
<1> QED
  BY <1>2, <1>3, DocumentsPut DEF vars, disk

\* A state that is new is put on documents that were there or put before it.
LEMMA ReopensNext ==
  ASSUME NEW named, AuditedInv(named), Reopens, TypeInv', [Next]_vars
  PROVE  Reopens'
<1> SUFFICES ASSUME NEW s \in StateIds, states'[s] # None
             PROVE  Resolves(s)'
  BY DEF Reopens
<1>1. DocsInv(named) /\ SoleInv /\ TypeInv
  BY DEF AuditedInv, DocsInv, StateInv, SoleInv
<1>2. CASE states[s] # None
  BY <1>2, StepSurvives DEF Reopens, Survives
<1>3. CASE states[s] = None
  <2>1. PICK p \in Procs : CreatePutState(p) \/ PutState(p)
    BY <1>3, StatesWritten DEF vars, disk
  <2>2. CASE CreatePutState(p)
    <3> DEFINE d == docs[p]
    <3>1. /\ phase[p] = "create.state"
          /\ states' = [states EXCEPT ![d.state.id] = d.state]
          /\ configs' = configs /\ dimensions' = dimensions
      BY <2>2 DEF CreatePutState
    <3>2. d \in Backing
      BY <1>1, <3>1, TypesOf DEF InFlight
    <3>3. /\ Joined(d) /\ HoldsModel(MergeOf(d))
          /\ configs[d.config.id] = d.config /\ dimensions[d.dims.id] = d.dims
      BY <1>1, <3>1 DEF DocsInv, DocsJoined, EarlyPhases
    <3>4. s = d.state.id /\ states'[s] = d.state
      BY <1>1, <1>3, <3>1, <3>2, TypesOf, IdsOf
    <3>5. ConfigOf(s)' = d.config /\ DimsOf(s)' = d.dims
      BY <3>1, <3>3, <3>4 DEF ConfigOf, DimsOf, Joined
    <3>6. d.config # None /\ d.dims # None
      BY <3>2, IdsOf
    <3>7. MergedAt(s)' = MergeOf(d)
      BY <3>4, <3>5 DEF MergedAt, MergeOf
    <3>8. HoldsModel(MergedAt(s))'
      BY <3>3, <3>7
    <3> HIDE DEF d
    <3> QED
      BY <3>5, <3>6, <3>8 DEF Resolves, HoldsModel, HoldsRelations, MergedAt, Mergeable,
         Merge
  <2>3. CASE PutState(p)
    <3> DEFINE new == SplitState(next[p], backing[p].state, revision[p] + 1)
    <3>1. phase[p] = "put.state" /\ states' = [states EXCEPT ![new.id] = new]
      BY <2>3 DEF PutState
    <3>2. backing[p] \in Backing /\ backing[p] # None
      BY <1>1, <3>1, TypesOf DEF InFlight, PutPhases
    <3>3. new.id = backing[p].state.id /\ backing[p].state.id \in StateIds
      BY <3>2, IdsOf DEF SplitState, State
    <3>4. states[backing[p].state.id] # None
      BY <1>1, <3>2 DEF SoleInv, Sole, OpenState
    <3> HIDE DEF new
    <3> QED BY <1>1, <1>3, <3>1, <3>3, <3>4, TypesOf
  <2> QED BY <2>1, <2>2, <2>3
<1> QED BY <1>2, <1>3

-----------------------------------------------------------------------------
(* What a command in flight carries *)

\* A step of the command in flight, up to its last file.
LEMMA OnwardCarries ==
  ASSUME NEW p \in Procs, Carries(p), sent' = sent,
         current'[p] = current[p], next'[p] = next[p], model'[p] = model[p],
         phase[p] \notin {"idle", "down"},
         phase'[p] \in ReadPhases \cup EarlyPhases \cup LatePhases =>
           phase[p] \in ReadPhases \cup EarlyPhases \cup LatePhases,
         phase'[p] \in WritePhases => phase[p] \in WritePhases,
         phase'[p] \in PutPhases => phase[p] \in PutPhases
  PROVE  Carries(p)'
BY DEF Carries

LEMMA DoneCarries ==
  ASSUME NEW p \in Procs, phase'[p] \in {"idle", "down"}
  PROVE  Carries(p)'
BY DEF Carries, ReadPhases, EarlyPhases, LatePhases, WritePhases, PutPhases, LoggedPhases

LEMMA ArrivesCarries ==
  ASSUME NEW named, AuditedInv(named), WholeScale, NEW p \in Procs,
         NEW r \in RequestIds, NEW e, Receive(p, r, e)
  PROVE  Carries(p)'
<1>1. TypeInv /\ SentInv /\ ExactDocs(p)
  BY DEF AuditedInv, DocsInv, StateInv, SoleInv
<1>2. Arrives(p, r, e)
  BY DEF Receive, Create, ReplayCached, ReplayAudited, Import, Status, OpenExisting,
     OpenCreate, Refuse, NoOp, MutateEphemeral, MutatePersisted, Mutates, Dispatches
<1>3. /\ phase[p] = "idle" /\ sent'[r] = e /\ e \in Envelope /\ e.op \in Op
      /\ e.op \in Commands[r] /\ e # None
  <2>1. sent' = [sent EXCEPT ![r] = e] /\ phase[p] = "idle" /\ e \in Envelope
    <3>1. Envelopes(r) \subseteq Envelope
      BY CommandsAssumption, SessionAssumption
         DEF Envelopes, Envelope, CommandsAssumption, SessionAssumption
    <3> QED BY <1>1, <1>2, <3>1 DEF Arrives, TypeInv, TypeOK, ClientOK
  <2>2. sent'[r] = e
    BY <1>1, <2>1 DEF TypeInv, TypeOK, ClientOK
  <2>3. e.op \in Commands[r]
    BY <1>1, <1>2 DEF Arrives, Envelopes, SentInv
  <2> QED BY <2>1, <2>2, <2>3, NoneAssumption DEF Envelope, NoneAssumption
<1>4. CASE UNCHANGED flight
  BY <1>3, <1>4, DoneCarries DEF flight
<1>5. CASE OpenExisting(p, r, e) \/ OpenCreate(p, r, e)
  <2>1. /\ phase'[p] \in ReadPhases \cup EarlyPhases /\ current'[p] = r
        /\ e.op.kind = "model.open"
    BY <1>1, <1>5, TypesOf DEF OpenExisting, OpenCreate, Create, ReadPhases, EarlyPhases
  <2> QED
    BY <1>3, <2>1 DEF Carries, ReadPhases, EarlyPhases, LatePhases, WritePhases,
       PutPhases, LoggedPhases
<1>6. CASE MutatePersisted(p, r, e)
  <2>1. /\ Mutates(p, r, e) /\ Accepts(p, r, e) /\ model' = model
        /\ current'[p] = r /\ next'[p] = Written(model[p], e.op, r)
        /\ phase'[p] \in PutPhases
    BY <1>1, <1>6, TypesOf DEF MutatePersisted, PutPhases, session
  <2>2. e.op \in MutationOp
    BY <1>3, <2>1 DEF Mutates, Op, OpenOp
  <2>3. model[p] \in Model /\ Admissible(model[p], e.op)
    BY <1>1, <2>1, TypesOf DEF Accepts, Succeeds
  <2>4. Effect(next'[p], r, e.op)
    BY <2>1, <2>2, <2>3, WrittenEffect
  <2>5. Keeps(model[p], next'[p])
    <3>1. e.op.kind = "scale.declare" => e.op.tokens = Tokens
      BY <1>3 DEF WholeScale
    <3> QED BY <2>1, <2>2, <2>3, <3>1, WrittenKeeps
  <2> QED
    BY <1>3, <2>1, <2>4, <2>5 DEF Carries, ReadPhases, EarlyPhases, LatePhases,
       WritePhases, PutPhases, LoggedPhases
<1> QED
  BY <1>4, <1>5, <1>6 DEF Receive, ReplayCached, ReplayAudited, Import, Status, Refuse,
     NoOp, MutateEphemeral

LEMMA CarriesNext ==
  ASSUME OneProcess, MaxFaults = 0, WholeScale, NEW named, AuditedInv(named), [Next]_vars,
         NEW q \in Procs
  PROVE  Carries(q)'
<1>1. TypeInv /\ Carries(q)
  BY DEF AuditedInv, DocsInv, StateInv, SoleInv
<1>2. CASE UNCHANGED vars
  BY <1>1, <1>2 DEF vars, session, flight, client, Carries
<1>3. CASE Next
  <2>1. PICK p \in Procs :
          \/ Start(p) \/ Step(p) \/ Fault(p)
          \/ \E r \in RequestIds : \E e \in Sendable(r) :
               Receive(p, r, e) \/ CreateReadError(p, r, e)
    BY <1>3 DEF Next
  <2>2. q = p /\ ~ Faulty
    BY <1>1 DEF OneProcess, Faulty, TypeInv, TypeOK, BoundsOK
  <2>3. CASE \E r \in RequestIds : \E e \in Sendable(r) :
               Receive(p, r, e) \/ CreateReadError(p, r, e)
    BY <2>2, <2>3, ArrivesCarries DEF CreateReadError
  <2>4. CASE Start(p) \/ Fault(p)
    <3>1. Start(p) \/ Crash(p)
      BY <2>2, <2>4 DEF Fault, OpenError, ReplaysError, PutError, CreateAuditError,
         AuditError
    <3>2. phase'[p] \in {"idle", "down"}
      BY <1>1, <2>2, <3>1, TypesOf DEF Start, Crash
    <3> QED BY <2>2, <3>2, DoneCarries
  <2>5. CASE Step(p)
    <3>1. CASE Lands(p)
      <4>1. phase'[p] = "idle"
        BY <1>1, <2>2, <3>1, TypesOf DEF Lands
      <4> QED BY <2>2, <4>1, DoneCarries
    <3> USE DEF ReadPhases, EarlyPhases, LatePhases, WritePhases, PutPhases, LoggedPhases
    <3>2. CASE \/ OpenReadConfig(p) \/ OpenReadDims(p) \/ CreatePutConfig(p)
               \/ CreatePutDims(p) \/ CreatePutState(p) \/ CreateAppendLine(p)
      <4>1. CASE ~ OpenFails(p)
        <5>1. /\ phase[p] \in ReadPhases \cup EarlyPhases \cup LatePhases
              /\ phase'[p] \in ReadPhases \cup EarlyPhases \cup LatePhases
              /\ UNCHANGED <<sent, current, next, model>>
          BY <1>1, <2>2, <3>2, <4>1, TypesOf DEF OpenReadConfig, OpenReadDims,
             CreatePutConfig, CreatePutDims, CreatePutState, CreateAppendLine, client, session
        <5> QED BY <1>1, <2>2, <5>1, OnwardCarries
      <4> QED BY <3>1, <4>1 DEF OpenFails
    <3>3. CASE PutConfig(p) \/ PutDims(p) \/ PutState(p) \/ AppendLine(p)
      <4>1. /\ phase[p] \in WritePhases /\ phase'[p] \in WritePhases
            /\ phase'[p] \in PutPhases => phase[p] \in PutPhases
            /\ UNCHANGED <<sent, current, next, model>>
        BY <1>1, <2>2, <3>3, TypesOf DEF PutConfig, PutDims, PutState, AppendLine, client,
           session
      <4> QED BY <1>1, <2>2, <4>1, OnwardCarries
    <3> QED
      BY <2>5, <3>1, <3>2, <3>3 DEF Step, OpenReadAudit, CreateAppendAudit, AppendAudit
  <2> QED BY <2>1, <2>3, <2>4, <2>5
<1> QED BY <1>2, <1>3

-----------------------------------------------------------------------------
(* What is in the log is in the documents *)

\* The line of the command in flight in p, on state s.
Due(p, s, line) ==
  \/ phase[p] = "put.audit" /\ s = backing[p].state.id /\ line = MutationLine(p)
  \/ phase[p] = "create.audit" /\ s = docs[p].state.id /\ line = CreateLine(p)

\* A step leaves the lines that are there, and adds that of a command whose
\* documents are all written.
LEMMA LinesNext ==
  ASSUME TypeInv, MaxFaults = 0, [Next]_vars, NEW s \in StateIds,
         NEW i \in 1 .. Len(Lines(s)')
  PROVE  \/ i \in 1 .. Len(Lines(s)) /\ Lines(s)'[i] = Lines(s)[i]
         \/ \E p \in Procs : Due(p, s, Lines(s)'[i])
<1>1. CASE Lines(s)' = Lines(s)
  BY <1>1
<1>2. ASSUME NEW p \in Procs, NEW t \in StateIds, NEW line \in Line, Due(p, t, line),
             NEW log \in {Appended(audit[t], line), LineWritten(audit[t], line)}
                           \cup Killed(audit[t], line),
             audit' = [audit EXCEPT ![t] = log]
      PROVE  \/ i \in 1 .. Len(Lines(s)) /\ Lines(s)'[i] = Lines(s)[i]
             \/ \E q \in Procs : Due(q, s, Lines(s)'[i])
  <2>1. CASE s # t
    <3>1. Lines(s)' = Lines(s)
      BY <1>2, <2>1, TypesOf DEF Lines
    <3> QED BY <1>1, <3>1
  <2>2. CASE s = t
    <3>1. audit[s] \in AuditFile /\ Lines(s) \in Seq(Line)
      BY TypesOf, <1>2 DEF Lines, AuditFile
    <3>2. Lines(s)' = log.lines
      BY <1>2, <2>2, TypesOf DEF Lines
    <3>3. log.lines \in {Lines(s), Append(Lines(s), line)}
      BY <1>2, <2>2, <3>1, LinesAppended DEF Lines
    <3>4. CASE log.lines = Append(Lines(s), line)
      <4>1. /\ Len(Append(Lines(s), line)) = Len(Lines(s)) + 1 /\ Len(Lines(s)) \in Nat
            /\ Append(Lines(s), line)[Len(Lines(s)) + 1] = line
            /\ \A j \in 1 .. Len(Lines(s)) : Append(Lines(s), line)[j] = Lines(s)[j]
        BY <3>1, AppendProperties, LenProperties
      <4>2. i \in 1 .. Len(Lines(s)) \/ i = Len(Lines(s)) + 1
        BY <3>2, <3>4, <4>1
      <4> QED BY <1>2, <2>2, <3>2, <3>4, <4>1, <4>2
    <3> QED BY <1>1, <3>2, <3>3, <3>4
  <2> QED BY <2>1, <2>2
<1>3. ASSUME NEW p \in Procs, phase[p] = "put.audit"
      PROVE  backing[p].state.id \in StateIds /\ MutationLine(p) \in Line
  <2>1. current[p] \in RequestIds /\ backing[p] \in Backing
    BY <1>3, TypesOf DEF InFlight
  <2> QED BY <2>1, IdsOf, TypesOf DEF MutationLine, Line
<1>4. ASSUME NEW p \in Procs, phase[p] = "create.audit"
      PROVE  docs[p].state.id \in StateIds /\ CreateLine(p) \in Line
  <2>1. current[p] \in RequestIds /\ docs[p] \in Backing
    BY <1>4, TypesOf DEF InFlight
  <2> QED BY <2>1, IdsOf DEF CreateLine, Line
<1>5. CASE UNCHANGED audit
  BY <1>1, <1>5 DEF Lines
<1>6. ASSUME NEW p \in Procs, AppendLine(p) \/ CreateAppendLine(p)
      PROVE  \/ i \in 1 .. Len(Lines(s)) /\ Lines(s)'[i] = Lines(s)[i]
             \/ \E q \in Procs : Due(q, s, Lines(s)'[i])
  <2>1. CASE AppendLine(p)
    BY <1>2, <1>3, <2>1 DEF AppendLine, Due
  <2>2. CASE CreateAppendLine(p)
    BY <1>2, <1>4, <2>2 DEF CreateAppendLine, Due
  <2> QED BY <1>6, <2>1, <2>2
<1>7. ASSUME NEW p \in Procs, NEW t \in StateIds,
             audit' = [audit EXCEPT ![t] = Terminated(audit[t])]
      PROVE  Lines(s)' = Lines(s)
  <2>1. audit[t] \in AuditFile
    BY TypesOf
  <2>2. Terminated(audit[t]).lines = audit[t].lines
    BY <2>1 DEF Terminated, AuditFile
  <2> QED BY <1>7, <2>2, TypesOf DEF Lines
<1>8. ASSUME NEW p \in Procs, AppendAudit(p) \/ CreateAppendAudit(p)
      PROVE  \/ i \in 1 .. Len(Lines(s)) /\ Lines(s)'[i] = Lines(s)[i]
             \/ \E q \in Procs : Due(q, s, Lines(s)'[i])
  <2>1. CASE AppendAudit(p) /\ phase[p] = "put.audit"
    BY <1>2, <1>3, <2>1 DEF AppendAudit, Due
  <2>2. CASE CreateAppendAudit(p) /\ phase[p] = "create.audit"
    BY <1>2, <1>4, <2>2 DEF CreateAppendAudit, Due
  <2>3. CASE AppendAudit(p) /\ phase[p] # "put.audit"
    <3>1. phase[p] = "put.newline" /\ backing[p] \in Backing
      BY <2>3, TypesOf DEF AppendAudit, InFlight
    <3>2. audit' = [audit EXCEPT ![backing[p].state.id] = Terminated(audit[backing[p].state.id])]
      BY <2>3 DEF AppendAudit
    <3> QED BY <1>1, <1>7, <3>1, <3>2, IdsOf
  <2>4. CASE CreateAppendAudit(p) /\ phase[p] # "create.audit"
    <3>1. phase[p] = "create.newline" /\ docs[p] \in Backing
      BY <2>4, TypesOf DEF CreateAppendAudit, InFlight
    <3>2. audit' = [audit EXCEPT ![docs[p].state.id] = Terminated(audit[docs[p].state.id])]
      BY <2>4 DEF CreateAppendAudit
    <3> QED BY <1>1, <1>7, <3>1, <3>2, IdsOf
  <2> QED BY <1>8, <2>1, <2>2, <2>3, <2>4
<1>9. ASSUME NEW p \in Procs, Crash(p)
      PROVE  \/ i \in 1 .. Len(Lines(s)) /\ Lines(s)'[i] = Lines(s)[i]
             \/ \E q \in Procs : Due(q, s, Lines(s)'[i])
  <2>1. CrashLog(p)
    BY <1>9 DEF Crash
  <2>2. CASE phase[p] = "put.audit"
    BY <1>2, <1>3, <2>1, <2>2 DEF CrashLog, Due
  <2>3. CASE phase[p] = "create.audit"
    BY <1>2, <1>4, <2>1, <2>3 DEF CrashLog, Due
  <2>4. CASE phase[p] \notin {"put.audit", "create.audit"}
    BY <1>5, <2>1, <2>4 DEF CrashLog
  <2> QED BY <2>2, <2>3, <2>4
<1>10. CASE Next
  <2>1. PICK p \in Procs :
          \/ Start(p) \/ Step(p) \/ Fault(p)
          \/ \E r \in RequestIds : \E e \in Sendable(r) :
               Receive(p, r, e) \/ CreateReadError(p, r, e)
    BY <1>10 DEF Next
  <2>2. ~ Faulty
    BY DEF Faulty, TypeInv, TypeOK, BoundsOK
  <2>3. CASE \E r \in RequestIds : \E e \in Sendable(r) :
               Receive(p, r, e) \/ CreateReadError(p, r, e)
    <3>1. UNCHANGED audit
      BY <2>3 DEF Receive, CreateReadError, Create, ReplayCached, ReplayAudited, Import,
         Status, OpenExisting, OpenCreate, Refuse, NoOp, MutateEphemeral, MutatePersisted,
         disk
    <3> QED BY <1>5, <3>1
  <2>4. CASE Start(p) \/ Fault(p)
    <3>1. Start(p) \/ Crash(p)
      BY <2>2, <2>4 DEF Fault, OpenError, ReplaysError, PutError, CreateAuditError,
         AuditError
    <3> QED BY <1>5, <1>9, <3>1 DEF Start, disk
  <2>5. CASE Step(p)
    <3>1. CASE \/ OpenReadConfig(p) \/ OpenReadDims(p) \/ OpenReadAudit(p)
               \/ CreatePutConfig(p) \/ CreatePutDims(p) \/ CreatePutState(p)
               \/ PutConfig(p) \/ PutDims(p) \/ PutState(p)
      <4>1. UNCHANGED audit
        BY <3>1 DEF OpenReadConfig, OpenReadDims, OpenReadAudit, OpenFails,
           CreatePutConfig, CreatePutDims, CreatePutState, PutConfig, PutDims, PutState,
           disk
      <4> QED BY <1>5, <4>1
    <3> QED BY <2>5, <1>6, <1>8, <3>1 DEF Step
  <2> QED BY <2>1, <2>3, <2>4, <2>5
<1> QED BY <1>5, <1>10 DEF vars, disk

LEMMA SentIsKept ==
  ASSUME TypeInv, [Next]_vars, NEW r \in RequestIds, sent[r] # None
  PROVE  sent'[r] = sent[r]
<1>1. ASSUME NEW p \in Procs, NEW q \in RequestIds, NEW e, Arrives(p, q, e)
      PROVE  sent'[r] = sent[r]
  BY <1>1 DEF Arrives, TypeInv, TypeOK, ClientOK
<1>2. sent' = sent \/ \E p \in Procs, q \in RequestIds : \E e : Arrives(p, q, e)
  <2>1. CASE UNCHANGED vars
    BY <2>1 DEF vars, client
  <2>2. ASSUME NEW p \in Procs, Start(p) \/ Fault(p)
        PROVE  sent' = sent
    BY <2>2 DEF Start, Fault, OpenError, ReplaysError, PutError, CreateAuditError,
       AuditError, Crash, client
  <2>3. ASSUME NEW p \in Procs, Step(p)
        PROVE  sent' = sent
    BY <2>3 DEF Step, OpenReadConfig, OpenReadDims, OpenReadAudit, OpenFails,
       CreatePutConfig, CreatePutDims, CreatePutState, CreateAppendLine,
       CreateAppendAudit, PutConfig, PutDims, PutState, AppendLine, AppendAudit, client
  <2>4. ASSUME NEW p \in Procs, NEW q \in RequestIds, NEW e,
               Receive(p, q, e) \/ CreateReadError(p, q, e)
        PROVE  Arrives(p, q, e)
    BY <2>4 DEF Receive, CreateReadError, Create, ReplayCached, ReplayAudited, Import,
       Status, OpenExisting, OpenCreate, Refuse, NoOp, MutateEphemeral, MutatePersisted,
       Mutates, Dispatches
  <2> QED BY <2>1, <2>2, <2>3, <2>4 DEF Next
<1> QED BY <1>1, <1>2

\* What a line stands for stays in the documents.
LEMMA AuditedStays ==
  ASSUME NEW named, AuditedInv(named), TypeInv', [Next]_vars,
         NEW s \in StateIds, NEW line \in Line, Audited(s, line)
  PROVE  Audited(s, line)'
<1> DEFINE r == line.request
           op == sent[r].op
           m == MergedAt(s)'
<1>1. TypeInv /\ r \in RequestIds
  BY DEF AuditedInv, DocsInv, StateInv, SoleInv, Line
<1>2. /\ states[s] # None /\ Resolves(s) /\ sent[r] # None /\ Stored(s, r, op)
  BY DEF Audited
<1>3. sent'[r] = sent[r]
  BY <1>1, <1>2, SentIsKept
<1>4. Survives(s)
  BY <1>2, StepSurvives
<1>5. MergedAt(s) \in Model /\ Keeps(MergedAt(s), m) /\ states'[s] # None /\ Resolves(s)'
  BY <1>1, <1>2, <1>4, MergedType DEF Survives
<1>6. m \in Model
  <2>1. states'[s] \in State
    BY <1>5 DEF TypeInv, TypeOK, DiskOK
  <2>2. states'[s].configRef \in ConfigIds
    BY <2>1 DEF State
  <2>3. ConfigOf(s)' \in Configuration
    BY <1>5, <2>2 DEF Resolves, ConfigOf, TypeInv, TypeOK, DiskOK
  <2>4. ConfigOf(s)'.dimensionSetRef \in DimSetIds
    BY <2>3 DEF Configuration
  <2>5. DimsOf(s)' \in Dimensions
    BY <1>5, <2>4 DEF Resolves, DimsOf, TypeInv, TypeOK, DiskOK
  <2> QED BY <2>1, <2>3, <2>5, MergeType DEF MergedAt
<1>7. op \in Op
  BY <1>1, <1>2 DEF TypeInv, TypeOK, ClientOK, Envelope
<1>8. Effect(MergedAt(s), r, op)
  BY <1>2, StoredIs
<1> HIDE DEF m, op
<1>9. Effect(m, r, op)
  BY <1>5, <1>6, <1>7, <1>8, KeepsEffect
<1>10. Stored(s, r, op)'
  BY <1>3, <1>9, ZenonT(30) DEF Stored, Effect, MergedAt, Merge, m, op
<1> QED BY <1>2, <1>3, <1>5, <1>10 DEF Audited, op

\* A command appends its line when its documents are written.
LEMMA DueIsAudited ==
  ASSUME NEW named, AuditedInv(named), NEW p \in Procs, NEW s \in StateIds,
         NEW line \in Line, Due(p, s, line)
  PROVE  Audited(s, line)
<1>1. /\ TypeInv /\ SoleInv /\ ExactState(p) /\ ExactDocs(p) /\ DocsJoined(p)
      /\ Carries(p)
  BY DEF AuditedInv, DocsInv, StateInv, SoleInv
<1>2. sent[current[p]] # None /\ line.request = current[p]
  BY <1>1 DEF Due, Carries, MutationLine, CreateLine
<1>3. CASE phase[p] = "put.audit" /\ s = backing[p].state.id
  <2> DEFINE b == backing[p]
  <2>1. b # None /\ b \in Backing
    BY <1>1, <1>3, TypesOf DEF InFlight
  <2>2. /\ Joined(b) /\ next[p] = MergeOf(b) /\ HoldsModel(next[p])
        /\ configs[b.config.id] = b.config /\ dimensions[b.dims.id] = b.dims
        /\ states[s] = b.state /\ states[s] # None
    BY <1>1, <1>3, <2>1 DEF ExactDocs, ExactState, LoggedPhases, WritePhases, SoleInv, Sole,
       OpenState
  <2>3. ConfigOf(s) = b.config /\ DimsOf(s) = b.dims /\ MergedAt(s) = next[p]
    BY <2>2 DEF MergedAt, MergeOf, ConfigOf, DimsOf, Joined
  <2>4. Effect(next[p], current[p], sent[current[p]].op)
    BY <1>1, <1>3 DEF Carries, WritePhases, LoggedPhases
  <2>5. Resolves(s)
    BY <2>1, <2>2, <2>3, IdsOf, ResolvesIs
  <2> QED BY <1>2, <2>2, <2>3, <2>4, <2>5, StoredIs DEF Audited
<1>4. CASE phase[p] = "create.audit" /\ s = docs[p].state.id
  <2>1. docs[p] \in Backing
    BY <1>1, <1>4, TypesOf DEF InFlight
  <2>2. states[s] # None /\ states[s] = docs[p].state
    BY <1>1, <1>4, <2>1, IdsOf DEF SoleInv, Sole, DocsInHand, LatePhases
  <2>3. sent[current[p]].op.kind = "model.open"
    BY <1>1, <1>4 DEF Carries, LatePhases
  <2>4. Resolves(s)
    <3> DEFINE d == docs[p]
    <3>1. /\ Joined(d) /\ HoldsModel(MergeOf(d))
          /\ configs[d.config.id] = d.config /\ dimensions[d.dims.id] = d.dims
      BY <1>1, <1>4 DEF DocsJoined, LatePhases
    <3>2. ConfigOf(s) = d.config /\ DimsOf(s) = d.dims /\ MergedAt(s) = MergeOf(d)
      BY <2>2, <3>1 DEF MergedAt, MergeOf, ConfigOf, DimsOf, Joined
    <3> QED BY <2>1, <3>1, <3>2, IdsOf, ResolvesIs
  <2> QED BY <1>2, <2>2, <2>3, <2>4 DEF Audited, Stored
<1> QED BY <1>3, <1>4 DEF Due

LEMMA LineType ==
  ASSUME TypeInv', NEW s \in StateIds, NEW i \in 1 .. Len(Lines(s)')
  PROVE  Lines(s)'[i] \in Line
<1>1. Lines(s)' \in Seq(Line)
  BY DEF TypeInv, TypeOK, DiskOK, AuditFile, Lines
<1> QED BY <1>1, ElementOfSeq

LEMMA AuditedNext ==
  ASSUME OneProcess, MaxFaults = 0, WholeScale, NEW named, OwnDimensions(named),
         AuditedInv(named), [Next]_vars
  PROVE  AuditedInv(named)'
<1>1. DocsInv(named)' /\ TypeInv' /\ TypeInv
  BY DocsNext DEF AuditedInv, DocsInv, StateInv, SoleInv
<1>2. \A p \in Procs : Carries(p)'
  BY CarriesNext
<1>3. ASSUME NEW s \in StateIds, NEW i \in 1 .. Len(Lines(s)'),
             NEW line, line = Lines(s)'[i]
      PROVE  Audited(s, line)'
  <2>1. line \in Line
    BY <1>1, <1>3, LineType
  <2>2. CASE i \in 1 .. Len(Lines(s)) /\ line = Lines(s)[i]
    BY <1>1, <2>1, <2>2, AuditedStays DEF AuditedInv
  <2>3. CASE \E p \in Procs : Due(p, s, line)
    BY <1>1, <2>1, <2>3, DueIsAudited, AuditedStays
  <2> QED BY <1>1, <1>3, <2>2, <2>3, LinesNext
<1>4. \A s \in StateIds : \A i \in 1 .. Len(Lines(s)') : Audited(s, Lines(s)[i])'
  BY <1>3, ZenonT(30) DEF Audited, Stored, Lines
<1> QED BY <1>1, <1>2, <1>4 DEF AuditedInv

LEMMA AuditedInit ==
  ASSUME NEW named, OwnDimensions(named), Init
  PROVE  AuditedInv(named)
<1>1. DocsInv(named)
  BY DocsInit
<1>2. \A p \in Procs : Carries(p)
  BY DEF Init, Carries, ReadPhases, EarlyPhases, LatePhases, WritePhases, PutPhases,
     LoggedPhases
<1>3. \A s \in StateIds : Len(Lines(s)) = 0
  BY EmptySeq DEF Init, Lines
<1> QED BY <1>1, <1>2, <1>3 DEF AuditedInv

-----------------------------------------------------------------------------
(* The theorems *)

\* Once a request has its line in the audit log of a state, opening that state
\* succeeds and gives what the request did, whatever comes after: its files are
\* all written before its line, and no later write, of this or of another state
\* over the same documents, takes anything back (apply_mutation, merge::split,
\* write.rs).
THEOREM AuditedStaysStored ==
  ASSUME OneProcess, MaxFaults = 0, WholeScale, NEW named, OwnDimensions(named)
  PROVE  Spec => []AuditedIsStored
<1>1. AuditedInv(named) => AuditedIsStored
  BY DEF AuditedInv, Audited, AuditedIsStored
<1> QED BY <1>1, AuditedInit, AuditedNext, PTL DEF Spec

\* Every state on disk can be opened at every moment, if every committed one
\* can, wherever the process is killed between the files of a command: a layer
\* only gains, and is put before the layer that needs it (open_model,
\* apply_mutation).
THEOREM StatesReopen ==
  ASSUME OneProcess, MaxFaults = 0, WholeScale, NEW named, OwnDimensions(named),
         CommittedResolves
  PROVE  Spec => []Reopens
<1>1. Init => Reopens
  <2> SUFFICES ASSUME Init, NEW s \in StateIds, states[s] # None PROVE Resolves(s)
    BY DEF Reopens
  <2>1. ConfigOf(s) # None /\ DimsOf(s) # None /\ HoldsModel(MergedAt(s))
    BY DEF Init, CommittedResolves, ConfigOf, DimsOf, MergedAt
  <2> QED BY <2>1, ResolvesIs
<1>2. AuditedInv(named) /\ Reopens /\ [Next]_vars => Reopens'
  <2>1. AuditedInv(named) /\ [Next]_vars => TypeInv'
    BY AuditedNext DEF AuditedInv, DocsInv, StateInv, SoleInv
  <2> QED BY <2>1, ReopensNext
<1> QED BY <1>1, <1>2, AuditedInit, AuditedNext, PTL DEF Spec

-----------------------------------------------------------------------------
(* The refinement of DurableModel: the inductive invariant *)

\* Every state has a configuration and dimensions of its own, on disk if the
\* state is there at the start, and named by every model.open of it.
OwnDocuments(base, named) ==
  /\ \A s, t \in StateIds :
       s # t => base[s] # base[t] /\ named[base[s]] # named[base[t]]
  /\ \A s \in StateIds : Committed.states[s] # None =>
       /\ Committed.states[s].configRef = base[s]
       /\ Committed.configs[base[s]] # None
       /\ Committed.dimensions[named[base[s]]] # None
  /\ \A r \in RequestIds : \A op \in Commands[r] :
       op.kind = "model.open" => op.config = base[op.state]

\* A state on disk is on its configuration, which is there.
Based(base) ==
  \A s \in StateIds : states[s] # None =>
    states[s].configRef = base[s] /\ configs[base[s]] # None

\* A mutation in flight has built what its op writes, and it is not nothing.
Builds(p) ==
  phase[p] \in WritePhases =>
    LET op == sent[current[p]].op
    IN  /\ sent[current[p]] # None
        /\ op \in MutationOp
        /\ Succeeds(model[p], op, current[p])
        /\ next[p] = Written(model[p], op, current[p])
        /\ next[p] # model[p]

\* A state that is created has no cells, and is put on its configuration.
Founds(p, base) ==
  phase[p] \in EarlyPhases \cup LatePhases =>
    docs[p].state.cells = NoCells /\ docs[p].state.configRef = base[docs[p].state.id]

RefinementInv(base, named) ==
  /\ DocsInv(named) /\ RequestInv /\ Based(base)
  /\ \A p \in Procs : Builds(p) /\ Founds(p, base)

LEMMA RefinementParts ==
  ASSUME NEW base, NEW named, RefinementInv(base, named)
  PROVE  /\ TypeInv /\ SentInv /\ Named(named) /\ Based(base)
         /\ \A p \in Procs :
              /\ Sole(p) /\ ExactState(p) /\ ExactDocs(p) /\ DocsJoined(p)
              /\ CreatesNamed(p, named) /\ FirstLine(p)
              /\ Builds(p) /\ Founds(p, base)
BY DEF RefinementInv, DocsInv, StateInv, SoleInv, RequestInv

\* A step of the command in flight, up to its last file.
LEMMA OnwardFlight ==
  ASSUME NEW base, NEW p \in Procs, Builds(p), Founds(p, base), sent' = sent,
         current'[p] = current[p], next'[p] = next[p], model'[p] = model[p],
         docs'[p].state = docs[p].state,
         phase'[p] \in WritePhases => phase[p] \in WritePhases,
         phase'[p] \in EarlyPhases \cup LatePhases =>
           phase[p] \in EarlyPhases \cup LatePhases
  PROVE  Builds(p)' /\ Founds(p, base)'
BY DEF Builds, Founds

LEMMA DoneFlight ==
  ASSUME NEW base, NEW p \in Procs, phase'[p] \in {"idle", "down"} \cup ReadPhases
  PROVE  Builds(p)' /\ Founds(p, base)'
BY DEF Builds, Founds, ReadPhases, EarlyPhases, LatePhases, WritePhases, PutPhases,
   LoggedPhases

LEMMA ArrivesFlight ==
  ASSUME NEW base, NEW named, OwnDocuments(base, named), RefinementInv(base, named),
         NEW p \in Procs, NEW r \in RequestIds, NEW e, Receive(p, r, e)
  PROVE  Builds(p)' /\ Founds(p, base)'
<1>1. TypeInv /\ SentInv
  BY RefinementParts
<1>2. Arrives(p, r, e)
  BY DEF Receive, Create, ReplayCached, ReplayAudited, Import, Status, OpenExisting,
     OpenCreate, Refuse, NoOp, MutateEphemeral, MutatePersisted, Mutates, Dispatches
<1>3. /\ phase[p] = "idle" /\ sent'[r] = e /\ e # None
      /\ e.op \in Op /\ e.op \in Commands[r]
  <2>1. sent' = [sent EXCEPT ![r] = e] /\ phase[p] = "idle"
    BY <1>2 DEF Arrives
  <2>2. sent'[r] = e
    BY <1>1, <2>1 DEF TypeInv, TypeOK, ClientOK
  <2>3. e.op \in Commands[r]
    BY <1>1, <1>2 DEF Arrives, Envelopes, SentInv
  <2>4. Envelopes(r) \subseteq Envelope
    BY CommandsAssumption, SessionAssumption
       DEF Envelopes, Envelope, CommandsAssumption, SessionAssumption
  <2>5. e # None
    BY <1>2, <2>4, NoneAssumption DEF Arrives, NoneAssumption
  <2> QED BY <2>1, <2>2, <2>3, <2>5, CommandsAssumption DEF CommandsAssumption
<1>4. CASE UNCHANGED flight
  BY <1>3, <1>4, DoneFlight DEF flight
<1>5. CASE OpenExisting(p, r, e)
  <2>1. phase'[p] = "open.config"
    BY <1>1, <1>5, TypesOf DEF OpenExisting
  <2> QED BY <2>1, DoneFlight DEF ReadPhases
<1>6. CASE OpenCreate(p, r, e)
  <2>1. /\ phase'[p] = "create.config" /\ e.op.kind = "model.open"
        /\ docs'[p].state = EmptyState(e.op.state, e.op.config, e.op.locked)
    BY <1>1, <1>6, TypesOf DEF OpenCreate, Create
  <2>2. docs'[p].state.cells = NoCells /\ docs'[p].state.id = e.op.state
        /\ docs'[p].state.configRef = e.op.config
    BY <2>1 DEF EmptyState
  <2>3. e.op.config = base[e.op.state]
    BY <1>3, <2>1 DEF OwnDocuments
  <2> QED
    BY <2>1, <2>2, <2>3 DEF Builds, Founds, WritePhases, PutPhases, LoggedPhases
<1>7. CASE MutatePersisted(p, r, e)
  <2>1. /\ Mutates(p, r, e) /\ Accepts(p, r, e) /\ model' = model
        /\ current'[p] = r /\ next'[p] = Written(model[p], e.op, r)
        /\ next'[p] # model[p] /\ phase'[p] \in PutPhases
    BY <1>1, <1>7, TypesOf DEF MutatePersisted, PutPhases, session
  <2>2. e.op \in MutationOp
    BY <1>3, <2>1 DEF Mutates, Op, OpenOp
  <2>3. Builds(p)'
    BY <1>3, <2>1, <2>2 DEF Builds, Accepts
  <2>4. Founds(p, base)'
    BY <2>1 DEF Founds, PutPhases, EarlyPhases, LatePhases
  <2> QED BY <2>3, <2>4
<1> QED
  BY <1>4, <1>5, <1>6, <1>7 DEF Receive, ReplayCached, ReplayAudited, Import, Status,
     Refuse, NoOp, MutateEphemeral

LEMMA FlightNext ==
  ASSUME OneProcess, MaxFaults = 0, NEW base, NEW named, OwnDocuments(base, named),
         RefinementInv(base, named), [Next]_vars, NEW q \in Procs
  PROVE  Builds(q)' /\ Founds(q, base)'
<1>1. TypeInv /\ Builds(q) /\ Founds(q, base)
  BY RefinementParts
<1>2. CASE UNCHANGED vars
  BY <1>1, <1>2 DEF vars, session, flight, client, Builds, Founds
<1>3. CASE Next
  <2>1. PICK p \in Procs :
          \/ Start(p) \/ Step(p) \/ Fault(p)
          \/ \E r \in RequestIds : \E e \in Sendable(r) :
               Receive(p, r, e) \/ CreateReadError(p, r, e)
    BY <1>3 DEF Next
  <2>2. q = p /\ ~ Faulty
    BY <1>1 DEF OneProcess, Faulty, TypeInv, TypeOK, BoundsOK
  <2>3. CASE \E r \in RequestIds : \E e \in Sendable(r) :
               Receive(p, r, e) \/ CreateReadError(p, r, e)
    BY <2>2, <2>3, ArrivesFlight DEF CreateReadError
  <2>4. CASE Start(p) \/ Fault(p)
    <3>1. Start(p) \/ Crash(p)
      BY <2>2, <2>4 DEF Fault, OpenError, ReplaysError, PutError, CreateAuditError,
         AuditError
    <3>2. phase'[p] \in {"idle", "down"}
      BY <1>1, <2>2, <3>1, TypesOf DEF Start, Crash
    <3> QED BY <2>2, <3>2, DoneFlight
  <2>5. CASE Step(p)
    <3>1. CASE Lands(p)
      <4>1. phase'[p] = "idle"
        BY <1>1, <2>2, <3>1, TypesOf DEF Lands
      <4> QED BY <2>2, <4>1, DoneFlight
    <3>2. CASE OpenReadConfig(p) \/ OpenReadDims(p)
      <4>1. CASE ~ OpenFails(p)
        <5>1. phase'[p] \in {"open.dims", "open.audit"}
          BY <1>1, <2>2, <3>2, <4>1, TypesOf DEF OpenReadConfig, OpenReadDims
        <5> QED BY <2>2, <5>1, DoneFlight DEF ReadPhases
      <4> QED BY <3>1, <4>1 DEF OpenFails
    <3> USE DEF EarlyPhases, LatePhases, WritePhases, PutPhases, LoggedPhases
    <3>3. CASE \/ CreatePutConfig(p) \/ CreatePutDims(p) \/ CreatePutState(p)
               \/ CreateAppendLine(p)
      <4>1. /\ phase[p] \in EarlyPhases \cup LatePhases
            /\ phase'[p] \in EarlyPhases \cup LatePhases
            /\ UNCHANGED <<sent, current, next, model, docs>>
        BY <1>1, <2>2, <3>3, TypesOf DEF CreatePutConfig, CreatePutDims, CreatePutState,
           CreateAppendLine, client, session
      <4> QED BY <1>1, <2>2, <4>1, OnwardFlight
    <3>4. CASE PutConfig(p) \/ PutDims(p) \/ PutState(p) \/ AppendLine(p)
      <4>1. /\ phase[p] \in WritePhases /\ phase'[p] \in WritePhases
            /\ UNCHANGED <<sent, current, next, model, docs>>
        BY <1>1, <2>2, <3>4, TypesOf DEF PutConfig, PutDims, PutState, AppendLine, client,
           session
      <4> QED BY <1>1, <2>2, <4>1, OnwardFlight
    <3> QED
      BY <2>5, <3>1, <3>2, <3>3, <3>4 DEF Step, OpenReadAudit, CreateAppendAudit,
         AppendAudit
  <2> QED BY <2>1, <2>3, <2>4, <2>5
<1> QED BY <1>2, <1>3

-----------------------------------------------------------------------------
(* What a command writes is filed under its state *)

\* The state a command in flight writes or creates.
Target(p) ==
  IF phase[p] \in WritePhases THEN backing[p].state.id ELSE docs[p].state.id

\* Only the documents of state s are put, all of them under their own ids.
PutsFor(s, base, named) ==
  /\ configs' = configs
       \/ \E c \in Configuration : configs' = [configs EXCEPT ![base[s]] = c]
  /\ dimensions' = dimensions
       \/ \E d \in Dimensions : dimensions' = [dimensions EXCEPT ![named[base[s]]] = d]
  /\ states' = states
       \/ \E x \in State : /\ x.configRef = base[s] /\ configs[base[s]] # None
                           /\ states' = [states EXCEPT ![s] = x]

\* A mutation writes the documents that the open model is made of.
LEMMA BackingIsOwn ==
  ASSUME NEW base, NEW named, RefinementInv(base, named), NEW p \in Procs,
         backing[p] # None
  PROVE  LET b == backing[p]
         IN  /\ b.state.id \in StateIds /\ states[b.state.id] = b.state
             /\ b.state.configRef = base[b.state.id]
             /\ b.config.id = base[b.state.id] /\ b.dims.id = named[base[b.state.id]]
             /\ configs[base[b.state.id]] # None
<1> DEFINE b == backing[p]
           s == b.state.id
<1>1. /\ TypeInv /\ Named(named) /\ Based(base) /\ ExactState(p) /\ ExactDocs(p)
  BY RefinementParts
<1>2. b \in Backing
  BY <1>1, TypesOf
<1>3. /\ s \in StateIds /\ b.config \in Configuration /\ b.dims \in Dimensions
      /\ b.config.id \in ConfigIds /\ b.state # None
  BY <1>2, IdsOf
<1>4. Joined(b) /\ states[s] = b.state
  BY <1>1 DEF ExactDocs, ExactState
<1>5. states[s].configRef = base[s] /\ configs[base[s]] # None
  BY <1>1, <1>3, <1>4 DEF Based
<1>6. b.config.id = base[s]
  BY <1>4, <1>5 DEF Joined
<1>7. configs[b.config.id].dimensionSetRef = b.config.dimensionSetRef
  <2>1. configs[b.config.id] = b.config
          \/ configs[b.config.id] = SplitConfiguration(next[p], b.config)
    BY <1>1 DEF ExactDocs
  <2>2. SplitConfiguration(next[p], b.config).dimensionSetRef = b.config.dimensionSetRef
    BY <1>3 DEF SplitConfiguration, Configuration
  <2> QED BY <2>1, <2>2
<1>8. b.config.dimensionSetRef = named[b.config.id]
  BY <1>1, <1>3, <1>5, <1>6, <1>7 DEF Named
<1> QED BY <1>3, <1>4, <1>5, <1>6, <1>8 DEF Joined

LEMMA MutationPutsFor ==
  ASSUME NEW base, NEW named, RefinementInv(base, named), NEW p \in Procs,
         PutConfig(p) \/ PutDims(p) \/ PutState(p)
  PROVE  backing[p].state.id \in StateIds /\ PutsFor(backing[p].state.id, base, named)
<1> DEFINE b == backing[p]
           s == b.state.id
<1>1. TypeInv
  BY RefinementParts
<1>2. /\ b \in Backing /\ b # None /\ next[p] \in Model
      /\ revision[p] + 1 \in Nat
  BY <1>1, TypesOf DEF PutConfig, PutDims, PutState, InFlight, PutPhases
<1>3. /\ s \in StateIds /\ b.state.configRef = base[s] /\ b.config.id = base[s]
      /\ b.dims.id = named[base[s]] /\ configs[base[s]] # None
  BY <1>2, BackingIsOwn
<1>4. /\ b.config \in Configuration /\ b.dims \in Dimensions /\ b.state \in State
  BY <1>2, IdsOf
<1> DEFINE config2 == SplitConfiguration(next[p], b.config)
           dims2 == SplitDimensions(next[p], b.dims)
           state2 == SplitState(next[p], b.state, revision[p] + 1)
<1>5. /\ config2 \in Configuration /\ dims2 \in Dimensions /\ state2 \in State
      /\ config2.id = b.config.id /\ dims2.id = b.dims.id
      /\ state2.id = s /\ state2.configRef = b.state.configRef
  <2>1. /\ config2 \in Configuration /\ dims2 \in Dimensions /\ state2 \in State
    BY <1>2, <1>4, SplitType
  <2>2. config2.id = b.config.id /\ dims2.id = b.dims.id
    BY <1>4 DEF SplitConfiguration, SplitDimensions, Configuration, Dimensions
  <2>3. state2.id = s /\ state2.configRef = b.state.configRef
    BY <1>4 DEF SplitState, State
  <2> QED BY <2>1, <2>2, <2>3
<1>6. CASE PutConfig(p)
  <2>1. /\ configs' = [configs EXCEPT ![config2.id] = config2]
        /\ dimensions' = dimensions /\ states' = states
    BY <1>6 DEF PutConfig
  <2> HIDE DEF config2
  <2> QED BY <1>3, <1>5, <2>1 DEF PutsFor
<1>7. CASE PutDims(p)
  <2>1. /\ dimensions' = [dimensions EXCEPT ![dims2.id] = dims2]
        /\ configs' = configs /\ states' = states
    BY <1>7 DEF PutDims
  <2> HIDE DEF dims2
  <2> QED BY <1>3, <1>5, <2>1 DEF PutsFor
<1>8. CASE PutState(p)
  <2>1. /\ states' = [states EXCEPT ![state2.id] = state2]
        /\ configs' = configs /\ dimensions' = dimensions
    BY <1>8 DEF PutState
  <2> HIDE DEF state2
  <2> QED BY <1>3, <1>5, <2>1 DEF PutsFor
<1> QED BY <1>3, <1>6, <1>7, <1>8

LEMMA CreationPutsFor ==
  ASSUME NEW base, NEW named, RefinementInv(base, named), NEW p \in Procs,
         CreatePutConfig(p) \/ CreatePutDims(p) \/ CreatePutState(p)
  PROVE  docs[p].state.id \in StateIds /\ PutsFor(docs[p].state.id, base, named)
<1> DEFINE d == docs[p]
           s == d.state.id
<1>1. /\ TypeInv /\ DocsJoined(p) /\ CreatesNamed(p, named) /\ Founds(p, base)
  BY RefinementParts
<1>2. phase[p] \in EarlyPhases /\ d \in Backing
  BY <1>1, TypesOf DEF CreatePutConfig, CreatePutDims, CreatePutState, InFlight,
     EarlyPhases
<1>3. /\ s \in StateIds /\ d.config \in Configuration /\ d.dims \in Dimensions
      /\ d.state \in State /\ d.config # None
  BY <1>2, IdsOf
<1>4. /\ d.state.configRef = base[s] /\ d.config.id = base[s]
      /\ d.dims.id = named[base[s]]
  BY <1>1, <1>2 DEF DocsJoined, Joined, CreatesNamed, Founds
<1>5. CASE CreatePutConfig(p)
  BY <1>3, <1>4, <1>5 DEF CreatePutConfig, PutsFor
<1>6. CASE CreatePutDims(p)
  BY <1>3, <1>4, <1>6 DEF CreatePutDims, PutsFor
<1>7. CASE CreatePutState(p)
  <2>1. configs[d.config.id] = d.config
    BY <1>1, <1>7 DEF CreatePutState, DocsJoined
  <2> QED BY <1>3, <1>4, <1>7, <2>1 DEF CreatePutState, PutsFor
<1> QED BY <1>3, <1>5, <1>6, <1>7

LEMMA StepPutsFor ==
  ASSUME NEW base, NEW named, RefinementInv(base, named), Next,
         ~ UNCHANGED <<configs, dimensions, states>>
  PROVE  \E s \in StateIds : PutsFor(s, base, named)
BY DocumentsPut, MutationPutsFor, CreationPutsFor

LEMMA BasedNext ==
  ASSUME NEW base, NEW named, OwnDocuments(base, named), RefinementInv(base, named),
         [Next]_vars
  PROVE  Based(base)'
<1>1. TypeInv /\ Based(base)
  BY RefinementParts
<1>2. CASE UNCHANGED <<configs, dimensions, states>>
  BY <1>1, <1>2 DEF Based
<1>3. CASE ~ UNCHANGED <<configs, dimensions, states>>
  <2>1. PICK s \in StateIds : PutsFor(s, base, named)
    BY <1>3, StepPutsFor DEF vars, disk
  <2>2. \A c \in ConfigIds : configs[c] # None => configs'[c] # None
    <3>1. \A x \in Configuration : x # None
      BY IdsOf
    <3> QED BY <1>1, <2>1, <3>1, DiskTypes DEF PutsFor
  <2>3. ASSUME NEW t \in StateIds, states'[t] # None
        PROVE  states'[t].configRef = base[t] /\ configs'[base[t]] # None
    <3>1. /\ states'[t].configRef = base[t] /\ configs[base[t]] # None
      <4>1. CASE states'[t] = states[t]
        BY <1>1, <2>3, <4>1 DEF Based
      <4>2. CASE states'[t] # states[t]
        <5>1. PICK x \in State : /\ x.configRef = base[s] /\ configs[base[s]] # None
                                /\ states' = [states EXCEPT ![s] = x]
          BY <2>1, <4>2 DEF PutsFor
        <5>2. states \in [StateIds -> State \cup {None}]
          BY <1>1, TypesOf DEF TypeInv, TypeOK, DiskOK
        <5> QED BY <4>2, <5>1, <5>2
      <4> QED BY <4>1, <4>2
    <3>2. base[t] \in ConfigIds
      <4>1. states'[t] = states[t] \/ states'[t] \in State
        BY <1>1, <2>1 DEF PutsFor, TypeInv, TypeOK, DiskOK
      <4>2. states[t] \in State \cup {None}
        BY <1>1 DEF TypeInv, TypeOK, DiskOK
      <4> QED BY <2>3, <3>1, <4>1, <4>2 DEF State
    <3> QED BY <2>2, <3>1, <3>2
  <2> QED BY <2>3 DEF Based
<1> QED BY <1>2, <1>3

LEMMA RefinementNext ==
  ASSUME OneProcess, MaxFaults = 0, Tears = {}, NEW base, NEW named,
         OwnDimensions(named), OwnDocuments(base, named)
  PROVE  RefinementInv(base, named) /\ [Next]_vars => RefinementInv(base, named)'
<1> SUFFICES ASSUME RefinementInv(base, named), [Next]_vars
             PROVE  RefinementInv(base, named)'
  OBVIOUS
<1>1. DocsInv(named)'
  BY DocsNext DEF RefinementInv
<1>2. RequestInv'
  BY NextRequests DEF RefinementInv
<1> QED BY <1>1, <1>2, BasedNext, FlightNext DEF RefinementInv

LEMMA RefinementInit ==
  ASSUME NEW base, NEW named, OwnDimensions(named), OwnDocuments(base, named), Init
  PROVE  RefinementInv(base, named)
<1>1. DocsInv(named) /\ RequestInv
  BY DocsInit, InitRequests
<1>2. Based(base)
  BY DEF Init, OwnDocuments, Based
<1>3. \A p \in Procs : Builds(p) /\ Founds(p, base)
  BY DEF Init, Builds, Founds, WritePhases, PutPhases, LoggedPhases, EarlyPhases,
     LatePhases
<1> QED BY <1>1, <1>2, <1>3 DEF RefinementInv

-----------------------------------------------------------------------------
(* What the abstract model shows of a state *)

\* What the files of s give.
Filing(s) == IF states[s] = None THEN None ELSE MergedAt(s)
FiledVersion(s) == IF states[s] = None THEN 0 ELSE states[s].revision

\* The other states do not see a command at work.
LEMMA ElsewhereSame ==
  ASSUME NEW base, NEW named, OwnDocuments(base, named), RefinementInv(base, named),
         NEW s \in StateIds, PutsFor(s, base, named), NEW t \in StateIds, t # s
  PROVE  Filing(t)' = Filing(t) /\ FiledVersion(t)' = FiledVersion(t)
<1>1. TypeInv /\ Named(named) /\ Based(base)
  BY RefinementParts
<1>2. base[s] # base[t] /\ named[base[s]] # named[base[t]]
  BY DEF OwnDocuments
<1>3. states'[t] = states[t]
  BY <1>1, TypesOf DEF PutsFor, TypeInv, TypeOK, DiskOK
<1>4. CASE states[t] = None
  BY <1>3, <1>4 DEF Filing, FiledVersion
<1>5. CASE states[t] # None
  <2>1. /\ states[t].configRef = base[t] /\ base[t] \in ConfigIds
        /\ configs[base[t]] # None
    <3>1. states[t] \in State
      BY <1>1, <1>5 DEF TypeInv, TypeOK, DiskOK
    <3> QED BY <1>1, <1>5, <3>1 DEF Based, State
  <2>2. ConfigOf(t)' = ConfigOf(t) /\ ConfigOf(t) = configs[base[t]]
    BY <1>1, <1>2, <1>3, <2>1, DiskTypes DEF PutsFor, ConfigOf
  <2>3. /\ ConfigOf(t).dimensionSetRef = named[base[t]]
        /\ named[base[t]] \in DimSetIds
    <3>1. configs[base[t]] \in Configuration
      BY <1>1, <2>1, DiskTypes
    <3> QED BY <1>1, <2>1, <2>2, <3>1 DEF Named, Configuration
  <2>4. DimsOf(t)' = DimsOf(t)
    BY <1>1, <1>2, <2>2, <2>3, DiskTypes DEF PutsFor, DimsOf
  <2> QED
    BY <1>3, <1>5, <2>2, <2>4 DEF Filing, FiledVersion, MergedAt
<1> QED BY <1>4, <1>5

\* What is shown of s: the files, or the model a mutation starts from until its
\* line is written; and nothing of a state that is being created.
Shows(p, s) ==
  /\ phase[p] \notin PutPhases \cup {"put.audit"} => VersionOf(s) = FiledVersion(s)
  /\ phase[p] \notin PutPhases \cup {"put.audit", "create.audit"} =>
       DocumentOf(s) = Filing(s)
  /\ phase[p] = "create.audit" =>
       DocumentOf(s) = IF docs[p].state.id = s THEN None ELSE Filing(s)
  /\ phase[p] \in PutPhases \cup {"put.audit"} =>
       IF states[s] # None /\ backing[p].state.id = s
       THEN DocumentOf(s) = model[p] /\ VersionOf(s) = revision[p]
       ELSE DocumentOf(s) = Filing(s) /\ VersionOf(s) = FiledVersion(s)

AllShow == \A p \in Procs, s \in StateIds : Shows(p, s)

LEMMA EachShows == OneProcess => AllShow
<1> SUFFICES ASSUME OneProcess, NEW p \in Procs, NEW s \in StateIds
             PROVE  Shows(p, s)
  BY DEF AllShow
<1>1. \A q \in Procs : q = p
  BY DEF OneProcess
<1>2. phase[p] \in PutPhases \cup {"put.audit"} /\ backing[p].state.id = s =>
        Writers(s) = {p} /\ Creators(s) = {}
  BY <1>1 DEF Writers, Creators, PutPhases
<1>3. ~ (phase[p] \in PutPhases \cup {"put.audit"} /\ backing[p].state.id = s) =>
        Writers(s) = {}
  BY <1>1 DEF Writers
<1>4. Creators(s) = IF phase[p] = "create.audit" /\ docs[p].state.id = s
                    THEN {p} ELSE {}
  BY <1>1 DEF Creators
<1>5. \A W : W = {p} => (CHOOSE q \in W : TRUE) = p
  OBVIOUS
<1> QED
  BY <1>2, <1>3, <1>4, <1>5 DEF Shows, DocumentOf, VersionOf, Filing, FiledVersion,
     MergedAt, PutPhases

LEMMA EachShowsNext == ASSUME OneProcess PROVE AllShow'
<1>1. AllShow
  BY EachShows
<1> QED BY <1>1, PTL

-----------------------------------------------------------------------------
(* The steps of the abstract model *)

\* Both modules take their writes from Layers.
LEMMA SameWrites ==
  ASSUME NEW m, NEW op, NEW r
  PROVE  /\ Durable!Written(m, op, r) = Written(m, op, r)
         /\ Durable!Succeeds(m, op, r) <=> Succeeds(m, op, r)
         /\ Durable!MutationOp = MutationOp
         /\ Durable!Model = Model /\ Durable!NoCells = NoCells
<1>1. Durable!MutationOp = MutationOp
  BY DEF Durable!MutationOp, MutationOp
<1>2. Durable!Model = Model
  BY DEF Durable!Model, Model, Durable!Cells, Cells, Durable!Observation, Observation,
     Durable!Lifecycle, Lifecycle
<1>3. Durable!NoCells = NoCells
  BY DEF Durable!NoCells, NoCells
<1>4. Durable!Written(m, op, r) = Written(m, op, r)
  BY DEF Durable!Written, Written, Durable!Synced, Synced, Durable!Observed, Observed,
     Durable!Attached, Attached
<1>5. Durable!Succeeds(m, op, r) <=> Succeeds(m, op, r)
  BY <1>4 DEF Durable!Succeeds, Succeeds, Durable!Admissible, Admissible,
     Durable!Loadable, Loadable
<1> QED BY <1>1, <1>2, <1>3, <1>4, <1>5

Recorded(s) == {Lines(s)[i].request : i \in 1 .. Len(Lines(s))}

\* What is shown of the states other than s stays.
Elsewhere(s) ==
  \A t \in StateIds \ {s} : /\ DocumentOf(t)' = DocumentOf(t)
                            /\ VersionOf(t)' = VersionOf(t)
                            /\ Recorded(t)' = Recorded(t)

LEMMA StutterStep ==
  ASSUME \A s \in StateIds : /\ DocumentOf(s)' = DocumentOf(s)
                             /\ VersionOf(s)' = VersionOf(s)
                             /\ Recorded(s)' = Recorded(s)
  PROVE  UNCHANGED Durable!dvars
BY DEF Durable!dvars, Recorded

\* What is recorded, as the abstract variable.
LEMMA RecordedStep ==
  ASSUME NEW s \in StateIds, Elsewhere(s)
  PROVE  LET log == [t \in StateIds |-> {Lines(t)[i].request : i \in 1 .. Len(Lines(t))}]
         IN  /\ log[s] = Recorded(s)
             /\ log' = [log EXCEPT ![s] = Recorded(s)']
             /\ Recorded(s)' = Recorded(s) => log' = log
<1> DEFINE log == [t \in StateIds |-> Recorded(t)]
<1>1. log' = [t \in StateIds |-> Recorded(t)']
  OBVIOUS
<1>2. /\ log[s] = Recorded(s) /\ log' = [log EXCEPT ![s] = Recorded(s)']
      /\ Recorded(s)' = Recorded(s) => log' = log
  BY <1>1 DEF Elsewhere
<1> QED BY <1>2 DEF Recorded

\* A request takes effect, recorded or not.
LEMMA ChangeStep ==
  ASSUME NEW s \in StateIds, Elsewhere(s), NEW r \in RequestIds, NEW op \in Commands[r],
         DocumentOf(s) # None, r \notin Recorded(s), op \in MutationOp,
         Succeeds(DocumentOf(s), op, r),
         Written(DocumentOf(s), op, r) # DocumentOf(s),
         DocumentOf(s)' = Written(DocumentOf(s), op, r),
         \/ VersionOf(s)' = VersionOf(s) + 1 /\ Recorded(s)' = Recorded(s) \cup {r}
         \/ /\ VersionOf(s)' \in {VersionOf(s), VersionOf(s) + 1}
            /\ Recorded(s)' = Recorded(s)
  PROVE  Durable!DurableNext
<1>1. Durable!Changes(s, r, op)
  BY SameWrites DEF Durable!Changes, Elsewhere, Recorded
<1>2. CASE VersionOf(s)' = VersionOf(s) + 1 /\ Recorded(s)' = Recorded(s) \cup {r}
  <2>1. Durable!Accepted(s, r, op)
    BY <1>1, <1>2, RecordedStep DEF Durable!Accepted, Elsewhere
  <2> QED BY <2>1 DEF Durable!DurableNext
<1>3. CASE /\ VersionOf(s)' \in {VersionOf(s), VersionOf(s) + 1}
           /\ Recorded(s)' = Recorded(s)
  <2>1. Durable!Interrupted(s, r, op)
    BY <1>1, <1>3, RecordedStep DEF Durable!Interrupted, Elsewhere
  <2> QED BY <2>1 DEF Durable!DurableNext
<1> QED BY <1>2, <1>3

\* A state comes to be, recorded or not.
LEMMA CreateStep ==
  ASSUME NEW s \in StateIds, Elsewhere(s), NEW r \in RequestIds,
         DocumentOf(s) = None, r \notin Recorded(s),
         DocumentOf(s)' \in Model, DocumentOf(s)'.cells = NoCells, VersionOf(s)' = 0,
         Recorded(s)' \in {Recorded(s), Recorded(s) \cup {r}}
  PROVE  Durable!DurableNext
<1>1. Durable!Create(s)
  BY SameWrites DEF Durable!Create, Elsewhere
<1>2. Durable!Created(s, r) \/ Durable!CreateInterrupted(s)
  BY <1>1, RecordedStep DEF Durable!Created, Durable!CreateInterrupted, Elsewhere
<1> QED BY <1>2 DEF Durable!DurableNext

\* A write changes the scale and relations, or the dimension, or the cells: a
\* command that is killed between two puts leaves the model before or after.
LEMMA HalfWritten ==
  ASSUME NEW config \in Configuration, NEW dims \in Dimensions, NEW state \in State,
         NEW op \in MutationOp, NEW request,
         NEW m, m = Merge(config, dims, state), NEW w \in Model, w = Written(m, op, request)
  PROVE  /\ Merge(SplitConfiguration(w, config), dims, state) \in {m, w}
         /\ Merge(SplitConfiguration(w, config), SplitDimensions(w, dims), state)
              \in {m, w}
<1> DEFINE first == Merge(SplitConfiguration(w, config), dims, state)
           both == Merge(SplitConfiguration(w, config), SplitDimensions(w, dims), state)
<1>1. /\ m \in Model /\ m.tokens = config.tokens /\ m.relations = config.relations
      /\ m.registered = dims.registered /\ m.members = dims.members
      /\ m.cells = state.cells
  BY MergeType DEF Merge
<1>2. /\ first = [tokens |-> w.tokens, relations |-> w.relations,
                  registered |-> m.registered, members |-> m.members, cells |-> m.cells]
      /\ both = [tokens |-> w.tokens, relations |-> w.relations,
                 registered |-> w.registered, members |-> w.members, cells |-> m.cells]
  BY <1>1 DEF Merge, SplitConfiguration, SplitDimensions, Configuration, Dimensions
<1>3. \A x \in Model : x = [tokens |-> x.tokens, relations |-> x.relations,
                            registered |-> x.registered, members |-> x.members,
                            cells |-> x.cells]
  BY DEF Model
<1>4. \/ /\ w.tokens = m.tokens /\ w.relations = m.relations
         /\ w.registered = m.registered /\ w.members = m.members
      \/ /\ w.registered = m.registered /\ w.members = m.members /\ w.cells = m.cells
      \/ w.tokens = m.tokens /\ w.relations = m.relations /\ w.cells = m.cells
  <2>1. CASE op.kind \in {"observe", "evidence.attach"}
    BY <1>1, <2>1 DEF Written, Model
  <2>2. CASE op.kind = "scale.declare"
    BY <1>1, <2>2 DEF Written, Model
  <2>3. CASE op.kind = "relation.declare"
    BY <1>1, <2>3 DEF Written, Model
  <2>4. CASE op.kind \in {"dimension.register", "members.sync", "member.propose"}
    BY <1>1, <2>4 DEF Written, Model
  <2>5. CASE op.kind = "deprecate"
    BY <1>1, <2>5 DEF Written, Model
  <2> QED BY <2>1, <2>2, <2>3, <2>4, <2>5 DEF MutationOp
<1> HIDE DEF first, both
<1>5. first \in {m, w} /\ both \in {m, w}
  BY <1>1, <1>2, <1>3, <1>4
<1> QED BY <1>5 DEF first, both

-----------------------------------------------------------------------------
(* Every step is a step of the abstract model, or none *)

\* Nothing is put, and no mutation or creation begins or ends.
LEMMA QuietStutters ==
  ASSUME OneProcess, NEW p \in Procs, UNCHANGED disk,
         phase[p] \notin PutPhases \cup {"put.audit", "create.audit"},
         phase'[p] \notin PutPhases \cup {"put.audit", "create.audit"}
  PROVE  UNCHANGED Durable!dvars
<1>1. AllShow /\ AllShow'
  BY EachShows, EachShowsNext
<1>2. ASSUME NEW s \in StateIds
      PROVE  /\ DocumentOf(s)' = DocumentOf(s) /\ VersionOf(s)' = VersionOf(s)
             /\ Recorded(s)' = Recorded(s)
  <2>1. Filing(s)' = Filing(s) /\ FiledVersion(s)' = FiledVersion(s)
    BY DEF disk, Filing, FiledVersion, MergedAt, ConfigOf, DimsOf
  <2>2. Recorded(s)' = Recorded(s)
    BY DEF disk, Recorded, Lines
  <2>3. DocumentOf(s) = Filing(s) /\ VersionOf(s) = FiledVersion(s)
    BY <1>1 DEF AllShow, Shows
  <2>4. DocumentOf(s)' = Filing(s)' /\ VersionOf(s)' = FiledVersion(s)'
    BY <1>1 DEF AllShow, Shows
  <2> QED BY <2>1, <2>2, <2>3, <2>4
<1> QED BY <1>2, StutterStep

\* A step of a command on state s shows nothing of the other states.
LEMMA ElsewhereStep ==
  ASSUME OneProcess, NEW base, NEW named, OwnDocuments(base, named),
         RefinementInv(base, named), NEW p \in Procs, NEW s \in StateIds,
         PutsFor(s, base, named), \A t \in StateIds \ {s} : audit'[t] = audit[t],
         phase[p] \in PutPhases \cup {"put.audit"} => backing[p].state.id = s,
         phase'[p] \in PutPhases \cup {"put.audit"} => backing'[p].state.id = s,
         phase[p] = "create.audit" => docs[p].state.id = s,
         phase'[p] = "create.audit" => docs'[p].state.id = s
  PROVE  Elsewhere(s)
<1>1. AllShow /\ AllShow'
  BY EachShows, EachShowsNext
<1> SUFFICES ASSUME NEW t \in StateIds \ {s}
             PROVE  /\ DocumentOf(t)' = DocumentOf(t)
                    /\ VersionOf(t)' = VersionOf(t)
                    /\ Recorded(t)' = Recorded(t)
  BY DEF Elsewhere
<1>2. Filing(t)' = Filing(t) /\ FiledVersion(t)' = FiledVersion(t)
  BY ElsewhereSame
<1>3. Recorded(t)' = Recorded(t)
  BY DEF Recorded, Lines
<1>4. DocumentOf(t) = Filing(t) /\ VersionOf(t) = FiledVersion(t)
  BY <1>1 DEF AllShow, Shows, PutPhases
<1>5. DocumentOf(t)' = Filing(t)' /\ VersionOf(t)' = FiledVersion(t)'
  BY <1>1 DEF AllShow, Shows, PutPhases
<1> QED BY <1>2, <1>3, <1>4, <1>5

LEMMA StutterAt ==
  ASSUME NEW s \in StateIds, Elsewhere(s), DocumentOf(s)' = DocumentOf(s),
         VersionOf(s)' = VersionOf(s), Recorded(s)' = Recorded(s)
  PROVE  UNCHANGED Durable!dvars
BY StutterStep DEF Elsewhere

\* A mutation in flight is shown by the model and the version it starts from.
LEMMA MutationShows ==
  ASSUME OneProcess, TypeInv, NEW p \in Procs, Sole(p),
         phase[p] \in PutPhases \cup {"put.audit"}
  PROVE  LET s == backing[p].state.id
         IN  /\ s \in StateIds /\ states[s] # None
             /\ DocumentOf(s) = model[p] /\ VersionOf(s) = revision[p]
<1>1. backing[p] \in Backing /\ backing[p] # None
  BY TypesOf DEF InFlight
<1>2. backing[p].state.id \in StateIds
  BY <1>1, IdsOf
<1>3. states[backing[p].state.id] # None
  BY <1>1 DEF Sole, OpenState
<1> QED BY <1>2, <1>3, EachShows DEF AllShow, Shows

\* It is first shown by what opening its state gives.
LEMMA MutatePersistedStutters ==
  ASSUME OneProcess, NEW base, NEW named, OwnDocuments(base, named),
         RefinementInv(base, named), NEW p \in Procs, NEW r \in RequestIds, NEW e,
         MutatePersisted(p, r, e)
  PROVE  UNCHANGED Durable!dvars
<1>1. TypeInv
  BY RefinementParts
<1>2. /\ phase[p] = "idle" /\ phase'[p] \in PutPhases
      /\ backing[p] # None
      /\ UNCHANGED <<configs, dimensions, states, audit, backing, model, revision>>
  BY <1>1, TypesOf DEF MutatePersisted, Mutates, Dispatches, Arrives, Persisted,
     PutPhases, disk, session
<1>3. MemoryIsDisk
  BY DocsInMemory DEF RefinementInv
<1> PICK s \in StateIds : s = backing[p].state.id
  BY <1>2, BackingIsOwn
<1>4. /\ states[s] # None /\ model[p] = MergedAt(s) /\ revision[p] = states[s].revision
  BY <1>2, <1>3 DEF MemoryIsDisk, Persisted, MergedAt
<1>5. DocumentOf(s) = MergedAt(s) /\ VersionOf(s) = states[s].revision
  BY <1>2, <1>4, EachShows DEF AllShow, Shows, Filing, FiledVersion, PutPhases
<1>6. AllShow'
  BY EachShowsNext
<1>7. DocumentOf(s)' = model[p] /\ VersionOf(s)' = revision[p]
  BY <1>2, <1>4, <1>6 DEF AllShow, Shows
<1>8. Elsewhere(s)
  BY <1>2, <1>4, ElsewhereStep DEF PutsFor, PutPhases
<1>9. Recorded(s)' = Recorded(s)
  BY <1>2 DEF Recorded, Lines
<1> QED BY <1>4, <1>5, <1>7, <1>8, <1>9, StutterAt

\* The files of a mutation are shown when its line is.
LEMMA PutStutters ==
  ASSUME OneProcess, NEW base, NEW named, OwnDocuments(base, named),
         RefinementInv(base, named), TypeInv', NEW p \in Procs,
         PutConfig(p) \/ PutDims(p) \/ PutState(p)
  PROVE  UNCHANGED Durable!dvars
<1>1. TypeInv /\ Sole(p)
  BY RefinementParts
<1>2. /\ phase[p] \in PutPhases /\ phase'[p] \in PutPhases \cup {"put.audit"}
      /\ UNCHANGED <<audit, model, revision>>
  BY <1>1, TypesOf DEF PutConfig, PutDims, PutState, PutPhases, session
<1>3. /\ backing[p] \in Backing
  BY <1>1, <1>2, TypesOf DEF InFlight
<1> PICK s \in StateIds : s = backing[p].state.id
  BY <1>3, IdsOf
<1>4. backing'[p].state.id = s
  <2>1. CASE PutState(p)
    <3>1. backing'[p].state = SplitState(next[p], backing[p].state, revision[p] + 1)
      BY <1>1, <2>1, TypesOf DEF PutState
    <3> QED BY <1>3, <3>1 DEF SplitState, Backing, State
  <2> QED BY <1>2, <2>1 DEF PutConfig, PutDims, session
<1>5. PutsFor(s, base, named)
  BY MutationPutsFor
<1>6. states[s] # None /\ DocumentOf(s) = model[p] /\ VersionOf(s) = revision[p]
  BY <1>1, <1>2, MutationShows
<1>7. states'[s] # None
  <2>1. states'[s] = states[s] \/ states'[s] \in State
    BY <1>1, <1>5 DEF PutsFor, TypeInv, TypeOK, DiskOK
  <2> QED BY <1>6, <2>1, IdsOf
<1>8. AllShow'
  BY EachShowsNext
<1>9. DocumentOf(s)' = model[p] /\ VersionOf(s)' = revision[p]
  BY <1>2, <1>4, <1>7, <1>8 DEF AllShow, Shows
<1>10. Elsewhere(s)
  BY <1>2, <1>4, <1>5, ElsewhereStep DEF PutPhases
<1>11. Recorded(s)' = Recorded(s)
  BY <1>2 DEF Recorded, Lines
<1> QED BY <1>6, <1>9, <1>10, <1>11, StutterAt

\* A state is shown when its line is.
LEMMA CreatePutStutters ==
  ASSUME OneProcess, NEW base, NEW named, OwnDocuments(base, named),
         RefinementInv(base, named), NEW p \in Procs,
         CreatePutConfig(p) \/ CreatePutDims(p) \/ CreatePutState(p)
  PROVE  UNCHANGED Durable!dvars
<1>1. TypeInv /\ Sole(p)
  BY RefinementParts
<1>2. /\ phase[p] \in EarlyPhases /\ phase'[p] \in EarlyPhases \cup {"create.audit"}
      /\ phase'[p] = "create.audit" => CreatePutState(p)
      /\ UNCHANGED <<audit, docs>>
  BY <1>1, TypesOf DEF CreatePutConfig, CreatePutDims, CreatePutState, EarlyPhases
<1> PICK s \in StateIds : s = docs[p].state.id
  BY CreationPutsFor
<1>3. states[s] = None /\ docs[p].state.revision = 0
  BY <1>1, <1>2 DEF Sole, DocsInHand
<1>4. PutsFor(s, base, named)
  BY CreationPutsFor
<1>5. AllShow /\ AllShow'
  BY EachShows, EachShowsNext
<1>6. DocumentOf(s) = None /\ VersionOf(s) = 0
  BY <1>2, <1>3, <1>5 DEF AllShow, Shows, Filing, FiledVersion, EarlyPhases, PutPhases
<1>7. DocumentOf(s)' = None /\ VersionOf(s)' = 0
  <2>1. CASE CreatePutState(p)
    <3>1. phase'[p] = "create.audit" /\ states'[s] = docs[p].state
      BY <1>1, <2>1, TypesOf DEF CreatePutState
    <3>2. FiledVersion(s)' = 0
      BY <1>3, <3>1 DEF FiledVersion
    <3>3. VersionOf(s)' = FiledVersion(s)'
      BY <1>5, <3>1 DEF AllShow, Shows, PutPhases
    <3>4. DocumentOf(s)' = None
      BY <1>2, <1>5, <3>1 DEF AllShow, Shows, PutPhases
    <3> QED BY <3>2, <3>3, <3>4
  <2>2. CASE ~ CreatePutState(p)
    <3>1. phase'[p] \in EarlyPhases /\ states'[s] = None
      BY <1>2, <1>3, <2>2 DEF CreatePutConfig, CreatePutDims
    <3> QED
      BY <1>5, <3>1 DEF AllShow, Shows, Filing, FiledVersion, EarlyPhases, PutPhases
  <2> QED BY <2>1, <2>2
<1>8. Elsewhere(s)
  BY <1>2, <1>4, ElsewhereStep DEF EarlyPhases, PutPhases
<1>9. Recorded(s)' = Recorded(s)
  BY <1>2 DEF Recorded, Lines
<1> QED BY <1>6, <1>7, <1>8, <1>9, StutterAt

\* An appended line adds its request to those recorded.
LEMMA RecordedAppends ==
  ASSUME TypeInv, NEW s \in StateIds, NEW line \in Line,
         Lines(s)' = Append(Lines(s), line)
  PROVE  Recorded(s)' = Recorded(s) \cup {line.request}
<1> DEFINE n == Len(Lines(s))
<1>1. Lines(s) \in Seq(Line)
  BY TypesOf DEF TypeInv, TypeOK, DiskOK, Lines, AuditFile
<1>2. /\ n \in Nat /\ Len(Lines(s)') = n + 1
      /\ \A i \in 1 .. n : Lines(s)'[i] = Lines(s)[i]
      /\ Lines(s)'[n + 1] = line
  BY <1>1, AppendProperties, LenProperties
<1>3. Recorded(s) = {Lines(s)[i].request : i \in 1 .. n}
  BY DEF Recorded
<1> HIDE DEF n
<1>4. 1 .. n + 1 = 1 .. n \cup {n + 1}
  BY <1>2
<1>5. Recorded(s)' = {Lines(s)'[i].request : i \in 1 .. n + 1}
  BY <1>2 DEF Recorded
<1> QED BY <1>2, <1>3, <1>4, <1>5

\* The op of a mutation in flight, as the abstract model asks for it.
LEMMA MutationReady ==
  ASSUME NEW base, NEW named, RefinementInv(base, named), NEW p \in Procs,
         phase[p] \in PutPhases \cup {"put.audit"}
  PROVE  LET r == current[p]
             op == sent[r].op
         IN  /\ r \in RequestIds /\ op \in Commands[r] /\ op \in MutationOp
             /\ model[p] \in Model /\ Succeeds(model[p], op, r)
             /\ next[p] \in Model /\ next[p] = Written(model[p], op, r)
             /\ next[p] # model[p]
             /\ r \notin Recorded(backing[p].state.id)
<1>1. /\ TypeInv /\ SentInv /\ ExactState(p) /\ FirstLine(p) /\ Builds(p)
  BY RefinementParts
<1>2. current[p] \in RequestIds /\ backing[p] # None /\ next[p] \in Model
  BY <1>1, TypesOf DEF InFlight, PutPhases
<1>3. /\ sent[current[p]].op \in MutationOp
      /\ Succeeds(model[p], sent[current[p]].op, current[p])
      /\ next[p] = Written(model[p], sent[current[p]].op, current[p])
      /\ next[p] # model[p]
  BY <1>1 DEF Builds, WritePhases, LoggedPhases
<1>4. model[p] \in Model
  BY <1>1, <1>2, TypesOf DEF ExactState
<1>5. current[p] \notin Recorded(backing[p].state.id)
  BY <1>1 DEF FirstLine, MutationPhases, HasLine, Recorded
<1>6. sent[current[p]].op \in Commands[current[p]]
  <2>1. sent[current[p]] # None
    BY <1>1 DEF Builds, WritePhases, LoggedPhases
  <2> QED BY <1>1, <1>2, <2>1 DEF SentInv
<1> QED BY <1>2, <1>3, <1>4, <1>5, <1>6

\* Opening its state gives the model before the mutation or after it, and after
\* it with the new version once all files are put.
LEMMA FilesOfMutation ==
  ASSUME NEW base, NEW named, RefinementInv(base, named), NEW p \in Procs,
         phase[p] \in PutPhases \cup {"put.audit"}
  PROVE  LET s == backing[p].state.id
         IN  /\ s \in StateIds /\ states[s] # None
             /\ MergedAt(s) \in {model[p], next[p]}
             /\ phase[p] = "put.audit" => MergedAt(s) = next[p]
             /\ states[s].revision =
                  IF phase[p] = "put.audit" THEN revision[p] + 1 ELSE revision[p]
<1> DEFINE b == backing[p]
           s == b.state.id
           config2 == SplitConfiguration(next[p], b.config)
           dims2 == SplitDimensions(next[p], b.dims)
           op == sent[current[p]].op
<1>1. /\ TypeInv /\ ExactState(p) /\ ExactDocs(p) /\ Named(named)
  BY RefinementParts
<1>2. b \in Backing /\ b # None
  BY <1>1, TypesOf DEF InFlight
<1>3. /\ s \in StateIds /\ b.config \in Configuration /\ b.dims \in Dimensions
      /\ b.state \in State /\ b.state # None
  BY <1>2, IdsOf
<1>4. /\ states[s] = b.state
      /\ b.state.revision = IF phase[p] = "put.audit" THEN revision[p] + 1
                            ELSE revision[p]
  BY <1>1, <1>2 DEF ExactState, LoggedPhases, PutPhases
<1>5. /\ Joined(b)
      /\ configs[b.config.id] =
           IF phase[p] \in {"put.dims", "put.state"} THEN config2 ELSE b.config
      /\ dimensions[b.dims.id] = IF phase[p] = "put.state" THEN dims2 ELSE b.dims
      /\ phase[p] = "put.audit" => next[p] = MergeOf(b)
      /\ phase[p] # "put.audit" => model[p] = MergeOf(b)
  BY <1>1, <1>2 DEF ExactDocs, LoggedPhases, PutPhases
<1>6. config2.dimensionSetRef = b.config.dimensionSetRef
  BY <1>3 DEF SplitConfiguration, Configuration
<1>7. /\ ConfigOf(s) = configs[b.config.id] /\ DimsOf(s) = dimensions[b.dims.id]
  <2>1. ConfigOf(s) = configs[b.config.id]
    BY <1>4, <1>5 DEF ConfigOf, Joined
  <2> HIDE DEF config2
  <2> QED BY <1>5, <1>6, <2>1 DEF DimsOf, Joined
<1>8. phase[p] \notin {"put.dims", "put.state"} => MergedAt(s) = MergeOf(b)
  BY <1>4, <1>5, <1>7 DEF MergedAt, MergeOf
<1>9. phase[p] \in {"put.dims", "put.state"} => MergedAt(s) \in {model[p], next[p]}
  <2>1. /\ op \in MutationOp /\ next[p] \in Model
        /\ next[p] = Written(model[p], op, current[p])
    BY MutationReady
  <2>2. model[p] = Merge(b.config, b.dims, b.state) \/ phase[p] = "put.audit"
    BY <1>5 DEF MergeOf
  <2>3. /\ phase[p] = "put.dims" => MergedAt(s) = Merge(config2, b.dims, b.state)
        /\ phase[p] = "put.state" => MergedAt(s) = Merge(config2, dims2, b.state)
    BY <1>4, <1>5, <1>7 DEF MergedAt
  <2> QED BY <1>3, <2>1, <2>2, <2>3, HalfWritten
<1> QED BY <1>3, <1>4, <1>5, <1>8, <1>9

\* A log of one state is as it was or has the line at its end.
OneAppend(s, line) ==
  audit' = audit \/ audit' = [audit EXCEPT ![s] = Appended(audit[s], line)]

LEMMA LogsRecord ==
  ASSUME TypeInv, NEW s \in StateIds, NEW line \in Line, OneAppend(s, line)
  PROVE  /\ \A t \in StateIds \ {s} : audit'[t] = audit[t]
         /\ audit' # audit => Recorded(s)' = Recorded(s) \cup {line.request}
<1>1. audit \in [StateIds -> AuditFile]
  BY TypesOf DEF TypeInv, TypeOK, DiskOK
<1>2. audit' # audit => Lines(s)' = Append(Lines(s), line)
  BY <1>1, LinesAppended DEF OneAppend, Lines
<1> QED BY <1>1, <1>2, RecordedAppends DEF OneAppend

\* A mutation that ends, with its answer or killed, has taken effect or not;
\* with its line it has.
LEMMA MutationEnds ==
  ASSUME OneProcess, NEW base, NEW named, OwnDocuments(base, named),
         RefinementInv(base, named), NEW p \in Procs,
         phase[p] \in PutPhases \cup {"put.audit"}, phase'[p] \in {"idle", "down"},
         UNCHANGED <<configs, dimensions, states>>,
         OneAppend(backing[p].state.id, MutationLine(p)),
         audit' # audit => phase[p] = "put.audit"
  PROVE  Durable!DurableNext \/ UNCHANGED Durable!dvars
<1>1. TypeInv /\ Sole(p)
  BY RefinementParts
<1>2. backing[p] \in Backing
  BY <1>1, TypesOf DEF InFlight
<1> PICK s \in StateIds : s = backing[p].state.id
  BY <1>2, IdsOf
<1> PICK r \in RequestIds : r = current[p]
  BY MutationReady
<1> PICK op \in Commands[r] : op = sent[r].op
  BY MutationReady
<1>3. /\ op \in MutationOp /\ model[p] \in Model /\ Succeeds(model[p], op, r)
      /\ next[p] = Written(model[p], op, r) /\ next[p] # model[p]
      /\ r \notin Recorded(s)
  BY MutationReady
<1>4. /\ states[s] # None /\ MergedAt(s) \in {model[p], next[p]}
      /\ phase[p] = "put.audit" => MergedAt(s) = next[p]
      /\ states[s].revision =
           IF phase[p] = "put.audit" THEN revision[p] + 1 ELSE revision[p]
  BY FilesOfMutation
<1>5. DocumentOf(s) = model[p] /\ VersionOf(s) = revision[p]
  BY <1>1, MutationShows
<1>6. DocumentOf(s)' = MergedAt(s) /\ VersionOf(s)' = states[s].revision
  <2>1. AllShow'
    BY EachShowsNext
  <2>2. DocumentOf(s)' = Filing(s)' /\ VersionOf(s)' = FiledVersion(s)'
    BY <2>1 DEF AllShow, Shows, PutPhases
  <2>3. Filing(s)' = MergedAt(s) /\ FiledVersion(s)' = states[s].revision
    BY <1>4 DEF Filing, FiledVersion, MergedAt, ConfigOf, DimsOf
  <2> QED BY <2>2, <2>3
<1>7. MutationLine(p) \in Line /\ MutationLine(p).request = r
  <2>1. revision[p] \in Nat
    BY <1>1, TypesOf
  <2> QED BY <2>1 DEF MutationLine, Line
<1> PICK line \in Line : line = MutationLine(p)
  BY <1>7
<1>8. /\ \A t \in StateIds \ {s} : audit'[t] = audit[t]
      /\ audit' # audit => Recorded(s)' = Recorded(s) \cup {r}
      /\ audit' = audit => Recorded(s)' = Recorded(s)
  <2>1. OneAppend(s, line) /\ line.request = r
    BY <1>7
  <2>2. audit' = audit => Recorded(s)' = Recorded(s)
    BY DEF Recorded, Lines
  <2> QED BY <1>1, <2>1, <2>2, LogsRecord
<1>9. Elsewhere(s)
  BY <1>8, ElsewhereStep DEF PutsFor, PutPhases
<1>10. model[p] # None /\ revision[p] \in Nat
  BY <1>1, <1>3, TypesOf, NoneAssumption DEF NoneAssumption
<1>11. CASE MergedAt(s) = next[p]
  <2>1. \/ VersionOf(s)' = VersionOf(s) + 1 /\ Recorded(s)' = Recorded(s) \cup {r}
        \/ /\ VersionOf(s)' \in {VersionOf(s), VersionOf(s) + 1}
           /\ Recorded(s)' = Recorded(s)
    BY <1>4, <1>5, <1>6, <1>8
  <2>2. DocumentOf(s)' = Written(DocumentOf(s), op, r) /\ DocumentOf(s) # None
    BY <1>3, <1>5, <1>6, <1>10, <1>11
  <2>3. Succeeds(DocumentOf(s), op, r) /\ Written(DocumentOf(s), op, r) # DocumentOf(s)
    BY <1>3, <1>5
  <2> QED BY <1>3, <1>9, <2>1, <2>2, <2>3, ChangeStep
<1>12. CASE MergedAt(s) # next[p]
  <2>1. phase[p] # "put.audit" /\ MergedAt(s) = model[p]
    BY <1>4, <1>12
  <2>2. /\ DocumentOf(s)' = DocumentOf(s) /\ VersionOf(s)' = VersionOf(s)
        /\ Recorded(s)' = Recorded(s)
    BY <1>4, <1>5, <1>6, <1>8, <2>1
  <2> QED BY <1>9, <2>2, StutterAt
<1> QED BY <1>11, <1>12

\* A creation that ends, with its answer or killed, has put its three files.
LEMMA CreationEnds ==
  ASSUME OneProcess, NEW base, NEW named, OwnDocuments(base, named),
         RefinementInv(base, named), NEW p \in Procs,
         phase[p] = "create.audit", phase'[p] \in {"idle", "down"},
         UNCHANGED <<configs, dimensions, states>>,
         OneAppend(docs[p].state.id, CreateLine(p))
  PROVE  Durable!DurableNext
<1>1. /\ TypeInv /\ Sole(p) /\ DocsJoined(p) /\ FirstLine(p) /\ Founds(p, base)
  BY RefinementParts
<1>2. docs[p] \in Backing /\ current[p] \in RequestIds
  BY <1>1, TypesOf DEF InFlight
<1> PICK s \in StateIds : s = docs[p].state.id
  BY <1>2, IdsOf
<1> PICK r \in RequestIds : r = current[p]
  BY <1>2
<1> DEFINE d == docs[p]
<1>3. /\ d.config \in Configuration /\ d.dims \in Dimensions /\ d.state \in State
      /\ d.state # None
  BY <1>2, IdsOf
<1>4. /\ Joined(d) /\ configs[d.config.id] = d.config
      /\ dimensions[d.dims.id] = d.dims /\ states[s] = d.state
      /\ d.state.cells = NoCells /\ d.state.revision = 0
  BY <1>1 DEF DocsJoined, Sole, DocsInHand, Founds, LatePhases
<1>5. MergedAt(s) = MergeOf(d)
  <2>1. ConfigOf(s) = d.config
    BY <1>4 DEF ConfigOf, Joined
  <2> QED BY <1>4, <2>1 DEF DimsOf, Joined, MergedAt, MergeOf
<1>6. MergedAt(s) \in Model /\ MergedAt(s).cells = NoCells
  BY <1>3, <1>4, <1>5, MergeType DEF MergeOf, Merge
<1>7. DocumentOf(s) = None
  BY EachShows DEF AllShow, Shows
<1>8. DocumentOf(s)' = MergedAt(s) /\ VersionOf(s)' = 0
  <2>1. AllShow'
    BY EachShowsNext
  <2>2. DocumentOf(s)' = Filing(s)' /\ VersionOf(s)' = FiledVersion(s)'
    BY <2>1 DEF AllShow, Shows, PutPhases
  <2>3. Filing(s)' = MergedAt(s) /\ FiledVersion(s)' = 0
    BY <1>3, <1>4 DEF Filing, FiledVersion, MergedAt, ConfigOf, DimsOf
  <2> QED BY <2>2, <2>3
<1>9. CreateLine(p) \in Line /\ CreateLine(p).request = r
  BY DEF CreateLine, Line
<1> PICK line \in Line : line = CreateLine(p)
  BY <1>9
<1>10. /\ \A t \in StateIds \ {s} : audit'[t] = audit[t]
       /\ Recorded(s)' \in {Recorded(s), Recorded(s) \cup {r}}
  <2>1. OneAppend(s, line) /\ line.request = r
    BY <1>9
  <2>2. audit' = audit => Recorded(s)' = Recorded(s)
    BY DEF Recorded, Lines
  <2> QED BY <1>1, <2>1, <2>2, LogsRecord
<1>11. Elsewhere(s)
  BY <1>10, ElsewhereStep DEF PutsFor, PutPhases
<1>12. r \notin Recorded(s)
  BY <1>1 DEF FirstLine, CreatePhases, HasLine, Recorded
<1>13. DocumentOf(s)' \in Model /\ DocumentOf(s)'.cells = NoCells
  BY <1>6, <1>8
<1> QED BY <1>7, <1>8, <1>10, <1>11, <1>12, <1>13, CreateStep

LEMMA CrashMaps ==
  ASSUME OneProcess, Tears = {}, NEW base, NEW named, OwnDocuments(base, named),
         RefinementInv(base, named), NEW p \in Procs, Crash(p)
  PROVE  Durable!DurableNext \/ UNCHANGED Durable!dvars
<1>1. TypeInv
  BY RefinementParts
<1>2. /\ phase'[p] = "down" /\ UNCHANGED <<configs, dimensions, states>> /\ CrashLog(p)
  BY <1>1, TypesOf DEF Crash
<1>3. CASE phase[p] = "put.audit"
  <2>1. OneAppend(backing[p].state.id, MutationLine(p))
    <3>1. backing[p] \in Backing
      BY <1>1, <1>3, TypesOf DEF InFlight
    <3>2. backing[p].state.id \in StateIds /\ audit \in [StateIds -> AuditFile]
      BY <1>1, <3>1, IdsOf, TypesOf
    <3> QED BY <1>2, <1>3, <3>2 DEF CrashLog, Killed, Torn, OneAppend
  <2> QED BY <1>2, <1>3, <2>1, MutationEnds
<1>4. CASE phase[p] = "create.audit"
  <2>1. OneAppend(docs[p].state.id, CreateLine(p))
    <3>1. docs[p] \in Backing
      BY <1>1, <1>4, TypesOf DEF InFlight
    <3>2. docs[p].state.id \in StateIds /\ audit \in [StateIds -> AuditFile]
      BY <1>1, <3>1, IdsOf, TypesOf
    <3> QED BY <1>2, <1>4, <3>2 DEF CrashLog, Killed, Torn, OneAppend
  <2> QED BY <1>2, <1>4, <2>1, CreationEnds
<1>5. CASE phase[p] \notin {"put.audit", "create.audit"}
  <2>1. audit' = audit
    BY <1>2, <1>5 DEF CrashLog
  <2>2. CASE phase[p] \in PutPhases
    BY <1>2, <2>1, <2>2, MutationEnds DEF OneAppend
  <2>3. CASE phase[p] \notin PutPhases
    BY <1>2, <1>5, <2>1, <2>3, QuietStutters DEF disk, PutPhases
  <2> QED BY <2>2, <2>3
<1> QED BY <1>3, <1>4, <1>5

LEMMA ReceiveMaps ==
  ASSUME OneProcess, NEW base, NEW named, OwnDocuments(base, named),
         RefinementInv(base, named), NEW p \in Procs, NEW r \in RequestIds, NEW e,
         Receive(p, r, e)
  PROVE  UNCHANGED Durable!dvars
<1>1. TypeInv
  BY RefinementParts
<1>2. Arrives(p, r, e)
  BY DEF Receive, Create, ReplayCached, ReplayAudited, Import, Status, OpenExisting,
     OpenCreate, Refuse, NoOp, MutateEphemeral, MutatePersisted, Mutates, Dispatches
<1>3. CASE MutatePersisted(p, r, e)
  BY <1>3, MutatePersistedStutters
<1>4. CASE OpenExisting(p, r, e) \/ OpenCreate(p, r, e)
  <2>1. phase[p] = "idle" /\ phase'[p] \in {"open.config", "create.config"}
        /\ UNCHANGED disk
    BY <1>1, <1>2, <1>4, TypesOf DEF Arrives, OpenExisting, OpenCreate, Create
  <2> QED BY <2>1, QuietStutters DEF PutPhases
<1>5. CASE UNCHANGED <<disk, flight>>
  <2>1. phase[p] = "idle" /\ phase'[p] = "idle" /\ UNCHANGED disk
    BY <1>2, <1>5 DEF Arrives, flight
  <2> QED BY <2>1, QuietStutters DEF PutPhases
<1> QED
  BY <1>3, <1>4, <1>5 DEF Receive, ReplayCached, ReplayAudited, Import, Status, Refuse,
     NoOp, MutateEphemeral

LEMMA StepMaps ==
  ASSUME OneProcess, Tears = {}, NEW base, NEW named, OwnDocuments(base, named),
         RefinementInv(base, named), TypeInv', NEW p \in Procs, Step(p)
  PROVE  Durable!DurableNext \/ UNCHANGED Durable!dvars
<1>1. TypeInv /\ FirstLine(p)
  BY RefinementParts
<1>2. CASE OpenReadConfig(p) \/ OpenReadDims(p) \/ OpenReadAudit(p)
  <2>1. /\ phase[p] \in {"open.config", "open.dims", "open.audit"}
        /\ phase'[p] \in {"open.dims", "open.audit", "idle"}
        /\ UNCHANGED disk
    BY <1>1, <1>2, TypesOf DEF OpenReadConfig, OpenReadDims, OpenReadAudit, OpenFails,
       Lands
  <2> QED BY <2>1, QuietStutters DEF PutPhases
<1>3. CASE CreatePutConfig(p) \/ CreatePutDims(p) \/ CreatePutState(p)
  BY <1>3, CreatePutStutters
<1>4. CASE PutConfig(p) \/ PutDims(p) \/ PutState(p)
  BY <1>4, PutStutters
<1>5. CASE AppendAudit(p)
  <2>1. phase[p] = "put.audit" /\ phase'[p] = "idle"
    BY <1>1, <1>5, TypesOf DEF AppendAudit, FirstLine, Lands
  <2>2. /\ UNCHANGED <<configs, dimensions, states>>
        /\ OneAppend(backing[p].state.id, MutationLine(p))
    BY <1>5, <2>1 DEF AppendAudit, OneAppend
  <2> QED BY <2>1, <2>2, MutationEnds
<1>6. CASE CreateAppendAudit(p)
  <2>1. phase[p] = "create.audit" /\ phase'[p] = "idle"
    BY <1>1, <1>6, TypesOf DEF CreateAppendAudit, FirstLine, Lands
  <2>2. /\ UNCHANGED <<configs, dimensions, states>>
        /\ OneAppend(docs[p].state.id, CreateLine(p))
    BY <1>6, <2>1 DEF CreateAppendAudit, OneAppend
  <2> QED BY <2>1, <2>2, CreationEnds
<1>7. ~ AppendLine(p) /\ ~ CreateAppendLine(p)
  BY DEF AppendLine, CreateAppendLine
<1> QED BY <1>2, <1>3, <1>4, <1>5, <1>6, <1>7 DEF Step

LEMMA NextMaps ==
  ASSUME OneProcess, MaxFaults = 0, Tears = {}, NEW base, NEW named,
         OwnDocuments(base, named), RefinementInv(base, named), [Next]_vars
  PROVE  [Durable!DurableNext]_(Durable!dvars)
<1>1. TypeInv /\ TypeInv'
  BY RefinementParts, NextType
<1>2. CASE UNCHANGED vars
  <2>1. ASSUME NEW s \in StateIds
        PROVE  /\ DocumentOf(s)' = DocumentOf(s) /\ VersionOf(s)' = VersionOf(s)
               /\ Recorded(s)' = Recorded(s)
    BY <1>2 DEF vars, disk, session, flight, DocumentOf, VersionOf, Recorded, Lines,
       Writers, Creators, ConfigOf, DimsOf
  <2> QED BY <2>1, StutterStep
<1>3. CASE Next
  <2>1. PICK p \in Procs :
          \/ Start(p) \/ Step(p) \/ Fault(p)
          \/ \E r \in RequestIds : \E e \in Sendable(r) :
               Receive(p, r, e) \/ CreateReadError(p, r, e)
    BY <1>3 DEF Next
  <2>2. ~ Faulty
    BY <1>1 DEF Faulty, TypeInv, TypeOK, BoundsOK
  <2>3. CASE Start(p)
    <3>1. phase[p] = "down" /\ phase'[p] = "idle" /\ UNCHANGED disk
      BY <1>1, <2>3, TypesOf DEF Start
    <3> QED BY <3>1, QuietStutters DEF PutPhases
  <2>4. CASE Fault(p)
    <3>1. Crash(p)
      BY <2>2, <2>4 DEF Fault, OpenError, ReplaysError, PutError, CreateAuditError,
         AuditError
    <3> QED BY <3>1, CrashMaps
  <2>5. CASE Step(p)
    BY <1>1, <2>5, StepMaps
  <2>6. CASE \E r \in RequestIds : \E e \in Sendable(r) :
               Receive(p, r, e) \/ CreateReadError(p, r, e)
    BY <2>2, <2>6, ReceiveMaps DEF CreateReadError
  <2> QED BY <2>1, <2>3, <2>4, <2>5, <2>6
<1> QED BY <1>2, <1>3

LEMMA InitMaps ==
  ASSUME NEW base, NEW named, OwnDimensions(named), OwnDocuments(base, named), Init
  PROVE  Durable!DurableInit
<1>1. TypeInv /\ Based(base) /\ Named(named)
  BY RefinementInit, RefinementParts
<1>2. ASSUME NEW s \in StateIds
      PROVE  /\ DocumentOf(s) \in Model \cup {None} /\ VersionOf(s) \in Nat
             /\ Recorded(s) = {}
  <2>1. Writers(s) = {} /\ Creators(s) = {}
    BY DEF Init, Writers, Creators, PutPhases
  <2>2. DocumentOf(s) = Filing(s) /\ VersionOf(s) = FiledVersion(s)
    BY <2>1 DEF DocumentOf, VersionOf, Filing, FiledVersion, MergedAt
  <2>3. Recorded(s) = {}
    <3>1. Lines(s) = <<>>
      BY DEF Init, Lines
    <3> QED BY <3>1 DEF Recorded
  <2>4. CASE states[s] = None
    BY <2>2, <2>3, <2>4 DEF Filing, FiledVersion
  <2>5. CASE states[s] # None
    <3>1. states[s] \in State
      BY <1>1, <2>5 DEF TypeInv, TypeOK, DiskOK
    <3>2. /\ states[s].configRef = base[s] /\ base[s] \in ConfigIds
          /\ configs[base[s]] # None /\ states[s].revision \in Nat
      BY <1>1, <2>5, <3>1 DEF Based, State
    <3>3. ConfigOf(s) \in Configuration
      BY <1>1, <3>2, DiskTypes DEF ConfigOf
    <3>4. /\ ConfigOf(s).dimensionSetRef = named[base[s]]
          /\ ConfigOf(s).dimensionSetRef \in DimSetIds
      BY <1>1, <3>2, <3>3 DEF Named, ConfigOf, Configuration
    <3>5. dimensions[named[base[s]]] # None
      BY <2>5 DEF Init, OwnDocuments
    <3>6. DimsOf(s) \in Dimensions
      BY <1>1, <3>4, <3>5, DiskTypes DEF DimsOf
    <3> QED
      BY <2>2, <2>3, <2>5, <3>1, <3>2, <3>3, <3>6, MergeType DEF Filing, FiledVersion,
         MergedAt
  <2> QED BY <2>4, <2>5
<1>3. Durable!Model = Model
  BY SameWrites
<1> QED BY <1>2, <1>3 DEF Durable!DurableInit, Recorded

-----------------------------------------------------------------------------

\* The session implements the abstract model: every model on disk is changed by
\* one request at a time, as a whole and on the version before it, and by a
\* request that has its line never again; a kill in the middle of a command
\* leaves it done, with or without its line, or not done (command, open_model
\* and apply_mutation over store.rs).  One process, appends that are all or
\* nothing, no failing file operation, and states that share no documents: a
\* write to a shared layer changes several models at once.
THEOREM SessionImplementsDurable ==
  ASSUME OneProcess, MaxFaults = 0, Tears = {}, NEW base, NEW named,
         OwnDimensions(named), OwnDocuments(base, named)
  PROVE  Spec => DurableSpec
<1>1. Init => RefinementInv(base, named) /\ Durable!DurableInit
  BY RefinementInit, InitMaps
<1>2. RefinementInv(base, named) /\ [Next]_vars => RefinementInv(base, named)'
  BY RefinementNext
<1>3. RefinementInv(base, named) /\ [Next]_vars => [Durable!DurableNext]_(Durable!dvars)
  BY NextMaps
<1> QED
  BY <1>1, <1>2, <1>3, PTL DEF Spec, DurableSpec, Durable!DurableSpec
=============================================================================
