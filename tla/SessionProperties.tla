------------------------- MODULE SessionProperties -------------------------
(***************************************************************************)
(* What the session and its store promise: the documents in memory and on  *)
(* disk, the audit log and the replay of requests.  Which of them hold     *)
(* depends on what may fail and on who shares the files: the README says   *)
(* which run shows what.                                                   *)
(***************************************************************************)
EXTENDS Session

-----------------------------------------------------------------------------
(* Types *)

DocsOf == [config: Configuration \cup {None}, dims: Dimensions \cup {None},
           state: State \cup {None}]

DiskOK ==
  /\ configs \in [ConfigIds -> Configuration \cup {None}]
  /\ dimensions \in [DimSetIds -> Dimensions \cup {None}]
  /\ states \in [StateIds -> State \cup {None}]
  /\ audit \in [StateIds -> AuditFile]

SessionOK ==
  /\ model \in [Procs -> Model \cup {None}]
  /\ backing \in [Procs -> Backing \cup {None}]
  /\ revision \in [Procs -> Nat]
  /\ locked \in [Procs -> BOOLEAN]
  /\ audit_replays \in [Procs -> [RequestIds -> Nat \cup {None}]]

FlightOK ==
  /\ phase \in [Procs -> Phases]
  /\ current \in [Procs -> RequestIds \cup {None}]
  /\ docs \in [Procs -> DocsOf]
  /\ next \in [Procs -> Model \cup {None}]

ClientOK ==
  /\ request_cache \in [Procs -> [RequestIds -> Answer \cup {None}]]
  /\ sent \in [RequestIds -> Envelope \cup {None}]
  /\ answer \in [RequestIds -> Answer \cup {None}]

BoundsOK == crashes \in Nat /\ faults \in Nat

\* Every variable holds a value of its kind: the documents in the files and in
\* memory, the command in flight, the answers.
TypeOK == DiskOK /\ SessionOK /\ FlightOK /\ ClientOK /\ BoundsOK

-----------------------------------------------------------------------------
(* Documents *)

ConfigOf(s) == configs[states[s].configRef]
DimsOf(s) == dimensions[ConfigOf(s).dimensionSetRef]

\* model.open of state s would succeed now.
Resolves(s) ==
  /\ ConfigOf(s) # None
  /\ DimsOf(s) # None
  /\ Mergeable(ConfigOf(s), states[s])
  /\ Loadable(Merge(ConfigOf(s), DimsOf(s), states[s]))

\* A state that exists can be opened, at every moment: whatever was killed or
\* failed between two files of a command, the next process can go on from the
\* files it finds (the order of the puts in open_model and apply_mutation).
Reopens == \A s \in StateIds : states[s] # None => Resolves(s)

\* Between commands, opening the state again would give exactly the model,
\* the documents and the revision the process holds in memory.
MemoryIsDisk ==
  \A p \in Procs :
    phase[p] = "idle" /\ Persisted(p) =>
      LET s == backing[p].state.id
      IN  /\ states[s] # None
          /\ Resolves(s)
          /\ backing[p] = [config |-> ConfigOf(s), dims |-> DimsOf(s),
                           state |-> states[s]]
          /\ model[p] = Merge(ConfigOf(s), DimsOf(s), states[s])
          /\ revision[p] = states[s].revision

IsPrefixOf(a, b) == Len(a) <= Len(b) /\ SubSeq(b, 1, Len(a)) = a

CellGrows(old, new) ==
  /\ Len(old) <= Len(new)
  /\ \A i \in 1 .. Len(old) :
       new[i].token = old[i].token /\ IsPrefixOf(old[i].evidence, new[i].evidence)

\* Observations and evidence are only ever appended to a state document, and
\* its revision never goes back (`Monotonic model revision' of the schema).
StateGrows ==
  [][\A s \in StateIds : states[s] # None =>
       /\ states'[s].revision >= states[s].revision
       /\ \A r \in Relations, m \in Members :
            CellGrows(states[s].cells[r][m], states'[s].cells[r][m])]_vars

\* A model whose document is locked or archived is never written, by whatever
\* sequence of opens and imports the mutation is reached (dispatch tests a
\* flag of the session, not the document).
LockedIsUntouched ==
  [][\A s \in StateIds : states[s] # None /\ states[s].locked =>
       states'[s] = states[s] /\
         \A p \in Procs : phase[p] = "put.config" \/ phase[p] = "put.dims" =>
           backing[p].state.id # s]_vars

\* The optimistic lock: a state document is only ever replaced by a command
\* that expected no version or the version of the document it replaces
\* (dispatch compares with the revision in memory).
ExpectedVersionHeld ==
  [][\A s \in StateIds : states[s] # None /\ states'[s] # states[s] =>
       \E p \in Procs :
         /\ phase[p] = "put.state"
         /\ backing[p].state.id = s
         /\ sent[current[p]].expected \in {None, states[s].revision}]_vars

-----------------------------------------------------------------------------
(* The audit log *)

Lines(s) == audit[s].lines

\* The effect of op, requested by r, is in what opening s would give.  A later
\* sync may reactivate a member, a later declaration replaces the scale.
Stored(s, r, op) ==
  CASE op.kind = "dimension.register" -> DimsOf(s).registered
    [] op.kind = "relation.declare" ->
         ConfigOf(s).relations[op.relation] # "absent"
    [] op.kind = "members.sync" ->
         \A m \in op.roster : DimsOf(s).members[m] # "absent"
    [] op.kind = "member.propose" -> DimsOf(s).members[op.member] # "absent"
    [] op.kind = "observe" ->
         LET cell == states[s].cells[op.relation][op.member]
         IN  \E i \in DOMAIN cell : cell[i].token = op.token
    [] op.kind = "evidence.attach" ->
         LET cell == states[s].cells[op.relation][op.member]
         IN  \E i \in DOMAIN cell : \E j \in DOMAIN cell[i].evidence :
               cell[i].evidence[j] = r
    [] op.kind = "deprecate" ->
         IF op.target \in Relations
         THEN ConfigOf(s).relations[op.target] = "deprecated"
         ELSE DimsOf(s).members[op.target] # "absent"
    [] OTHER -> TRUE

\* An accepted mutation is never lost: once it has its audit line, nothing it
\* added disappears from the documents, whatever commands, failures and kills
\* come after (each write rewrites whole documents from the model in memory).
AuditedIsStored ==
  \A s \in StateIds : \A i \in 1 .. Len(Lines(s)) :
    LET r == Lines(s)[i].request
    IN  states[s] # None /\ Resolves(s) /\ Stored(s, r, sent[r].op)

\* The lines tell a history of the state: every mutation takes one version to
\* the next, none starts before an earlier one ended, and the state document
\* is never behind its log.
AuditChain ==
  \A s \in StateIds : \A i \in 1 .. Len(Lines(s)) :
    LET line == Lines(s)[i]
    IN  /\ line.after = line.before + 1 \/ line.after = 0
        /\ i > 1 => Lines(s)[i - 1].after <= line.before
        /\ line.after <= states[s].revision

\* A request that has its audit line is never carried out on that state
\* again: resent to the same process the cache answers it, after a restart
\* and a reopen the replays read from the log do.
OneLinePerRequest ==
  \A s \in StateIds : \A i, j \in 1 .. Len(Lines(s)) :
    Lines(s)[i].request = Lines(s)[j].request => i = j

\* What the client is told is what the log says: a mutation answered as
\* accepted and persisted, or as a replay, has an audit line with the version
\* in the answer.
AcceptedIsAudited ==
  \A r \in RequestIds :
    answer[r] # None /\ answer[r].code \in {"ok", "replayed"}
      /\ sent[r].op \in MutationOp
    => \E s \in StateIds : \E i \in 1 .. Len(Lines(s)) :
         /\ Lines(s)[i].request = r
         /\ Lines(s)[i].after = answer[r].version

-----------------------------------------------------------------------------
(* Requests *)

\* The evidence a request carries is attached to an observation once at most.
AppliedOnce ==
  \A s \in StateIds : states[s] # None =>
    \A r \in Relations, m \in Members :
      LET cell == states[s].cells[r][m]
      IN  \A i \in DOMAIN cell : \A j, k \in DOMAIN cell[i].evidence :
            cell[i].evidence[j] = cell[i].evidence[k] => j = k

-----------------------------------------------------------------------------
(* Progress *)

Unanswered(r) == answer[r] = None

\* A process runs its file operations, a killed one is started again, and a
\* client resends a request until it gets an answer.
Fairness ==
  \A p \in Procs :
    /\ WF_vars(Step(p))
    /\ WF_vars(Start(p))
    /\ \A r \in RequestIds :
         WF_vars(Unanswered(r) /\ \E e \in Sendable(r) : Receive(p, r, e))

FairSpec == Spec /\ Fairness

\* Every request is answered in the end, whatever is killed on the way and
\* whatever documents are missing.
EveryRequestAnswered == \A r \in RequestIds : <>(answer[r] # None)
=============================================================================
