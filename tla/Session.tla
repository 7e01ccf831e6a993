------------------------------ MODULE Session ------------------------------
(***************************************************************************)
(* The command engine of crossmatrix-mcp (session.rs) over the file store  *)
(* (store.rs): every server process keeps one open model in memory and     *)
(* several processes may serve the same store root.  A Session is behind a *)
(* mutex, so a process has one command in flight; the file operations of a *)
(* command are separate steps, between which another process may run, an   *)
(* operation may fail or the process may be killed.                        *)
(*                                                                         *)
(* Clients resend a request they have no answer for: a requestId is sent   *)
(* with the same envelope every time, and always to the same process (or   *)
(* to its next incarnation).                                               *)
(***************************************************************************)
EXTENDS Layers, Sequences

CONSTANTS
  Procs,         \* server processes on one store root
  Committed,     \* the documents found in the store root at the start
  None,          \* no document, model, answer, request or version
  ClientOf,      \* the process each request is sent to
  Commands,      \* the ops a request may carry
  Expectations,  \* the expectedVersions it may carry
  MaxCrashes,    \* bound on kills of a process
  MaxFaults,     \* bound on failing file operations
  Tears          \* how an append may come apart: "partial", "unterminated",
                 \* if it is interrupted, "interleaved" with other processes

ASSUME SessionAssumption ==
  /\ ClientOf \in [RequestIds -> Procs]
  /\ \A r \in RequestIds : Expectations[r] \subseteq Nat \cup {None}
  /\ MaxCrashes \in Nat /\ MaxFaults \in Nat
  /\ Tears \subseteq {"partial", "unterminated", "interleaved"}
  /\ None \notin Nat /\ None \notin RequestIds

VARIABLES
  (* the store root *)
  configs,       \* config/
  dimensions,    \* dimensions/
  states,        \* state/, the unversioned current documents
  audit,         \* audit/, one JSONL file per state
  (* the Session of each process *)
  model,         \* the open model, or None
  backing,       \* the documents behind a persisted model; None if ephemeral
  revision,      \* the revision optimistic CAS compares with
  locked,
  request_cache, \* requestId -> the answer given, in this process
  audit_replays, \* requestId -> afterVersion, read when the model was opened
  (* the command in flight in each process *)
  phase,         \* the file operation it does next; "idle", "down"
  current,       \* its requestId
  docs,          \* the documents model.open has read or built so far
  next,          \* the model a mutation has built
  (* the clients *)
  sent,          \* requestId -> its envelope, once it has been sent
  answer,        \* requestId -> the last answer received
  (* bounds *)
  crashes, faults

disk == <<configs, dimensions, states, audit>>
session == <<model, backing, revision, locked, audit_replays>>
flight == <<phase, current, docs, next>>
client == <<request_cache, sent, answer>>
bounds == <<crashes, faults>>
vars == <<disk, session, flight, client, bounds>>

-----------------------------------------------------------------------------
(* Types *)

OpenOp ==
  [kind: {"model.open"}, state: StateIds, config: ConfigIds,
   dims: DimSetIds, locked: BOOLEAN]

Op == MutationOp \cup OpenOp \cup [kind: {"model.status"}]
        \cup [kind: {"import"}, model: Model]

ASSUME CommandsAssumption == \A r \in RequestIds : Commands[r] \subseteq Op

Envelope == [op: Op, expected: Nat \cup {None}]

\* "in_memory" is an accepted mutation whose answer says persisted: false.
Codes ==
  {"ok", "in_memory", "noop", "replayed", "invalid_model", "no_model",
   "model_locked", "version_conflict", "write_rejected", "open_failed",
   "persist_failed"}

Answer == [code: Codes, version: Nat]

Line == [request: RequestIds, before: Nat, after: Nat]

\* tail: every line is terminated / the last line lacks its newline / some
\* line is not JSON, so the file does not parse any more.
AuditFile == [lines: Seq(Line), tail: {"clean", "unterminated", "garbled"}]

Backing == [config: Configuration, dims: Dimensions, state: State]

\* The store travels with the repository, so a process may start on documents
\* written elsewhere (examples/split); each is filed under its own id.
Store ==
  [configs: [ConfigIds -> Configuration \cup {None}],
   dimensions: [DimSetIds -> Dimensions \cup {None}],
   states: [StateIds -> State \cup {None}]]

Filed(files) == \A id \in DOMAIN files : files[id] # None => files[id].id = id

ASSUME CommittedAssumption ==
  /\ Committed \in Store
  /\ Filed(Committed.configs)
  /\ Filed(Committed.dimensions)
  /\ Filed(Committed.states)

\* None is not a value of any other kind.
ASSUME NoneAssumption ==
  /\ None \notin Configuration /\ None \notin Dimensions /\ None \notin State
  /\ None \notin Model /\ None \notin Backing /\ None \notin Answer
  /\ None \notin Envelope

PutPhases == {"put.config", "put.dims", "put.state"}
Phases ==
  {"down", "idle", "open.config", "open.dims", "open.audit",
   "create.config", "create.dims", "create.state", "create.audit",
   "create.newline", "put.audit", "put.newline"} \cup PutPhases

NoDocs == [config |-> None, dims |-> None, state |-> None]

-----------------------------------------------------------------------------
(* The audit log *)

\* AuditLog::append writes the line and then its newline.  A line put behind
\* one that was not terminated makes both unparsable.
LineWritten(log, line) ==
  [lines |-> Append(log.lines, line),
   tail |-> IF log.tail = "clean" THEN "unterminated" ELSE "garbled"]

Terminated(log) ==
  [log EXCEPT !.tail = IF @ = "unterminated" THEN "clean" ELSE @]

Appended(log, line) == Terminated(LineWritten(log, line))

\* What an append that fails may leave: nothing, half a line, or the line
\* without its newline.
Torn(log, line) ==
  {log}
  \cup {[log EXCEPT !.tail = "garbled"] : t \in Tears \cap {"partial"}}
  \cup {LineWritten(log, line) : t \in Tears \cap {"unterminated"}}

\* A kill may also come after the last write and before the answer.
Killed(log, line) == Torn(log, line) \cup {Appended(log, line)}

NoReplays == [r \in RequestIds |-> None]

\* Mutant: the last line of the log is skipped.
ReplaysButLast(log) ==
  [r \in RequestIds |->
     LET at == {i \in 1 .. Len(log.lines) - 1 : log.lines[i].request = r}
     IN  IF at = {} THEN None ELSE log.lines[CHOOSE i \in at : TRUE].after]

\* load_audit_replays: a file that does not parse gives no replays, and of
\* several lines of a request the last one counts.
Replays(log) ==
  IF log.tail = "garbled" THEN NoReplays
  ELSE [r \in RequestIds |->
          LET at == {i \in 1 .. Len(log.lines) : log.lines[i].request = r}
          IN  IF at = {} THEN None
              ELSE log.lines[CHOOSE i \in at : \A j \in at : j <= i].after]

-----------------------------------------------------------------------------
(* Receiving a command: the order of Session::dispatch *)

Envelopes(r) == [op: Commands[r], expected: Expectations[r]]

Persisted(p) == backing[p] # None

Arrives(p, r, e) ==
  /\ phase[p] = "idle"
  /\ ClientOf[r] = p
  /\ IF sent[r] = None THEN e \in Envelopes(r) ELSE e = sent[r]
  /\ sent' = [sent EXCEPT ![r] = e]

\* Every answer, a rejection too, is cached under its requestId.
Answers(p, r, code, version) ==
  LET a == [code |-> code, version |-> version]
  IN  /\ request_cache' = [request_cache EXCEPT ![p][r] = a]
      /\ answer' = [answer EXCEPT ![r] = a]

\* The in-process cache comes first, whatever is open now.
ReplayCached(p, r, e) ==
  /\ Arrives(p, r, e)
  /\ request_cache[p][r] # None
  /\ answer' = [answer EXCEPT ![r] = request_cache[p][r]]
  /\ UNCHANGED <<disk, session, flight, bounds, request_cache>>

AuditReplay(p, r) == Persisted(p) /\ audit_replays[p][r] # None

ReplayAudited(p, r, e) ==
  /\ Arrives(p, r, e)
  /\ request_cache[p][r] = None
  /\ AuditReplay(p, r)
  /\ Answers(p, r, "replayed", audit_replays[p][r])
  /\ UNCHANGED <<disk, session, flight, bounds>>

Dispatches(p, r, e) ==
  Arrives(p, r, e) /\ request_cache[p][r] = None /\ ~AuditReplay(p, r)

\* Mutant: the documents of the previous model stay behind the imported one.
ImportOverDocuments(p, r, e) ==
  /\ Dispatches(p, r, e)
  /\ e.op.kind = "import"
  /\ model' = [model EXCEPT ![p] = e.op.model]
  /\ Answers(p, r, "ok", 0)
  /\ UNCHANGED <<disk, backing, revision, locked, audit_replays, flight, bounds>>

\* A command that carries a whole model replaces the open one (set_ephemeral).
Import(p, r, e) ==
  /\ Dispatches(p, r, e)
  /\ e.op.kind = "import"
  /\ IF Loadable(e.op.model)
     THEN /\ model' = [model EXCEPT ![p] = e.op.model]
          /\ backing' = [backing EXCEPT ![p] = None]
          /\ revision' = [revision EXCEPT ![p] = 0]
          /\ locked' = [locked EXCEPT ![p] = FALSE]
          /\ audit_replays' = [audit_replays EXCEPT ![p] = NoReplays]
          /\ Answers(p, r, "ok", 0)
     ELSE /\ Answers(p, r, "invalid_model", 0)
          /\ UNCHANGED session
  /\ UNCHANGED <<disk, flight, bounds>>

Status(p, r, e) ==
  /\ Dispatches(p, r, e)
  /\ e.op.kind = "model.status"
  /\ Answers(p, r, "ok", revision[p])
  /\ UNCHANGED <<disk, session, flight, bounds>>

-----------------------------------------------------------------------------
(* model.open of a state that exists *)

OpenExisting(p, r, e) ==
  /\ Dispatches(p, r, e)
  /\ e.op.kind = "model.open"
  /\ states[e.op.state] # None
  /\ phase' = [phase EXCEPT ![p] = "open.config"]
  /\ current' = [current EXCEPT ![p] = r]
  /\ docs' = [docs EXCEPT ![p] = [NoDocs EXCEPT !.state = states[e.op.state]]]
  /\ UNCHANGED <<disk, session, bounds, next, request_cache, answer>>

\* Ends the command in flight.
Lands(p) ==
  /\ phase' = [phase EXCEPT ![p] = "idle"]
  /\ current' = [current EXCEPT ![p] = None]
  /\ docs' = [docs EXCEPT ![p] = NoDocs]
  /\ next' = [next EXCEPT ![p] = None]

\* Mutant: the failure is not reported.
OpenFailsSilently(p) == Lands(p) /\ UNCHANGED <<disk, session, bounds, client>>

OpenFails(p) ==
  /\ Answers(p, current[p], "open_failed", 0)
  /\ Lands(p)
  /\ UNCHANGED <<disk, session, bounds, sent>>

OpenReadConfig(p) ==
  LET config == configs[docs[p].state.configRef]
  IN  /\ phase[p] = "open.config"
      /\ IF config = None THEN OpenFails(p)
         ELSE /\ docs' = [docs EXCEPT ![p].config = config]
              /\ phase' = [phase EXCEPT ![p] = "open.dims"]
              /\ UNCHANGED <<disk, session, client, bounds, current, next>>

\* The dimensions document is the one the configuration names; then the three
\* are merged and loaded.
OpenReadDims(p) ==
  LET d == docs[p]
      dims == dimensions[d.config.dimensionSetRef]
  IN  /\ phase[p] = "open.dims"
      /\ IF /\ dims # None
            /\ Mergeable(d.config, d.state)
            /\ Loadable(Merge(d.config, dims, d.state))
         THEN /\ docs' = [docs EXCEPT ![p].dims = dims]
              /\ phase' = [phase EXCEPT ![p] = "open.audit"]
              /\ UNCHANGED <<disk, session, client, bounds, current, next>>
         ELSE OpenFails(p)

\* The session switches to the documents in hand.
Switches(p, replays) ==
  LET d == docs[p]
  IN  /\ model' = [model EXCEPT ![p] = Merge(d.config, d.dims, d.state)]
      /\ backing' = [backing EXCEPT ![p] = d]
      /\ revision' = [revision EXCEPT ![p] = d.state.revision]
      /\ locked' = [locked EXCEPT ![p] = d.state.locked]
      /\ audit_replays' = [audit_replays EXCEPT ![p] = replays]

OpenReadAudit(p) ==
  /\ phase[p] = "open.audit"
  /\ Switches(p, Replays(audit[docs[p].state.id]))
  /\ Answers(p, current[p], "ok", docs[p].state.revision)
  /\ Lands(p)
  /\ UNCHANGED <<disk, bounds, sent>>

-----------------------------------------------------------------------------
(* model.open of a state that does not exist *)

\* A configuration or dimensions document that cannot be read, for whatever
\* reason, is built anew; the dimensions are the ones the op names, which an
\* existing configuration need not.  The reads come before the first put and
\* are one step with the test for the state.
Create(p, r, e, configReads, dimsReads) ==
  LET op == e.op
      configDoc == IF configReads THEN configs[op.config] ELSE None
      dimsDoc == IF dimsReads THEN dimensions[op.dims] ELSE None
  IN  /\ Dispatches(p, r, e)
      /\ op.kind = "model.open"
      /\ states[op.state] = None
      /\ docs' = [docs EXCEPT ![p] =
           [config |-> IF configDoc # None THEN configDoc
                       ELSE EmptyConfiguration(op.config, op.dims),
            dims |-> IF dimsDoc # None THEN dimsDoc
                     ELSE EmptyDimensions(op.dims),
            state |-> EmptyState(op.state, op.config, op.locked)]]
      /\ phase' = [phase EXCEPT ![p] = "create.config"]
      /\ current' = [current EXCEPT ![p] = r]
      /\ UNCHANGED <<disk, session, next, request_cache, answer>>

\* Mutants: documents that exist are not reused.
OpenCreateAnew(p, r, e) == Create(p, r, e, FALSE, TRUE) /\ UNCHANGED bounds
OpenCreateNewDims(p, r, e) == Create(p, r, e, TRUE, FALSE) /\ UNCHANGED bounds

OpenCreate(p, r, e) == Create(p, r, e, TRUE, TRUE) /\ UNCHANGED bounds

CreatePutConfig(p) ==
  /\ phase[p] = "create.config"
  /\ configs' = [configs EXCEPT ![docs[p].config.id] = docs[p].config]
  /\ phase' = [phase EXCEPT ![p] = "create.dims"]
  /\ UNCHANGED <<dimensions, states, audit, session, client, bounds,
                 current, docs, next>>

CreatePutDims(p) ==
  /\ phase[p] = "create.dims"
  /\ dimensions' = [dimensions EXCEPT ![docs[p].dims.id] = docs[p].dims]
  /\ phase' = [phase EXCEPT ![p] = "create.state"]
  /\ UNCHANGED <<configs, states, audit, session, client, bounds,
                 current, docs, next>>

CreatePutState(p) ==
  /\ phase[p] = "create.state"
  /\ states' = [states EXCEPT ![docs[p].state.id] = docs[p].state]
  /\ phase' = [phase EXCEPT ![p] = "create.audit"]
  /\ UNCHANGED <<configs, dimensions, audit, session, client, bounds,
                 current, docs, next>>

\* A fresh state has no cells, so merge and load succeed.
CreateLine(p) == [request |-> current[p], before |-> 0, after |-> 0]

\* The newline is a step of its own where appends may interleave.
CreateAppendLine(p) ==
  LET s == docs[p].state.id
  IN  /\ phase[p] = "create.audit"
      /\ "interleaved" \in Tears
      /\ audit' = [audit EXCEPT ![s] = LineWritten(audit[s], CreateLine(p))]
      /\ phase' = [phase EXCEPT ![p] = "create.newline"]
      /\ UNCHANGED <<configs, dimensions, states, session, client, bounds,
                     current, docs, next>>

CreateAppendAudit(p) ==
  LET s == docs[p].state.id
  IN  /\ \/ /\ phase[p] = "create.audit"
            /\ audit' = [audit EXCEPT ![s] = Appended(audit[s], CreateLine(p))]
         \/ /\ phase[p] = "create.newline"
            /\ audit' = [audit EXCEPT ![s] = Terminated(audit[s])]
      /\ Switches(p, Replays(audit'[s]))
      /\ Answers(p, current[p], "ok", 0)
      /\ Lands(p)
      /\ UNCHANGED <<configs, dimensions, states, bounds, sent>>

-----------------------------------------------------------------------------
(* Mutations *)

Mutates(p, r, e) ==
  Dispatches(p, r, e) /\ e.op.kind \notin {"import", "model.status", "model.open"}

\* Mutant: no optimistic lock.
ConflictsNever(p, e) == FALSE

Conflicts(p, e) == e.expected \notin {None, revision[p]}

Refusal(p, r, e) ==
  CASE model[p] = None -> "no_model"
    [] model[p] # None /\ locked[p] -> "model_locked"
    [] model[p] # None /\ ~locked[p] /\ Conflicts(p, e) -> "version_conflict"
    [] OTHER -> "write_rejected"

\* Mutant: the lock of the model is not looked at.
AcceptsLocked(p, r, e) ==
  model[p] # None /\ ~Conflicts(p, e) /\ Succeeds(model[p], e.op, r)

Accepts(p, r, e) ==
  /\ model[p] # None
  /\ ~locked[p]
  /\ ~Conflicts(p, e)
  /\ Succeeds(model[p], e.op, r)

Refuse(p, r, e) ==
  /\ Mutates(p, r, e)
  /\ ~Accepts(p, r, e)
  /\ Answers(p, r, Refusal(p, r, e), 0)
  /\ UNCHANGED <<disk, session, flight, bounds>>

\* A write that changes nothing: no revision, no files, no audit line.
NoOp(p, r, e) ==
  /\ Mutates(p, r, e)
  /\ Accepts(p, r, e)
  /\ Written(model[p], e.op, r) = model[p]
  /\ Answers(p, r, "noop", revision[p])
  /\ UNCHANGED <<disk, session, flight, bounds>>

MutateEphemeral(p, r, e) ==
  /\ Mutates(p, r, e)
  /\ Accepts(p, r, e)
  /\ Written(model[p], e.op, r) # model[p]
  /\ ~Persisted(p)
  /\ model' = [model EXCEPT ![p] = Written(model[p], e.op, r)]
  /\ revision' = [revision EXCEPT ![p] = revision[p] + 1]
  /\ Answers(p, r, "in_memory", revision[p] + 1)
  /\ UNCHANGED <<disk, flight, bounds, backing, locked, audit_replays>>

MutatePersisted(p, r, e) ==
  LET written == Written(model[p], e.op, r)
  IN  /\ Mutates(p, r, e)
      /\ Accepts(p, r, e)
      /\ written # model[p]
      /\ Persisted(p)
      /\ next' = [next EXCEPT ![p] = written]
      /\ current' = [current EXCEPT ![p] = r]
      /\ phase' = [phase EXCEPT ![p] =
           IF RewritesConfiguration(e.op, written, backing[p].config)
           THEN "put.config"
           ELSE IF RewritesDimensions(e.op, written, backing[p].dims)
           THEN "put.dims" ELSE "put.state"]
      /\ UNCHANGED <<disk, session, bounds, docs, request_cache, answer>>

PutConfig(p) ==
  LET config2 == SplitConfiguration(next[p], backing[p].config)
  IN  /\ phase[p] = "put.config"
      /\ configs' = [configs EXCEPT ![config2.id] = config2]
      /\ phase' = [phase EXCEPT ![p] =
           IF RewritesDimensions(sent[current[p]].op, next[p], backing[p].dims)
           THEN "put.dims" ELSE "put.state"]
      /\ UNCHANGED <<dimensions, states, audit, session, client, bounds,
                     current, docs, next>>

PutDims(p) ==
  LET dims2 == SplitDimensions(next[p], backing[p].dims)
  IN  /\ phase[p] = "put.dims"
      /\ dimensions' = [dimensions EXCEPT ![dims2.id] = dims2]
      /\ phase' = [phase EXCEPT ![p] = "put.state"]
      /\ UNCHANGED <<configs, states, audit, session, client, bounds,
                     current, docs, next>>

\* The backing documents are replaced as soon as the files are written.
PutState(p) ==
  LET b == backing[p]
      state2 == SplitState(next[p], b.state, revision[p] + 1)
  IN  /\ phase[p] = "put.state"
      /\ states' = [states EXCEPT ![state2.id] = state2]
      /\ backing' = [backing EXCEPT ![p] =
           [config |-> SplitConfiguration(next[p], b.config),
            dims |-> SplitDimensions(next[p], b.dims),
            state |-> state2]]
      /\ phase' = [phase EXCEPT ![p] = "put.audit"]
      /\ UNCHANGED <<configs, dimensions, audit, client, bounds, model,
                     revision, locked, audit_replays, current, docs, next>>

MutationLine(p) ==
  [request |-> current[p], before |-> revision[p], after |-> revision[p] + 1]

AppendLine(p) ==
  LET s == backing[p].state.id
  IN  /\ phase[p] = "put.audit"
      /\ "interleaved" \in Tears
      /\ audit' = [audit EXCEPT ![s] = LineWritten(audit[s], MutationLine(p))]
      /\ phase' = [phase EXCEPT ![p] = "put.newline"]
      /\ UNCHANGED <<configs, dimensions, states, session, client, bounds,
                     current, docs, next>>

AppendAudit(p) ==
  LET s == backing[p].state.id
  IN  /\ \/ /\ phase[p] = "put.audit"
            /\ audit' = [audit EXCEPT ![s] = Appended(audit[s], MutationLine(p))]
         \/ /\ phase[p] = "put.newline"
            /\ audit' = [audit EXCEPT ![s] = Terminated(audit[s])]
      /\ model' = [model EXCEPT ![p] = next[p]]
      /\ revision' = [revision EXCEPT ![p] = revision[p] + 1]
      /\ Answers(p, current[p], "ok", revision[p] + 1)
      /\ Lands(p)
      /\ UNCHANGED <<configs, dimensions, states, backing, locked,
                     audit_replays, bounds, sent>>

-----------------------------------------------------------------------------
(* Failures *)

\* A file operation returns an error.  A put changes nothing then (temp file
\* and rename); the command gives up and the files already written stay.
Faulty == faults < MaxFaults /\ faults' = faults + 1 /\ UNCHANGED crashes

OpenError(p) ==
  /\ phase[p] \in {"open.config", "open.dims",
                   "create.config", "create.dims", "create.state"}
  /\ Faulty
  /\ Answers(p, current[p], "open_failed", 0)
  /\ Lands(p)
  /\ UNCHANGED <<disk, session, sent>>

\* Creating a state, an error reading a document counts as its absence.
CreateReadError(p, r, e) ==
  /\ Faulty
  /\ \/ Create(p, r, e, FALSE, TRUE)
     \/ Create(p, r, e, TRUE, FALSE)

\* load_audit_replays ignores an error.
ReplaysError(p) ==
  /\ phase[p] = "open.audit"
  /\ Faulty
  /\ Switches(p, NoReplays)
  /\ Answers(p, current[p], "ok", docs[p].state.revision)
  /\ Lands(p)
  /\ UNCHANGED <<disk, sent>>

\* Mutant: the error of a put is ignored.
PutErrorIgnored(p) ==
  /\ phase[p] \in PutPhases
  /\ Faulty
  /\ phase' = [phase EXCEPT ![p] = "put.audit"]
  /\ UNCHANGED <<disk, session, client, current, docs, next>>

PutError(p) ==
  /\ phase[p] \in PutPhases
  /\ Faulty
  /\ Answers(p, current[p], "persist_failed", 0)
  /\ Lands(p)
  /\ UNCHANGED <<disk, session, sent>>

CreateAuditError(p) ==
  LET s == docs[p].state.id
  IN  /\ phase[p] = "create.audit"
      /\ Faulty
      /\ \E log \in Torn(audit[s], CreateLine(p)) :
           audit' = [audit EXCEPT ![s] = log]
      /\ Answers(p, current[p], "open_failed", 0)
      /\ Lands(p)
      /\ UNCHANGED <<configs, dimensions, states, session, sent>>

\* Mutant: the error of the append is ignored.
AuditErrorIgnored(p) ==
  /\ phase[p] = "put.audit"
  /\ Faulty
  /\ model' = [model EXCEPT ![p] = next[p]]
  /\ revision' = [revision EXCEPT ![p] = revision[p] + 1]
  /\ Answers(p, current[p], "ok", revision[p] + 1)
  /\ Lands(p)
  /\ UNCHANGED <<disk, backing, locked, audit_replays, sent>>

\* The state file and `backing' carry the new revision, the model and
\* `revision' in memory do not.
AuditError(p) ==
  LET s == backing[p].state.id
  IN  /\ phase[p] = "put.audit"
      /\ Faulty
      /\ \E log \in Torn(audit[s], MutationLine(p)) :
           audit' = [audit EXCEPT ![s] = log]
      /\ Answers(p, current[p], "persist_failed", 0)
      /\ Lands(p)
      /\ UNCHANGED <<configs, dimensions, states, session, sent>>

\* A kill leaves the files as they are, but for an append under way.
CrashLog(p) ==
  CASE phase[p] = "put.audit" ->
         LET s == backing[p].state.id
         IN  \E log \in Killed(audit[s], MutationLine(p)) :
               audit' = [audit EXCEPT ![s] = log]
    [] phase[p] = "create.audit" ->
         LET s == docs[p].state.id
         IN  \E log \in Killed(audit[s], CreateLine(p)) :
               audit' = [audit EXCEPT ![s] = log]
    [] OTHER -> UNCHANGED audit

Crash(p) ==
  /\ phase[p] # "down"
  /\ crashes < MaxCrashes
  /\ crashes' = crashes + 1
  /\ CrashLog(p)
  /\ phase' = [phase EXCEPT ![p] = "down"]
  /\ current' = [current EXCEPT ![p] = None]
  /\ docs' = [docs EXCEPT ![p] = NoDocs]
  /\ next' = [next EXCEPT ![p] = None]
  /\ model' = [model EXCEPT ![p] = None]
  /\ backing' = [backing EXCEPT ![p] = None]
  /\ revision' = [revision EXCEPT ![p] = 0]
  /\ locked' = [locked EXCEPT ![p] = FALSE]
  /\ request_cache' = [request_cache EXCEPT ![p] = [r \in RequestIds |-> None]]
  /\ audit_replays' = [audit_replays EXCEPT ![p] = NoReplays]
  /\ UNCHANGED <<configs, dimensions, states, sent, answer, faults>>

\* Session::new: nothing open, nothing cached.
Start(p) ==
  /\ phase[p] = "down"
  /\ phase' = [phase EXCEPT ![p] = "idle"]
  /\ UNCHANGED <<disk, session, client, bounds, current, docs, next>>

-----------------------------------------------------------------------------
(* Specification *)

Init ==
  /\ configs = Committed.configs
  /\ dimensions = Committed.dimensions
  /\ states = Committed.states
  /\ audit = [s \in StateIds |-> [lines |-> <<>>, tail |-> "clean"]]
  /\ model = [p \in Procs |-> None]
  /\ backing = [p \in Procs |-> None]
  /\ revision = [p \in Procs |-> 0]
  /\ locked = [p \in Procs |-> FALSE]
  /\ request_cache = [p \in Procs |-> [r \in RequestIds |-> None]]
  /\ audit_replays = [p \in Procs |-> NoReplays]
  /\ phase = [p \in Procs |-> "down"]
  /\ current = [p \in Procs |-> None]
  /\ docs = [p \in Procs |-> NoDocs]
  /\ next = [p \in Procs |-> None]
  /\ sent = [r \in RequestIds |-> None]
  /\ answer = [r \in RequestIds |-> None]
  /\ crashes = 0
  /\ faults = 0

\* A command arrives and either is answered at once or takes flight.
Receive(p, r, e) ==
  \/ ReplayCached(p, r, e)
  \/ ReplayAudited(p, r, e)
  \/ Import(p, r, e)
  \/ Status(p, r, e)
  \/ OpenExisting(p, r, e)
  \/ OpenCreate(p, r, e)
  \/ Refuse(p, r, e)
  \/ NoOp(p, r, e)
  \/ MutateEphemeral(p, r, e)
  \/ MutatePersisted(p, r, e)

\* The next file operation of the command in flight.
Step(p) ==
  \/ OpenReadConfig(p)
  \/ OpenReadDims(p)
  \/ OpenReadAudit(p)
  \/ CreatePutConfig(p)
  \/ CreatePutDims(p)
  \/ CreatePutState(p)
  \/ CreateAppendLine(p)
  \/ CreateAppendAudit(p)
  \/ PutConfig(p)
  \/ PutDims(p)
  \/ PutState(p)
  \/ AppendLine(p)
  \/ AppendAudit(p)

Fault(p) ==
  \/ OpenError(p)
  \/ ReplaysError(p)
  \/ PutError(p)
  \/ CreateAuditError(p)
  \/ AuditError(p)
  \/ Crash(p)

Sendable(r) == IF sent[r] = None THEN Envelopes(r) ELSE {sent[r]}

Next ==
  \E p \in Procs :
    \/ Start(p)
    \/ Step(p)
    \/ Fault(p)
    \/ \E r \in RequestIds : \E e \in Sendable(r) :
         Receive(p, r, e) \/ CreateReadError(p, r, e)

Spec == Init /\ [][Next]_vars
=============================================================================
