# crossmatrix in TLA+

crossmatrix keeps cross-matrix models (dimensions, members, relations with
cells of qualitative observations) as JSON documents in a repository and serves
them to agents over MCP: `crossmatrix.command` changes the open model,
`crossmatrix.query` analyses it.  This directory models the parts of it that
must not go wrong quietly: what a command does to the model in memory and to
the files, and what a killed or failing process leaves behind; what the writes
do to a document and what the analyses say of it; what the assist calls record
beside other commands; and what the skills installer and the npm launcher do to
directories that several of their processes share.

## 1. The system

| Component | Source | State | Operations |
|---|---|---|---|
| Session | `crates/crossmatrix-mcp/src/session.rs` | the open model, its three documents (`Backing`), revision, locked flag, `request_cache`, `audit_replays` | `command`: import, `model.status`, `model.open`, nine mutations |
| Store | `.../store.rs` | files `config/`, `dimensions/`, `state/`, `audit/` | put (temp file, fsync, rename), get, append and read of the audit log |
| Merge | `.../merge.rs` | – | `merge`: three documents to one model; `split`: back |
| Engine, writes | `crates/crossmatrix/src/write.rs` | – (document in, document out) | `register_dimension` … `deprecate` |
| Engine, loader | `crates/crossmatrix/src/lib.rs` | – | `from_doc`: dangling cells, tokens, contraction chains, acyclic `contains` |
| Engine, analyses | same | – | contract, findings, tensions, rollup, ancestors, coverage |
| Queries | `.../queries.rs`, `report.rs` | – | read-only views, paging by cursor, report |
| Assist | `.../assist_dispatch.rs`, `assist/`, `assist_rig/` | – | ask a judge model about gaps, record its answers as proposals |
| Repository | `.../repo.rs` | store root | find, `init`, `check` |
| Skills installer | `.../skills.rs` | skill directories, manifest, lock files | install, uninstall, status |
| npm launcher | `npm/lib/install.js` | cached binary, `.verified` marker, lock file | download once, verify, run |
| Shell | `main.rs`, `cli.rs` | one `Mutex<Session>` | JSON-RPC, command line |

How they interact: the shell takes the mutex of the Session for the whole of a
command, so one process runs one command at a time; the assist component gives
the mutex back while it waits for the judge.  Processes share nothing but the
files, and take no lock on them.  A Session holds everything it read at
`model.open`; it does not look at the files again until the next one.  The
writes are pure: they build a new document, the loader validates it, and only
then the Session goes on to the files.

What is hard:

- a command is up to four file operations (configuration, dimensions, state,
  audit line), with a kill or an error possible after each;
- `requestId` is a promise kept by two memories: the in-process cache of
  answers, which a restart loses, and the audit log, read at `model.open` only;
- documents are shared: a configuration and its dimensions serve several
  states, and a store root several processes;
- an assist call plans, asks and records under three holds of the lock;
- the installer and the launcher lock with files that outlive their process and
  are taken over by age or by the death of their owner;
- several fields of the Session describe the same open model and must change
  together.

What makes each component correct:

- Session and Store: the files always open (`Reopens`); they are what is in
  memory (`MemoryIsDisk`); nothing recorded is lost (`AuditedIsStored`); the log
  is a history (`AuditChain`) in which a request appears once
  (`OneLinePerRequest`); answers tell the truth (`AcceptedIsAudited`); locks
  lock (`LockedIsUntouched`, `ExpectedVersionHeld`); everyone is answered
  (`EveryRequestAnswered`).
- Engine: writes append and never delete (`NothingIsLost`) and build documents
  the loader takes (`TypeOK` of `Engine`); analyses agree with their
  definitions (`CycleSearchIsExact`, `RollupIsExact`, `ContractionSumsWays`,
  `OppositionIsNeverHidden`, `ProposalsDecideNothing`); pages add up to their
  list (`PagesAreWhole`).
- Assist: a suggestion is stored once, but for kills between the state file and
  the audit line (`OncePerToken`), decides nothing
  (`RecordingDecidesNothing`), and every call is answered (`EveryCallEnds`).
- Installer: manifests say what is there (`RecordsAreTrue`), the user's edits
  stay (`EditsAreKept`), one writer per root (`OneWriter`).
- Launcher: what is run was verified (`InstalledIsVerified`,
  `OnlyVerifiedRuns`), one process downloads (`OneDownload`), and nothing is left
  behind but by a process that was struck down (`CleanedUp`).
- Repository: what `check` accepts, `model.open` opens.

## 2. Modules

| Module | What it holds |
|---|---|
| `Layers` | the three documents, merge, load and split, the engine's writes as the session sees them |
| `Session` | the processes, their sessions, the store and the clients; one action per file operation |
| `SessionProperties` | type invariant, safety, action and liveness properties, fairness |
| `DurableModel` | the abstract specification: a model, a version and the recorded requests; no files, no processes |
| `SessionRefinement` | the refinement mapping from Session to DurableModel |
| `MCSession` | the instances TLC checks: committed stores and what each request may carry |
| `SessionProofs` | proved: the type invariant, and the types of merge, split and the writes; one audit line per request; accepted mutations are in the log |
| `StoreProofs` | proved: locked states stay untouched; the log is a history; the expected version held; states only grow; memory is what the disk gives |
| `DurabilityProofs` | proved: what the log says is in the documents; every state can be opened; Session implements DurableModel |
| `Documents` | the engine's document in full and its loader, `from_doc`, with `find_cycle` |
| `Writes` | the nine writes: for each the condition of its checks and the document it builds |
| `Analyses` | the effective view and what the engine computes from it |
| `Queries` | slice, trace and stale: selectors, limits, cursors |
| `Engine` | a client of one document: one action per write; what the writes keep |
| `EngineProperties` | the analyses against reference definitions |
| `MCEngine` | an empty document, one in use, one with a member in two dimensions; the writes' arguments |
| `EngineLemmas` | lemmas for `EngineProofs` and `AssistProofs`: recursion, sums, lists, the cycle search, the dimension of a member, what is appended to a cell |
| `EngineProofs` | proved: documents stay in order; nothing is lost; no-ops are exact; the cycle search, roll-up, contraction, tensions, proposals and pages mean what they should |
| `Assist` | the assist calls of one process beside its user's commands; its properties |
| `AssistProofs` | proved: what is stored loads and no call asks about too many cells; suggestions are stored once, unless cut off from their line; they decide nothing |
| `MCAssist` | two states of one shape, one perhaps locked |
| `Skills` | runs of the skills installer over shared roots; its properties |
| `SkillsProofs` | proved: types; the user's edits stay; one writer per root; manifests are true; no empty AGENTS.md; what is installed stays |
| `MCSkills` | two runs, two releases, two targets that share a root |
| `Launcher` | launches of the npm launcher over one cache; its properties |
| `MCLauncher` | three launches on one machine or two |
| `LauncherProofs` | proved: types; what is in the cache and what is run was verified; one download at a time; nothing left behind by who was not struck |

`Assist` builds on `Writes` and `Analyses`: a recorded suggestion goes through
the same `MayObserve`, `Observed` and `Loads` as a user's observation, and the
cells to ask about come from `GapsNext`.  `Session` keeps the coarser writes of
`Layers`, in which a document is small enough for all interleavings of the file
operations; `Engine` has the full ones and no files.

### How the state corresponds to the code

- **Session.** `configs`, `dimensions`, `states` and `audit` are the directories
  of the store root, as functions from id to document.  `model`, `backing`,
  `revision`, `locked`, `request_cache` and `audit_replays` are the fields of
  `Session`, per process.  `phase`, `current`, `docs` and `next` are the locals
  of the command in flight: the file operation it comes to next, its request,
  the documents `open_model` has so far, and the model `apply_mutation` built.
  `sent` and `answer` are what the clients know.  `crashes` and `faults` only
  bound the runs.
- **Engine.** `doc` is the document of `Model`; what `from_doc` derives from it
  (rosters, token ranks, scale tables, hierarchy) are operators.
- **Assist.** `calls` are the calls under way: where each is (`pc`), the state,
  relation and tokens of its `SuggestPlan`, the cells left, the proposals and
  how many are recorded.  `cache`, `open`, `stored` and `logged` are the request
  cache, the open state, and the document and audited request ids of each state.
  `lost` is a history: the suggestions that a kill has cut off from their audit
  line; `InHand` is the one whose line is about to be written.
- **Skills.** `content`, `agents`, `manifest` and `lockfile` are the file
  system, by root; `plans` and `agentsPlan` the `RootPlan`s and `AgentsPlan` of a
  run, `held` its `RootLock`s, `todo` the roots it has still to lock or to
  write: locked in path order (`PathOrder`, the sort in `lock_all`),
  written in the order of the target (`RootsOf`).
- **Launcher.** `final`, `verified`, `lock` and `workDirs` are the files of the
  cache; `pc`, `holds`, `archive` and `judged` the locals of a launch: its
  release function, what it downloaded, the lock text it found stale; `handlers`
  is whether its signal handlers are registered, `outcome` what `ensureBinary`
  will come to once it has left.

### How the actions correspond

**Session.** `Receive` is `Session::command` and `dispatch` in the order of the
code: `ReplayCached`, `ReplayAudited`, `Import`, `Status`, `OpenExisting` or
`OpenCreate`, then the guards of the mutations (`Refuse`), the no-op (`NoOp`),
and the mutation (`MutateEphemeral`, `MutatePersisted`).  `Step` has one action
per file operation: `OpenReadConfig`, `OpenReadDims` (with merge and load),
`OpenReadAudit`, `CreatePut*`, `CreateAppendAudit`, `PutConfig`, `PutDims`,
`PutState`, `AppendAudit`; assignments to the Session belong to the operation
they follow.  `AppendLine` and `CreateAppendLine` separate the line from its
newline, as `AuditLog::append` does; they exist where `"interleaved"` is in
`Tears`, elsewhere the two writes are one step and a kill between them is the
`"unterminated"` outcome of `Torn`.  `Fault` is an operation that returns an
error, with what the code does then, and `Crash` a kill.

**Engine.** One action per function of `write.rs`: its checks (`May...`), the
document it builds (`Registered`, `Scaled`, ...) and the loader (`Accept`).

**Assist.** `Plan` is `build_plan` under the lock; `Reply`, `OddReply`,
`NoReply` and `NoQuestion` are the ends of one turn of the loop; `Lock` takes the
mutex again and `AnswerCached`, `Replay`, `Refuse` and `Record` with `Log` are what
`Session::command` makes of the next proposal: `Record` puts the state file, `Log`
appends the audit line, and a `Restart` may come between them; `Answer` ends the
call.
`Compose`, `TakeInputs` and `TextEnds` are the text calls.  `Confirm`, `Retire`,
`OpenState` and `Restart` are the user and the host.

**Skills.** `LockRoot`, `JudgeStale`, `TakeOver` and `GiveUp` are the branches
of `lock_root`, `Plan` all planning, `ExecuteOp`/`FailOp` one file of a root,
`SaveManifest` its end, `LoseManifest` a save that fails, after the last operation
or after one that failed, `WriteAgents` and `RecordAgents` the two
writes of `execute_agents_md`, `Unlock` one drop of a `RootLock`.

**Launcher.** One action per step of `acquireLock` that another process can
come between (`Open`, `Own`, `Judge`, `Reread`, `Remove`, ...), and of
`downloadAndInstall` (`MakeWorkDir` to `InstallBinary`).  `Leave` is the `finally`
of `downloadAndInstall` and the removal of the handlers in that of `ensureBinary`;
`Release` and `Unlink` are the release function, which compares the lock's
token and then removes the lock.  `Signal` is a handler up to the removal of all
handlers, `Cleanup` the rest of it; handlers run at awaits only.
`DefaultSignal` is a signal that meets no handler: before they are registered, in
`Release` and `Unlink`, or the second one while the first is being cleaned up
after.  `Age` is time, `Heartbeat` the timer.

### Abstractions

*Session*

- An `id@version` is one key; a document found under a key carries it.
- One dimension (registered or not), one scale, and cells named by a relation
  and one member: both end points are alike in every check the session makes.
- An `Evidence` is the id of the request that attached it, so that a request
  applied twice can be seen.
- A put is atomic (temporary file and rename); the state's existence test and
  read are one step, and so are the reads of `open_model`'s create branch and
  its test for the state; the replays read at the end of a create are read in
  the step of the append.
- Left out: labels, weights, provenance, successors, redeclaring a relation
  with other end points, contractions, the requests refused by the schema or
  the observation-only rule (they change the cache only), and a power loss that
  undoes a rename.
- A client resends a request with the same envelope, to the process it first
  sent it to (a requestId used by two clients is not a retry).  With
  `expectedVersion` in it, a cached `version_conflict` is what a resend gets.

*Engine*: a dimension, scale, relation or contraction is found under its id, so
that one is declared once per id; values and weights are integers, and a value
normalised by its scale is a number of `Units`; evidence is counted; a source
reference is whether it names a system, its file and its hash, and only those of
members are followed; labels, attributes, explanations and orders by id are left
out.

*Assist*: files agree with memory and their operations succeed, which is what
`Session` is about, but a kill may come between the state file and the audit
line of a suggestion; the judge is a choice of token, known to the scale or not,
an odd reply or none.  `Joined` is the text of a request id: what it makes of
relation, members and token is a constant, of which nothing is assumed.

*Skills*: a hash stands for its content, and a file's content in a release is
the release; dry runs, symlink checks, and the making and pruning of directories
are left out; the user edits between runs.

*Launcher*: a digest stands for its content; comparing a lock's token and
renewing it in the heartbeat are one step; extraction, the checks of who may write to the cache directory, and a
reused process id are left out.

### Bounds

- `Session`: `MaxCrashes` and `MaxFaults` count kills and failing operations;
  the requests of a run are a finite set, each with a small set of commands it
  may carry (chosen by its client once), sent any number of times in any order.
  Two relations, two members and two tokens let a write touch one and must leave
  the other.  With at most six requests every chain of open, mutate, reopen and
  resend that the properties are about is in the state space; what more requests
  could add is the subject of the proofs.
- `Engine`: `MaxWrites` is three, on top of a document that has two dimensions,
  five relations of all four types, two hierarchies over one dimension,
  two contractions, proposals, a cell with two observations, and sources that
  are current, changed, missing and outside the project; so the writes only have to
  disturb it.  All nine writes are accepted in some behaviour, from an empty
  document as far as three writes lead.  `Limits` are what a client asks for as
  the limit of a page: nothing, 0, 1 and 2 elements, on lists of more.
- `Assist`: two calls (`MaxAsks`), of `MaxCells` two, are enough for one to be
  overtaken by the other between any two of its steps; two opens (`MaxOpens`)
  switch the state under a call, a restart empties the cache.  The members' ids
  hold hyphens, so that the request ids of two suggestions read the same.
- `Skills`: three commands (`MaxCommands`) of two runs: install, upgrade or
  uninstall, and one more that meets what they left; one trouble
  (`MaxTroubles`: a failure, a kill or an outlived lock) and one edit.
- `Launcher`: with three launches two can judge a third's lock and one of them
  come late; `MaxTroubles` counts kills, suspensions, signals, failing downloads
  and damaged files together, and two of them are a signal and a second one
  during the cleanup.

## 3. Runs

| Run | Setting | Properties |
|---|---|---|
| `session_shared` | one process, two states on the same configuration and dimensions, a kill, a line possibly unterminated | `TypeOK` `Reopens` `MemoryIsDisk` `AuditedIsStored` `AuditChain` `StateGrows` |
| `session_faults` | a failing operation and a kill, half a line possible; a state whose configuration is missing; fair | `AuditedIsStored` `AcceptedIsAudited` `EveryRequestAnswered` |
| `session_durable` | one state open, one created, two kills | `OneLinePerRequest`, refinement of `DurableModel` (`DurableSpec`) |
| `session_switch` | open, create (locked too), import and mutate in any order, appends in two writes | `MemoryIsDisk` `LockedIsUntouched` `ExpectedVersionHeld` |
| `engine` | three writes to an empty document or one in use | `TypeOK` `CycleSearchIsExact` `RollupIsExact` `ContractionSumsWays` `OppositionIsNeverHidden` `ProposalsDecideNothing` `PagesAreWhole` `NothingIsLost` `NoopChangesNothing` |
| `assist` | two calls, two states, one locked; edits, opens, a restart; fair | `TypeOK` `OncePerToken` `RecordingDecidesNothing` `EveryCallEnds` |
| `skills` | two runs, two releases, targets that share a root; fair | `TypeOK` `RecordsAreTrue` `InstalledStays` `NoEmptyAgents` `OneWriter` `EditsAreKept` `EveryRunEnds` |
| `launcher` | three launches on two machines, two troubles; fair | `TypeOK` `InstalledIsVerified` `OneDownload` `CleanedUp` `OnlyVerifiedRuns` `EveryLaunchEnds` |

Every property of a passing run has a mutant of the code in `PROJECT.json`
(defined next to the definition it changes) that the same run refutes: a layer
missing from the table of files to rewrite, a roster not carried over by split,
replays that skip a line, a cycle search that passes over its start, paths of a
contraction overwritten, a request id that is new for every call, a manifest not
saved after a failure, an archive not compared, and so on.

**What the passing runs show.**  For *one process per store* the order
configuration, dimensions, state, audit is right: additions reach the layer that
defines a name before the layer that uses it, so whatever is interrupted opens,
and the log never records what the files do not have.  Failing operations leave
the files ahead of the memory (which is why `MemoryIsDisk` is not claimed
there), but never behind the log.  For *several processes on one state* only the
log itself survives: requests stay unique and answers true, which is proved for
any number of them (section 4).  The *engine*'s writes keep the loader's
invariant and all content, and every analysis agrees, on every document they
lead to, with a definition that does not follow its algorithm: reachability for
`find_cycle` and `ancestors`, a sum over paths for `contract`, the document with
its proposals taken out for the rest.  An *assist* call may find the relation
retired, the state switched or locked and its suggestion already there when it
comes to record; in no case is anything decided or broken.  *Installers* and
*launchers* exclude each other, and what a failure, a kill or a signal leaves
behind is recorded or goes away (of launchers, only one that was struck, by a kill
or by a signal that met no handler, leaves anything), as long as no lock is outlived by its process
(and, for three installers, none is killed: two of them may take its lock over
at once, the second removing what the first has put there).  After that
exclusion is lost, but never the user's edits and never the verification.

**Where a property is not claimed, it does not hold.**  `OneLinePerRequest` needs
logs that parse: an unreadable log is read as an empty one and its requests run
again.  `AuditedIsStored` needs an append that leaves no whole line when it
fails: an append that fails at the newline (`"unterminated"` in `Tears`, with a
fault) has recorded a mutation that is refused and that the next one
overwrites.  `Reopens` over shared documents needs a scale that is not replaced
under another state: `declare_scale` checks the cells of the open state only
(no run of a shared configuration redeclares a scale, and the theorems assume
`WholeScale`).
`ExpectedVersionHeld` and `Reopens` need one process per state.
`AuditChain` and `AcceptedIsAudited` are about whole lines: that a log with a
torn line can be read on does not hold, it is taken for an empty one.  `OncePerToken` leaves out the suggestions a kill has cut off from
their audit line: such a one is stored again when it is made again, by the same
window as `find_applied_twice`.  `PagesAreWhole` says of limit 0 that the page
is empty and its cursor leads to itself.  `ContractionSumsWays` leaves out what a
retired member or relation takes part in, and `CleanedUp` the launches that a
signal has ended without their handlers: see the disagreements below.
`EditsAreKept` is checked for edits; that a user deletes installed files is not
in the model.  `RecordsAreTrue` needs manifests that are saved: a file written by a run that is
killed before `save_manifest` is a foreign one to the next.  `InstalledStays`
needs files that are not edited: a manifest that records no file any more is
removed, with the targets it names.

**Violation runs** each check one promise of a doc or a comment that the code
does not keep; the findings in `PROJECT.json` quote it.

| Run | Property | What happens |
|---|---|---|
| `find_applied_twice` | `AppliedOnce` | killed after the state file and before the audit line, a resent request attaches its evidence again |
| `find_rollup_panics` | `RolledUpLoads` | a document with a member in two dimensions loads, but not what `rolled_up` makes of it |
| `find_unrecorded` | `AnsweredIsStored` | after a switch of states, suggestions answered as recorded are stored elsewhere or nowhere |
| `find_two_holders` | `FreshLockStays` | between comparing the stale lock and removing it, another launch has put a fresh one there |

Further disagreements met while modelling, which no run is spent on:

- a second process on the same state may append between the two writes of an
  audit line (`store.rs:257`), although `store.rs:243` says the log gets "exactly
  one compact JSON object (sorted keys) plus `\n`";
- `expectedVersion` is compared with memory and never with the file
  (`session.rs:342`; `skills/crossmatrix/SKILL.md:65`: "a `version_conflict`
  means someone else wrote");
- two processes on one state may leave layers that do not fit together, and
  `model.open` fails from then on (`session.rs:775`; `README.md:135`: "survives
  restarts");
- creating a state over an existing configuration takes the dimensions the op
  names, not those of the configuration (`session.rs:459`;
  `adr/0004-config-data-separation-and-schema-family.md:47`), and a configuration
  that cannot be read is overwritten by an empty one (`session.rs:444`; the
  comment at 412);
- the request id of a suggestion joins ids that may hold hyphens themselves
  (`assist_dispatch.rs:885`): of two suggestions whose ids read the same the second
  is answered as recorded and not stored (`README.md:193`: "`record:
  true` stores them");
- `contract` asks of no member and no relation on its chain whether it is
  deprecated (`lib.rs:502`, 536), and ranks the pairs that retired ones join, which
  `skills/crossmatrix/SKILL.md:128` and `adr/0003`, line 54, rule out
  ("deprecated elements leave analyses");
- the launcher removes its signal handlers before it releases the lock
  (`install.js:540`, 541), and a handler removes all of them before it cleans
  up (479, 489): a signal in between, or a second one, ends it at once and
  leaves the lock, although the comment at 525 says "Handlers go in before the
  lock exists, so no signal can orphan it" (`DefaultSignal`; such a launch counts as struck in
  `CleanedUp`);
- a query may ask for pages of 0 elements (`queries.rs:147`) and follows cursors
  that lead nowhere then, where the schema of the request
  (`crossmatrix-mcp.schema.json:559`, 616, 715) wants at least 1;
- a run or launch that outlives its lock is no longer alone: it goes on writing,
  and an installer removes the lock file of its successor when it ends
  (`skills.rs:674`).

**Deadlock** is checked in the Session runs and never found: a request can always
be sent again, and a killed process started.  The other runs say
`CHECK_DEADLOCK FALSE`: their behaviours end when the bounds are used up and
everything has been answered.

**Fairness.**  `session_faults`: weak fairness of each process's next file
operation (they do not block), of its restart, and, per request, of sending it
until it is answered.  The last two are assumptions about the agent host, which
starts the server and whose agent retries; without them a request is simply
never sent.  `assist`: weak fairness of each call's next step, for the judge
and the text model are given a timeout (`jev.rs:453`) and the mutex is never held
while they are asked.  `skills`: weak fairness of each live run; it waits five
seconds for a lock (`LOCK_WAIT`).  `launcher`: the same of each launch; waiting
and downloading have limits.  Faults, kills, signals and the user's actions are
not fair.

## 4. Proofs

For all values of the constants, under the assumptions named in `Layers`,
`Session`, `Engine`, `Assist`, `Launcher` and `Skills` (relations and members have distinct ids,
committed documents are well typed and filed under their own ids, there are
finitely many members, the documents and arguments given to the engine have the shape
of the schema, each root and file has one place in its order, `None` is no value of
another kind):

- **`TypeCorrect`** (`SessionProofs`): `Spec => []TypeOK`.  `TypeOK` is not
  inductive: a step reads the documents of the command in flight, and would be
  ill typed if they were `None`.  `TypeInv` adds `InFlight`: in each phase, the
  documents the phase stands for are there.  The argument for the writes is in
  the lemmas on `Layers` at the head of the module; `Next` is treated action by action, with lemmas for what many
  share (`AnswersType`, `LandsType`, `OthersType`).  `ReplaysType` needs the
  greatest of a finite set of line numbers, proved in `GreatestOfSome`.
- **`RequestsLeaveOneLine`** (`SessionProofs`): `Spec => []OneLinePerRequest`
  if `Tears = {}` and `MaxFaults = 0`, that is if an append is one write and no
  operation fails; kills are unbounded, processes and states arbitrary, and two
  processes may have the same state open.  The assumptions are needed:
  a log with a torn line, or one that could not be read, is taken for an empty
  one, and its requests run again.  `RequestInv` strengthens it:
  a process only carries out requests sent to it (`Owner`); what it has cached
  or read covers every line of its own requests on the open state (`Remembers`,
  the heart of it: it must survive opening, creating and switching states, and
  other processes' appends); the request in flight has no line yet until its
  append (`FirstLine`); logs are clean; lines imply a state file.  `AloneKeeps`
  is the non-interference step between processes.
- **`AnswersAreAudited`** (`SessionProofs`): `Spec => []AcceptedIsAudited`, with no
  assumption on tears, faults or processes at all.  `AuditInv` says that whatever
  a process may still tell a client is vouched for by a line (`Knows`): the
  answers in its cache, the replays it has read, and, between a line and its
  newline, the line it has just written; that nothing is answered or cached
  before it is sent (`SentFirst`); and `TypeInv`.  Logs never lose a whole line
  (`LinesStay`), so that what was vouched for stays so, also when another process
  tears the end of the log.

The next seven are about one process on a store (`OneProcess`: the processes are
at most one; states, requests, commands, committed documents and kills are
arbitrary).  With two processes on one state they are false, as a put replaces
what the other process has written since the documents were read.

- **`LockedStaysUntouched`** (`StoreProofs`): `Spec => LockedIsUntouched`, also
  when file operations fail and appends come apart.  `SoleInv` ties the flag
  `dispatch` tests to the documents: the state behind an open model is on disk,
  and the flag is that of both documents (`OpenState`); a document in hand
  is the one on disk, or the first of its state (`DocsInHand`); every state
  document is filed under its own id.
- **`LogIsAHistory`** (`StoreProofs`): `Spec => []AuditChain` unless an operation
  can fail and leave a line without its newline behind
  (`MaxFaults = 0 \/ "unterminated" \notin Tears`): the command that was
  answered with an error is in the log then, the version in memory is not, and the
  next mutation repeats it.  `ChainInv` places the version in memory between the
  last line and the state document, phase by phase (`Versions`).
- **`ExpectationsHold`** and **`StatesGrow`** (`StoreProofs`): `Spec =>
  ExpectedVersionHeld` and `Spec => StateGrows` if `MaxFaults = 0`.  `StateInv`
  says that the state document in memory is the one on disk, and what the open
  model and the next one have to do with it (`ExactState`); `WrittenGrows` that a
  write only appends to cells.  After a failed append the files are ahead of the
  memory and the next mutation overwrites them: the assumption is needed.
- **`MemoryMirrorsDisk`** (`StoreProofs`): `Spec => []MemoryIsDisk` if
  `MaxFaults = 0` and `OwnDimensions(named)`: each configuration names the
  dimensions that the commands give with it.  Without the latter a new state is
  put on a configuration that names other dimensions (`session.rs:459`, a
  hazard).  `DocsInv` follows the three documents through all
  phases: which of them are put already, and that the next model is what they
  merge to once they all are (`ExactDocs`).  Its core is `NotRewritten`: a
  layer that the test for the op kind leaves out is not changed by the op.
- **`AuditedStaysStored`** and **`StatesReopen`** (`DurabilityProofs`): `Spec =>
  []AuditedIsStored` and `Spec => []Reopens`, under the same assumptions and
  `WholeScale`: a scale is declared with all its tokens, as a smaller one is
  checked against the cells of the open model only and may make other states on
  the same configuration unreadable.  `StatesReopen` assumes that the committed
  states could be opened (`CommittedResolves`).  Both rest on `Keeps`, an order on
  models: a write leads to a model that keeps what was there and has its effect
  (`WrittenKeeps`, `WrittenEffect`), a put of any layer keeps every state over it
  openable, with all it gave before (`StepSurvives`), and effects persist along
  `Keeps` (`KeepsEffect`).  `AuditedInv` adds to `DocsInv` that the mutation in
  flight carries its effect, so that it is there when the line is.
- **`SessionImplementsDurable`** (`DurabilityProofs`): `Spec => DurableSpec` if
  `MaxFaults = 0`, `Tears = {}` and no two states share documents
  (`OwnDocuments`): a write to a shared layer changes several models in one
  step, which `DurableModel` does not have.  Initial states map to initial
  states (`InitMaps`); each action maps to a step or a stutter (`NextMaps`).
  The mapping shows a mutation by the model it starts from until its line is
  written, so the puts stutter and the append, or a kill, is the step.  The heart
  is `HalfWritten`: a write changes one layer, so a kill between two puts leaves
  the model before or the model after, never a third.  `RefinementInv` joins
  `DocsInv` (the files are those of the mutation in flight) and `RequestInv` (its
  request has no line yet) with what the mutation was when it was accepted
  (`Builds`).

`session_shared` satisfies the assumptions of all but the last of them,
`session_durable` those of all.

- **`InstalledVerified`** (`LauncherProofs`): `Spec => []InstalledIsVerified` for
  any number of launches, machines and troubles.  Mutual exclusion, which the
  launcher can lose, plays no part: `VerifiedInv` follows the steps of one launch
  (past the comparison its archive is the good one, past the record the marker
  is its digest), and two launches that install at once record the same digest.
- **`GoodRuns`** (`LauncherProofs`): `Spec => OnlyVerifiedRuns`, without
  assumptions: a launch that is about to run the binary has found it complete
  (`CheckedIsThere`), which with the above makes it the released one; one that
  was damaged on the disk is found out before it is run.
- **`DownloadsExclude`** and **`LeavesNothing`** (`LauncherProofs`): `Spec =>
  []OneDownload` and `Spec => []CleanedUp`.  A launch is struck if it was killed, or
  ended by a signal it had no handler for.  While none was struck or suspended,
  one at a time downloads (`LockInv`: the lock is that of the one launch between
  its opening and its removal, and never stale, so nobody else removes it).
  Whatever happens, a lock or work directory of a launch that is gone is that of a
  struck one: `OwnInv` says so, and it needs no exclusion, as it follows each launch
  through its own `finally` or cleanup.  `DeadDirGoes`: with one launch
  struck, its partial download is gone before the next one begins.
- **`LauncherTypes`** (`LauncherProofs`): `Spec => []TypeOK`.

The six about the installer are for any runs, targets, roots, files and releases,
and any number of commands, edits and troubles:

- **`SkillsTypes`** (`SkillsProofs`): `Spec => []TypeOK`.  `Ready` adds what a run
  has at each point: a command once it has begun, locks of the roots it no longer
  waits for, all of them once it writes, and a plan for each root it has still to write.
- **`EditsKept`** (`SkillsProofs`): `Spec => EditsAreKept`, whatever fails, is
  killed or loses its lock.  `EditsInv` says of each run that is not forced that its plans
  leave alone what holds the user's content at the time.  It is inductive because the user edits
  between runs only and runs make no edits (`RunsMakeNoEdits`), also when two of
  them write to one root at once.
- **`RunsExclude`** (`SkillsProofs`): `Spec => []OneWriter` while nothing was
  killed, and for two runs at most also after kills.  `LockInv` says that a
  live run's lock files are there, its own and fresh, that a stale one is
  a killed run's, and that a run between `JudgeStale` and `TakeOver` is about to remove
  the lock of a killed run.  The last is what fails with three: the lock judged
  stale may have been taken over and made anew before it is removed
  (`skills.rs:727`), and TLC finds the state with two writers.
- **`ManifestsAreTrue`** and **`AgentsNotLeftEmpty`** (`SkillsProofs`): `Spec =>
  []RecordsAreTrue` and `Spec => []NoEmptyAgents`, with what these properties say
  of kills, lost manifests and outlived locks.  Between runs the manifest of
  a root tells what is there; while a run writes to it, the manifest in its plan
  does, file by file (`PlanTells`), and for AGENTS.md the plan of the block does
  (`AgentsPlanTells`).  `RecordInv` joins these; it rests on `LockInv`, for a run only
  touches roots it holds (`TouchesHeld`).
- **`InstalledAreKept`** (`SkillsProofs`): `Spec => [](EachShips /\ losses = 0 =>
  InstalledStays)`.  `EachShips`: every release ships a file to every root;
  without it an upgrade may empty a manifest, which is then removed with the
  targets it names.  `StaysInv` follows what a target has in a root through the plans
  of other runs: an installation's plan writes all it ships before it removes
  what the release no longer ships, and an uninstall removes nothing while
  another target is named (`Spares`).  A killed run leaves files no manifest
  records, and a later release may then record none: what is installed after a kill is
  left to TLC.

`skills` satisfies the assumptions of all six.

The nine about the engine are for any loadable documents of the schema's shape to
start from, any arguments the schema admits and any number of writes
(`EngineAssumption`: lists are lists, values of levels are whole numbers of at most
`Units`, documents are finite); what a write itself checks is not assumed.  Three are about the
writes:

- **`EngineTypes`** (`EngineProofs`): `Spec /\ Separate(doc) => []TypeOK`.  That the
  loader takes what a write built is the last line of each write; what it does not
  look at is the point: the shape of members, relations and observations, and that no
  member is in two dimensions (`Separate`).  The loader lets an import have that
  (`find_rollup_panics`), so it is a hypothesis on the first document; each write that
  adds members keeps it, for `MaySync` and `MayPropose` look at every dimension
  (`OwnDimension`, `MembersWritten`).
- **`WritesLoseNothing`** (`EngineProofs`): `Spec => NothingIsLost`, without that
  hypothesis.  The invariant is `EngineInv`, the rest of `TypeOK`.  One lemma per part
  of a document says what is kept when that part is written (`DimensionsWritten`,
  `RelationWritten`, `CellWritten`), and each write is brought to one of these
  (`SyncKeeps`, `RelateKeeps`, `AttachKeeps`, ...); `EvidenceShape` and `AppendShape`
  are about one cell.
- **`NoopsAreExact`** (`EngineProofs`): `Spec => []NoopChangesNothing`, from the same
  invariant, although nothing keeps a roster from listing a member twice.  `NoopEntries`:
  if each entry finds what it lists, the first entry for a member finds the
  member itself, and a later one what an earlier one left, which by a least counterexample
  is the member unchanged.  `After` is the closed form of the loop over the
  roster that makes this provable: the last entry for a member counts.

Six are about what the engine computes from the documents its writes lead to.  For
each, the definition it is compared with is not the algorithm; the proofs say that
the two agree on every document `EngineInv` or `TypeOK` admits:

- **`CyclesAreFound`** (`EngineProofs`): `Spec => []CycleSearchIsExact`.  `SearchEnds` is
  the order in which the search of `find_cycle` runs down: the members not yet
  visited, then the length of its stack, then the edges left at its top.  What is done
  reaches nothing open and no circle (`VisitKeeps`), the stack is a path, so that
  meeting an open member closes a circle of it (`ClosingIsALoop`), and an empty stack
  has looked everywhere (`FindCycleAnswers`).  The loader's check that hierarchies have
  no cycle, which the roll-up rests on, is this search.
- **`RollupDerivesWhatIsAbove`** (`EngineProofs`): `Spec /\ Separate(doc) =>
  []RollupIsExact`.  The walk of `ancestors`, which takes nodes off a list and skips
  those seen, ends and finds what is reached (`SearchUpDefined`, `AncestorsAreAbove`),
  also where the edges of several `contains` relations close a circle together.
  `DerivedStands` and `RolledCellShape` say which cells are derived and that a real one
  is never replaced; `RolledLoads`, that the loader takes the result.  Without `Separate` it
  does not (`find_rollup_panics`).
- **`ContractionsSumWays`** (`EngineProofs`): `Spec => []ContractionSumsWays`.
  `ContractedSums` says it of all ways, as the code computes them (`SumsAllWays`);
  the property claims only those that meet nothing retired (`SumsInUse`).
  `FrontiersSum`: after each relation of the chain, the frontier has for each
  pair the sum over the ways so far.  A step takes the sum of a pair apart by the
  member each way came through and puts it together again (`PartSums`, `NextSums`), for
  which `SumApart`, `SumByParts` and `SumScaled` say of sums over finite sets what one
  expects.  `min` is compared only in which pairs it lists.
- **`OppositionIsReported`** (`EngineProofs`): `Spec /\ Separate(doc) =>
  []OppositionIsNeverHidden`.  Each opposing force counts for more than nothing, since no level is
  beyond `Units` and rounding down leaves at least one of them (`PartPositive`), and the sum
  of a side is over the cells the property counts (`SideIsTotal`).
- **`ProposalsAreReviewedFirst`** (`EngineProofs`): `Spec => []ProposalsDecideNothing`.
  A cell without its proposals has the same accepted observations in the same
  order (`AcceptedAppend`, `KeptShape`), so the effective view is the same
  (`UnproposedIsEffective`), and all analyses are functions of it
  (`AnalysedEffective`).  The roll-up is not at once: it builds on the document, and what it
  derives stands beside proposals (`RolledCounted`, `RolledSame`).
- **`CursorsReachEverything`** (`EngineProofs`): `Spec => []PagesAreWhole`.  A
  cursor moves ahead, at any limit but 0, until the list is at its end (`LastOffset`), so the pages
  put together are the list (`GatheredWhole`) and those of `stale` cover the changed
  members (`StalePagesCover`).  Lists are of finitely many things: only then
  is `SetToSeq` a list of them, each once.

The definitions compared are recursive functions, and an equation `f[x] == ..f..` of
TLA+ says nothing until such an `f` is shown to exist.  `RecursionExists` does that once, for
recursion with one predecessor along a well-founded order, which is then the order of
the numbers, of finite sets by inclusion or of the search above; its arguments are functions, not
operators, as is the set `Good` in `AllSubsets` and `CountingInduction`, by
which properties of sums and chains are shown for every length.

The three about the assist calls are for any number of calls, states, cells, replies,
edits, opens and restarts, for any `Joined`, and for initial documents that load and
hold no suggestion yet (`AssistAssumption`):

- **`AssistTypes`** (`AssistProofs`): `Spec => []TypeOK`: every stored document
  loads, although what is recorded was planned on another one, and no call asks
  about more than `MaxCells` cells.  `TypeInv` adds that the lists of a call are
  lists and that levels and weights are numbers (`HasNumbers`).  The cells come from a greedy choice
  and from a repeated search for the heaviest gap (`GapsNext`); `GapsAreListed` and
  `CandidatesAreListed` show that these end in lists (`HeaviestExists`,
  `AddedUpExists`), `PlanIsBounded` that the plan cuts them off.
- **`SuggestionsStoredOnce`** (`AssistProofs`): `Spec => []OncePerToken`.
  `OncePerToken` says of each state that its log names exactly the suggestions in
  its document, one each, but for the one whose line is about to be written and
  those, one per restart at most, whose line a kill has cut off (`lost`).  `AssistInv`
  adds that documents are well formed; that a recording call has a proposal left;
  the mutex: one call at a time records or logs, and the state it writes stays
  open; that the suggestion in hand is the last of its cell and its request is in
  no log (`LogOK`); and that lost suggestions come of older replies than any under
  way (`LostOK`), so that they are never mixed up with those to come.  The cache and what calls
  remember play no part: `Record` itself looks at the log, and adds what the log
  does not name (`ObservedByJudge`).  The lemmas under it say where an
  observation goes: one more place in the cell it names, every other one as it
  was (`ObservedPlaces`).
- **`SuggestionsDecideNothing`** (`AssistProofs`): `Spec =>
  RecordingDecidesNothing`, from the same invariant.  `Record` is the only step
  beside the user's that writes; the effective view keeps the places of a cell
  that are confirmed, and appending a proposal leaves these and their
  order (`ProposedIsNotAccepted`, `ProposalsLeaveEffective`).

Only model-checked: the four properties that are findings, which do not hold,
`InstalledStays` after a kill, and liveness (`EveryRequestAnswered`, `EveryCallEnds`,
`EveryRunEnds`, `EveryLaunchEnds`), which is out of the prover's reach, as is
`ENABLED`.  Every other property of a passing run is one of the theorems above.

## 5. Plan

Done: the Session with its store and refinement; the engine's documents, writes
and analyses; assist calls; the skills installer; the launcher; theorems for every
safety and action property that the passing runs check.

Next: `Repository`, a store that `check` accepts can be opened.

## 6. Not modelled

- **Model providers** (`assist_rig/`): HTTP clients, prompts and wire formats.
  To the rest they are one call that answers, fails or times out, which is how
  `Assist` has them.
- **Repository root** (`repo.rs`): finding the root by looking upwards, `init`,
  which writes a few files once, and `check`, which reads all documents and
  reports.  Its state is the directory tree of a checkout; it runs alone.
- **Queries that hand an analysis through**, the report's markdown, export,
  links, and the resolution of file URIs (`queries.rs`, `report.rs`): data in
  another format.
- **Versioned state documents and listings** of the store, used by tests and
  `check` only.
- **Shell**: JSON-RPC, argument parsing, registration texts.
- **Schemas and generated types**, build, release and install scripts.
