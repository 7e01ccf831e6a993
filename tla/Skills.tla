------------------------------- MODULE Skills -------------------------------
(***************************************************************************)
(* `crossmatrix-mcp skills' (skills.rs): installs the embedded skill files *)
(* into the skills roots of the agents it supports, several of which share *)
(* a root, records what it wrote in a manifest in each root, and updates   *)
(* and removes only what it recorded and the user has not edited.  Runs    *)
(* exclude each other with a lock file in each root; a run may fail at any *)
(* file operation or be killed, and the user may edit files between runs.  *)
(*                                                                         *)
(* A dry run changes nothing and is left out; so are the symlink checks,   *)
(* which refuse before the first write, and the directories a run makes    *)
(* and prunes.  A hash stands for the content it is the hash of.           *)
(***************************************************************************)
EXTENDS Naturals, Sequences, FiniteSets, SequencesExt

CONSTANTS
  Runs,       \* processes that run skills commands
  Targets,    \* target ids; "agents-md" also manages a block in AGENTS.md
  RootsOf,    \* the roots of each target, in the order they are written
  PathOrder,  \* all roots in path order, in which they are locked
  AgentsRoot, \* .agents/skills: its manifest records the block of AGENTS.md
  FileOrder,  \* the relative paths, in the order of EMBEDDED_SKILLS
  Versions,   \* releases of the binary; a file's content in one is the version
  Ships,      \* the files a version writes into a root
  Commands,   \* the commands a run may be given
  None,       \* no file, no record, no lock
  Mine,       \* content that is the user's own
  Unreadable, \* a manifest that does not parse or is of a newer schema
  MaxCommands, \* bound on the commands run
  MaxTroubles, \* bound on failing operations, kills and outlived locks
  MaxEdits     \* bound on the user's edits

Roots == ToSet(PathOrder)
Files == ToSet(FileOrder)
Content == Versions \cup {Mine}

Command ==
  [op: {"install", "uninstall"}, target: Targets, version: Versions, force: BOOLEAN]

ASSUME SkillsAssumption ==
  /\ PathOrder \in Seq(Roots) /\ IsInjective(PathOrder)
  /\ FileOrder \in Seq(Files) /\ IsInjective(FileOrder)
  /\ \A t \in Targets :
       RootsOf[t] \in Seq(Roots) \ {<<>>} /\ IsInjective(RootsOf[t])
  /\ "agents-md" \in Targets => RootsOf["agents-md"] = <<AgentsRoot>>
  /\ AgentsRoot \in Roots
  /\ Ships \in [Versions -> [Roots -> SUBSET Files]]
  /\ Commands \in [Runs -> SUBSET Command]
  /\ \A r \in Runs : \A c \in Commands[r] : c.force => c.op = "install"
  /\ {None, Mine, Unreadable} \cap Versions = {}
  /\ {MaxCommands, MaxTroubles, MaxEdits} \subseteq Nat

Lock == [by: Runs, stale: BOOLEAN]

\* What the program has written: never the user's content.
Hash == Versions \cup {None}

Manifest ==
  [targets: SUBSET Targets, files: [Files -> Hash], block: Hash, created: BOOLEAN]

FileOps == [do: {"write", "remove", "leave"}, set: Hash]

Plans ==
  [manifest: Manifest, ships: SUBSET Files, ops: [Files -> FileOps \cup {None}]]

AgentsFile == [exists: BOOLEAN, text: BOOLEAN, block: Content \cup {None}]

AgentsPlans ==
  [file: {file \in AgentsFile : file.block # Mine} \cup {None},
   records: BOOLEAN, block: Hash, created: BOOLEAN]

ASSUME NoneAssumption ==
  /\ None # Mine /\ None # Unreadable /\ Mine # Unreadable
  /\ None \notin Command \cup Lock \cup Manifest \cup FileOps \cup Plans
  /\ None \notin AgentsFile \cup AgentsPlans
  /\ Unreadable \notin Manifest

VARIABLES
  (* the file system *)
  content,   \* root -> file -> its content or None
  agents,    \* AGENTS.md: whether it exists, holds the user's text, its block
  manifest,  \* root -> its manifest, None or Unreadable
  lockfile,  \* root -> None, or which run's RootLock made it and its age
  (* each run *)
  pc, command,
  todo,      \* the roots it has still to lock or to write
  held,      \* the roots it has a RootLock of
  plans,     \* root -> the RootPlan made for it, or None
  agentsPlan,
  (* history and bounds *)
  installed, \* <<target, root>>: the target's last command was an install that
             \* succeeded and recorded files in the root
  started,   \* commands begun
  faults,    \* operations failed, what was done being recorded
  losses,    \* kills, and manifests that could not be saved
  stalls,    \* locks held for more than two minutes
  edits

filesystem == <<content, agents, manifest, lockfile>>
local == <<pc, command, todo, held, plans, agentsPlan>>
bounds == <<started, faults, losses, stalls, edits>>
vars == <<filesystem, local, installed, bounds>>

Trouble == faults + losses + stalls < MaxTroubles

Before(order, x, y) == \E i, j \in DOMAIN order : i < j /\ order[i] = x /\ order[j] = y

\* The first of `some' in the sequence `order'.
IsFirst(x, some, order) == x \in some /\ \A y \in some \ {x} : Before(order, x, y)

-----------------------------------------------------------------------------
(* The manifest *)

NoManifest ==
  [targets |-> {}, files |-> [f \in Files |-> None], block |-> None, created |-> FALSE]

\* load_manifest(root)?.unwrap_or_default(), where it parses.
Loaded(root) == IF manifest[root] = None THEN NoManifest ELSE manifest[root]

\* save_manifest: a manifest that records nothing is removed.
Saved(m) ==
  IF m.files = NoManifest.files /\ m.block = None THEN None ELSE m

-----------------------------------------------------------------------------
(* Plans: what a run will do, made before its first write *)

\* do: what happens to the file; set: the hash recorded once that succeeded.
FileOp(do, set) == [do |-> do, set |-> set]

NoOps == [f \in Files |-> None]

\* Mutant: a file that differs from its record is overwritten.
DecideByRecord(current, version, recorded, force) ==
  IF current = None \/ force \/ recorded # None
  THEN FileOp("write", version)
  ELSE IF current = version THEN FileOp("leave", version)
  ELSE FileOp("leave", recorded)

Decide(current, version, recorded, force) ==
  IF current = None \/ (current # version /\ (force \/ recorded = current))
  THEN FileOp("write", version)
  ELSE IF current = version THEN FileOp("leave", version)
  ELSE FileOp("leave", recorded)

\* Remove a file that still matches its record; keep it if edited.
PlanRemoval(root, file, recorded) ==
  IF content[root][file] = None THEN FileOp("leave", None)
  ELSE IF content[root][file] = recorded THEN FileOp("remove", None)
  ELSE FileOp("leave", recorded)

Recorded(m) == {f \in Files : m.files[f] # None}

\* What is done with every file that the manifest records.
Removals(root, m) ==
  [f \in Files |-> IF f \in Recorded(m) THEN PlanRemoval(root, f, m.files[f]) ELSE None]

\* The files this version ships, then those an older one wrote and it does not.
PlanInstallRoot(root, c) ==
  LET old == Loaded(root)
      ships == Ships[c.version][root]
      decided(f) ==
        Decide(content[root][f], c.version, old.files[f], c.force)
  IN  [manifest |-> [old EXCEPT !.targets = @ \cup {c.target}],
       ships |-> ships,
       ops |-> [f \in Files |->
                  IF f \in ships THEN decided(f) ELSE Removals(root, old)[f]]]

\* Mutant: the files go although another target still uses them.
PlanUninstallUsed(root, c) ==
  LET m == [Loaded(root) EXCEPT !.targets = @ \ {c.target}]
  IN  IF manifest[root] = None THEN None
      ELSE [manifest |-> m, ships |-> {}, ops |-> Removals(root, m)]

\* The files stay until the last target that installed them is uninstalled.
PlanUninstallRoot(root, c) ==
  LET m == [Loaded(root) EXCEPT !.targets = @ \ {c.target}]
  IN  IF manifest[root] = None THEN None
      ELSE [manifest |-> m, ships |-> {},
            ops |-> IF m.targets # {} THEN NoOps ELSE Removals(root, m)]

PlanRoot(root, c) ==
  IF c.op = "install" THEN PlanInstallRoot(root, c) ELSE PlanUninstallRoot(root, c)

NoFile == [exists |-> FALSE, text |-> FALSE, block |-> None]

\* file: what is written, None if nothing is; records: whether the manifest
\* will be told of the block.
PlanInstallAgents(c) ==
  LET recorded == Loaded(AgentsRoot).block
      writes == \/ agents.block = None
                \/ agents.block # c.version /\ (c.force \/ agents.block = recorded)
  IN  [file |-> IF writes THEN [agents EXCEPT !.exists = TRUE, !.block = c.version]
                ELSE None,
       records |-> writes \/ agents.block = c.version,
       block |-> c.version,
       created |-> ~agents.exists]

\* None where there is no block; a block that is not the recorded one stays.
PlanUninstallAgents ==
  LET recorded == Loaded(AgentsRoot).block
      created == Loaded(AgentsRoot).created
  IN  IF agents.block = None THEN None
      ELSE IF agents.block # recorded
      THEN [file |-> None, records |-> FALSE, block |-> None, created |-> FALSE]
      ELSE [file |-> IF created /\ ~agents.text THEN NoFile
                     ELSE [agents EXCEPT !.block = None],
            records |-> TRUE, block |-> None, created |-> FALSE]

PlanAgents(c) ==
  IF c.target # "agents-md" THEN None
  ELSE IF c.op = "install" THEN PlanInstallAgents(c) ELSE PlanUninstallAgents

-----------------------------------------------------------------------------
(* Locks *)

NoPlans == [root \in Roots |-> None]

Begins(p, c) ==
  /\ pc[p] = "idle"
  /\ started < MaxCommands
  /\ c \in Commands[p]
  /\ started' = started + 1
  /\ pc' = [pc EXCEPT ![p] = "lock"]
  /\ command' = [command EXCEPT ![p] = c]
  /\ todo' = [todo EXCEPT ![p] = ToSet(RootsOf[c.target])]
  /\ UNCHANGED <<filesystem, held, plans, agentsPlan, installed,
                 faults, losses, stalls, edits>>

\* The first root the run has still to lock.
Wants(p, root) == pc[p] = "lock" /\ IsFirst(root, todo[p], PathOrder)

\* Mutant: the lock file is opened without create_new.
LockRootAnyway(p, root) ==
  /\ Wants(p, root)
  /\ lockfile' = [lockfile EXCEPT ![root] = [by |-> p, stale |-> FALSE]]
  /\ held' = [held EXCEPT ![p] = @ \cup {root}]
  /\ todo' = [todo EXCEPT ![p] = @ \ {root}]
  /\ UNCHANGED <<content, agents, manifest, pc, command, plans, agentsPlan,
                 installed, bounds>>

\* lock_root: create_new succeeds only where there is no file.
LockRoot(p, root) ==
  /\ Wants(p, root)
  /\ lockfile[root] = None
  /\ lockfile' = [lockfile EXCEPT ![root] = [by |-> p, stale |-> FALSE]]
  /\ held' = [held EXCEPT ![p] = @ \cup {root}]
  /\ todo' = [todo EXCEPT ![p] = @ \ {root}]
  /\ UNCHANGED <<content, agents, manifest, pc, command, plans, agentsPlan,
                 installed, bounds>>

\* A lock file older than LOCK_STALE ...
JudgeStale(p, root) ==
  /\ Wants(p, root)
  /\ lockfile[root] # None
  /\ lockfile[root].stale
  /\ pc' = [pc EXCEPT ![p] = "takeover"]
  /\ UNCHANGED <<filesystem, command, todo, held, plans, agentsPlan, installed, bounds>>

\* ... is removed, whatever has become of it since it was judged.
TakeOver(p, root) ==
  /\ pc[p] = "takeover"
  /\ IsFirst(root, todo[p], PathOrder)
  /\ lockfile' = [lockfile EXCEPT ![root] = None]
  /\ pc' = [pc EXCEPT ![p] = "lock"]
  /\ UNCHANGED <<content, agents, manifest, command, todo, held, plans, agentsPlan,
                 installed, bounds>>

\* All that is left is to drop the locks.
Unlocks(p) ==
  /\ pc' = [pc EXCEPT ![p] = "unlock"]
  /\ todo' = [todo EXCEPT ![p] = {}]

\* Mutant: the deadline is looked at only for a lock that can be taken over.
GiveUpStale(p, root) ==
  /\ Wants(p, root)
  /\ lockfile[root] # None
  /\ lockfile[root].stale
  /\ Unlocks(p)
  /\ UNCHANGED <<filesystem, command, held, plans, agentsPlan, installed, bounds>>

\* LOCK_WAIT has passed; the locks it has already are dropped.
GiveUp(p, root) ==
  /\ Wants(p, root)
  /\ lockfile[root] # None
  /\ Unlocks(p)
  /\ UNCHANGED <<filesystem, command, held, plans, agentsPlan, installed, bounds>>

Ends(p) ==
  /\ pc' = [pc EXCEPT ![p] = "idle"]
  /\ command' = [command EXCEPT ![p] = None]
  /\ plans' = [plans EXCEPT ![p] = NoPlans]
  /\ agentsPlan' = [agentsPlan EXCEPT ![p] = None]

\* RootLock::drop removes the lock file, whoever made it; the locks are dropped
\* in the order they were taken.
Unlock(p) ==
  LET drops == {root \in held[p] : IsFirst(root, held[p], PathOrder)}
  IN  /\ pc[p] = "unlock"
      /\ lockfile' = [root \in Roots |-> IF root \in drops THEN None ELSE lockfile[root]]
      /\ held' = [held EXCEPT ![p] = @ \ drops]
      /\ IF held[p] = drops THEN Ends(p)
         ELSE UNCHANGED <<pc, command, plans, agentsPlan>>
      /\ UNCHANGED <<content, agents, manifest, todo, installed, bounds>>

\* Two minutes pass over a lock file: its run was killed, or is slow or
\* suspended (nothing renews the file while a run goes on).
Age(root) ==
  /\ lockfile[root] # None
  /\ ~lockfile[root].stale
  /\ IF pc[lockfile[root].by] = "killed" THEN UNCHANGED stalls
     ELSE Trouble /\ stalls' = stalls + 1
  /\ lockfile' = [lockfile EXCEPT ![root].stale = TRUE]
  /\ UNCHANGED <<content, agents, manifest, local, installed,
                 started, faults, losses, edits>>

-----------------------------------------------------------------------------
(* install and uninstall *)

\* Every root is planned before the first write; a manifest that cannot be
\* read refuses the whole command, and a root without one has nothing to
\* uninstall.
Plan(p) ==
  LET c == command[p]
      roots == ToSet(RootsOf[c.target])
      refused == \E root \in roots : manifest[root] = Unreadable
      planned(root) == IF root \in roots THEN PlanRoot(root, c) ELSE None
  IN  /\ pc[p] = "lock"
      /\ todo[p] = {}
      /\ IF refused
         THEN Unlocks(p) /\ UNCHANGED <<plans, agentsPlan, installed>>
         ELSE /\ plans' = [plans EXCEPT ![p] = [root \in Roots |-> planned(root)]]
              /\ agentsPlan' = [agentsPlan EXCEPT ![p] = PlanAgents(c)]
              /\ pc' = [pc EXCEPT ![p] = "write"]
              /\ todo' = [todo EXCEPT ![p] = {root \in roots : planned(root) # None}]
              /\ installed' = {i \in installed : i[1] # c.target}
      /\ UNCHANGED <<filesystem, command, held, bounds>>

Writes(p, root) ==
  pc[p] = "write" /\ IsFirst(root, todo[p], RootsOf[command[p].target])

Left(plan) == {f \in Files : plan.ops[f] # None}

\* The next file of the plan.
HasOp(p, root, file) ==
  LET plan == plans[p][root]
      shipped == Left(plan) \cap plan.ships
  IN  /\ Writes(p, root)
      /\ IsFirst(file, IF shipped # {} THEN shipped ELSE Left(plan), FileOrder)

\* Mutant: the path is recorded in place of the hash.
EnteredByPath(plan, file) ==
  [plan EXCEPT !.manifest.files[file] = IF plan.ops[file].set = None THEN None ELSE file,
               !.ops[file] = None]

Entered(plan, file) ==
  [plan EXCEPT !.manifest.files[file] = plan.ops[file].set, !.ops[file] = None]

\* execute_root, one file: the write or the removal, then the manifest entry.
ExecuteOp(p, root, file) ==
  LET op == plans[p][root].ops[file]
  IN  /\ HasOp(p, root, file)
      /\ op.do = "remove" => content[root][file] # None
      /\ content' =
           [content EXCEPT ![root][file] =
              CASE op.do = "write" -> op.set
                [] op.do = "remove" -> None
                [] OTHER -> @]
      /\ plans' = [plans EXCEPT ![p][root] = Entered(@, file)]
      /\ UNCHANGED <<agents, manifest, lockfile, pc, command, todo, held, agentsPlan,
                     installed, bounds>>

\* A removal fails if the file is gone.
OpFails(p, root, file) ==
  LET op == plans[p][root].ops[file]
  IN  /\ HasOp(p, root, file)
      /\ op.do # "leave"
      /\ IF op.do = "remove" /\ content[root][file] = None THEN UNCHANGED faults
         ELSE Trouble /\ faults' = faults + 1

\* Mutant: the manifest is not saved for what was done.
FailOpUnsaved(p, root, file) ==
  /\ OpFails(p, root, file)
  /\ Unlocks(p)
  /\ UNCHANGED <<filesystem, command, held, plans, agentsPlan, installed,
                 started, losses, stalls, edits>>

\* The manifest is saved for what was done so far.
FailOp(p, root, file) ==
  /\ OpFails(p, root, file)
  /\ manifest' = [manifest EXCEPT ![root] = Saved(plans[p][root].manifest)]
  /\ Unlocks(p)
  /\ UNCHANGED <<content, agents, lockfile, command, held, plans, agentsPlan,
                 installed, started, losses, stalls, edits>>

RootDone(p, root) ==
  /\ Writes(p, root)
  /\ Left(plans[p][root]) = {}

SaveManifest(p, root) ==
  /\ RootDone(p, root)
  /\ manifest' = [manifest EXCEPT ![root] = Saved(plans[p][root].manifest)]
  /\ todo' = [todo EXCEPT ![p] = @ \ {root}]
  /\ UNCHANGED <<content, agents, lockfile, pc, command, held, plans, agentsPlan,
                 installed, bounds>>

\* The manifest of what was written cannot be saved, after the last operation or
\* after one that failed.
LoseManifest(p, root) ==
  /\ Writes(p, root)
  /\ Trouble
  /\ losses' = losses + 1
  /\ Unlocks(p)
  /\ UNCHANGED <<filesystem, command, held, plans, agentsPlan, installed,
                 started, faults, stalls, edits>>

\* The command has succeeded.
Succeeds(p) ==
  LET c == command[p]
      records == {root \in ToSet(RootsOf[c.target]) :
                    c.op = "install" /\ Recorded(plans[p][root].manifest) # {}}
  IN  /\ Unlocks(p)
      /\ installed' = installed \cup ({c.target} \X records)

RootsDone(p) == pc[p] = "write" /\ todo[p] = {}

Finish(p) ==
  /\ RootsDone(p)
  /\ agentsPlan[p] = None
  /\ Succeeds(p)
  /\ UNCHANGED <<filesystem, command, held, plans, agentsPlan, bounds>>

\* execute_agents_md: AGENTS.md first ...
WriteAgents(p) ==
  /\ RootsDone(p)
  /\ agentsPlan[p] # None
  /\ agents' = IF agentsPlan[p].file = None THEN agents ELSE agentsPlan[p].file
  /\ pc' = [pc EXCEPT ![p] = "record"]
  /\ UNCHANGED <<content, manifest, lockfile, command, todo, held, plans, agentsPlan,
                 installed, bounds>>

FailAgents(p) ==
  /\ RootsDone(p)
  /\ agentsPlan[p] # None
  /\ agentsPlan[p].file # None
  /\ Trouble
  /\ faults' = faults + 1
  /\ Unlocks(p)
  /\ UNCHANGED <<filesystem, command, held, plans, agentsPlan, installed,
                 started, losses, stalls, edits>>

\* Mutant: the file counts as created by the last install only.
RecordedNow(m, plan) ==
  [m EXCEPT !.block = plan.block, !.created = plan.created]

WithBlock(m, plan) ==
  [m EXCEPT !.block = plan.block,
            !.created = plan.block # None /\ (plan.created \/ m.created)]

\* ... then its block in the manifest, read again.
RecordAgents(p) ==
  LET plan == agentsPlan[p]
  IN  /\ pc[p] = "record"
      /\ IF ~plan.records
         THEN Succeeds(p) /\ UNCHANGED manifest
         ELSE IF manifest[AgentsRoot] = Unreadable
         THEN Unlocks(p) /\ UNCHANGED <<manifest, installed>>
         ELSE /\ manifest' = [manifest EXCEPT ![AgentsRoot] =
                                Saved(WithBlock(Loaded(AgentsRoot), plan))]
              /\ Succeeds(p)
      /\ UNCHANGED <<content, agents, lockfile, command, held, plans, agentsPlan, bounds>>

\* The block was written and cannot be recorded.
LoseBlock(p) ==
  /\ pc[p] = "record"
  /\ agentsPlan[p].records
  /\ Trouble
  /\ losses' = losses + 1
  /\ Unlocks(p)
  /\ UNCHANGED <<filesystem, command, held, plans, agentsPlan, installed,
                 started, faults, stalls, edits>>

-----------------------------------------------------------------------------
(* What happens around the runs *)

\* The process is killed: its locks stay.
Kill(p) ==
  /\ pc[p] \notin {"idle", "killed"}
  /\ Trouble
  /\ losses' = losses + 1
  /\ pc' = [pc EXCEPT ![p] = "killed"]
  /\ UNCHANGED <<filesystem, command, todo, held, plans, agentsPlan, installed,
                 started, faults, stalls, edits>>

Quiet == \A p \in Runs : pc[p] \in {"idle", "killed"}

UserEdits ==
  /\ Quiet
  /\ edits < MaxEdits
  /\ edits' = edits + 1
  /\ \/ /\ \E root \in Roots : \E f \in UNION {Ships[v][root] : v \in Versions} :
              content' = [content EXCEPT ![root][f] = Mine]
        /\ UNCHANGED <<agents, manifest>>
     \/ /\ \/ agents' = [agents EXCEPT !.exists = TRUE, !.text = TRUE]
           \/ agents.block # None /\ agents' = [agents EXCEPT !.block = Mine]
           \/ agents' = NoFile
        /\ UNCHANGED <<content, manifest>>
     \/ /\ \E root \in Roots :
             /\ manifest[root] # None
             /\ manifest' = [manifest EXCEPT ![root] = Unreadable]
        /\ UNCHANGED <<content, agents>>
  /\ UNCHANGED <<lockfile, local, installed, started, faults, losses, stalls>>

-----------------------------------------------------------------------------
(* list *)

\* A recorded file that is not there, and one that is not as it was recorded.
Missing(root) == {f \in Recorded(Loaded(root)) : content[root][f] = None}

Modified(root) ==
  {f \in Recorded(Loaded(root)) : content[root][f] \notin {None, Loaded(root).files[f]}}

-----------------------------------------------------------------------------
Init ==
  /\ content = [root \in Roots |-> [f \in Files |-> None]]
  /\ agents = NoFile
  /\ manifest = [root \in Roots |-> None]
  /\ lockfile = [root \in Roots |-> None]
  /\ pc = [p \in Runs |-> "idle"]
  /\ command = [p \in Runs |-> None]
  /\ todo = [p \in Runs |-> {}]
  /\ held = [p \in Runs |-> {}]
  /\ plans = [p \in Runs |-> NoPlans]
  /\ agentsPlan = [p \in Runs |-> None]
  /\ installed = {}
  /\ started = 0 /\ faults = 0 /\ losses = 0 /\ stalls = 0 /\ edits = 0

\* The steps of a live run.
Step(p) ==
  \/ \E root \in Roots :
       \/ LockRoot(p, root)
       \/ JudgeStale(p, root)
       \/ TakeOver(p, root)
       \/ GiveUp(p, root)
       \/ \E file \in Files : ExecuteOp(p, root, file) \/ FailOp(p, root, file)
       \/ SaveManifest(p, root)
  \/ Plan(p)
  \/ Finish(p)
  \/ WriteAgents(p)
  \/ RecordAgents(p)
  \/ Unlock(p)

Next ==
  \/ \E p \in Runs :
       \/ \E c \in Commands[p] : Begins(p, c)
       \/ Step(p)
       \/ \E root \in Roots : LoseManifest(p, root)
       \/ FailAgents(p)
       \/ LoseBlock(p)
       \/ Kill(p)
  \/ \E root \in Roots : Age(root)
  \/ UserEdits

\* A live run goes on; a wait ends at its deadline at the latest.
Fairness == \A p \in Runs : WF_vars(Step(p))

Spec == Init /\ [][Next]_vars
FairSpec == Spec /\ Fairness

-----------------------------------------------------------------------------
(* Properties *)

\* The variables have their types; a manifest records what a release has
\* written, never the user's content.
TypeOK ==
  /\ content \in [Roots -> [Files -> Content \cup {None}]]
  /\ agents \in AgentsFile
  /\ manifest \in [Roots -> Manifest \cup {None, Unreadable}]
  /\ lockfile \in [Roots -> Lock \cup {None}]
  /\ pc \in [Runs -> {"idle", "lock", "takeover", "write", "record", "unlock", "killed"}]
  /\ command \in [Runs -> Command \cup {None}]
  /\ todo \in [Runs -> SUBSET Roots]
  /\ held \in [Runs -> SUBSET Roots]
  /\ plans \in [Runs -> [Roots -> Plans \cup {None}]]
  /\ agentsPlan \in [Runs -> AgentsPlans \cup {None}]
  /\ installed \subseteq Targets \X Roots
  /\ {started, faults, losses, stalls, edits} \subseteq Nat

\* Whatever fails, is killed or is taken over: a file or a block the user has
\* edited between runs changes only when the user changes it again or a run is
\* forced (decide, plan_removal, plan_install_agents_md).
EditsAreKept ==
  [][/\ \A root \in Roots, f \in Files :
          content[root][f] = Mine /\ content'[root][f] # Mine =>
            \E p \in Runs : pc[p] = "write" /\ command[p].force
     /\ agents.block = Mine /\ agents'.block # Mine =>
          edits' # edits \/ \E p \in Runs : pc[p] = "write" /\ command[p].force
     /\ agents.text /\ ~agents'.text => edits' # edits]_vars

Readable(root) == manifest[root] # Unreadable

\* Between runs the manifests tell the truth, unless a run was killed, could
\* not save one or outlived its lock: what the program wrote is recorded as it
\* is, however many operations have failed (execute_root saves what was done),
\* and `list' has no file missing and counts the user's edits as modified.
RecordsAreTrue ==
  Quiet /\ losses = 0 /\ stalls = 0 =>
    /\ \A root \in Roots : Readable(root) =>
         /\ \A f \in Files :
              content[root][f] \in Versions =>
                Loaded(root).files[f] = content[root][f]
         /\ Missing(root) = {}
         /\ \A f \in Modified(root) : content[root][f] = Mine
    /\ Readable(AgentsRoot) /\ agents.block \in Versions =>
         Loaded(AgentsRoot).block = agents.block

\* A target that was installed keeps its files until it is uninstalled itself,
\* whatever is installed, uninstalled, fails or is killed in a root it shares.
\* (Not so once the user has edited files: a manifest that records no file is
\* removed, and the targets with it.)
InstalledStays ==
  stalls = 0 /\ edits = 0 =>
    \A i \in installed :
      /\ i[1] \in Loaded(i[2]).targets
      /\ \A f \in Files :
           (\A v \in Versions : f \in Ships[v][i[2]]) => content[i[2]][f] # None

\* An AGENTS.md that only the installer has written to is not left behind
\* empty when its block goes (agents_md_created).
NoEmptyAgents ==
  Quiet /\ losses = 0 /\ stalls = 0 /\ Readable(AgentsRoot) =>
    (agents.exists /\ agents.block = None => agents.text)

\* As long as no live run outlives its lock, a run that has a root's lock is
\* the only one that has, and its lock file is there.
OneWriter ==
  stalls = 0 =>
    \A p \in Runs : \A root \in held[p] :
      /\ lockfile[root] # None => lockfile[root].by = p \/ pc[p] = "killed"
      /\ pc[p] # "killed" =>
           /\ lockfile[root] # None
           /\ \A q \in Runs \ {p} : root \in held[q] => pc[q] = "killed"

\* A run ends, whatever locks the others hold or have left (LOCK_WAIT, and the
\* roots are locked in one order).
EveryRunEnds ==
  \A p \in Runs : pc[p] # "idle" ~> pc[p] \in {"idle", "killed"}
=============================================================================
