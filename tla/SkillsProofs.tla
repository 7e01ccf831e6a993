---------------------------- MODULE SkillsProofs ----------------------------
(***************************************************************************)
(* The safety properties of the skills installer, for any number of runs,  *)
(* targets, roots, files and releases.                                     *)
(***************************************************************************)
EXTENDS Skills, TLAPS

-----------------------------------------------------------------------------
(* The operators of the model *)

\* A sequence without repetitions has at most one first of a set.
LEMMA FirstIsUnique ==
  ASSUME NEW S, NEW order \in Seq(S), IsInjective(order), NEW some,
         NEW x, NEW y, IsFirst(x, some, order), IsFirst(y, some, order)
  PROVE  x = y
<1> SUFFICES ASSUME x # y PROVE FALSE
  OBVIOUS
<1>1. Before(order, x, y) /\ Before(order, y, x)
  BY DEF IsFirst
<1>2. PICK i \in DOMAIN order, j \in DOMAIN order :
        i < j /\ order[i] = x /\ order[j] = y
  BY <1>1 DEF Before
<1>3. PICK k \in DOMAIN order, l \in DOMAIN order :
        k < l /\ order[k] = y /\ order[l] = x
  BY <1>1 DEF Before
<1>4. i = l /\ j = k
  BY <1>2, <1>3 DEF IsInjective
<1> QED
  BY <1>2, <1>3, <1>4

LEMMA RootsOfTypes ==
  ASSUME NEW t \in Targets
  PROVE  /\ RootsOf[t] \in Seq(Roots)
         /\ IsInjective(RootsOf[t])
         /\ ToSet(RootsOf[t]) \subseteq Roots
<1>1. RootsOf[t] \in Seq(Roots) /\ IsInjective(RootsOf[t])
  BY SkillsAssumption
<1> QED
  BY <1>1 DEF ToSet

LEMMA NoManifestType == NoManifest \in Manifest
  BY DEF NoManifest, Manifest, Hash

\* What is loaded is a manifest, where it can be read.
LEMMA LoadedType ==
  ASSUME TypeOK, NEW root \in Roots, Readable(root)
  PROVE  Loaded(root) \in Manifest
  BY NoManifestType DEF TypeOK, Loaded, Readable

LEMMA SavedType ==
  ASSUME NEW m \in Manifest
  PROVE  Saved(m) \in Manifest \cup {None}
  BY DEF Saved

LEMMA FileOpType ==
  ASSUME NEW do \in {"write", "remove", "leave"}, NEW set \in Hash
  PROVE  FileOp(do, set) \in FileOps
  BY DEF FileOp, FileOps

LEMMA DecideType ==
  ASSUME NEW c, NEW version \in Versions, NEW recorded \in Hash, NEW force
  PROVE  Decide(c, version, recorded, force) \in FileOps
<1>1. version \in Hash
  BY DEF Hash
<1> QED
  BY <1>1, FileOpType DEF Decide

LEMMA PlanRemovalType ==
  ASSUME NEW root, NEW f, NEW recorded \in Hash
  PROVE  PlanRemoval(root, f, recorded) \in FileOps
<1>1. None \in Hash
  BY DEF Hash
<1> QED
  BY <1>1, FileOpType DEF PlanRemoval

LEMMA RemovalsType ==
  ASSUME NEW root, NEW m \in Manifest
  PROVE  Removals(root, m) \in [Files -> FileOps \cup {None}]
<1>1. \A f \in Files : m.files[f] \in Hash
  BY DEF Manifest
<1> QED
  BY <1>1, PlanRemovalType DEF Removals

LEMMA PlanInstallRootType ==
  ASSUME TypeOK, NEW root \in Roots, Readable(root), NEW c \in Command
  PROVE  PlanInstallRoot(root, c) \in Plans
<1> DEFINE old == Loaded(root)
           ships == Ships[c.version][root]
           ops == [f \in Files |->
                     IF f \in ships
                     THEN Decide(content[root][f], c.version, old.files[f], c.force)
                     ELSE Removals(root, old)[f]]
           m == [old EXCEPT !.targets = @ \cup {c.target}]
<1>1. old \in Manifest
  BY LoadedType
<1>2. m \in Manifest
  BY <1>1 DEF Manifest, Command
<1>3. ships \in SUBSET Files
  BY SkillsAssumption DEF Command
<1>4. ops \in [Files -> FileOps \cup {None}]
  <2>1. ASSUME NEW f \in Files
        PROVE  Decide(content[root][f], c.version, old.files[f], c.force) \in FileOps
    <3>1. c.version \in Versions /\ old.files[f] \in Hash
      BY <1>1 DEF Command, Manifest
    <3> QED
      BY <3>1, DecideType
  <2>2. Removals(root, old) \in [Files -> FileOps \cup {None}]
    BY <1>1, RemovalsType
  <2> QED
    BY <2>1, <2>2
<1>5. PlanInstallRoot(root, c) = [manifest |-> m, ships |-> ships, ops |-> ops]
  BY DEF PlanInstallRoot
<1> HIDE DEF m, ships, ops
<1> QED
  BY <1>2, <1>3, <1>4, <1>5 DEF Plans

LEMMA PlanUninstallRootType ==
  ASSUME TypeOK, NEW root \in Roots, Readable(root), NEW c \in Command
  PROVE  PlanUninstallRoot(root, c) \in Plans \cup {None}
<1> DEFINE m == [Loaded(root) EXCEPT !.targets = @ \ {c.target}]
           ops == IF m.targets # {} THEN NoOps ELSE Removals(root, m)
<1>1. m \in Manifest
  BY LoadedType DEF Manifest
<1>2. ops \in [Files -> FileOps \cup {None}]
  BY <1>1, RemovalsType DEF NoOps
<1>3. \/ PlanUninstallRoot(root, c) = None
      \/ PlanUninstallRoot(root, c) = [manifest |-> m, ships |-> {}, ops |-> ops]
  BY DEF PlanUninstallRoot
<1> HIDE DEF m, ops
<1> QED
  BY <1>1, <1>2, <1>3 DEF Plans

LEMMA PlanRootType ==
  ASSUME TypeOK, NEW root \in Roots, Readable(root), NEW c \in Command
  PROVE  PlanRoot(root, c) \in Plans \cup {None}
  BY PlanInstallRootType, PlanUninstallRootType DEF PlanRoot

LEMMA PlanAgentsType ==
  ASSUME TypeOK, Readable(AgentsRoot), NEW c \in Command
  PROVE  PlanAgents(c) \in AgentsPlans \cup {None}
<1>1. /\ Loaded(AgentsRoot) \in Manifest /\ c.version \in Versions
      /\ agents \in AgentsFile
  BY LoadedType, SkillsAssumption DEF Command, TypeOK
<1>2. NoFile \in AgentsFile /\ NoFile.block # Mine
  BY NoneAssumption DEF NoFile, AgentsFile
<1>3. PlanInstallAgents(c) \in AgentsPlans
  <2> DEFINE file == [agents EXCEPT !.exists = TRUE, !.block = c.version]
  <2>1. file \in AgentsFile /\ file.block # Mine
    BY <1>1, SkillsAssumption DEF AgentsFile, Content
  <2>2. \E new \in {file, None}, knows \in BOOLEAN :
          PlanInstallAgents(c) = [file |-> new, records |-> knows,
                                  block |-> c.version, created |-> ~agents.exists]
    <3> DEFINE writes == \/ agents.block = None
                         \/ /\ agents.block # c.version
                            /\ c.force \/ agents.block = Loaded(AgentsRoot).block
               tells == writes \/ agents.block = c.version
    <3>1. tells \in BOOLEAN
      OBVIOUS
    <3>2. PlanInstallAgents(c) = [file |-> IF writes THEN file ELSE None, records |-> tells,
                                  block |-> c.version, created |-> ~agents.exists]
      BY DEF PlanInstallAgents
    <3> HIDE DEF tells, writes, file
    <3>3. PICK new \in {file, None} : new = IF writes THEN file ELSE None
      OBVIOUS
    <3>4. PlanInstallAgents(c) = [file |-> new, records |-> tells,
                                  block |-> c.version, created |-> ~agents.exists]
      BY <3>2, <3>3
    <3> QED
      BY <3>1, <3>4
  <2>3. c.version \in Hash /\ (~agents.exists) \in BOOLEAN
    BY <1>1 DEF Hash
  <2> HIDE DEF file
  <2> QED
    BY <2>1, <2>2, <2>3 DEF AgentsPlans
<1>4. PlanUninstallAgents \in AgentsPlans \cup {None}
  <2> DEFINE file == [agents EXCEPT !.block = None]
  <2>1. file \in AgentsFile /\ file.block # Mine
    BY <1>1, NoneAssumption DEF AgentsFile
  <2>2. \/ PlanUninstallAgents = None
        \/ PlanUninstallAgents =
             [file |-> None, records |-> FALSE, block |-> None, created |-> FALSE]
        \/ \E new \in {NoFile, file} : PlanUninstallAgents =
             [file |-> new, records |-> TRUE, block |-> None, created |-> FALSE]
    BY DEF PlanUninstallAgents
  <2> HIDE DEF file
  <2>3. None \in Hash /\ TRUE \in BOOLEAN /\ FALSE \in BOOLEAN
    BY DEF Hash
  <2>4. ASSUME NEW new \in {NoFile, file, None}, NEW tells \in BOOLEAN
        PROVE  [file |-> new, records |-> tells, block |-> None, created |-> FALSE]
                 \in AgentsPlans
    BY <1>2, <2>1, <2>3 DEF AgentsPlans
  <2> QED
    BY <2>2, <2>3, <2>4
<1> QED
  BY <1>3, <1>4 DEF PlanAgents

LEMMA EnteredType ==
  ASSUME NEW plan \in Plans, NEW f \in Files, plan.ops[f] # None
  PROVE  Entered(plan, f) \in Plans
<1>1. plan.ops[f].set \in Hash
  BY DEF Plans, FileOps
<1> DEFINE m == [plan.manifest EXCEPT !.files[f] = plan.ops[f].set]
           ops == [plan.ops EXCEPT ![f] = None]
<1>2. m \in Manifest
  BY <1>1 DEF Plans, Manifest
<1>3. ops \in [Files -> FileOps \cup {None}]
  BY DEF Plans
<1>4. Entered(plan, f) = [plan EXCEPT !.manifest = m, !.ops = ops]
  BY DEF Entered, Plans, Manifest
<1> HIDE DEF m, ops
<1> QED
  BY <1>2, <1>3, <1>4 DEF Plans

LEMMA WithBlockType ==
  ASSUME NEW m \in Manifest, NEW plan \in AgentsPlans
  PROVE  WithBlock(m, plan) \in Manifest
  BY DEF WithBlock, Manifest, AgentsPlans

-----------------------------------------------------------------------------
(* Types *)

\* What a run has at each point.
ReadyAt(p) ==
  /\ pc[p] # "idle" => command[p] # None
  /\ pc[p] = "idle" => held[p] = {}
  /\ pc[p] \in {"lock", "takeover"} =>
       /\ todo[p] \cup held[p] = ToSet(RootsOf[command[p].target])
       /\ todo[p] \cap held[p] = {}
  /\ pc[p] \in {"write", "record"} =>
       held[p] = ToSet(RootsOf[command[p].target])
  /\ pc[p] = "write" =>
       todo[p] \subseteq held[p] /\ \A root \in todo[p] : plans[p][root] # None
  /\ pc[p] = "record" => agentsPlan[p] # None
  /\ pc[p] \in {"write", "record"} /\ agentsPlan[p] # None =>
       command[p].target = "agents-md"

Ready == \A p \in Runs : ReadyAt(p)

LEMMA TypeOKInit == Init => TypeOK /\ Ready
<1> SUFFICES ASSUME Init PROVE TypeOK /\ Ready
  OBVIOUS
<1>1. NoFile \in AgentsFile
  BY DEF NoFile, AgentsFile
<1>2. NoPlans \in [Roots -> Plans \cup {None}]
  BY DEF NoPlans
<1> QED
  BY <1>1, <1>2 DEF Init, TypeOK, Ready, ReadyAt

LEMMA UnlocksType ==
  ASSUME TypeOK, NEW p \in Runs, Unlocks(p)
  PROVE  /\ pc' \in [Runs -> {"idle", "lock", "takeover", "write", "record",
                              "unlock", "killed"}]
         /\ todo' \in [Runs -> SUBSET Roots]
  BY DEF Unlocks, TypeOK

LEMMA LockStepsType ==
  ASSUME TypeOK, Ready, NEW p \in Runs, NEW root \in Roots,
         LockRoot(p, root) \/ JudgeStale(p, root) \/ TakeOver(p, root) \/ GiveUp(p, root)
  PROVE  TypeOK'
<1>1. CASE LockRoot(p, root)
  <2>1. [by |-> p, stale |-> FALSE] \in Lock
    BY DEF Lock
  <2>2. lockfile' \in [Roots -> Lock \cup {None}]
    BY <1>1, <2>1 DEF LockRoot, TypeOK
  <2> QED
    BY <1>1, <2>2 DEF LockRoot, TypeOK, bounds
<1>2. CASE JudgeStale(p, root)
  BY <1>2 DEF JudgeStale, TypeOK, filesystem, bounds
<1>3. CASE TakeOver(p, root)
  BY <1>3 DEF TakeOver, TypeOK, bounds
<1>4. CASE GiveUp(p, root)
  BY <1>4, UnlocksType DEF GiveUp, TypeOK, filesystem, bounds
<1> QED
  BY <1>1, <1>2, <1>3, <1>4

LEMMA PlanType ==
  ASSUME TypeOK, Ready, NEW p \in Runs, Plan(p)
  PROVE  TypeOK'
<1> DEFINE c == command[p]
           roots == ToSet(RootsOf[c.target])
           planned(root) == IF root \in roots THEN PlanRoot(root, c) ELSE None
<1>1. c \in Command /\ roots \subseteq Roots
  BY RootsOfTypes DEF Plan, Ready, ReadyAt, TypeOK, Command
<1>2. CASE \E root \in roots : manifest[root] = Unreadable
  BY <1>2, UnlocksType DEF Plan, TypeOK, filesystem, bounds
<1>3. CASE \A root \in roots : manifest[root] # Unreadable
  <2>1. \A root \in Roots : planned(root) \in Plans \cup {None}
    BY <1>1, <1>3, PlanRootType DEF Readable
  <2>2. PlanAgents(c) \in AgentsPlans \cup {None}
    <3>1. CASE c.target # "agents-md"
      BY <3>1 DEF PlanAgents
    <3>2. CASE c.target = "agents-md"
      <4>1. AgentsRoot \in roots
        BY <1>1, <3>2, SkillsAssumption DEF Command, ToSet
      <4> QED
        BY <1>1, <1>3, <4>1, PlanAgentsType DEF Readable
    <3> QED
      BY <3>1, <3>2
  <2>3. /\ plans' = [plans EXCEPT ![p] = [root \in Roots |-> planned(root)]]
        /\ agentsPlan' = [agentsPlan EXCEPT ![p] = PlanAgents(c)]
        /\ pc' = [pc EXCEPT ![p] = "write"]
        /\ todo' = [todo EXCEPT ![p] = {root \in roots : planned(root) # None}]
        /\ installed' = {i \in installed : i[1] # c.target}
        /\ UNCHANGED <<filesystem, command, held, bounds>>
    BY <1>3 DEF Plan
  <2> HIDE DEF planned, c, roots
  <2>4. plans' \in [Runs -> [Roots -> Plans \cup {None}]]
    BY <2>1, <2>3 DEF TypeOK
  <2>5. agentsPlan' \in [Runs -> AgentsPlans \cup {None}]
    BY <2>2, <2>3 DEF TypeOK
  <2>6. todo' \in [Runs -> SUBSET Roots]
    BY <1>1, <2>3 DEF TypeOK
  <2> QED
    BY <2>3, <2>4, <2>5, <2>6 DEF TypeOK, filesystem, bounds
<1> QED
  BY <1>2, <1>3

LEMMA HasOpFacts ==
  ASSUME TypeOK, Ready, NEW p \in Runs, NEW root \in Roots, NEW f \in Files,
         HasOp(p, root, f)
  PROVE  /\ pc[p] = "write" /\ root \in todo[p] /\ root \in held[p]
         /\ plans[p][root] \in Plans
         /\ plans[p][root].ops[f] \in FileOps
         /\ plans[p][root].ops[f] # None
<1>1. Writes(p, root) /\ f \in Left(plans[p][root])
  BY DEF HasOp, IsFirst
<1>2. pc[p] = "write" /\ root \in todo[p]
  BY <1>1 DEF Writes, IsFirst
<1>3. plans[p][root] \in Plans /\ root \in held[p]
  BY <1>2 DEF Ready, ReadyAt, TypeOK
<1> QED
  BY <1>1, <1>2, <1>3 DEF Left, Plans

LEMMA ExecuteOpType ==
  ASSUME TypeOK, Ready, NEW p \in Runs, NEW root \in Roots, NEW f \in Files,
         ExecuteOp(p, root, f)
  PROVE  TypeOK'
<1> DEFINE op == plans[p][root].ops[f]
<1>1. HasOp(p, root, f)
  BY DEF ExecuteOp
<1>2. plans[p][root] \in Plans /\ op \in FileOps /\ op # None
  BY <1>1, HasOpFacts
<1>3. Entered(plans[p][root], f) \in Plans
  BY <1>2, EnteredType
<1>4. op.set \in Content \cup {None}
  BY <1>2 DEF FileOps, Hash, Content
<1>5. content' \in [Roots -> [Files -> Content \cup {None}]]
  <2>1. \A v \in Content \cup {None} :
          [content EXCEPT ![root][f] = v] \in [Roots -> [Files -> Content \cup {None}]]
    BY DEF TypeOK
  <2>2. content[root][f] \in Content \cup {None}
    BY DEF TypeOK
  <2>3. \E v \in {op.set, None, content[root][f]} :
          content' = [content EXCEPT ![root][f] = v]
    BY DEF ExecuteOp
  <2> QED
    BY <1>4, <2>1, <2>2, <2>3
<1>6. plans' \in [Runs -> [Roots -> Plans \cup {None}]]
  BY <1>3 DEF ExecuteOp, TypeOK
<1> QED
  BY <1>5, <1>6 DEF ExecuteOp, TypeOK, bounds

LEMMA SaveType ==
  ASSUME TypeOK, Ready, NEW p \in Runs, NEW root \in Roots, Writes(p, root),
         manifest' = [manifest EXCEPT ![root] = Saved(plans[p][root].manifest)]
  PROVE  manifest' \in [Roots -> Manifest \cup {None, Unreadable}]
<1>1. plans[p][root] \in Plans
  BY DEF Writes, IsFirst, Ready, ReadyAt, TypeOK
<1>2. Saved(plans[p][root].manifest) \in Manifest \cup {None}
  BY <1>1, SavedType DEF Plans
<1> QED
  BY <1>2 DEF TypeOK

LEMMA RootStepsType ==
  ASSUME TypeOK, Ready, NEW p \in Runs, NEW root \in Roots,
         \/ \E f \in Files : FailOp(p, root, f)
         \/ SaveManifest(p, root) \/ LoseManifest(p, root)
  PROVE  TypeOK'
<1>1. CASE \E f \in Files : FailOp(p, root, f)
  <2> PICK f \in Files : FailOp(p, root, f)
    BY <1>1
  <2>1. Writes(p, root) /\ faults' \in Nat
    BY DEF FailOp, OpFails, HasOp, TypeOK
  <2> QED
    BY <2>1, SaveType, UnlocksType DEF FailOp, TypeOK, bounds
<1>2. CASE SaveManifest(p, root)
  BY <1>2, SaveType DEF SaveManifest, RootDone, TypeOK, bounds
<1>3. CASE LoseManifest(p, root)
  BY <1>3, UnlocksType DEF LoseManifest, TypeOK, filesystem
<1> QED
  BY <1>1, <1>2, <1>3

LEMMA SucceedsType ==
  ASSUME TypeOK, Ready, NEW p \in Runs, pc[p] \in {"write", "record"}, Succeeds(p)
  PROVE  installed' \subseteq Targets \X Roots
<1>1. command[p] \in Command
  BY DEF Ready, ReadyAt, TypeOK
<1>2. ToSet(RootsOf[command[p].target]) \subseteq Roots /\ command[p].target \in Targets
  BY <1>1, RootsOfTypes DEF Command
<1> QED
  BY <1>2 DEF Succeeds, TypeOK

LEMMA AgentsStepsType ==
  ASSUME TypeOK, Ready, NEW p \in Runs,
         Finish(p) \/ WriteAgents(p) \/ FailAgents(p) \/ RecordAgents(p) \/ LoseBlock(p)
  PROVE  TypeOK'
<1>1. CASE Finish(p)
  <2>1. installed' \subseteq Targets \X Roots /\ Unlocks(p)
    BY <1>1, SucceedsType DEF Finish, RootsDone, Succeeds
  <2> QED
    BY <1>1, <2>1, UnlocksType DEF Finish, TypeOK, filesystem, bounds
<1>2. CASE WriteAgents(p)
  <2>1. agents' \in AgentsFile
    BY <1>2 DEF WriteAgents, TypeOK, AgentsPlans
  <2> QED
    BY <1>2, <2>1 DEF WriteAgents, TypeOK, bounds
<1>3. CASE FailAgents(p)
  BY <1>3, UnlocksType DEF FailAgents, TypeOK, filesystem
<1>4. CASE RecordAgents(p)
  <2>1. agentsPlan[p] \in AgentsPlans /\ Unlocks(p)
    BY <1>4 DEF RecordAgents, Ready, ReadyAt, TypeOK, Succeeds
  <2>2. installed' \subseteq Targets \X Roots
    BY <1>4, SucceedsType DEF RecordAgents, TypeOK
  <2>3. manifest' \in [Roots -> Manifest \cup {None, Unreadable}]
    <3>1. CASE UNCHANGED manifest
      BY <3>1 DEF TypeOK
    <3>2. CASE ~UNCHANGED manifest
      <4>1. /\ manifest[AgentsRoot] # Unreadable
            /\ manifest' = [manifest EXCEPT ![AgentsRoot] =
                              Saved(WithBlock(Loaded(AgentsRoot), agentsPlan[p]))]
        BY <1>4, <3>2 DEF RecordAgents
      <4>2. Loaded(AgentsRoot) \in Manifest
        BY <4>1, SkillsAssumption, LoadedType DEF Readable
      <4>3. Saved(WithBlock(Loaded(AgentsRoot), agentsPlan[p])) \in Manifest \cup {None}
        BY <2>1, <4>2, WithBlockType, SavedType
      <4> QED
        BY <4>1, <4>3 DEF TypeOK
    <3> QED
      BY <3>1, <3>2
  <2> QED
    BY <1>4, <2>1, <2>2, <2>3, UnlocksType DEF RecordAgents, TypeOK, bounds
<1>5. CASE LoseBlock(p)
  BY <1>5, UnlocksType DEF LoseBlock, TypeOK, filesystem
<1> QED
  BY <1>1, <1>2, <1>3, <1>4, <1>5

LEMMA OtherStepsType ==
  ASSUME TypeOK, Ready, NEW p \in Runs,
         (\E c \in Commands[p] : Begins(p, c)) \/ Unlock(p) \/ Kill(p)
  PROVE  TypeOK'
<1>1. CASE \E c \in Commands[p] : Begins(p, c)
  <2> PICK c \in Commands[p] : Begins(p, c)
    BY <1>1
  <2>1. c \in Command /\ ToSet(RootsOf[c.target]) \subseteq Roots
    BY SkillsAssumption, RootsOfTypes DEF Command
  <2> QED
    BY <2>1 DEF Begins, TypeOK, filesystem
<1>2. CASE Unlock(p)
  <2>1. NoPlans \in [Roots -> Plans \cup {None}]
    BY DEF NoPlans
  <2>2. /\ lockfile' \in [Roots -> Lock \cup {None}]
        /\ held' \in [Runs -> SUBSET Roots]
    BY <1>2 DEF Unlock, TypeOK
  <2>3. CASE Ends(p)
    BY <1>2, <2>1, <2>2, <2>3 DEF Unlock, Ends, TypeOK, bounds
  <2>4. CASE UNCHANGED <<pc, command, plans, agentsPlan>>
    BY <1>2, <2>2, <2>4 DEF Unlock, TypeOK, bounds
  <2> QED
    BY <1>2, <2>3, <2>4 DEF Unlock
<1>3. CASE Kill(p)
  BY <1>3 DEF Kill, TypeOK, filesystem
<1> QED
  BY <1>1, <1>2, <1>3

LEMMA WorldType ==
  ASSUME TypeOK, (\E root \in Roots : Age(root)) \/ UserEdits
  PROVE  TypeOK'
<1>1. CASE \E root \in Roots : Age(root)
  <2> PICK root \in Roots : Age(root)
    BY <1>1
  <2>1. lockfile[root] \in Lock
    BY DEF Age, TypeOK
  <2>2. [lockfile[root] EXCEPT !.stale = TRUE] \in Lock
    BY <2>1 DEF Lock
  <2>3. lockfile' \in [Roots -> Lock \cup {None}]
    BY <2>2 DEF Age, TypeOK
  <2>4. stalls' \in Nat
    BY DEF Age, TypeOK
  <2> QED
    BY <2>3, <2>4 DEF Age, TypeOK, local
<1>2. CASE UserEdits
  <2>1. content' \in [Roots -> [Files -> Content \cup {None}]]
    BY <1>2 DEF UserEdits, TypeOK, Content
  <2>2. agents' \in AgentsFile
    <3>1. \/ agents' = agents
          \/ agents' = [agents EXCEPT !.exists = TRUE, !.text = TRUE]
          \/ agents' = [agents EXCEPT !.block = Mine]
          \/ agents' = NoFile
      BY <1>2 DEF UserEdits
    <3>2. agents \in AgentsFile /\ Mine \in Content
      BY DEF TypeOK, Content
    <3>3. [agents EXCEPT !.exists = TRUE, !.text = TRUE] \in AgentsFile
      BY <3>2 DEF AgentsFile
    <3>4. [agents EXCEPT !.block = Mine] \in AgentsFile
      BY <3>2 DEF AgentsFile
    <3>5. NoFile \in AgentsFile
      BY DEF AgentsFile, NoFile
    <3> QED
      BY <3>1, <3>2, <3>3, <3>4, <3>5
  <2>3. manifest' \in [Roots -> Manifest \cup {None, Unreadable}]
    BY <1>2 DEF UserEdits, TypeOK
  <2> QED
    BY <1>2, <2>1, <2>2, <2>3 DEF UserEdits, TypeOK, local
<1> QED
  BY <1>1, <1>2

\* What p does: its own steps, those that fail, its start and its end.
Moves(p) ==
  \/ Step(p)
  \/ \E c \in Commands[p] : Begins(p, c)
  \/ \E root \in Roots : LoseManifest(p, root)
  \/ FailAgents(p) \/ LoseBlock(p) \/ Kill(p)

LEMMA NextMoves ==
  ASSUME [Next]_vars
  PROVE  \/ \E p \in Runs : Moves(p)
         \/ \E root \in Roots : Age(root)
         \/ UserEdits
         \/ UNCHANGED vars
  BY DEF Next, Moves

LEMMA TypeOKNext ==
  ASSUME TypeOK, Ready, [Next]_vars
  PROVE  TypeOK'
<1>1. ASSUME NEW p \in Runs, Moves(p) PROVE TypeOK'
  <2>1. CASE \E root \in Roots : \/ LockRoot(p, root) \/ JudgeStale(p, root)
                                 \/ TakeOver(p, root) \/ GiveUp(p, root)
    BY <2>1, LockStepsType
  <2>2. CASE \E root \in Roots, f \in Files : ExecuteOp(p, root, f)
    BY <2>2, ExecuteOpType
  <2>3. CASE \E root \in Roots : \/ \E f \in Files : FailOp(p, root, f)
                                 \/ SaveManifest(p, root) \/ LoseManifest(p, root)
    BY <2>3, RootStepsType
  <2>4. CASE Plan(p)
    BY <2>4, PlanType
  <2>5. CASE Finish(p) \/ WriteAgents(p) \/ FailAgents(p) \/ RecordAgents(p) \/ LoseBlock(p)
    BY <2>5, AgentsStepsType
  <2>6. CASE (\E c \in Commands[p] : Begins(p, c)) \/ Unlock(p) \/ Kill(p)
    BY <2>6, OtherStepsType
  <2> QED
    BY <1>1, <2>1, <2>2, <2>3, <2>4, <2>5, <2>6 DEF Moves, Step
<1>2. CASE (\E root \in Roots : Age(root)) \/ UserEdits
  BY <1>2, WorldType
<1>3. CASE UNCHANGED vars
  BY <1>3 DEF vars, filesystem, local, bounds, TypeOK
<1> QED
  BY <1>1, <1>2, <1>3, NextMoves

\* Nothing of q's own changes.
Same(q) ==
  /\ pc'[q] = pc[q] /\ command'[q] = command[q] /\ todo'[q] = todo[q]
  /\ held'[q] = held[q] /\ plans'[q] = plans[q] /\ agentsPlan'[q] = agentsPlan[q]

\* One run moves at a time.
LEMMA OthersStay ==
  ASSUME TypeOK, NEW p \in Runs, Moves(p), NEW q \in Runs \ {p}
  PROVE  Same(q)
<1> USE DEF Same, TypeOK
<1>1. CASE \E root \in Roots : \/ LockRoot(p, root) \/ JudgeStale(p, root)
                               \/ TakeOver(p, root) \/ GiveUp(p, root)
  BY <1>1 DEF LockRoot, JudgeStale, TakeOver, GiveUp, Unlocks
<1>2. CASE \E root \in Roots : \E f \in Files : ExecuteOp(p, root, f) \/ FailOp(p, root, f)
  BY <1>2 DEF ExecuteOp, FailOp, Unlocks
<1>3. CASE \E root \in Roots : SaveManifest(p, root) \/ LoseManifest(p, root)
  BY <1>3 DEF SaveManifest, LoseManifest, Unlocks
<1>4. CASE Plan(p)
  BY <1>4 DEF Plan, Unlocks
<1>5. CASE Finish(p) \/ WriteAgents(p) \/ FailAgents(p)
  BY <1>5 DEF Finish, WriteAgents, FailAgents, Succeeds, Unlocks
<1>6. CASE RecordAgents(p) \/ LoseBlock(p)
  BY <1>6 DEF RecordAgents, LoseBlock, Succeeds, Unlocks
<1>7. CASE (\E c \in Commands[p] : Begins(p, c)) \/ Kill(p)
  BY <1>7 DEF Begins, Kill
<1>8. CASE Unlock(p)
  BY <1>8 DEF Unlock, Ends
<1> QED
  BY <1>1, <1>2, <1>3, <1>4, <1>5, <1>6, <1>7, <1>8 DEF Moves, Step

LEMMA ReadyNext ==
  ASSUME TypeOK, Ready, [Next]_vars
  PROVE  Ready'
<1>1. ASSUME NEW q \in Runs, Same(q) PROVE ReadyAt(q)'
  BY <1>1 DEF Same, Ready, ReadyAt
<1>2. ASSUME NEW p \in Runs, Moves(p) PROVE ReadyAt(p)'
  <2> USE DEF ReadyAt, TypeOK
  <2>0. ReadyAt(p)
    BY DEF Ready
  <2>1. CASE \E root \in Roots : \/ LockRoot(p, root) \/ JudgeStale(p, root)
                                 \/ TakeOver(p, root) \/ GiveUp(p, root)
    BY <2>0, <2>1 DEF LockRoot, JudgeStale, TakeOver, GiveUp, Wants, IsFirst, Unlocks
  <2>2. CASE \E root \in Roots : \E f \in Files : FailOp(p, root, f)
    BY <2>0, <2>2 DEF FailOp, OpFails, HasOp, Writes, Unlocks
  <2>3. CASE \E root \in Roots : \E f \in Files : ExecuteOp(p, root, f)
    <3> PICK root \in Roots, f \in Files : ExecuteOp(p, root, f)
      BY <2>3
    <3>1. plans[p][root] \in Plans
      BY HasOpFacts DEF ExecuteOp
    <3>2. Entered(plans[p][root], f) # None
      BY <3>1, HasOpFacts, EnteredType, NoneAssumption DEF ExecuteOp
    <3>3. \A r \in Roots : plans[p][r] # None => plans'[p][r] # None
      BY <3>2 DEF ExecuteOp
    <3> QED
      BY <2>0, <3>3 DEF ExecuteOp
  <2>4. CASE \E root \in Roots : SaveManifest(p, root) \/ LoseManifest(p, root)
    BY <2>0, <2>4 DEF SaveManifest, LoseManifest, RootDone, Writes, Unlocks
  <2>5. CASE Plan(p)
    <3> DEFINE roots == ToSet(RootsOf[command[p].target])
    <3>1. CASE \E root \in roots : manifest[root] = Unreadable
      BY <2>0, <2>5, <3>1 DEF Plan, Unlocks
    <3>2. CASE \A root \in roots : manifest[root] # Unreadable
      <4>1. /\ pc'[p] = "write" /\ held'[p] = held[p] /\ held[p] = roots
            /\ command'[p] = command[p]
        BY <2>0, <2>5, <3>2 DEF Plan
      <4>2. roots \subseteq Roots
        BY <2>0, <2>5, RootsOfTypes DEF Plan, Command
      <4>3. todo'[p] \subseteq roots /\ \A root \in todo'[p] : plans'[p][root] # None
        BY <2>5, <3>2, <4>2 DEF Plan
      <4>4. agentsPlan'[p] # None => command[p].target = "agents-md"
        BY <2>5, <3>2 DEF Plan, PlanAgents
      <4> QED
        BY <2>0, <4>1, <4>3, <4>4, <2>5 DEF Plan
    <3> QED
      BY <3>1, <3>2
  <2>6. CASE Finish(p) \/ WriteAgents(p) \/ FailAgents(p)
    BY <2>0, <2>6 DEF Finish, WriteAgents, FailAgents, RootsDone, Succeeds, Unlocks
  <2>7. CASE RecordAgents(p) \/ LoseBlock(p)
    BY <2>0, <2>7 DEF RecordAgents, LoseBlock, Succeeds, Unlocks
  <2>8. CASE \E c \in Commands[p] : Begins(p, c)
    <3> PICK c \in Commands[p] : Begins(p, c)
      BY <2>8
    <3>1. c # None
      BY SkillsAssumption, NoneAssumption
    <3> QED
      BY <2>0, <3>1 DEF Begins
  <2>9. CASE Kill(p)
    BY <2>0, <2>9 DEF Kill
  <2>10. CASE Unlock(p)
    BY <2>0, <2>10 DEF Unlock, Ends
  <2> QED
    BY <1>2, <2>1, <2>2, <2>3, <2>4, <2>5, <2>6, <2>7, <2>8, <2>9, <2>10 DEF Moves, Step
<1>3. CASE (\E root \in Roots : Age(root)) \/ UserEdits \/ UNCHANGED vars
  <2>1. \A q \in Runs : Same(q)
    BY <1>3 DEF Age, UserEdits, vars, local, Same
  <2> QED
    BY <1>1, <2>1 DEF Ready
<1>4. CASE \E p \in Runs : Moves(p)
  BY <1>1, <1>2, <1>4, OthersStay DEF Ready
<1> QED
  BY <1>3, <1>4, NextMoves

\* The variables of the installer have their types, and no manifest ever
\* records the user's content as the program's own (decide, plan_removal,
\* plan_install_agents_md set the hash of what they write, or keep the old one).
THEOREM SkillsTypes == Spec => []TypeOK
<1>1. TypeOK /\ Ready /\ [Next]_vars => TypeOK' /\ Ready'
  BY TypeOKNext, ReadyNext
<1> QED
  BY <1>1, TypeOKInit, PTL DEF Spec

-----------------------------------------------------------------------------
(* The user's edits *)

LEMMA MineIsNoHash == Mine \notin Hash /\ None \notin Versions /\ None # Mine
  BY SkillsAssumption, NoneAssumption DEF Hash

\* A plan made without force leaves a file that is the user's.
LEMMA PlanKeepsEdits ==
  ASSUME TypeOK, NEW root \in Roots, Readable(root), NEW c \in Command, ~c.force,
         NEW f \in Files, content[root][f] = Mine,
         PlanRoot(root, c) # None, PlanRoot(root, c).ops[f] # None
  PROVE  PlanRoot(root, c).ops[f].do = "leave"
<1>1. Loaded(root) \in Manifest /\ Loaded(root).files[f] \in Hash /\ c.version \in Versions
  BY LoadedType DEF Manifest, Command
<1>2. ASSUME NEW recorded \in Hash
      PROVE  PlanRemoval(root, f, recorded).do = "leave"
  BY <1>2, MineIsNoHash DEF PlanRemoval, FileOp
<1>3. ASSUME NEW m \in Manifest, Removals(root, m)[f] # None
      PROVE  Removals(root, m)[f].do = "leave"
  BY <1>2, <1>3 DEF Removals, Manifest
<1>4. CASE c.op = "install"
  <2>1. PlanRoot(root, c).ops[f] =
          IF f \in Ships[c.version][root]
          THEN Decide(content[root][f], c.version, Loaded(root).files[f], c.force)
          ELSE Removals(root, Loaded(root))[f]
    BY <1>4 DEF PlanRoot, PlanInstallRoot
  <2>2. Decide(content[root][f], c.version, Loaded(root).files[f], c.force).do = "leave"
    BY <1>1, MineIsNoHash DEF Decide, FileOp, Hash
  <2> QED
    BY <1>1, <1>3, <2>1, <2>2
<1>5. CASE c.op # "install"
  <2> DEFINE m == [Loaded(root) EXCEPT !.targets = @ \ {c.target}]
  <2>1. m \in Manifest
    BY <1>1 DEF Manifest
  <2>2. PlanRoot(root, c).ops = IF m.targets # {} THEN NoOps ELSE Removals(root, m)
    BY <1>5 DEF PlanRoot, PlanUninstallRoot
  <2>3. NoOps[f] = None
    BY DEF NoOps
  <2> HIDE DEF m
  <2> QED
    BY <1>3, <2>1, <2>2, <2>3
<1> QED
  BY <1>4, <1>5

\* A plan for AGENTS.md keeps the user's text, and without force a block that
\* the user has edited.
LEMMA AgentsPlanKeepsEdits ==
  ASSUME TypeOK, Readable(AgentsRoot), NEW c \in Command,
         PlanAgents(c) # None, PlanAgents(c).file # None
  PROVE  /\ PlanAgents(c).file.text = agents.text
         /\ ~c.force => agents.block # Mine
<1>1. /\ Loaded(AgentsRoot).block \in Hash /\ c.version \in Versions
      /\ agents \in AgentsFile
  BY LoadedType, SkillsAssumption DEF Command, TypeOK, Manifest
<1>2. CASE c.op = "install"
  <2>1. PlanAgents(c) = PlanInstallAgents(c)
    BY <1>2 DEF PlanAgents
  <2>2. /\ PlanAgents(c).file = [agents EXCEPT !.exists = TRUE, !.block = c.version]
        /\ \/ agents.block = None
           \/ c.force \/ agents.block = Loaded(AgentsRoot).block
    BY <2>1 DEF PlanInstallAgents
  <2> QED
    BY <1>1, <2>2, MineIsNoHash DEF AgentsFile
<1>3. CASE c.op # "install"
  <2>1. PlanAgents(c) = PlanUninstallAgents
    BY <1>3 DEF PlanAgents
  <2>2. /\ agents.block = Loaded(AgentsRoot).block
        /\ PlanAgents(c).file = IF Loaded(AgentsRoot).created /\ ~agents.text THEN NoFile
                                ELSE [agents EXCEPT !.block = None]
    BY <2>1 DEF PlanUninstallAgents
  <2>3. ASSUME ~agents.text PROVE NoFile.text = agents.text
    BY <1>1, <2>3 DEF AgentsFile, NoFile
  <2>4. [agents EXCEPT !.block = None].text = agents.text
    BY <1>1 DEF AgentsFile
  <2> QED
    BY <1>1, <2>2, <2>3, <2>4, MineIsNoHash
<1> QED
  BY <1>2, <1>3

\* What a run that is writing will still do to the user's files; the user edits
\* between runs only, and no run writes what is the user's.
KeepsEdits(p) ==
  pc[p] = "write" =>
    /\ ~command[p].force =>
         \A root \in todo[p], f \in Files :
           content[root][f] = Mine /\ plans[p][root].ops[f] # None =>
             plans[p][root].ops[f].do = "leave"
    /\ agentsPlan[p] # None /\ agentsPlan[p].file # None =>
         /\ agentsPlan[p].file.text = agents.text
         /\ ~command[p].force => agents.block # Mine

EditsInv == \A p \in Runs : KeepsEdits(p)

\* While no file becomes the user's.
NoNewEdits ==
  /\ \A root \in Roots, f \in Files : content'[root][f] = Mine => content[root][f] = Mine
  /\ agents'.text = agents.text
  /\ agents'.block = Mine => agents.block = Mine

LEMMA EntersOne ==
  ASSUME NEW plan \in Plans, NEW f \in Files
  PROVE  /\ Entered(plan, f).ops = [plan.ops EXCEPT ![f] = None]
         /\ Entered(plan, f).manifest = [plan.manifest EXCEPT !.files[f] = plan.ops[f].set]
         /\ Entered(plan, f).ships = plan.ships
  BY DEF Entered, Plans

LEMMA KeepsEditsFrame ==
  ASSUME TypeOK, Ready, NEW q \in Runs, KeepsEdits(q), NoNewEdits, pc'[q] = pc[q],
         command'[q] = command[q], todo'[q] \subseteq todo[q], plans'[q] = plans[q],
         agentsPlan'[q] = agentsPlan[q]
  PROVE  KeepsEdits(q)'
<1>1. pc[q] = "write" => todo[q] \subseteq Roots
  BY DEF TypeOK
<1> QED
  BY <1>1 DEF KeepsEdits, NoNewEdits

\* A run puts no content of the user's anywhere.
LEMMA RunsMakeNoEdits ==
  ASSUME TypeOK, Ready, EditsInv, NEW p \in Runs, Moves(p)
  PROVE  NoNewEdits
<1>1. CASE \E root \in Roots, file \in Files : ExecuteOp(p, root, file)
  <2> PICK root \in Roots, file \in Files : ExecuteOp(p, root, file)
    BY <1>1
  <2>1. plans[p][root].ops[file] \in FileOps
    BY HasOpFacts DEF ExecuteOp
  <2>2. plans[p][root].ops[file].set # Mine
    BY <2>1, MineIsNoHash DEF FileOps
  <2>3. ASSUME NEW r \in Roots, NEW f \in Files, content'[r][f] = Mine
        PROVE  content[r][f] = Mine
    <3>1. CASE r = root /\ f = file
      BY <2>2, <2>3, <3>1, MineIsNoHash DEF ExecuteOp, TypeOK
    <3>2. CASE ~(r = root /\ f = file)
      BY <2>3, <3>2 DEF ExecuteOp, TypeOK
    <3> QED
      BY <3>1, <3>2
  <2> QED
    BY <2>3 DEF ExecuteOp, NoNewEdits
<1>2. CASE WriteAgents(p)
  <2>1. CASE agentsPlan[p].file = None
    BY <1>2, <2>1 DEF WriteAgents, NoNewEdits
  <2>2. CASE agentsPlan[p].file # None
    <3>1. agents' = agentsPlan[p].file /\ content' = content
      BY <1>2, <2>2 DEF WriteAgents
    <3>2. agentsPlan[p].file.block # Mine
      BY <1>2, <2>2 DEF WriteAgents, TypeOK, AgentsPlans
    <3>3. agentsPlan[p].file.text = agents.text
      BY <1>2, <2>2 DEF WriteAgents, RootsDone, EditsInv, KeepsEdits
    <3> QED
      BY <3>1, <3>2, <3>3 DEF NoNewEdits
  <2> QED
    BY <2>1, <2>2
<1>3. CASE UNCHANGED <<content, agents>>
  BY <1>3 DEF NoNewEdits
<1>4. CASE \E root \in Roots : \/ LockRoot(p, root) \/ JudgeStale(p, root)
                               \/ TakeOver(p, root) \/ GiveUp(p, root)
  BY <1>3, <1>4 DEF LockRoot, JudgeStale, TakeOver, GiveUp, filesystem
<1>5. CASE \E root \in Roots : \/ \E f \in Files : FailOp(p, root, f)
                               \/ SaveManifest(p, root) \/ LoseManifest(p, root)
  BY <1>3, <1>5 DEF FailOp, SaveManifest, LoseManifest, filesystem
<1>6. CASE Plan(p) \/ Finish(p) \/ FailAgents(p) \/ RecordAgents(p) \/ LoseBlock(p)
  BY <1>3, <1>6 DEF Plan, Finish, FailAgents, RecordAgents, LoseBlock, filesystem
<1>7. CASE (\E c \in Commands[p] : Begins(p, c)) \/ Unlock(p) \/ Kill(p)
  BY <1>3, <1>7 DEF Begins, Unlock, Kill, filesystem
<1> QED
  BY <1>1, <1>2, <1>4, <1>5, <1>6, <1>7 DEF Moves, Step

\* A run that plans keeps the user's edits.
LEMMA PlannedKeepsEdits ==
  ASSUME TypeOK, Ready, NEW p \in Runs, Plan(p)
  PROVE  KeepsEdits(p)'
<1> DEFINE c == command[p]
           roots == ToSet(RootsOf[c.target])
<1>1. c \in Command /\ roots \subseteq Roots
  BY RootsOfTypes DEF Plan, Ready, ReadyAt, TypeOK, Command
<1>2. CASE \E root \in roots : manifest[root] = Unreadable
  BY <1>2 DEF Plan, Unlocks, KeepsEdits, TypeOK
<1>3. CASE \A root \in roots : manifest[root] # Unreadable
  <2>1. /\ \A root \in roots : plans'[p][root] = PlanRoot(root, c)
        /\ agentsPlan'[p] = PlanAgents(c)
        /\ todo'[p] = {root \in roots : PlanRoot(root, c) # None}
        /\ command'[p] = c /\ content' = content /\ agents' = agents
    BY <1>1, <1>3 DEF Plan, TypeOK, filesystem
  <2>2. c.target = "agents-md" => AgentsRoot \in roots
    BY <1>1, SkillsAssumption DEF Command, ToSet
  <2>3. PlanAgents(c) # None => c.target = "agents-md"
    BY DEF PlanAgents
  <2>4. ASSUME NEW root \in todo'[p], NEW f \in Files, ~c.force, content[root][f] = Mine,
               plans'[p][root].ops[f] # None
        PROVE  plans'[p][root].ops[f].do = "leave"
    <3>1. root \in Roots /\ Readable(root) /\ PlanRoot(root, c) # None
      BY <1>1, <1>3, <2>1 DEF Readable
    <3>2. plans'[p][root] = PlanRoot(root, c)
      BY <2>1, <2>4
    <3> QED
      BY <1>1, <2>4, <3>1, <3>2, PlanKeepsEdits
  <2>5. ASSUME PlanAgents(c) # None, PlanAgents(c).file # None
        PROVE  PlanAgents(c).file.text = agents.text /\ (~c.force => agents.block # Mine)
    BY <1>1, <1>3, <2>2, <2>3, <2>5, AgentsPlanKeepsEdits DEF Readable
  <2> HIDE DEF c, roots
  <2> QED
    BY <2>1, <2>4, <2>5 DEF KeepsEdits
<1> QED
  BY <1>2, <1>3

LEMMA EditsInvNext ==
  ASSUME TypeOK, Ready, EditsInv, [Next]_vars
  PROVE  EditsInv'
<1>1. ASSUME NEW p \in Runs, Moves(p) PROVE EditsInv'
  <2>1. NoNewEdits
    BY <1>1, RunsMakeNoEdits
  <2>2. ASSUME NEW q \in Runs \ {p} PROVE KeepsEdits(q)'
    BY <1>1, <2>1, OthersStay, KeepsEditsFrame DEF Same, EditsInv
  <2>3. KeepsEdits(p)'
    <3>1. CASE Plan(p)
      BY <3>1, PlannedKeepsEdits
    <3>2. CASE \E root \in Roots, file \in Files : ExecuteOp(p, root, file)
      <4> PICK root \in Roots, file \in Files : ExecuteOp(p, root, file)
        BY <3>2
      <4>1. /\ plans[p][root] \in Plans /\ root \in todo[p] /\ pc[p] = "write"
        BY HasOpFacts DEF ExecuteOp
      <4>2. plans'[p][root].ops = [plans[p][root].ops EXCEPT ![file] = None]
        BY <4>1, EntersOne DEF ExecuteOp, TypeOK
      <4>3. \A r \in Roots \ {root} : plans'[p][r] = plans[p][r]
        BY DEF ExecuteOp, TypeOK
      <4>4. \A r \in Roots, f \in Files :
              plans'[p][r].ops[f] = plans[p][r].ops[f] \/ plans'[p][r].ops[f] = None
        BY <4>1, <4>2, <4>3 DEF Plans
      <4>5. todo'[p] = todo[p] /\ todo[p] \subseteq Roots /\ UNCHANGED <<command, agentsPlan, pc, agents>>
        BY DEF ExecuteOp, TypeOK
      <4>6. KeepsEdits(p)
        BY DEF EditsInv
      <4> QED
        BY <2>1, <4>1, <4>4, <4>5, <4>6 DEF KeepsEdits, NoNewEdits
    <3>3. CASE \E root \in Roots : SaveManifest(p, root)
      BY <2>1, <3>3, KeepsEditsFrame DEF SaveManifest, EditsInv, TypeOK
    <3>4. CASE pc'[p] # "write"
      BY <3>4 DEF KeepsEdits
    <3>5. CASE \E root \in Roots : \/ LockRoot(p, root) \/ JudgeStale(p, root)
                                   \/ TakeOver(p, root) \/ GiveUp(p, root)
      BY <3>4, <3>5 DEF LockRoot, JudgeStale, TakeOver, GiveUp, Wants, Unlocks, TypeOK
    <3>6. CASE \E root \in Roots : (\E f \in Files : FailOp(p, root, f)) \/ LoseManifest(p, root)
      BY <3>4, <3>6 DEF FailOp, LoseManifest, Unlocks, TypeOK
    <3>7. CASE Finish(p) \/ WriteAgents(p) \/ FailAgents(p)
      BY <3>4, <3>7 DEF Finish, Succeeds, WriteAgents, FailAgents, Unlocks, TypeOK
    <3>8. CASE RecordAgents(p) \/ LoseBlock(p)
      BY <3>4, <3>8 DEF RecordAgents, Succeeds, LoseBlock, Unlocks, TypeOK
    <3>9. CASE (\E c \in Commands[p] : Begins(p, c)) \/ Unlock(p) \/ Kill(p)
      BY <3>4, <3>9 DEF Begins, Unlock, Ends, Kill, TypeOK
    <3> QED
      BY <1>1, <3>1, <3>2, <3>3, <3>5, <3>6, <3>7, <3>8, <3>9 DEF Moves, Step
  <2> QED
    BY <2>2, <2>3 DEF EditsInv
<1>2. CASE UserEdits
  BY <1>2 DEF UserEdits, Quiet, local, EditsInv, KeepsEdits
<1>3. CASE (\E root \in Roots : Age(root)) \/ UNCHANGED vars
  BY <1>3 DEF Age, vars, filesystem, local, EditsInv, KeepsEdits
<1> QED
  BY <1>1, <1>2, <1>3, NextMoves

\* A step that overwrites an edit is the user's, or of a run that is forced.
LEMMA EditsKeptNext ==
  ASSUME TypeOK, Ready, EditsInv, [Next]_vars
  PROVE  /\ \A root \in Roots, f \in Files :
              content[root][f] = Mine /\ content'[root][f] # Mine =>
                \E p \in Runs : pc[p] = "write" /\ command[p].force
         /\ agents.block = Mine /\ agents'.block # Mine =>
              edits' # edits \/ \E p \in Runs : pc[p] = "write" /\ command[p].force
         /\ agents.text /\ ~agents'.text => edits' # edits
<1>1. ASSUME NEW p \in Runs, Moves(p), NEW root \in Roots, NEW f \in Files,
             content[root][f] = Mine, content'[root][f] # Mine
      PROVE  pc[p] = "write" /\ command[p].force
  <2>1. PICK r \in Roots, file \in Files : ExecuteOp(p, r, file)
    <3>1. content' # content
      BY <1>1
    <3> QED
      BY <1>1, <3>1 DEF Moves, Step, LockRoot, JudgeStale, TakeOver, GiveUp, FailOp,
           SaveManifest, LoseManifest, Plan, Finish, WriteAgents, FailAgents, RecordAgents,
           LoseBlock, Unlock, Kill, Begins, filesystem
  <2>2. /\ pc[p] = "write" /\ r \in todo[p] /\ plans[p][r].ops[file] # None
        /\ plans[p][r].ops[file] \in FileOps
    BY <2>1, HasOpFacts DEF ExecuteOp
  <2>3. r = root /\ file = f
    BY <1>1, <2>1 DEF ExecuteOp, TypeOK
  <2>4. plans[p][root].ops[f].do # "leave"
    BY <1>1, <2>1, <2>3 DEF ExecuteOp, TypeOK
  <2> QED
    BY <1>1, <2>2, <2>3, <2>4 DEF EditsInv, KeepsEdits
<1>2. ASSUME NEW p \in Runs, Moves(p), agents.block = Mine, agents'.block # Mine
      PROVE  pc[p] = "write" /\ command[p].force
  <2>1. WriteAgents(p)
    <3>1. agents' # agents
      BY <1>2
    <3> QED
      BY <1>2, <3>1 DEF Moves, Step, LockRoot, JudgeStale, TakeOver, GiveUp, ExecuteOp,
           FailOp, SaveManifest, LoseManifest, Plan, Finish, FailAgents, RecordAgents,
           LoseBlock, Unlock, Kill, Begins, filesystem
  <2> QED
    BY <1>2, <2>1 DEF WriteAgents, RootsDone, EditsInv, KeepsEdits
<1>3. ASSUME NEW p \in Runs, Moves(p), agents.text PROVE agents'.text
  BY <1>3, RunsMakeNoEdits DEF NoNewEdits
<1>4. CASE \E p \in Runs : Moves(p)
  BY <1>1, <1>2, <1>3, <1>4
<1>5. CASE UserEdits
  <2>1. edits' # edits
    BY <1>5 DEF UserEdits, TypeOK
  <2>2. content' = content \/ \E root \in Roots, f \in Files :
                                content' = [content EXCEPT ![root][f] = Mine]
    <3>1. \A root \in Roots : UNION {Ships[v][root] : v \in Versions} \subseteq Files
      BY SkillsAssumption
    <3> QED
      BY <1>5, <3>1 DEF UserEdits
  <2>3. ASSUME NEW root \in Roots, NEW f \in Files, content[root][f] = Mine
        PROVE  content'[root][f] = Mine
    <3>1. CASE content' = content
      BY <2>3, <3>1
    <3>2. ASSUME NEW r \in Roots, NEW file \in Files,
                 content' = [content EXCEPT ![r][file] = Mine]
          PROVE  content'[root][f] = Mine
      BY <2>3, <3>2 DEF TypeOK
    <3> QED
      BY <2>2, <3>1, <3>2
  <2> QED
    BY <2>1, <2>3
<1>6. CASE (\E root \in Roots : Age(root)) \/ UNCHANGED vars
  BY <1>6 DEF Age, vars, filesystem
<1> QED
  BY <1>4, <1>5, <1>6, NextMoves

\* A file or a block that the user has edited changes only when the user
\* changes it again or a run is forced, and the user's own text in AGENTS.md
\* never, whatever fails, is killed or loses its lock (decide, plan_removal,
\* plan_install_agents_md, plan_uninstall_agents_md).
THEOREM EditsKept == Spec => EditsAreKept
<1>1. Init => TypeOK /\ Ready /\ EditsInv
  BY TypeOKInit DEF Init, EditsInv, KeepsEdits
<1>2. TypeOK /\ Ready /\ EditsInv /\ [Next]_vars => TypeOK' /\ Ready' /\ EditsInv'
  BY TypeOKNext, ReadyNext, EditsInvNext
<1>3. TypeOK /\ Ready /\ EditsInv /\ [Next]_vars =>
        [/\ \A root \in Roots, f \in Files :
              content[root][f] = Mine /\ content'[root][f] # Mine =>
                \E p \in Runs : pc[p] = "write" /\ command[p].force
         /\ agents.block = Mine /\ agents'.block # Mine =>
              edits' # edits \/ \E p \in Runs : pc[p] = "write" /\ command[p].force
         /\ agents.text /\ ~agents'.text => edits' # edits]_vars
  BY EditsKeptNext
<1> QED
  BY <1>1, <1>2, <1>3, PTL DEF Spec, EditsAreKept

-----------------------------------------------------------------------------
(* The locks *)

AtMostTwo == \A p, q, r \in Runs : p = q \/ q = r \/ p = r

\* No live run has outlived its lock, and none was killed whose lock two others
\* could take over at once.
Calm == stalls = 0 /\ (losses = 0 \/ AtMostTwo)

\* A live run's locks are there, its own and fresh; what is stale is a killed
\* run's.
LocksAreOwn(p) ==
  pc[p] # "killed" =>
    \A root \in held[p] :
      lockfile[root] # None /\ lockfile[root].by = p /\ ~lockfile[root].stale

StaleOfKilled(root) ==
  lockfile[root] # None /\ lockfile[root].stale => pc[lockfile[root].by] = "killed"

TakesFromKilled(p) == pc[p] = "takeover" => \E q \in Runs : pc[q] = "killed"

LockInv ==
  Calm =>
    /\ \A p \in Runs : LocksAreOwn(p) /\ TakesFromKilled(p)
    /\ \A root \in Roots : StaleOfKilled(root)
    /\ losses = 0 => \A p \in Runs : pc[p] # "killed"

\* The counts only grow, so what was calm stays what it was.
LEMMA CalmBefore ==
  ASSUME TypeOK, TypeOK', [Next]_vars, Calm'
  PROVE  Calm /\ (losses' = 0 => losses = 0) /\ (stalls' = 0 => stalls = 0)
<1>1. losses' >= losses /\ stalls' >= stalls
  <2>1. ASSUME NEW p \in Runs, Moves(p) PROVE losses' >= losses /\ stalls' >= stalls
    <3> USE DEF TypeOK
    <3>1. CASE UNCHANGED <<losses, stalls>>
      BY <3>1
    <3>2. CASE \E root \in Roots : LoseManifest(p, root)
      BY <3>2 DEF LoseManifest
    <3>3. CASE LoseBlock(p) \/ Kill(p)
      BY <3>3 DEF LoseBlock, Kill
    <3>4. CASE \E root \in Roots : \/ LockRoot(p, root) \/ JudgeStale(p, root)
                                   \/ TakeOver(p, root) \/ GiveUp(p, root)
                                   \/ SaveManifest(p, root)
      BY <3>1, <3>4 DEF LockRoot, JudgeStale, TakeOver, GiveUp, SaveManifest, bounds
    <3>5. CASE \E root \in Roots : \E f \in Files : ExecuteOp(p, root, f) \/ FailOp(p, root, f)
      BY <3>1, <3>5 DEF ExecuteOp, FailOp, bounds
    <3>6. CASE Plan(p) \/ Finish(p) \/ WriteAgents(p) \/ RecordAgents(p) \/ Unlock(p)
      BY <3>1, <3>6 DEF Plan, Finish, WriteAgents, RecordAgents, Unlock, bounds
    <3>7. CASE (\E c \in Commands[p] : Begins(p, c)) \/ FailAgents(p)
      BY <3>1, <3>7 DEF Begins, FailAgents
    <3> QED
      BY <2>1, <3>2, <3>3, <3>4, <3>5, <3>6, <3>7 DEF Moves, Step
  <2>2. CASE \E root \in Roots : Age(root)
    BY <2>2 DEF Age, TypeOK
  <2>3. CASE UserEdits \/ UNCHANGED vars
    BY <2>3 DEF UserEdits, vars, bounds, TypeOK
  <2> QED
    BY <2>1, <2>2, <2>3, NextMoves
<1>2. {losses, stalls} \subseteq Nat /\ {losses', stalls'} \subseteq Nat
  BY DEF TypeOK
<1> QED
  BY <1>1, <1>2 DEF Calm

\* Calm runs exclude each other.
LEMMA Exclusive ==
  ASSUME LockInv, Calm, NEW p \in Runs, NEW q \in Runs, pc[p] # "killed",
         pc[q] # "killed", NEW root, root \in held[p], root \in held[q]
  PROVE  p = q
  BY DEF LockInv, LocksAreOwn

LEMMA LockInvNext ==
  ASSUME TypeOK, TypeOK', Ready, LockInv, [Next]_vars
  PROVE  LockInv'
<1> SUFFICES ASSUME Calm' PROVE LockInv'
  BY DEF LockInv
<1>1. Calm /\ (losses' = 0 => losses = 0) /\ (stalls' = 0 => stalls = 0)
  BY CalmBefore
<1>2. /\ \A p \in Runs : LocksAreOwn(p) /\ TakesFromKilled(p)
      /\ \A root \in Roots : StaleOfKilled(root)
      /\ losses = 0 => \A p \in Runs : pc[p] # "killed"
  BY <1>1 DEF LockInv
<1>3. \A root \in Roots : lockfile[root] # None => lockfile[root].by \in Runs
  BY DEF TypeOK, Lock
<1> USE DEF LocksAreOwn, StaleOfKilled, TakesFromKilled, TypeOK
<1>4. CASE UNCHANGED <<lockfile, held, pc>>
  BY <1>1, <1>2, <1>4 DEF LockInv
<1>5. ASSUME NEW p \in Runs, Moves(p) PROVE LockInv'
  <2>1. \A q \in Runs \ {p} : pc'[q] = pc[q] /\ held'[q] = held[q]
    BY <1>5, OthersStay DEF Same
  <2>2. ASSUME lockfile' = lockfile, held' = held, pc[p] # "killed", pc'[p] # "killed",
               pc'[p] = "takeover" => \E q \in Runs : pc[q] = "killed"
        PROVE  LockInv'
    <3>1. \A q \in Runs : pc[q] = "killed" <=> pc'[q] = "killed"
      BY <2>1, <2>2
    <3>2. \A q \in Runs : LocksAreOwn(q)'
      BY <1>2, <2>2, <3>1
    <3>3. \A q \in Runs : TakesFromKilled(q)'
      BY <1>2, <2>1, <2>2, <3>1
    <3>4. \A r \in Roots : StaleOfKilled(r)'
      BY <1>2, <2>2, <3>1, <1>3
    <3> QED
      BY <1>1, <1>2, <3>1, <3>2, <3>3, <3>4 DEF LockInv
  <2>3. CASE \E root \in Roots : LockRoot(p, root)
    <3> PICK root \in Roots : LockRoot(p, root)
      BY <2>3
    <3>1. /\ lockfile[root] = None /\ pc' = pc /\ pc[p] = "lock"
          /\ lockfile' = [lockfile EXCEPT ![root] = [by |-> p, stale |-> FALSE]]
          /\ held' = [held EXCEPT ![p] = @ \cup {root}]
      BY DEF LockRoot, Wants
    <3>2. [by |-> p, stale |-> FALSE] # None
      <4>1. [by |-> p, stale |-> FALSE] \in Lock
        BY DEF Lock
      <4> QED
        BY <4>1, NoneAssumption
    <3>3. \A q \in Runs : LocksAreOwn(q)'
      BY <1>2, <3>1, <3>2
    <3>4. \A r \in Roots : StaleOfKilled(r)'
      BY <1>2, <3>1, <3>2
    <3> QED
      BY <1>1, <1>2, <3>1, <3>3, <3>4 DEF LockInv
  <2>4. CASE \E root \in Roots : JudgeStale(p, root)
    <3> PICK root \in Roots : JudgeStale(p, root)
      BY <2>4
    <3>1. pc[p] = "lock" /\ lockfile' = lockfile /\ held' = held /\ pc'[p] = "takeover"
      BY DEF JudgeStale, Wants, filesystem
    <3>2. pc[lockfile[root].by] = "killed" /\ lockfile[root].by \in Runs
      BY <1>2, <1>3 DEF JudgeStale
    <3> QED
      BY <2>2, <3>1, <3>2
  <2>5. CASE \E root \in Roots : TakeOver(p, root)
    <3> PICK root \in Roots : TakeOver(p, root)
      BY <2>5
    <3>1. /\ pc[p] = "takeover" /\ root \in todo[p] /\ held' = held
          /\ lockfile' = [lockfile EXCEPT ![root] = None]
          /\ pc' = [pc EXCEPT ![p] = "lock"]
      BY DEF TakeOver, IsFirst
    <3>2. root \notin held[p]
      BY <3>1 DEF Ready, ReadyAt
    <3>3. PICK q \in Runs : pc[q] = "killed"
      BY <1>2, <3>1
    <3>4. ASSUME NEW r \in Runs, pc[r] # "killed" PROVE root \notin held[r]
      <4>1. AtMostTwo
        BY <1>1, <1>2, <3>3 DEF Calm
      <4>2. p # q /\ q # r
        BY <3>1, <3>3, <3>4
      <4> QED
        BY <3>2, <4>1, <4>2 DEF AtMostTwo
    <3>5. \A r \in Runs : LocksAreOwn(r)'
      BY <1>2, <3>1, <3>4
    <3>6. \A r \in Roots : StaleOfKilled(r)'
      BY <1>2, <3>1
    <3> QED
      BY <1>1, <1>2, <3>1, <3>5, <3>6 DEF LockInv
  <2>6. CASE \E root \in Roots : \/ GiveUp(p, root) \/ SaveManifest(p, root)
                                 \/ \E f \in Files : ExecuteOp(p, root, f) \/ FailOp(p, root, f)
    BY <2>2, <2>6 DEF GiveUp, Wants, Unlocks, SaveManifest, RootDone, ExecuteOp, HasOp,
         FailOp, OpFails, Writes, filesystem
  <2>7. CASE Plan(p) \/ Finish(p) \/ WriteAgents(p) \/ RecordAgents(p) \/ FailAgents(p)
    BY <2>2, <2>7 DEF Plan, Finish, WriteAgents, RecordAgents, FailAgents, RootsDone,
         Succeeds, Unlocks, filesystem
  <2>8. CASE (\E root \in Roots : LoseManifest(p, root)) \/ LoseBlock(p)
    BY <2>2, <2>8 DEF LoseManifest, RootDone, Writes, LoseBlock, Unlocks, filesystem
  <2>9. CASE \E c \in Commands[p] : Begins(p, c)
    BY <2>2, <2>9 DEF Begins, filesystem
  <2>10. CASE Unlock(p)
    <3> DEFINE drops == {root \in held[p] : IsFirst(root, held[p], PathOrder)}
    <3>1. /\ lockfile' = [root \in Roots |-> IF root \in drops THEN None ELSE lockfile[root]]
          /\ held' = [held EXCEPT ![p] = @ \ drops]
          /\ pc[p] = "unlock" /\ pc'[p] \in {"unlock", "idle"}
      BY <2>10 DEF Unlock, Ends
    <3>2. drops \subseteq held[p]
      OBVIOUS
    <3> HIDE DEF drops
    <3>3. ASSUME NEW q \in Runs \ {p}, pc[q] # "killed", NEW root \in drops
          PROVE  root \notin held[q]
      BY <1>1, <3>1, <3>2, <3>3, Exclusive
    <3>4. \A r \in Runs : LocksAreOwn(r)'
      BY <1>2, <2>1, <3>1, <3>2, <3>3
    <3>5. \A q \in Runs : pc[q] = "killed" <=> pc'[q] = "killed"
      BY <2>1, <3>1
    <3>6. \A r \in Roots : StaleOfKilled(r)'
      BY <1>2, <1>3, <3>1, <3>5
    <3>7. \A q \in Runs : TakesFromKilled(q)'
      <4> SUFFICES ASSUME NEW q \in Runs, pc'[q] = "takeover"
                   PROVE  \E k \in Runs : pc'[k] = "killed"
        OBVIOUS
      <4>1. q # p /\ pc[q] = "takeover"
        BY <2>1, <3>1
      <4>2. PICK k \in Runs : pc[k] = "killed"
        BY <1>2, <4>1
      <4> QED
        BY <3>5, <4>2
    <3> QED
      BY <1>1, <1>2, <3>4, <3>5, <3>6, <3>7 DEF LockInv
  <2>11. CASE Kill(p)
    <3>1. losses' # 0 /\ lockfile' = lockfile /\ held' = held /\ pc' = [pc EXCEPT ![p] = "killed"]
      BY <2>11 DEF Kill, filesystem
    <3> QED
      BY <1>2, <3>1 DEF LockInv
  <2> QED
    BY <1>5, <2>3, <2>4, <2>5, <2>6, <2>7, <2>8, <2>9, <2>10, <2>11 DEF Moves, Step
<1>6. ASSUME NEW root \in Roots, Age(root) PROVE LockInv'
  <2>1. pc[lockfile[root].by] = "killed"
    BY <1>1, <1>6 DEF Age, Calm
  <2>2. /\ lockfile' = [lockfile EXCEPT ![root].stale = TRUE] /\ pc' = pc /\ held' = held
        /\ lockfile[root] \in Lock
    BY <1>6 DEF Age, local
  <2>3. lockfile'[root].by = lockfile[root].by /\ lockfile'[root] \in Lock
    BY <2>2 DEF Lock
  <2>4. \A p \in Runs : pc[p] # "killed" => root \notin held[p]
    BY <1>2, <2>1
  <2>5. \A p \in Runs : LocksAreOwn(p)'
    BY <1>2, <2>2, <2>4
  <2>6. \A r \in Roots : StaleOfKilled(r)'
    BY <1>2, <2>1, <2>2, <2>3
  <2> QED
    BY <1>1, <1>2, <2>2, <2>5, <2>6 DEF LockInv
<1>7. CASE UserEdits \/ UNCHANGED vars
  BY <1>4, <1>7 DEF UserEdits, vars, filesystem, local
<1> QED
  BY <1>5, <1>6, <1>7, NextMoves

LEMMA LockInvInit == Init => LockInv
  BY DEF Init, LockInv, LocksAreOwn, StaleOfKilled, TakesFromKilled

LEMMA LocksExclude ==
  ASSUME TypeOK, LockInv, Calm
  PROVE  OneWriter
  BY DEF LockInv, LocksAreOwn, OneWriter, TypeOK

\* As long as no live run outlives its lock, one run at a time writes to a root:
\* any number of runs until the first is killed, and two whichever is killed and
\* whoever takes its lock over (lock_root, RootLock).  Of three, two may take
\* over the lock of the one that was killed, and both go on.
THEOREM RunsExclude == Spec => [](losses = 0 \/ AtMostTwo => OneWriter)
<1>1. TypeOK /\ Ready /\ LockInv /\ [Next]_vars => TypeOK' /\ Ready' /\ LockInv'
  BY TypeOKNext, ReadyNext, LockInvNext
<1>2. TypeOK /\ LockInv => (losses = 0 \/ AtMostTwo => OneWriter)
  BY LocksExclude DEF Calm, OneWriter
<1> QED
  BY <1>1, <1>2, TypeOKInit, LockInvInit, PTL DEF Spec

-----------------------------------------------------------------------------
(* The manifests *)

\* What a manifest records of a file's content.
Tells(recorded, current) ==
  /\ current \in Versions => recorded = current
  /\ current = None => recorded = None

\* What a plan's operation records is what it leaves behind.
Fits(op, current) ==
  /\ op.do = "write" => op.set \in Versions
  /\ op.do = "remove" => op.set = None
  /\ op.do = "leave" => Tells(op.set, current)

TellsOf(root) ==
  (\A p \in Runs : ~Writes(p, root)) /\ Readable(root) =>
    \A f \in Files : Tells(Loaded(root).files[f], content[root][f])

\* The plan of a root that p has still to write records what is there, and of
\* AGENTS.md what the manifest does.
PlanTells(p) ==
  pc[p] = "write" =>
    \A root \in todo[p] :
      LET plan == plans[p][root]
      IN  /\ Readable(root)
          /\ plan.manifest.block = Loaded(root).block
          /\ plan.manifest.created = Loaded(root).created
          /\ \A f \in Files :
               /\ Tells(plan.manifest.files[f], content[root][f])
               /\ plan.ops[f] # None => Fits(plan.ops[f], content[root][f])

\* An AGENTS.md that the user has nothing in is recorded as the installer's.
Empty(file) == file.exists /\ ~file.text

TellsBlock ==
  /\ agents.block \in Versions => Loaded(AgentsRoot).block = agents.block
  /\ Empty(agents) => Loaded(AgentsRoot).created /\ Loaded(AgentsRoot).block # None

\* The plan records what the file will then hold, and keeps it recorded whose
\* it is.
WillTell(plan, file) ==
  /\ file.block \in Versions => plan.block = file.block
  /\ Empty(file) =>
       /\ plan.block # None
       /\ \/ plan.created
          \/ Loaded(AgentsRoot).created /\ Loaded(AgentsRoot).block # None

AgentsPlanTells(p) ==
  LET plan == agentsPlan[p]
  IN  /\ pc[p] = "write" /\ plan # None =>
           /\ plan.file # None =>
                plan.records /\ WillTell(plan, plan.file)
                /\ (Empty(plan.file) => plan.file.block # None)
           /\ plan.file = None /\ plan.records => WillTell(plan, agents)
      /\ pc[p] = "record" =>
           IF plan.records THEN WillTell(plan, agents)
           ELSE Readable(AgentsRoot) => TellsBlock

\* A run that has written AGENTS.md has still to record it.
AgentsTell ==
  /\ (\A p \in Runs : pc[p] # "record") /\ Readable(AgentsRoot) => TellsBlock
  /\ Empty(agents) => agents.block # None

Told ==
  /\ \A root \in Roots : TellsOf(root)
  /\ \A p \in Runs : PlanTells(p) /\ AgentsPlanTells(p)
  /\ AgentsTell

RecordInv == losses = 0 /\ stalls = 0 => Told

LEMMA LoadedSame ==
  ASSUME NEW root, manifest'[root] = manifest[root]
  PROVE  Loaded(root)' = Loaded(root) /\ (Readable(root)' <=> Readable(root))
  BY DEF Loaded, Readable

\* What save_manifest stores is what load_manifest returns, except the flag of a
\* manifest that records no block.
LEMMA SavedLoads ==
  ASSUME NEW root, NEW m \in Manifest, manifest'[root] = Saved(m)
  PROVE  /\ Readable(root)'
         /\ Loaded(root)'.files = m.files /\ Loaded(root)'.block = m.block
         /\ m.block # None => Loaded(root)'.created = m.created
<1>1. m # None /\ m # Unreadable /\ None # Unreadable
  BY NoneAssumption
<1>2. CASE m.files = NoManifest.files /\ m.block = None
  <2>1. manifest'[root] = None /\ Loaded(root)' = NoManifest
    BY <1>2 DEF Saved, Loaded
  <2>2. NoManifest.block = None
    BY DEF NoManifest
  <2> QED
    BY <1>1, <1>2, <2>1, <2>2 DEF Readable
<1>3. CASE ~(m.files = NoManifest.files /\ m.block = None)
  BY <1>1, <1>3 DEF Saved, Loaded, Readable
<1> QED
  BY <1>2, <1>3

\* A run writes one root at a time.
LEMMA WritesOne ==
  ASSUME TypeOK, Ready, NEW p \in Runs, NEW x, NEW y, Writes(p, x), Writes(p, y)
  PROVE  x = y
<1>1. command[p].target \in Targets
  BY DEF Writes, Ready, ReadyAt, TypeOK, Command
<1>2. IsFirst(x, todo[p], RootsOf[command[p].target]) /\ IsFirst(y, todo[p], RootsOf[command[p].target])
  BY DEF Writes
<1> QED
  BY <1>1, <1>2, RootsOfTypes, FirstIsUnique

\* A run with a plan for AGENTS.md has the lock of the root that records it.
LEMMA HoldsAgents ==
  ASSUME TypeOK, Ready, NEW p \in Runs, pc[p] \in {"write", "record"}, agentsPlan[p] # None
  PROVE  AgentsRoot \in held[p]
<1>1. /\ command[p].target = "agents-md" /\ command[p].target \in Targets
      /\ held[p] = ToSet(RootsOf[command[p].target])
  BY DEF Ready, ReadyAt, TypeOK, Command
<1>2. held[p] = ToSet(<<AgentsRoot>>)
  BY <1>1, SkillsAssumption
<1> QED
  BY <1>2 DEF ToSet

\* A run changes only the roots it has locked, and AGENTS.md under the lock of
\* the root that records it.
LEMMA TouchesHeld ==
  ASSUME TypeOK, Ready, NEW p \in Runs, Moves(p)
  PROVE  /\ \A root \in Roots \ held[p] :
              content'[root] = content[root] /\ manifest'[root] = manifest[root]
         /\ AgentsRoot \notin held[p] => agents' = agents
<1>1. CASE UNCHANGED <<content, agents, manifest>>
  BY <1>1
<1>2. CASE \E root \in Roots : \/ LockRoot(p, root) \/ JudgeStale(p, root)
                               \/ TakeOver(p, root) \/ GiveUp(p, root)
  BY <1>1, <1>2 DEF LockRoot, JudgeStale, TakeOver, GiveUp, filesystem
<1>3. ASSUME NEW root \in Roots, NEW f \in Files, ExecuteOp(p, root, f) \/ FailOp(p, root, f)
      PROVE  root \in held[p] /\ agents' = agents /\ \A r \in Roots \ {root} :
               content'[r] = content[r] /\ manifest'[r] = manifest[r]
  <2>1. HasOp(p, root, f)
    BY <1>3 DEF ExecuteOp, FailOp, OpFails
  <2> QED
    BY <1>3, <2>1, HasOpFacts DEF ExecuteOp, FailOp, TypeOK
<1>4. ASSUME NEW root \in Roots, SaveManifest(p, root)
      PROVE  root \in held[p] /\ agents' = agents /\ \A r \in Roots \ {root} :
               content'[r] = content[r] /\ manifest'[r] = manifest[r]
  BY <1>4 DEF SaveManifest, RootDone, Writes, IsFirst, Ready, ReadyAt, TypeOK
<1>5. CASE (\E root \in Roots : LoseManifest(p, root)) \/ LoseBlock(p) \/ Kill(p)
  BY <1>1, <1>5 DEF LoseManifest, LoseBlock, Kill, filesystem
<1>6. CASE Plan(p) \/ Finish(p) \/ FailAgents(p)
  BY <1>1, <1>6 DEF Plan, Finish, FailAgents, filesystem
<1>7. CASE WriteAgents(p)
  BY <1>7, HoldsAgents DEF WriteAgents, RootsDone
<1>8. CASE RecordAgents(p)
  <2>1. AgentsRoot \in held[p]
    BY <1>8, HoldsAgents DEF RecordAgents, Ready, ReadyAt
  <2>2. /\ content' = content
        /\ \A r \in Roots \ {AgentsRoot} : manifest'[r] = manifest[r]
    BY <1>8 DEF RecordAgents, TypeOK
  <2> QED
    BY <2>1, <2>2
<1>9. CASE (\E c \in Commands[p] : Begins(p, c)) \/ Unlock(p)
  BY <1>1, <1>9 DEF Begins, Unlock, filesystem
<1> QED
  BY <1>2, <1>3, <1>4, <1>5, <1>6, <1>7, <1>8, <1>9 DEF Moves, Step

\* A plan made from a manifest that tells the truth records the truth.
LEMMA PlanRootTells ==
  ASSUME TypeOK, NEW root \in Roots, Readable(root), NEW c \in Command,
         \A f \in Files : Tells(Loaded(root).files[f], content[root][f]),
         PlanRoot(root, c) # None
  PROVE  /\ PlanRoot(root, c).manifest.block = Loaded(root).block
         /\ PlanRoot(root, c).manifest.created = Loaded(root).created
         /\ \A f \in Files :
              /\ Tells(PlanRoot(root, c).manifest.files[f], content[root][f])
              /\ PlanRoot(root, c).ops[f] # None =>
                   Fits(PlanRoot(root, c).ops[f], content[root][f])
<1> DEFINE old == Loaded(root)
<1>1. old \in Manifest /\ c.version \in Versions
  BY LoadedType DEF Command
<1>2. ASSUME NEW f \in Files
      PROVE  Fits(PlanRemoval(root, f, old.files[f]), content[root][f])
  BY <1>1, <1>2, MineIsNoHash DEF PlanRemoval, FileOp, Fits, Tells
<1>3. ASSUME NEW m, m.files = old.files, NEW f \in Files, Removals(root, m)[f] # None
      PROVE  Fits(Removals(root, m)[f], content[root][f])
  BY <1>2, <1>3 DEF Removals
<1>4. CASE c.op = "install"
  <2>1. /\ PlanRoot(root, c).manifest = [old EXCEPT !.targets = @ \cup {c.target}]
        /\ \A f \in Files : PlanRoot(root, c).ops[f] =
             IF f \in Ships[c.version][root]
             THEN Decide(content[root][f], c.version, old.files[f], c.force)
             ELSE Removals(root, old)[f]
    BY <1>4 DEF PlanRoot, PlanInstallRoot
  <2>2. /\ PlanRoot(root, c).manifest.files = old.files
        /\ PlanRoot(root, c).manifest.block = old.block
        /\ PlanRoot(root, c).manifest.created = old.created
    BY <1>1, <2>1 DEF Manifest
  <2>3. ASSUME NEW f \in Files
        PROVE  Fits(Decide(content[root][f], c.version, old.files[f], c.force), content[root][f])
    BY <1>1, <2>3, MineIsNoHash DEF Decide, FileOp, Fits, Tells
  <2> QED
    BY <1>3, <2>1, <2>2, <2>3
<1>5. CASE c.op # "install"
  <2> DEFINE m == [old EXCEPT !.targets = @ \ {c.target}]
  <2>1. /\ PlanRoot(root, c).manifest = m
        /\ PlanRoot(root, c).ops = IF m.targets # {} THEN NoOps ELSE Removals(root, m)
    BY <1>5 DEF PlanRoot, PlanUninstallRoot
  <2>2. m.files = old.files /\ m.block = old.block /\ m.created = old.created
    BY <1>1 DEF Manifest
  <2>3. \A f \in Files : NoOps[f] = None
    BY DEF NoOps
  <2> HIDE DEF m
  <2> QED
    BY <1>3, <2>1, <2>2, <2>3
<1> QED
  BY <1>4, <1>5

\* A plan for AGENTS.md records what the file will hold, and whose it is.
LEMMA PlanAgentsTells ==
  ASSUME TypeOK, Readable(AgentsRoot), TellsBlock, Empty(agents) => agents.block # None,
         NEW c \in Command, PlanAgents(c) # None
  PROVE  LET plan == PlanAgents(c)
         IN  /\ plan.file # None =>
                  plan.records /\ WillTell(plan, plan.file)
                  /\ (Empty(plan.file) => plan.file.block # None)
             /\ plan.file = None /\ plan.records => WillTell(plan, agents)
<1> DEFINE plan == PlanAgents(c)
<1>1. /\ Loaded(AgentsRoot) \in Manifest /\ c.version \in Versions /\ agents \in AgentsFile
      /\ None \notin Versions
  BY LoadedType, SkillsAssumption, MineIsNoHash DEF Command, TypeOK
<1>2. CASE c.op = "install"
  <2> DEFINE file == [agents EXCEPT !.exists = TRUE, !.block = c.version]
  <2>1. plan = PlanInstallAgents(c)
    BY <1>2 DEF PlanAgents
  <2>2. /\ plan.block = c.version /\ plan.created = ~agents.exists
        /\ plan.file \in {file, None}
        /\ plan.file # None => plan.records
        /\ plan.file = None /\ plan.records => agents.block = c.version
    <3>1. file \in AgentsFile
      BY <1>1 DEF AgentsFile, Content
    <3>2. file # None
      BY <3>1, NoneAssumption
    <3> DEFINE writes == \/ agents.block = None
                         \/ /\ agents.block # c.version
                            /\ c.force \/ agents.block = Loaded(AgentsRoot).block
               same == agents.block = c.version
    <3>3. plan = [file |-> IF writes THEN file ELSE None, records |-> writes \/ same,
                  block |-> c.version, created |-> ~agents.exists]
      BY <2>1 DEF PlanInstallAgents
    <3> HIDE DEF file, writes, plan
    <3> QED
      BY <3>2, <3>3
  <2>3. file.text = agents.text /\ file.block = c.version
    BY <1>1 DEF AgentsFile
  <2>4. Empty(agents) => Loaded(AgentsRoot).created /\ Loaded(AgentsRoot).block # None
    BY DEF TellsBlock
  <2>5. agents.exists \in BOOLEAN
    BY <1>1 DEF AgentsFile
  <2> HIDE DEF plan, file
  <2>6. plan.file # None => WillTell(plan, plan.file) /\ plan.file.block # None
    BY <1>1, <2>2, <2>3, <2>4, <2>5 DEF WillTell, Empty
  <2>7. plan.file = None /\ plan.records => WillTell(plan, agents)
    BY <1>1, <2>2, <2>4 DEF WillTell
  <2> QED
    BY <2>2, <2>6, <2>7 DEF plan
<1>3. CASE c.op # "install"
  <2> DEFINE file == [agents EXCEPT !.block = None]
  <2>1. plan = PlanUninstallAgents /\ plan # None
    BY <1>3 DEF PlanAgents
  <2>2. CASE agents.block # Loaded(AgentsRoot).block
    BY <2>1, <2>2 DEF PlanUninstallAgents
  <2>3. CASE agents.block = Loaded(AgentsRoot).block
    <3>1. /\ plan.records /\ plan.block = None /\ agents.block # None
          /\ plan.file = IF Loaded(AgentsRoot).created /\ ~agents.text THEN NoFile ELSE file
      BY <2>1, <2>3 DEF PlanUninstallAgents
    <3>2. NoFile # None /\ file # None
      <4>1. NoFile \in AgentsFile /\ file \in AgentsFile
        BY <1>1 DEF AgentsFile, NoFile
      <4> QED
        BY <4>1, NoneAssumption
    <3>3. file.exists = agents.exists /\ file.text = agents.text /\ file.block = None
      BY <1>1 DEF AgentsFile
    <3>4. NoFile.exists = FALSE /\ NoFile.block = None
      BY DEF NoFile
    <3>5. ~Empty(plan.file) /\ plan.file.block = None
      <4> HIDE DEF plan, file
      <4> QED
        BY <3>1, <3>3, <3>4 DEF TellsBlock, Empty
    <3> HIDE DEF plan, file
    <3>6. plan.file # None
      BY <3>1, <3>2
    <3> QED
      BY <1>1, <3>1, <3>5, <3>6 DEF WillTell, plan
  <2> QED
    BY <2>2, <2>3
<1> QED
  BY <1>2, <1>3

\* A root that is left as it is, by a step that finishes no writing to it.
LEMMA TellsOfFrame ==
  ASSUME NEW root \in Roots, TellsOf(root), content'[root] = content[root],
         manifest'[root] = manifest[root], \A p \in Runs : Writes(p, root) => Writes(p, root)'
  PROVE  TellsOf(root)'
  BY LoadedSame DEF TellsOf

\* A run whose roots a step leaves alone.
LEMMA PlansFrame ==
  ASSUME TypeOK, Ready, NEW p \in Runs, PlanTells(p), AgentsPlanTells(p), Same(p),
         \A root \in held[p] : content'[root] = content[root] /\ manifest'[root] = manifest[root],
         AgentsRoot \in held[p] => agents' = agents
  PROVE  PlanTells(p)' /\ AgentsPlanTells(p)'
<1>1. PlanTells(p)'
  <2>1. pc[p] = "write" => todo[p] \subseteq held[p]
    BY DEF Ready, ReadyAt
  <2> QED
    BY <2>1, LoadedSame DEF PlanTells, Same
<1>2. CASE pc[p] \in {"write", "record"} /\ agentsPlan[p] # None
  <2>1. /\ agents' = agents /\ Loaded(AgentsRoot)' = Loaded(AgentsRoot)
        /\ Readable(AgentsRoot)' <=> Readable(AgentsRoot)
    BY <1>2, HoldsAgents, LoadedSame
  <2> QED
    BY <1>1, <2>1 DEF AgentsPlanTells, WillTell, TellsBlock, Same
<1>3. CASE ~(pc[p] \in {"write", "record"} /\ agentsPlan[p] # None)
  <2>1. pc[p] = "record" => agentsPlan[p] # None
    BY DEF Ready, ReadyAt
  <2> QED
    BY <1>1, <1>3, <2>1 DEF AgentsPlanTells, Same
<1> QED
  BY <1>2, <1>3

\* A step that changes no file, of a run that has nothing left to write.
LEMMA ToldFrame ==
  ASSUME TypeOK, Ready, Told, UNCHANGED <<content, agents, manifest>>,
         \A p \in Runs : \/ Same(p)
                         \/ /\ pc'[p] \notin {"write", "record"} /\ pc[p] # "record"
                            /\ pc[p] = "write" => todo[p] = {}
  PROVE  Told'
<1>1. ASSUME NEW root \in Roots PROVE TellsOf(root)'
  <2>1. ASSUME NEW p \in Runs, Writes(p, root) PROVE Writes(p, root)'
    BY <2>1 DEF Writes, IsFirst, Same
  <2> QED
    BY <2>1, TellsOfFrame DEF Told
<1>2. ASSUME NEW p \in Runs PROVE PlanTells(p)' /\ AgentsPlanTells(p)'
  <2>1. CASE Same(p)
    BY <2>1, PlansFrame DEF Told
  <2>2. CASE pc'[p] \notin {"write", "record"}
    BY <2>2 DEF PlanTells, AgentsPlanTells
  <2> QED
    BY <2>1, <2>2
<1>3. AgentsTell'
  <2>1. (\A p \in Runs : pc'[p] # "record") => \A p \in Runs : pc[p] # "record"
    BY DEF Same
  <2> QED
    BY <2>1, LoadedSame DEF Told, AgentsTell, TellsBlock
<1> QED
  BY <1>1, <1>2, <1>3 DEF Told

\* What one run has locked another does not touch.
LEMMA OthersTold ==
  ASSUME TypeOK, Ready, LockInv, Told, losses = 0, stalls = 0, NEW p \in Runs, Moves(p)
  PROVE  /\ \A q \in Runs \ {p} : PlanTells(q)' /\ AgentsPlanTells(q)'
         /\ \A root \in Roots \ held[p] : TellsOf(root)'
<1>1. Calm /\ \A q \in Runs : pc[q] # "killed"
  BY DEF LockInv, Calm
<1>2. ASSUME NEW q \in Runs \ {p} PROVE PlanTells(q)' /\ AgentsPlanTells(q)'
  <2>1. held[q] \subseteq Roots \ held[p]
    BY <1>1, Exclusive DEF TypeOK
  <2>2. Same(q)
    BY OthersStay
  <2>3. AgentsRoot \in held[q] => agents' = agents
    BY <2>1, TouchesHeld
  <2> QED
    BY <2>1, <2>2, <2>3, TouchesHeld, PlansFrame DEF Told
<1>3. ASSUME NEW root \in Roots \ held[p] PROVE TellsOf(root)'
  <2>1. ASSUME NEW q \in Runs, Writes(q, root) PROVE Writes(q, root)'
    <3>1. root \in held[q]
      BY <2>1 DEF Writes, IsFirst, Ready, ReadyAt
    <3>2. q # p
      BY <1>3, <3>1
    <3>3. Same(q)
      BY <3>2, OthersStay
    <3> QED
      BY <2>1, <3>3 DEF Writes, Same
  <2> QED
    BY <2>1, TouchesHeld, TellsOfFrame DEF Told
<1> QED
  BY <1>2, <1>3

\* A run that has locked a root and writes nothing yet finds its manifest true.
LEMMA HolderSees ==
  ASSUME TypeOK, Ready, LockInv, Told, losses = 0, stalls = 0, NEW p \in Runs,
         pc[p] = "lock", NEW root \in Roots, root \in held[p], Readable(root)
  PROVE  \A f \in Files : Tells(Loaded(root).files[f], content[root][f])
<1>1. Calm /\ \A q \in Runs : pc[q] # "killed"
  BY DEF LockInv, Calm
<1>2. ASSUME NEW q \in Runs, Writes(q, root) PROVE FALSE
  <2>1. root \in held[q]
    BY <1>2 DEF Writes, IsFirst, Ready, ReadyAt
  <2>2. q = p
    BY <1>1, <2>1, Exclusive
  <2> QED
    BY <1>2, <2>2 DEF Writes
<1> QED
  BY <1>2 DEF Told, TellsOf

LEMMA PlanTold ==
  ASSUME TypeOK, Ready, LockInv, Told, losses = 0, stalls = 0, NEW p \in Runs, Plan(p)
  PROVE  Told'
<1> DEFINE c == command[p]
           roots == ToSet(RootsOf[c.target])
<1>1. Moves(p) /\ UNCHANGED <<content, agents, manifest>>
  BY DEF Plan, Moves, Step, filesystem
<1>2. /\ Calm /\ \A q \in Runs : pc[q] # "killed"
      /\ pc[p] = "lock" /\ todo[p] = {} /\ held[p] = roots
      /\ c \in Command /\ roots \subseteq Roots
  <2>1. Calm /\ (\A q \in Runs : pc[q] # "killed") /\ pc[p] = "lock" /\ todo[p] = {}
    BY DEF LockInv, Calm, Plan
  <2>2. held[p] = roots /\ c # None
    BY <2>1 DEF Ready, ReadyAt
  <2>3. c \in Command
    BY <2>2 DEF TypeOK
  <2> QED
    BY <2>1, <2>2, <2>3, RootsOfTypes DEF Command
<1>3. CASE \E root \in roots : manifest[root] = Unreadable
  <2>1. pc'[p] = "unlock"
    BY <1>3 DEF Plan, Unlocks, TypeOK
  <2> QED
    BY <1>1, <1>2, <2>1, OthersStay, ToldFrame
<1>4. CASE \A root \in roots : manifest[root] # Unreadable
  <2>1. /\ \A root \in roots : plans'[p][root] = PlanRoot(root, c)
        /\ agentsPlan'[p] = PlanAgents(c) /\ pc'[p] = "write"
        /\ todo'[p] = {root \in roots : PlanRoot(root, c) # None}
    BY <1>2, <1>4 DEF Plan, TypeOK
  <2>3. ASSUME NEW root \in roots
        PROVE  \A f \in Files : Tells(Loaded(root).files[f], content[root][f])
    BY <1>2, <1>4, HolderSees DEF Readable
  <2>4. PlanTells(p)'
    <3>1. ASSUME NEW root \in todo'[p]
          PROVE  LET plan == plans'[p][root]
                 IN  /\ Readable(root)
                     /\ plan.manifest.block = Loaded(root).block
                     /\ plan.manifest.created = Loaded(root).created
                     /\ \A f \in Files :
                          /\ Tells(plan.manifest.files[f], content[root][f])
                          /\ plan.ops[f] # None => Fits(plan.ops[f], content[root][f])
      <4>1. root \in roots /\ PlanRoot(root, c) # None /\ plans'[p][root] = PlanRoot(root, c)
        BY <2>1, <3>1
      <4>2. root \in Roots /\ Readable(root)
        BY <1>2, <1>4, <4>1 DEF Readable
      <4> HIDE DEF c, roots
      <4> QED
        BY <1>2, <2>3, <4>1, <4>2, PlanRootTells
    <3>2. \A root : Loaded(root)' = Loaded(root) /\ (Readable(root)' <=> Readable(root))
      BY <1>1, LoadedSame
    <3> HIDE DEF c, roots
    <3> QED
      BY <1>1, <3>1, <3>2 DEF PlanTells
  <2>5. AgentsPlanTells(p)'
    <3>1. CASE PlanAgents(c) = None
      BY <2>1, <3>1 DEF AgentsPlanTells
    <3>2. CASE PlanAgents(c) # None
      <4>1. c.target = "agents-md" /\ c.target \in Targets
        BY <1>2, <3>2 DEF PlanAgents, Command
      <4>2. AgentsRoot \in roots
        BY <4>1, SkillsAssumption DEF ToSet
      <4>3. ASSUME NEW q \in Runs PROVE pc[q] # "record"
        <5>1. pc[q] = "record" => AgentsRoot \in held[q]
          BY HoldsAgents DEF Ready, ReadyAt
        <5> QED
          BY <1>2, <4>2, <5>1, Exclusive
      <4>4. Readable(AgentsRoot) /\ TellsBlock /\ (Empty(agents) => agents.block # None)
        BY <1>4, <4>2, <4>3 DEF Told, AgentsTell, Readable
      <4>5. UNCHANGED agents /\ Loaded(AgentsRoot)' = Loaded(AgentsRoot)
        BY <1>1, LoadedSame
      <4> HIDE DEF c, roots
      <4> QED
        BY <1>2, <2>1, <3>2, <4>4, <4>5, PlanAgentsTells DEF AgentsPlanTells, WillTell
    <3> QED
      BY <3>1, <3>2
  <2>6. ASSUME NEW root \in Roots PROVE TellsOf(root)'
    <3>1. ASSUME NEW q \in Runs, Writes(q, root) PROVE Writes(q, root)'
      <4>1. q # p
        BY <1>2, <3>1 DEF Writes
      <4> QED
        BY <1>1, <3>1, <4>1, OthersStay DEF Writes, Same
    <3> QED
      BY <1>1, <3>1, TellsOfFrame DEF Told
  <2>7. AgentsTell'
    <3>1. (\A q \in Runs : pc'[q] # "record") => \A q \in Runs : pc[q] # "record"
      BY <1>1, <1>2, OthersStay DEF Same
    <3> QED
      BY <1>1, <3>1, LoadedSame DEF Told, AgentsTell, TellsBlock
  <2> HIDE DEF c, roots
  <2> QED
    BY <1>1, <2>4, <2>5, <2>6, <2>7, OthersTold DEF Told
<1> QED
  BY <1>3, <1>4

LEMMA ExecuteTold ==
  ASSUME TypeOK, Ready, LockInv, Told, losses = 0, stalls = 0,
         NEW p \in Runs, NEW root \in Roots, NEW file \in Files, ExecuteOp(p, root, file)
  PROVE  Told'
<1> DEFINE op == plans[p][root].ops[file]
<1>1. Moves(p) /\ UNCHANGED <<agents, manifest, pc, command, todo, agentsPlan>>
  BY DEF ExecuteOp, Moves, Step
<1>2. /\ pc[p] = "write" /\ root \in todo[p] /\ Writes(p, root)
      /\ plans[p][root] \in Plans /\ op \in FileOps /\ op # None
  BY HasOpFacts DEF ExecuteOp, HasOp
<1>3. /\ plans'[p][root].manifest = [plans[p][root].manifest EXCEPT !.files[file] = op.set]
      /\ plans'[p][root].ops = [plans[p][root].ops EXCEPT ![file] = None]
      /\ \A r \in Roots \ {root} : plans'[p][r] = plans[p][r]
  <2>1. /\ plans'[p][root] = Entered(plans[p][root], file)
        /\ \A r \in Roots \ {root} : plans'[p][r] = plans[p][r]
    BY DEF ExecuteOp, TypeOK
  <2> DEFINE plan == plans[p][root]
  <2>2. plan \in Plans /\ op = plan.ops[file]
    BY <1>2
  <2> HIDE DEF plan, op
  <2>3. /\ Entered(plan, file).ops = [plan.ops EXCEPT ![file] = None]
        /\ Entered(plan, file).manifest = [plan.manifest EXCEPT !.files[file] = op.set]
    BY <2>2, EntersOne
  <2> QED
    BY <2>1, <2>3 DEF plan
<1>4. /\ content'[root][file] = IF op.do = "write" THEN op.set
                                ELSE IF op.do = "remove" THEN None ELSE content[root][file]
      /\ \A f \in Files \ {file} : content'[root][f] = content[root][f]
      /\ \A r \in Roots \ {root} : content'[r] = content[r]
  BY DEF ExecuteOp, TypeOK
<1>5. /\ \A r : Loaded(r)' = Loaded(r) /\ (Readable(r)' <=> Readable(r))
      /\ \A q \in Runs, r \in Roots : Writes(q, r) <=> Writes(q, r)'
  BY <1>1, LoadedSame DEF Writes
<1>6. PlanTells(p) /\ AgentsPlanTells(p)
  BY DEF Told
<1>7. PlanTells(p)'
  <2>1. Fits(op, content[root][file])
    BY <1>2, <1>6 DEF PlanTells
  <2>2. Tells(op.set, content'[root][file])
    BY <1>2, <1>4, <2>1, MineIsNoHash DEF Fits, Tells, FileOps
  <2> DEFINE new == plans'[p][root]
             old == plans[p][root]
  <2>3. /\ new.manifest.block = old.manifest.block /\ new.manifest.created = old.manifest.created
        /\ new.manifest.files = [old.manifest.files EXCEPT ![file] = op.set]
    BY <1>2, <1>3 DEF Plans, Manifest
  <2>4. old.manifest.files \in [Files -> Hash] /\ old.ops \in [Files -> FileOps \cup {None}]
    BY <1>2 DEF Plans, Manifest
  <2> HIDE DEF op, new, old
  <2>5. ASSUME NEW f \in Files
        PROVE  /\ Tells(new.manifest.files[f], content'[root][f])
               /\ new.ops[f] # None => Fits(new.ops[f], content'[root][f])
    <3>1. CASE f = file
      BY <1>3, <2>2, <2>3, <2>4, <3>1 DEF new, old
    <3>2. CASE f # file
      BY <1>2, <1>3, <1>4, <1>6, <2>3, <2>4, <3>2 DEF PlanTells, new, old
    <3> QED
      BY <3>1, <3>2
  <2>6. ASSUME NEW r \in todo[p]
        PROVE  LET plan == plans'[p][r]
               IN  /\ Readable(r)
                   /\ plan.manifest.block = Loaded(r).block
                   /\ plan.manifest.created = Loaded(r).created
                   /\ \A f \in Files :
                        /\ Tells(plan.manifest.files[f], content'[r][f])
                        /\ plan.ops[f] # None => Fits(plan.ops[f], content'[r][f])
    <3>1. CASE r = root
      BY <1>2, <1>6, <2>3, <2>5, <3>1 DEF PlanTells, new, old
    <3>2. CASE r # root
      BY <1>2, <1>3, <1>4, <1>6, <3>2 DEF PlanTells, TypeOK
    <3> QED
      BY <3>1, <3>2
  <2> QED
    BY <1>1, <1>5, <2>6 DEF PlanTells
<1>8. AgentsPlanTells(p)'
  BY <1>1, <1>5, <1>6 DEF AgentsPlanTells, WillTell, TellsBlock
<1>9. ASSUME NEW r \in Roots PROVE TellsOf(r)'
  <2>1. CASE r = root
    BY <1>2, <1>5, <2>1 DEF TellsOf
  <2>2. CASE r # root
    BY <1>1, <1>4, <1>5, <2>2, TellsOfFrame DEF Told
  <2> QED
    BY <2>1, <2>2
<1>10. AgentsTell'
  BY <1>1, <1>5 DEF Told, AgentsTell, TellsBlock
<1> QED
  BY <1>1, <1>7, <1>8, <1>9, <1>10, OthersTold DEF Told

\* Saving what was done in a root, after the last or after a failing operation.
LEMMA SaveTold ==
  ASSUME TypeOK, Ready, LockInv, Told, losses = 0, stalls = 0,
         NEW p \in Runs, Moves(p), NEW root \in Roots, Writes(p, root),
         manifest' = [manifest EXCEPT ![root] = Saved(plans[p][root].manifest)],
         UNCHANGED <<content, agents, command, plans, agentsPlan>>,
         \/ UNCHANGED pc /\ todo' = [todo EXCEPT ![p] = @ \ {root}]
         \/ Unlocks(p)
  PROVE  Told'
<1> DEFINE m == plans[p][root].manifest
<1>1. /\ pc[p] = "write" /\ root \in todo[p] /\ todo[p] \subseteq Roots
      /\ pc'[p] \in {"write", "unlock"}
      /\ pc'[p] = "write" => todo'[p] = todo[p] \ {root}
  BY DEF Writes, IsFirst, Unlocks, TypeOK
<1>2. m \in Manifest
  BY <1>1 DEF Ready, ReadyAt, TypeOK, Plans
<1>3. PlanTells(p) /\ AgentsPlanTells(p)
  BY DEF Told
<1>4. /\ Readable(root)' /\ Readable(root)
      /\ Loaded(root)'.files = m.files /\ Loaded(root)'.block = Loaded(root).block
      /\ Loaded(root).block # None => Loaded(root)'.created = Loaded(root).created
  <2>1. manifest'[root] = Saved(m)
    BY DEF TypeOK
  <2> HIDE DEF m
  <2>2. /\ Readable(root)' /\ Loaded(root)'.files = m.files /\ Loaded(root)'.block = m.block
        /\ m.block # None => Loaded(root)'.created = m.created
    BY <1>2, <2>1, SavedLoads
  <2>3. Readable(root) /\ m.block = Loaded(root).block /\ m.created = Loaded(root).created
    BY <1>1, <1>3 DEF PlanTells, m
  <2> QED
    BY <2>2, <2>3
<1>5. \A r \in Roots \ {root} : /\ manifest'[r] = manifest[r] /\ Loaded(r)' = Loaded(r)
                                /\ (Readable(r)' <=> Readable(r))
  BY LoadedSame DEF TypeOK
<1>6. /\ Loaded(AgentsRoot)'.block = Loaded(AgentsRoot).block
      /\ Loaded(AgentsRoot).block # None =>
           Loaded(AgentsRoot)'.created = Loaded(AgentsRoot).created
      /\ Readable(AgentsRoot)' => Readable(AgentsRoot)
  BY <1>4, <1>5, SkillsAssumption
<1> HIDE DEF m
<1>7. PlanTells(p)'
  BY <1>1, <1>3, <1>5 DEF PlanTells
<1>8. AgentsPlanTells(p)'
  <2>1. CASE pc'[p] = "unlock"
    BY <2>1 DEF AgentsPlanTells
  <2>2. CASE pc'[p] = "write" /\ agentsPlan[p] # None
    <3>1. /\ agentsPlan[p].file # None =>
               /\ agentsPlan[p].records
               /\ WillTell(agentsPlan[p], agentsPlan[p].file)
               /\ Empty(agentsPlan[p].file) => agentsPlan[p].file.block # None
          /\ agentsPlan[p].file = None /\ agentsPlan[p].records =>
               WillTell(agentsPlan[p], agents)
      BY <1>1, <1>3, <2>2 DEF AgentsPlanTells
    <3>2. /\ agentsPlan[p].file # None => WillTell(agentsPlan[p], agentsPlan[p].file)'
          /\ agentsPlan[p].file = None /\ agentsPlan[p].records =>
               WillTell(agentsPlan[p], agents)'
      BY <1>6, <3>1 DEF WillTell
    <3> QED
      BY <2>2, <3>1, <3>2 DEF AgentsPlanTells
  <2>3. CASE pc'[p] = "write" /\ agentsPlan[p] = None
    BY <2>3 DEF AgentsPlanTells
  <2> QED
    BY <1>1, <2>1, <2>2, <2>3
<1>9. ASSUME NEW r \in Roots PROVE TellsOf(r)'
  <2>1. CASE r = root
    BY <1>1, <1>3, <1>4, <2>1 DEF TellsOf, PlanTells, m
  <2>2. CASE r # root
    <3>1. ASSUME NEW q \in Runs, Writes(q, r) PROVE Writes(q, r)'
      <4>1. q # p
        BY <2>2, <3>1, WritesOne
      <4> QED
        BY <3>1, <4>1, OthersStay DEF Writes, Same
    <3> QED
      BY <1>5, <2>2, <3>1, TellsOfFrame DEF Told
  <2> QED
    BY <2>1, <2>2
<1>10. AgentsTell'
  <2>1. (\A q \in Runs : pc'[q] # "record") => \A q \in Runs : pc[q] # "record"
    BY <1>1, OthersStay DEF Same
  <2> QED
    BY <1>6, <2>1 DEF Told, AgentsTell, TellsBlock
<1> QED
  BY <1>7, <1>8, <1>9, <1>10, OthersTold DEF Told

\* While p has the lock of the root that records AGENTS.md, nobody else is at it.
LEMMA NobodyRecords ==
  ASSUME TypeOK, Ready, LockInv, losses = 0, stalls = 0, NEW p \in Runs,
         AgentsRoot \in held[p], NEW q \in Runs \ {p}
  PROVE  pc[q] # "record"
<1>1. Calm /\ \A r \in Runs : pc[r] # "killed"
  BY DEF LockInv, Calm
<1>2. pc[q] = "record" => AgentsRoot \in held[q]
  BY HoldsAgents DEF Ready, ReadyAt
<1> QED
  BY <1>1, <1>2, Exclusive

LEMMA WriteAgentsTold ==
  ASSUME TypeOK, Ready, LockInv, Told, losses = 0, stalls = 0,
         NEW p \in Runs, WriteAgents(p)
  PROVE  Told'
<1> DEFINE plan == agentsPlan[p]
<1>1. /\ Moves(p) /\ UNCHANGED <<content, manifest, agentsPlan>>
      /\ pc[p] = "write" /\ todo[p] = {} /\ pc'[p] = "record" /\ plan # None
      /\ agents' = IF plan.file = None THEN agents ELSE plan.file
  BY DEF WriteAgents, RootsDone, Moves, Step, TypeOK
<1>2. AgentsPlanTells(p) /\ AgentsTell
  BY DEF Told
<1>3. /\ plan.file # None =>
           /\ plan.records
           /\ WillTell(plan, plan.file)
           /\ Empty(plan.file) => plan.file.block # None
      /\ plan.file = None /\ plan.records => WillTell(plan, agents)
  BY <1>1, <1>2 DEF AgentsPlanTells
<1>4. Loaded(AgentsRoot)' = Loaded(AgentsRoot) /\ (Readable(AgentsRoot)' <=> Readable(AgentsRoot))
  BY <1>1, LoadedSame
<1> HIDE DEF plan
<1>5. Empty(agents)' => agents'.block # None
  BY <1>1, <1>2, <1>3 DEF AgentsTell
<1>6. plan.records => WillTell(plan, agents')
  BY <1>1, <1>3
<1>7. plan' = plan /\ (plan.records => WillTell(plan, agents)')
  BY <1>1, <1>4, <1>6 DEF WillTell, plan
<1>8. ~plan.records => (Readable(AgentsRoot) => TellsBlock)'
  <2>1. ASSUME NEW q \in Runs PROVE pc[q] # "record"
    BY <1>1, HoldsAgents, NobodyRecords DEF plan
  <2>2. Readable(AgentsRoot) => TellsBlock
    BY <1>2, <2>1 DEF AgentsTell
  <2>3. ~plan.records => agents' = agents
    BY <1>1, <1>3
  <2> QED
    BY <1>4, <2>2, <2>3 DEF TellsBlock
<1>9. AgentsPlanTells(p)' /\ PlanTells(p)'
  BY <1>1, <1>7, <1>8 DEF AgentsPlanTells, PlanTells, plan
<1>10. ASSUME NEW root \in Roots PROVE TellsOf(root)'
  <2>1. ASSUME NEW q \in Runs, Writes(q, root) PROVE Writes(q, root)'
    <3>1. q # p
      BY <1>1, <2>1 DEF Writes, IsFirst
    <3> QED
      BY <1>1, <2>1, <3>1, OthersStay DEF Writes, Same
  <2> QED
    BY <1>1, <2>1, TellsOfFrame DEF Told
<1>11. AgentsTell'
  BY <1>1, <1>5 DEF AgentsTell
<1> QED
  BY <1>1, <1>9, <1>10, <1>11, OthersTold DEF Told

LEMMA RecordAgentsTold ==
  ASSUME TypeOK, Ready, LockInv, Told, losses = 0, stalls = 0,
         NEW p \in Runs, RecordAgents(p)
  PROVE  Told'
<1> DEFINE plan == agentsPlan[p]
           m == WithBlock(Loaded(AgentsRoot), plan)
<1>1. /\ Moves(p) /\ UNCHANGED <<content, agents>> /\ pc[p] = "record" /\ pc'[p] = "unlock"
      /\ plan \in AgentsPlans
  BY DEF RecordAgents, Succeeds, Unlocks, Moves, Step, TypeOK, Ready, ReadyAt
<1>2. PlanTells(p)' /\ AgentsPlanTells(p)'
  BY <1>1 DEF PlanTells, AgentsPlanTells
<1>3. IF plan.records THEN WillTell(plan, agents) ELSE Readable(AgentsRoot) => TellsBlock
  BY <1>1 DEF Told, AgentsPlanTells
<1>4. Empty(agents)' => agents'.block # None
  BY <1>1 DEF Told, AgentsTell
<1>5. ASSUME NEW root, NEW q \in Runs, Writes(q, root) PROVE Writes(q, root)'
  <2>1. q # p
    BY <1>1, <1>5 DEF Writes
  <2> QED
    BY <1>1, <1>5, <2>1, OthersStay DEF Writes, Same
<1>6. CASE plan.records /\ Readable(AgentsRoot)
  <2>1. /\ manifest'[AgentsRoot] = Saved(m)
        /\ \A r \in Roots \ {AgentsRoot} : manifest'[r] = manifest[r]
    BY <1>6, SkillsAssumption DEF RecordAgents, Readable, TypeOK
  <2>2. Loaded(AgentsRoot) \in Manifest
    BY <1>6, LoadedType, SkillsAssumption
  <2>3. m \in Manifest
    BY <1>1, <2>2, WithBlockType
  <2>4. /\ m.files = Loaded(AgentsRoot).files /\ m.block = plan.block
        /\ m.created = (plan.block # None /\ (plan.created \/ Loaded(AgentsRoot).created))
    BY <2>2 DEF WithBlock, Manifest
  <2> HIDE DEF m, plan
  <2>5. /\ Readable(AgentsRoot)' /\ Loaded(AgentsRoot)'.files = Loaded(AgentsRoot).files
        /\ Loaded(AgentsRoot)'.block = plan.block
        /\ plan.block # None =>
             Loaded(AgentsRoot)'.created = (plan.created \/ Loaded(AgentsRoot).created)
    BY <2>1, <2>3, <2>4, SavedLoads
  <2>6. TellsBlock'
    BY <1>1, <1>3, <1>6, <2>5 DEF TellsBlock, WillTell, Empty
  <2>7. ASSUME NEW root \in Roots PROVE TellsOf(root)'
    <3>1. CASE root # AgentsRoot
      BY <1>1, <1>5, <2>1, <3>1, TellsOfFrame DEF Told
    <3>2. CASE root = AgentsRoot
      BY <1>1, <1>5, <1>6, <2>5, <3>2 DEF Told, TellsOf
    <3> QED
      BY <3>1, <3>2
  <2> QED
    BY <1>1, <1>2, <1>4, <2>6, <2>7, OthersTold DEF Told, AgentsTell
<1>7. CASE ~(plan.records /\ Readable(AgentsRoot))
  <2>1. manifest' = manifest
    BY <1>7 DEF RecordAgents, Readable
  <2>2. Loaded(AgentsRoot)' = Loaded(AgentsRoot) /\ (Readable(AgentsRoot)' <=> Readable(AgentsRoot))
    BY <2>1, LoadedSame
  <2>3. Readable(AgentsRoot)' => TellsBlock'
    BY <1>1, <1>3, <1>7, <2>2 DEF TellsBlock
  <2>4. ASSUME NEW root \in Roots PROVE TellsOf(root)'
    BY <1>1, <1>5, <2>1, TellsOfFrame DEF Told
  <2> QED
    BY <1>1, <1>2, <1>4, <2>3, <2>4, OthersTold DEF Told, AgentsTell
<1> QED
  BY <1>6, <1>7

\* The user edits nothing into what a release has written.
LEMMA UserEditsTold ==
  ASSUME TypeOK, Told, UserEdits
  PROVE  Told'
<1>1. UNCHANGED <<pc, command, todo, plans, agentsPlan>> /\ Quiet
  BY DEF UserEdits, local
<1>2. \A p \in Runs : pc'[p] \notin {"write", "record"}
  BY <1>1 DEF Quiet
<1>3. \A p \in Runs : PlanTells(p)' /\ AgentsPlanTells(p)'
  BY <1>2 DEF PlanTells, AgentsPlanTells
<1>4. \A root \in Roots : manifest'[root] = manifest[root] \/ ~Readable(root)'
  BY DEF UserEdits, TypeOK, Readable
<1>5. \A root \in Roots, f \in Files :
        content'[root][f] = content[root][f] \/ content'[root][f] = Mine
  <2>1. content' = content \/ \E root \in Roots, f \in Files :
                                content' = [content EXCEPT ![root][f] = Mine]
    <3>1. \A root \in Roots : UNION {Ships[v][root] : v \in Versions} \subseteq Files
      BY SkillsAssumption
    <3> QED
      BY <3>1 DEF UserEdits
  <2>2. CASE content' = content
    BY <2>2
  <2>3. ASSUME NEW r \in Roots, NEW file \in Files, content' = [content EXCEPT ![r][file] = Mine],
               NEW root \in Roots, NEW f \in Files
        PROVE  content'[root][f] = content[root][f] \/ content'[root][f] = Mine
    BY <2>3 DEF TypeOK
  <2> QED
    BY <2>1, <2>2, <2>3
<1>6. \/ agents' = agents
      \/ ~Empty(agents)' /\ (agents'.block = agents.block \/ agents'.block = None)
      \/ (Empty(agents)' <=> Empty(agents)) /\ agents'.block = Mine
  <2>1. agents \in AgentsFile
    BY DEF TypeOK
  <2>2. \/ agents' = agents
        \/ agents' = [agents EXCEPT !.exists = TRUE, !.text = TRUE]
        \/ agents' = [agents EXCEPT !.block = Mine]
        \/ agents' = NoFile
    BY DEF UserEdits
  <2>3. NoFile.exists = FALSE /\ NoFile.block = None
    BY DEF NoFile
  <2> QED
    BY <2>1, <2>2, <2>3 DEF AgentsFile, Empty
<1>7. ASSUME NEW root \in Roots PROVE TellsOf(root)'
  <2>1. \A p \in Runs : ~Writes(p, root)
    BY <1>1 DEF Quiet, Writes
  <2> QED
    BY <1>4, <1>5, <2>1, LoadedSame, MineIsNoHash DEF Told, TellsOf, Tells, Hash
<1>8. AgentsTell'
  <2>1. \A p \in Runs : pc[p] # "record"
    BY <1>1 DEF Quiet
  <2>2. Mine \notin Versions /\ Mine # None /\ None \notin Versions /\ AgentsRoot \in Roots
    BY SkillsAssumption, MineIsNoHash DEF Hash
  <2>3. /\ Readable(AgentsRoot) => TellsBlock
        /\ Empty(agents) => agents.block # None
    BY <2>1 DEF Told, AgentsTell
  <2>4. Readable(AgentsRoot)' => /\ Loaded(AgentsRoot)' = Loaded(AgentsRoot)
                                 /\ Readable(AgentsRoot)
    BY <1>4, <2>2, LoadedSame
  <2>5. Readable(AgentsRoot)' => TellsBlock'
    BY <1>6, <2>2, <2>3, <2>4 DEF TellsBlock
  <2>6. Empty(agents)' => agents'.block # None
    BY <1>6, <2>2, <2>3
  <2> QED
    BY <2>5, <2>6 DEF AgentsTell
<1> QED
  BY <1>3, <1>7, <1>8 DEF Told

LEMMA RecordInvNext ==
  ASSUME TypeOK, TypeOK', Ready, LockInv, RecordInv, [Next]_vars
  PROVE  RecordInv'
<1> SUFFICES ASSUME losses' = 0, stalls' = 0 PROVE Told'
  BY DEF RecordInv
<1>1. losses = 0 /\ stalls = 0
  BY CalmBefore DEF Calm
<1>2. Told
  BY <1>1 DEF RecordInv
<1>3. ASSUME NEW p \in Runs, Moves(p) PROVE Told'
  <2>1. ASSUME UNCHANGED <<content, agents, manifest>>, pc'[p] \notin {"write", "record"},
               pc[p] # "record", pc[p] = "write" => todo[p] = {}
        PROVE  Told'
    BY <1>2, <1>3, <2>1, OthersStay, ToldFrame
  <2>2. CASE \E root \in Roots : \/ LockRoot(p, root) \/ JudgeStale(p, root)
                                 \/ TakeOver(p, root) \/ GiveUp(p, root)
    BY <2>1, <2>2 DEF LockRoot, JudgeStale, TakeOver, GiveUp, Wants, Unlocks, filesystem, TypeOK
  <2>3. CASE \E root \in Roots, f \in Files : ExecuteOp(p, root, f)
    BY <1>1, <1>2, <2>3, ExecuteTold
  <2>4. CASE \E root \in Roots, f \in Files : FailOp(p, root, f)
    BY <1>1, <1>2, <1>3, <2>4, SaveTold DEF FailOp, OpFails, HasOp
  <2>5. CASE \E root \in Roots : SaveManifest(p, root)
    BY <1>1, <1>2, <1>3, <2>5, SaveTold DEF SaveManifest, RootDone
  <2>6. CASE (\E root \in Roots : LoseManifest(p, root)) \/ LoseBlock(p) \/ Kill(p)
    BY <1>1, <2>6 DEF LoseManifest, LoseBlock, Kill
  <2>7. CASE Plan(p)
    BY <1>1, <1>2, <2>7, PlanTold
  <2>8. CASE Finish(p) \/ FailAgents(p)
    BY <2>1, <2>8 DEF Finish, FailAgents, RootsDone, Succeeds, Unlocks, filesystem, TypeOK
  <2>9. CASE WriteAgents(p)
    BY <1>1, <1>2, <2>9, WriteAgentsTold
  <2>10. CASE RecordAgents(p)
    BY <1>1, <1>2, <2>10, RecordAgentsTold
  <2>11. CASE (\E c \in Commands[p] : Begins(p, c)) \/ Unlock(p)
    BY <2>1, <2>11 DEF Begins, Unlock, Ends, filesystem, TypeOK
  <2> QED
    BY <1>3, <2>2, <2>3, <2>4, <2>5, <2>6, <2>7, <2>8, <2>9, <2>10, <2>11 DEF Moves, Step
<1>4. CASE UserEdits
  BY <1>2, <1>4, UserEditsTold
<1>5. CASE (\E root \in Roots : Age(root)) \/ UNCHANGED vars
  BY <1>2, <1>5, ToldFrame DEF Age, vars, filesystem, local, Same
<1> QED
  BY <1>3, <1>4, <1>5, NextMoves

LEMMA RecordInvInit == Init => RecordInv
<1> SUFFICES ASSUME Init PROVE Told
  BY DEF RecordInv
<1>1. \A root \in Roots, f \in Files : /\ content[root][f] = None
                                       /\ Loaded(root).files[f] = None
  BY DEF Init, Loaded, NoManifest
<1>2. \A root \in Roots : TellsOf(root)
  BY <1>1, MineIsNoHash DEF TellsOf, Tells
<1>3. \A p \in Runs : PlanTells(p) /\ AgentsPlanTells(p)
  BY DEF Init, PlanTells, AgentsPlanTells
<1>4. AgentsTell
  BY MineIsNoHash DEF Init, AgentsTell, TellsBlock, Empty, NoFile
<1> QED
  BY <1>2, <1>3, <1>4 DEF Told

LEMMA ToldRecords ==
  ASSUME TypeOK, RecordInv
  PROVE  RecordsAreTrue /\ NoEmptyAgents
<1> SUFFICES ASSUME Quiet, losses = 0, stalls = 0 PROVE RecordsAreTrue /\ NoEmptyAgents
  BY DEF RecordsAreTrue, NoEmptyAgents
<1>1. Told /\ \A p \in Runs : pc[p] # "record" /\ \A root : ~Writes(p, root)
  BY DEF RecordInv, Quiet, Writes
<1>2. ASSUME NEW root \in Roots, Readable(root), NEW f \in Files
      PROVE  /\ content[root][f] \in Versions => Loaded(root).files[f] = content[root][f]
             /\ content[root][f] = None => Loaded(root).files[f] = None
             /\ content[root][f] \in Versions \cup {Mine, None}
  BY <1>1, <1>2 DEF Told, TellsOf, Tells, TypeOK, Content
<1>3. ASSUME NEW root \in Roots, Readable(root)
      PROVE  Missing(root) = {} /\ \A f \in Modified(root) : content[root][f] = Mine
  BY <1>2, <1>3 DEF Missing, Modified, Recorded
<1>4. RecordsAreTrue
  BY <1>1, <1>2, <1>3 DEF RecordsAreTrue, Told, AgentsTell, TellsBlock
<1>5. NoEmptyAgents
  BY <1>1 DEF NoEmptyAgents, Told, AgentsTell, Empty
<1> QED
  BY <1>4, <1>5

\* The runs between which nothing was lost.
LEMMA RecordsHold == Spec => [](RecordsAreTrue /\ NoEmptyAgents)
<1> DEFINE Inv == TypeOK /\ Ready /\ LockInv /\ RecordInv
<1>1. Init => Inv
  BY TypeOKInit, LockInvInit, RecordInvInit
<1>2. Inv /\ [Next]_vars => Inv'
  BY TypeOKNext, ReadyNext, LockInvNext, RecordInvNext
<1>3. Inv => RecordsAreTrue /\ NoEmptyAgents
  BY ToldRecords
<1> QED
  BY <1>1, <1>2, <1>3, PTL DEF Spec

\* Between runs the manifests record what the releases wrote, and `list' is
\* right about what is missing and what the user has edited, however many
\* operations failed on the way (execute_root saves the manifest of what was
\* done, execute_agents_md that of the block), until a run is killed, cannot
\* save its manifest or outlives its lock.
THEOREM ManifestsAreTrue == Spec => []RecordsAreTrue
  BY RecordsHold, PTL

\* Under the same conditions no AGENTS.md is left empty: one that an install
\* created is deleted with its block, over any number of installs in between
\* (agents_md_created).
THEOREM AgentsNotLeftEmpty == Spec => []NoEmptyAgents
  BY RecordsHold, PTL

-----------------------------------------------------------------------------
(* What is installed *)

\* Every release has a file for every root.
EachShips == \A v \in Versions, root \in Roots : Ships[v][root] # {}

\* Operations may fail; nothing else goes wrong, and the user edits nothing.
Smooth == EachShips /\ losses = 0 /\ stalls = 0 /\ edits = 0

Common(root, f) == \A v \in Versions : f \in Ships[v][root]

\* What a target that is installed in a root has there.
Kept(target, root) ==
  /\ target \in Loaded(root).targets /\ Recorded(Loaded(root)) # {}
  /\ \A f \in Files : Common(root, f) => content[root][f] # None

InstalledIn(root) == {t \in Targets : <<t, root>> \in installed}

\* An installation's plan writes all it ships before it removes anything, and
\* an uninstall removes nothing from a root that other targets use.
Spares(plan, c, root, files, others) ==
  /\ others \subseteq plan.manifest.targets
  /\ others # {} => Recorded(plan.manifest) # {}
  /\ IF c.op = "install"
     THEN /\ plan.ships = Ships[c.version][root]
          /\ c.target \in plan.manifest.targets
          /\ \A f \in plan.ships :
               IF plan.ops[f] = None
               THEN plan.manifest.files[f] # None /\ files[f] # None
               ELSE /\ plan.ops[f].set # None /\ plan.ops[f].do # "remove"
                    /\ plan.ops[f].do = "leave" => files[f] # None
     ELSE others # {} => Left(plan) = {}

PlanKeeps(p) ==
  pc[p] = "write" =>
    \A root \in todo[p] :
      Spares(plans[p][root], command[p], root, content[root], InstalledIn(root))

\* The roots an installation has done.
DoneKeeps(p) ==
  /\ pc[p] = "record" => todo[p] = {}
  /\ pc[p] \in {"write", "record"} /\ command[p].op = "install" =>
       \A root \in held[p] \ todo[p] : Kept(command[p].target, root)

Keeping ==
  /\ \A root \in Roots : Readable(root) /\ \A f \in Files : content[root][f] # Mine
  /\ \A t \in Targets, root \in Roots : <<t, root>> \in installed => Kept(t, root)
  /\ \A p \in Runs : PlanKeeps(p) /\ DoneKeeps(p)

StaysInv == Smooth => Keeping

LEMMA KeptFrame ==
  ASSUME NEW root, NEW target, Kept(target, root), manifest'[root] = manifest[root],
         content'[root] = content[root]
  PROVE  Kept(target, root)'
  BY LoadedSame DEF Kept

\* A manifest that records a file is kept, and the targets with it.
LEMMA KeptSaved ==
  ASSUME NEW root \in Roots, NEW m \in Manifest, NEW target, target \in m.targets,
         Recorded(m) # {}, manifest'[root] = Saved(m), content'[root] = content[root],
         \A f \in Files : Common(root, f) => content[root][f] # None
  PROVE  Kept(target, root)'
<1>1. m.files # NoManifest.files
  BY DEF Recorded, NoManifest
<1>2. manifest'[root] = m
  BY <1>1 DEF Saved
<1>3. Loaded(root)' = m
  BY <1>2, NoneAssumption DEF Loaded
<1> QED
  BY <1>3 DEF Kept, Recorded

\* The plan of an installation ships; where others are installed, one of an
\* uninstall does nothing.
LEMMA PlanRootKeeps ==
  ASSUME TypeOK, EachShips, NEW root \in Roots, Readable(root), NEW c \in Command,
         \A f \in Files : Tells(Loaded(root).files[f], content[root][f]) /\ content[root][f] # Mine,
         NEW others \in SUBSET Targets, c.target \notin others,
         \A t \in others : Kept(t, root), PlanRoot(root, c) # None
  PROVE  Spares(PlanRoot(root, c), c, root, content[root], others)
<1> DEFINE old == Loaded(root)
           plan == PlanRoot(root, c)
<1>1. /\ old \in Manifest /\ c.version \in Versions /\ Ships[c.version][root] \subseteq Files
      /\ None \notin Versions
  BY LoadedType, SkillsAssumption, MineIsNoHash DEF Command, Hash
<1>2. others \subseteq old.targets /\ (others # {} => Recorded(old) # {})
  BY DEF Kept
<1>3. CASE c.op = "install"
  <2> DEFINE m == [old EXCEPT !.targets = @ \cup {c.target}]
             ships == Ships[c.version][root]
  <2>1. /\ plan.manifest = m /\ plan.ships = ships
        /\ \A f \in ships : plan.ops[f] =
             Decide(content[root][f], c.version, old.files[f], c.force)
    BY <1>1, <1>3 DEF PlanRoot, PlanInstallRoot
  <2>2. m.targets = old.targets \cup {c.target} /\ m.files = old.files
    BY <1>1 DEF Manifest
  <2>3. ASSUME NEW f \in ships
        PROVE  /\ plan.ops[f] # None /\ plan.ops[f].set # None /\ plan.ops[f].do # "remove"
               /\ plan.ops[f].do = "leave" => content[root][f] # None
    <3> DEFINE op == Decide(content[root][f], c.version, old.files[f], c.force)
    <3>1. old.files[f] \in Hash /\ f \in Files
      BY <1>1 DEF Manifest
    <3>2. op # None
      BY <1>1, <3>1, DecideType, NoneAssumption
    <3>3. content[root][f] \in Versions \cup {None} /\ Tells(old.files[f], content[root][f])
      BY <3>1 DEF TypeOK, Content
    <3>4. op \in {FileOp("write", c.version), FileOp("leave", c.version)}
      BY <1>1, <3>3 DEF Decide, Tells
    <3>5. op = FileOp("leave", c.version) => content[root][f] # None
      BY <1>1, <3>3 DEF Decide, FileOp, Tells
    <3> HIDE DEF op, plan
    <3> QED
      BY <1>1, <2>1, <3>2, <3>4, <3>5 DEF FileOp, op
  <2> HIDE DEF m, ships, plan
  <2> QED
    BY <1>2, <1>3, <2>1, <2>2, <2>3 DEF Spares, Recorded, plan, ships
<1>4. CASE c.op # "install"
  <2> DEFINE m == [old EXCEPT !.targets = @ \ {c.target}]
  <2>1. /\ plan.manifest = m
        /\ plan.ops = IF m.targets # {} THEN NoOps ELSE Removals(root, m)
    BY <1>4 DEF PlanRoot, PlanUninstallRoot
  <2>2. m.targets = old.targets \ {c.target} /\ m.files = old.files
    BY <1>1 DEF Manifest
  <2> HIDE DEF m, plan
  <2>3. others \subseteq m.targets
    BY <1>2, <2>2
  <2>4. others # {} => plan.ops = NoOps
    BY <2>1, <2>3
  <2>5. others # {} => Left(plan) = {}
    BY <2>4 DEF Left, NoOps
  <2> QED
    BY <1>2, <1>4, <2>1, <2>2, <2>3, <2>5 DEF Spares, Recorded, plan
<1> QED
  BY <1>3, <1>4

\* What a run adds to `installed' are the roots of its own installation.
LEMMA InstalledBy ==
  ASSUME TypeOK, Ready, NEW p \in Runs, Moves(p), NEW t \in Targets, NEW root \in Roots,
         <<t, root>> \in installed', <<t, root>> \notin installed
  PROVE  /\ Finish(p) \/ RecordAgents(p)
         /\ t = command[p].target /\ command[p].op = "install" /\ root \in held[p]
<1>1. Finish(p) \/ RecordAgents(p)
  <2>1. ~(installed' \subseteq installed)
    OBVIOUS
  <2> QED
    BY <2>1 DEF Moves, Step, LockRoot, JudgeStale, TakeOver, GiveUp, ExecuteOp, FailOp,
         SaveManifest, LoseManifest, Plan, WriteAgents, FailAgents, LoseBlock, Unlock, Kill, Begins
<1>2. installed' = installed \/ Succeeds(p)
  BY <1>1 DEF Finish, RecordAgents
<1>3. /\ t = command[p].target /\ command[p].op = "install"
      /\ root \in ToSet(RootsOf[command[p].target])
  BY <1>2 DEF Succeeds
<1>4. pc[p] \in {"write", "record"}
  BY <1>1 DEF Finish, RootsDone, RecordAgents
<1> QED
  BY <1>1, <1>3, <1>4 DEF Ready, ReadyAt

\* A run whose roots a step leaves alone, and adds no target to.
LEMMA KeepsFrame ==
  ASSUME TypeOK, Ready, NEW q \in Runs, PlanKeeps(q), DoneKeeps(q), Same(q),
         \A root \in held[q] :
           /\ content'[root] = content[root] /\ manifest'[root] = manifest[root]
           /\ InstalledIn(root)' \subseteq InstalledIn(root)
  PROVE  PlanKeeps(q)' /\ DoneKeeps(q)'
<1>1. pc[q] = "write" => todo[q] \subseteq held[q]
  BY DEF Ready, ReadyAt
<1>2. PlanKeeps(q)'
  <2>1. ASSUME NEW plan, NEW c, NEW root, NEW files, NEW others, NEW fewer \in SUBSET others,
               Spares(plan, c, root, files, others)
        PROVE  Spares(plan, c, root, files, fewer)
    BY <2>1 DEF Spares
  <2> QED
    BY <1>1, <2>1 DEF PlanKeeps, Same
<1>3. DoneKeeps(q)'
  BY KeptFrame DEF DoneKeeps, Same
<1> QED
  BY <1>2, <1>3

\* The other runs, while p moves.
LEMMA OthersKeep ==
  ASSUME TypeOK, Ready, LockInv, Keeping, losses = 0, stalls = 0, NEW p \in Runs, Moves(p)
  PROVE  /\ \A q \in Runs \ {p} : PlanKeeps(q)' /\ DoneKeeps(q)'
         /\ \A t \in Targets, root \in Roots \ held[p] :
              <<t, root>> \in installed' => Kept(t, root)'
<1>1. Calm /\ \A q \in Runs : pc[q] # "killed"
  BY DEF LockInv, Calm
<1>2. ASSUME NEW root \in Roots \ held[p]
      PROVE  /\ content'[root] = content[root] /\ manifest'[root] = manifest[root]
             /\ \A t \in Targets : <<t, root>> \in installed' => <<t, root>> \in installed
  BY TouchesHeld, InstalledBy
<1>3. ASSUME NEW q \in Runs \ {p} PROVE PlanKeeps(q)' /\ DoneKeeps(q)'
  <2>1. held[q] \subseteq Roots \ held[p]
    BY <1>1, Exclusive DEF TypeOK
  <2>2. Same(q)
    BY OthersStay
  <2> QED
    BY <1>2, <2>1, <2>2, KeepsFrame DEF Keeping, InstalledIn
<1>4. ASSUME NEW t \in Targets, NEW root \in Roots \ held[p], <<t, root>> \in installed'
      PROVE  Kept(t, root)'
  BY <1>2, <1>4, KeptFrame DEF Keeping
<1> QED
  BY <1>3, <1>4

\* A step that changes no root and installs nothing, of a run that starts or
\* ends.
LEMMA KeepingFrame ==
  ASSUME TypeOK, Ready, Keeping, UNCHANGED <<content, manifest>>, installed' \subseteq installed,
         \A p \in Runs : Same(p) \/ pc'[p] \notin {"write", "record"}
  PROVE  Keeping'
<1>1. ASSUME NEW t \in Targets, NEW root \in Roots, <<t, root>> \in installed'
      PROVE  Kept(t, root)'
  BY <1>1, KeptFrame DEF Keeping
<1>2. ASSUME NEW q \in Runs PROVE PlanKeeps(q)' /\ DoneKeeps(q)'
  <2>1. CASE Same(q)
    BY <2>1, KeepsFrame DEF Keeping, InstalledIn
  <2>2. CASE pc'[q] \notin {"write", "record"}
    BY <2>2 DEF PlanKeeps, DoneKeeps
  <2> QED
    BY <2>1, <2>2
<1>3. \A root \in Roots : Readable(root)' /\ \A f \in Files : content'[root][f] # Mine
  BY LoadedSame DEF Keeping
<1> QED
  BY <1>1, <1>2, <1>3 DEF Keeping

LEMMA PlanKeeping ==
  ASSUME TypeOK, Ready, LockInv, Told, Keeping, EachShips, losses = 0, stalls = 0,
         NEW p \in Runs, Plan(p)
  PROVE  Keeping'
<1> DEFINE c == command[p]
           roots == ToSet(RootsOf[c.target])
<1>1. Moves(p) /\ UNCHANGED <<content, manifest, command, held>>
  BY DEF Plan, Moves, Step, filesystem
<1>2. pc[p] = "lock" /\ held[p] = roots /\ c \in Command /\ roots \subseteq Roots
  <2>1. pc[p] = "lock" /\ todo[p] = {}
    BY DEF Plan
  <2>2. held[p] = roots /\ c \in Command
    BY <2>1 DEF Ready, ReadyAt, TypeOK
  <2> QED
    BY <2>1, <2>2, RootsOfTypes DEF Command
<1>3. \A root \in Roots : manifest[root] # Unreadable /\ Readable(root)
  BY DEF Keeping, Readable
<1>4. /\ \A root \in roots : plans'[p][root] = PlanRoot(root, c)
      /\ pc'[p] = "write"
      /\ todo'[p] = {root \in roots : PlanRoot(root, c) # None}
      /\ installed' = {i \in installed : i[1] # c.target}
  BY <1>2, <1>3 DEF Plan, TypeOK
<1>5. ASSUME NEW root \in Roots
      PROVE  InstalledIn(root)' = InstalledIn(root) \ {c.target}
  BY <1>4 DEF InstalledIn
<1>6. PlanKeeps(p)'
  <2>1. ASSUME NEW root \in todo'[p]
        PROVE  Spares(plans'[p][root], c, root, content[root], InstalledIn(root) \ {c.target})
    <3> DEFINE others == InstalledIn(root) \ {c.target}
    <3>1. /\ root \in Roots /\ root \in held[p] /\ Readable(root) /\ PlanRoot(root, c) # None
          /\ plans'[p][root] = PlanRoot(root, c)
      BY <1>2, <1>3, <1>4, <2>1
    <3>2. \A f \in Files : Tells(Loaded(root).files[f], content[root][f]) /\ content[root][f] # Mine
      BY <1>2, <3>1, HolderSees DEF Keeping
    <3>3. others \in SUBSET Targets /\ c.target \notin others /\ \A t \in others : Kept(t, root)
      BY <3>1 DEF InstalledIn, Keeping
    <3>4. Spares(PlanRoot(root, c), c, root, content[root], others)
      <4> HIDE DEF others, c, roots
      <4> QED
        BY <1>2, <3>1, <3>2, <3>3, PlanRootKeeps
    <3> QED
      BY <3>1, <3>4
  <2>2. todo'[p] \subseteq Roots
    BY <1>2, <1>4
  <2> HIDE DEF c, roots
  <2>3. command'[p] = c /\ content' = content
    BY <1>1 DEF c
  <2> QED
    BY <1>5, <2>1, <2>2, <2>3 DEF PlanKeeps
<1>7. DoneKeeps(p)'
  <2>1. ASSUME c.op = "install", NEW root \in roots PROVE PlanRoot(root, c) # None
    <3>1. PlanRoot(root, c) = PlanInstallRoot(root, c)
      BY <2>1 DEF PlanRoot
    <3>2. PlanInstallRoot(root, c) \in Plans
      BY <1>2, <1>3, PlanInstallRootType
    <3> QED
      BY <3>1, <3>2, NoneAssumption
  <2>2. c.op = "install" => todo'[p] = held'[p]
    BY <1>1, <1>2, <1>4, <2>1
  <2> QED
    BY <1>1, <1>4, <2>2 DEF DoneKeeps
<1>8. ASSUME NEW t \in Targets, NEW root \in Roots, <<t, root>> \in installed'
      PROVE  Kept(t, root)'
  BY <1>1, <1>4, <1>8, KeptFrame DEF Keeping
<1>9. \A root \in Roots : Readable(root)' /\ \A f \in Files : content'[root][f] # Mine
  BY <1>1, LoadedSame DEF Keeping
<1> QED
  BY <1>1, <1>6, <1>7, <1>8, <1>9, OthersKeep DEF Keeping

LEMMA ExecuteKeeping ==
  ASSUME TypeOK, Ready, LockInv, Keeping, EachShips, losses = 0, stalls = 0, NoNewEdits,
         NEW p \in Runs, NEW root \in Roots, NEW file \in Files, ExecuteOp(p, root, file)
  PROVE  Keeping'
<1> DEFINE old == plans[p][root]
           new == plans'[p][root]
           op == old.ops[file]
<1>1. Moves(p) /\ UNCHANGED <<manifest, pc, command, todo, held, installed>>
  BY DEF ExecuteOp, Moves, Step
<1>2. /\ pc[p] = "write" /\ root \in todo[p] /\ root \in held[p]
      /\ old \in Plans /\ op \in FileOps /\ op # None
  BY HasOpFacts DEF ExecuteOp, HasOp
<1>3. /\ new.manifest.files = [old.manifest.files EXCEPT ![file] = op.set]
      /\ new.manifest.targets = old.manifest.targets
      /\ new.ops = [old.ops EXCEPT ![file] = None] /\ new.ships = old.ships
      /\ \A r \in Roots \ {root} : plans'[p][r] = plans[p][r]
      /\ old.manifest.files \in [Files -> Hash] /\ old.ops \in [Files -> FileOps \cup {None}]
      /\ old.ships \subseteq Files
  <2>1. /\ new = Entered(old, file)
        /\ \A r \in Roots \ {root} : plans'[p][r] = plans[p][r]
    BY DEF ExecuteOp, TypeOK
  <2> HIDE DEF new, old
  <2>2. /\ new.manifest = [old.manifest EXCEPT !.files[file] = op.set]
        /\ new.ops = [old.ops EXCEPT ![file] = None] /\ new.ships = old.ships
    BY <1>2, <2>1, EntersOne
  <2>3. old.manifest \in Manifest
    BY <1>2 DEF Plans
  <2> HIDE DEF op
  <2> QED
    BY <1>2, <2>1, <2>2, <2>3 DEF Plans, Manifest
<1>4. /\ content'[root][file] = IF op.do = "write" THEN op.set
                                ELSE IF op.do = "remove" THEN None ELSE content[root][file]
      /\ \A f \in Files \ {file} : content'[root][f] = content[root][f]
      /\ \A r \in Roots \ {root} : content'[r] = content[r]
  BY DEF ExecuteOp, TypeOK
<1>5. \A r : Loaded(r)' = Loaded(r) /\ (Readable(r)' <=> Readable(r)) /\ InstalledIn(r)' = InstalledIn(r)
  BY <1>1, LoadedSame DEF InstalledIn
<1>6. Spares(old, command[p], root, content[root], InstalledIn(root))
  BY <1>2 DEF Keeping, PlanKeeps
<1>7. command[p] \in Command
  BY <1>2 DEF Ready, ReadyAt, TypeOK
<1>8. file \in Left(old)
  BY <1>2 DEF Left
<1>9. file \in old.ships \/ \A f \in old.ships : old.ops[f] = None
  BY <1>3 DEF ExecuteOp, HasOp, IsFirst, Left
<1> HIDE DEF old, new, op
<1>10. ASSUME command[p].op = "install", NEW f \in old.ships, new.ops[f] = None
       PROVE  new.manifest.files[f] # None /\ content'[root][f] # None
  <2>1. CASE f = file
    BY <1>2, <1>3, <1>4, <1>6, <1>10, <2>1 DEF op, FileOps, Spares
  <2>2. CASE f # file
    BY <1>3, <1>4, <1>6, <1>10, <2>2 DEF Spares
  <2> QED
    BY <2>1, <2>2
<1>11. ASSUME command[p].op = "install", NEW f \in old.ships, new.ops[f] # None
       PROVE  /\ new.ops[f].set # None /\ new.ops[f].do # "remove"
              /\ new.ops[f].do = "leave" => content'[root][f] # None
  BY <1>3, <1>4, <1>6, <1>11 DEF Spares
<1>12. command[p].op = "install" => Recorded(new.manifest) # {}
  <2>1. ASSUME command[p].op = "install" PROVE old.ships # {}
    BY <1>6, <1>7, <2>1 DEF EachShips, Command, Spares
  <2>2. CASE file \in old.ships
    BY <1>2, <1>3, <1>6, <2>2 DEF Recorded, op, Spares
  <2>3. CASE file \notin old.ships
    <3>1. ASSUME command[p].op = "install", NEW f \in old.ships
          PROVE  new.manifest.files[f] # None /\ f \in Files
      BY <1>3, <1>6, <1>9, <2>3, <3>1 DEF Spares
    <3> QED
      BY <2>1, <3>1 DEF Recorded
  <2> QED
    BY <2>2, <2>3
<1>13. command[p].op # "install" => InstalledIn(root) = {}
  BY <1>6, <1>8 DEF Spares
<1>14. PlanKeeps(p)'
  <2>1. ASSUME NEW r \in todo[p]
        PROVE  Spares(plans'[p][r], command[p], r, content'[r], InstalledIn(r))
    <3>1. CASE r = root
      BY <1>3, <1>6, <1>10, <1>11, <1>12, <1>13, <3>1 DEF new, Spares
    <3>2. CASE r # root
      <4>1. plans'[p][r] = plans[p][r] /\ content'[r] = content[r]
        BY <1>3, <1>4, <2>1, <3>2 DEF TypeOK
      <4> QED
        BY <1>2, <2>1, <4>1 DEF Keeping, PlanKeeps
    <3> QED
      BY <3>1, <3>2
  <2> QED
    BY <1>1, <1>5, <2>1 DEF PlanKeeps
<1>15. ASSUME NEW f \in Files, Common(root, f), InstalledIn(root) # {}, content[root][f] # None
       PROVE  content'[root][f] # None
  <2>1. command[p].op = "install" /\ f \in old.ships
    BY <1>6, <1>7, <1>13, <1>15 DEF Common, Command, Spares
  <2> QED
    BY <1>2, <1>3, <1>4, <1>6, <1>10, <1>15, <2>1 DEF op, FileOps, Spares
<1>16. ASSUME NEW t \in Targets, NEW r \in Roots, <<t, r>> \in installed
       PROVE  Kept(t, r)'
  <2>1. Kept(t, r)
    BY <1>16 DEF Keeping
  <2>2. CASE r # root
    BY <1>1, <1>4, <2>1, <2>2, KeptFrame
  <2>3. CASE r = root
    BY <1>5, <1>15, <1>16, <2>1, <2>3 DEF Kept, InstalledIn
  <2> QED
    BY <2>2, <2>3
<1>17. DoneKeeps(p)'
  <2>1. ASSUME command[p].op = "install", NEW r \in held[p] \ todo[p]
        PROVE  Kept(command[p].target, r)'
    <3>1. r \in Roots \ {root} /\ Kept(command[p].target, r)
      BY <1>2, <2>1 DEF Keeping, DoneKeeps, TypeOK
    <3> QED
      BY <1>1, <1>4, <3>1, KeptFrame
  <2> QED
    BY <1>1, <1>2, <2>1 DEF DoneKeeps
<1>18. \A r \in Roots : Readable(r)' /\ \A f \in Files : content'[r][f] # Mine
  BY <1>5 DEF Keeping, NoNewEdits
<1> QED
  BY <1>1, <1>14, <1>16, <1>17, <1>18, OthersKeep DEF Keeping

\* No run makes a manifest unreadable.
LEMMA StaysReadable ==
  ASSUME TypeOK, TypeOK', Ready, Keeping, NoNewEdits, NEW p \in Runs, Moves(p)
  PROVE  \A root \in Roots : Readable(root)' /\ \A f \in Files : content'[root][f] # Mine
<1>1. ASSUME NEW root \in Roots, NEW m \in Manifest, manifest' = [manifest EXCEPT ![root] = Saved(m)]
      PROVE  \A r \in Roots : manifest'[r] # Unreadable
  <2>1. Saved(m) # Unreadable
    BY SavedType, NoneAssumption
  <2> QED
    BY <1>1, <2>1 DEF Keeping, Readable, TypeOK
<1>2. ASSUME NEW root \in Roots, Writes(p, root)
      PROVE  plans[p][root].manifest \in Manifest
  BY <1>2 DEF Writes, IsFirst, Ready, ReadyAt, TypeOK, Plans
<1>3. CASE \E root \in Roots : SaveManifest(p, root) \/ \E f \in Files : FailOp(p, root, f)
  <2> PICK root \in Roots : SaveManifest(p, root) \/ \E f \in Files : FailOp(p, root, f)
    BY <1>3
  <2>1. /\ Writes(p, root)
        /\ manifest' = [manifest EXCEPT ![root] = Saved(plans[p][root].manifest)]
    BY DEF SaveManifest, RootDone, FailOp, OpFails, HasOp
  <2> QED
    BY <1>1, <1>2, <2>1 DEF Keeping, NoNewEdits, Readable
<1>4. CASE RecordAgents(p)
  <2>1. AgentsRoot \in Roots /\ Loaded(AgentsRoot) \in Manifest /\ agentsPlan[p] \in AgentsPlans
    BY <1>4, LoadedType, SkillsAssumption DEF RecordAgents, Keeping, Ready, ReadyAt, TypeOK
  <2>2. WithBlock(Loaded(AgentsRoot), agentsPlan[p]) \in Manifest
    BY <2>1, WithBlockType
  <2>3. CASE manifest' = manifest
    BY <2>3 DEF Keeping, NoNewEdits, Readable
  <2>4. CASE manifest' # manifest
    BY <1>1, <1>4, <2>1, <2>2, <2>4 DEF RecordAgents, Keeping, NoNewEdits, Readable
  <2> QED
    BY <2>3, <2>4
<1>5. CASE manifest' = manifest
  BY <1>5 DEF Keeping, NoNewEdits, Readable
<1> QED
  BY <1>3, <1>4, <1>5 DEF Moves, Step, LockRoot, JudgeStale, TakeOver, GiveUp, ExecuteOp, Plan,
     Finish, WriteAgents, FailAgents, LoseManifest, LoseBlock, Unlock, Kill, Begins, filesystem

LEMMA SaveKeeping ==
  ASSUME TypeOK, Ready, LockInv, Keeping, EachShips, losses = 0, stalls = 0,
         \A r \in Roots : Readable(r)' /\ \A f \in Files : content'[r][f] # Mine,
         NEW p \in Runs, Moves(p), NEW root \in Roots, Writes(p, root),
         manifest' = [manifest EXCEPT ![root] = Saved(plans[p][root].manifest)],
         UNCHANGED <<content, command, held, plans, installed>>,
         \/ RootDone(p, root) /\ UNCHANGED pc /\ todo' = [todo EXCEPT ![p] = @ \ {root}]
         \/ Unlocks(p)
  PROVE  Keeping'
<1> DEFINE plan == plans[p][root]
<1>1. /\ pc[p] = "write" /\ root \in todo[p] /\ todo[p] \subseteq Roots /\ held[p] \subseteq Roots
      /\ todo[p] \subseteq held[p]
  BY DEF Writes, IsFirst, Ready, ReadyAt, TypeOK
<1>2. plan \in Plans /\ plan.manifest \in Manifest /\ command[p] \in Command
  BY <1>1 DEF Ready, ReadyAt, TypeOK, Plans
<1>3. Spares(plan, command[p], root, content[root], InstalledIn(root))
  BY <1>1 DEF Keeping, PlanKeeps
<1>4. /\ manifest'[root] = Saved(plan.manifest)
      /\ \A r \in Roots \ {root} : manifest'[r] = manifest[r]
  BY DEF TypeOK
<1>5. ASSUME NEW t \in Targets, NEW r \in Roots, <<t, r>> \in installed
      PROVE  Kept(t, r)'
  <2>1. Kept(t, r)
    BY <1>5 DEF Keeping
  <2>2. CASE r # root
    BY <1>4, <2>1, <2>2, KeptFrame
  <2>3. CASE r = root
    <3>1. t \in plan.manifest.targets /\ Recorded(plan.manifest) # {}
      BY <1>3, <1>5, <2>3 DEF Spares, InstalledIn
    <3>2. \A f \in Files : Common(root, f) => content[root][f] # None
      BY <2>1, <2>3 DEF Kept
    <3> HIDE DEF plan
    <3> QED
      BY <1>2, <1>4, <2>3, <3>1, <3>2, KeptSaved
  <2> QED
    BY <2>2, <2>3
<1>6. ASSUME RootDone(p, root), command[p].op = "install" PROVE Kept(command[p].target, root)'
  <2>1. \A f \in Files : plan.ops[f] = None
    BY <1>6 DEF RootDone, Left
  <2> HIDE DEF plan
  <2>2. /\ plan.ships = Ships[command[p].version][root] /\ plan.ships # {}
        /\ plan.ships \subseteq Files /\ command[p].version \in Versions
    BY <1>2, <1>3, <1>6 DEF Spares, EachShips, Command, Plans
  <2>3. \A f \in plan.ships : plan.manifest.files[f] # None /\ content[root][f] # None
    BY <1>3, <1>6, <2>1, <2>2 DEF Spares
  <2>4. Recorded(plan.manifest) # {}
    BY <2>2, <2>3 DEF Recorded
  <2>5. \A f \in Files : Common(root, f) => content[root][f] # None
    BY <2>2, <2>3 DEF Common
  <2>6. command[p].target \in plan.manifest.targets
    BY <1>3, <1>6 DEF Spares
  <2> QED
    BY <1>2, <1>4, <2>4, <2>5, <2>6, KeptSaved
<1>7. CASE RootDone(p, root) /\ UNCHANGED pc /\ todo' = [todo EXCEPT ![p] = @ \ {root}]
  <2>1. pc'[p] = "write" /\ todo'[p] = todo[p] \ {root}
    BY <1>1, <1>7 DEF TypeOK
  <2>2. PlanKeeps(p)'
    BY <1>1, <2>1 DEF Keeping, PlanKeeps, InstalledIn
  <2>3. ASSUME command[p].op = "install", NEW r \in held[p] \ todo'[p]
        PROVE  Kept(command[p].target, r)'
    <3>1. CASE r = root
      BY <1>6, <1>7, <2>3, <3>1
    <3>2. CASE r # root
      <4>1. Kept(command[p].target, r) /\ r \in Roots
        BY <1>1, <2>1, <2>3, <3>2 DEF Keeping, DoneKeeps
      <4> QED
        BY <1>4, <3>2, <4>1, KeptFrame
    <3> QED
      BY <3>1, <3>2
  <2>4. DoneKeeps(p)'
    BY <2>1, <2>3 DEF DoneKeeps
  <2> QED
    BY <1>5, <2>2, <2>4, OthersKeep DEF Keeping
<1>8. CASE Unlocks(p)
  <2>1. PlanKeeps(p)' /\ DoneKeeps(p)'
    BY <1>8 DEF Unlocks, PlanKeeps, DoneKeeps, TypeOK
  <2> QED
    BY <1>5, <2>1, OthersKeep DEF Keeping
<1> QED
  BY <1>7, <1>8

\* The end of a command that succeeded.
LEMMA FinishKeeping ==
  ASSUME TypeOK, Ready, LockInv, Keeping, losses = 0, stalls = 0,
         \A r \in Roots : Readable(r)' /\ \A f \in Files : content'[r][f] # Mine,
         NEW p \in Runs, Finish(p) \/ RecordAgents(p)
  PROVE  Keeping'
<1> DEFINE m == WithBlock(Loaded(AgentsRoot), agentsPlan[p])
<1>1. Moves(p) /\ UNCHANGED <<content, held>> /\ pc'[p] = "unlock"
  BY DEF Finish, RecordAgents, Succeeds, Unlocks, Moves, Step, filesystem, TypeOK
<1>2. todo[p] = {} /\ pc[p] \in {"write", "record"}
  BY DEF Finish, RootsDone, RecordAgents, Keeping, DoneKeeps
<1>3. ASSUME NEW t \in Targets, NEW root \in Roots, <<t, root>> \in installed'
      PROVE  Kept(t, root)
  <2>1. CASE <<t, root>> \in installed
    BY <2>1 DEF Keeping
  <2>2. CASE <<t, root>> \notin installed
    <3>1. t = command[p].target /\ command[p].op = "install" /\ root \in held[p]
      BY <1>1, <1>3, <2>2, InstalledBy
    <3> QED
      BY <1>2, <3>1 DEF Keeping, DoneKeeps
  <2> QED
    BY <2>1, <2>2
<1>4. \/ manifest' = manifest
      \/ /\ RecordAgents(p)
         /\ manifest' = [manifest EXCEPT ![AgentsRoot] = Saved(m)]
  BY DEF Finish, RecordAgents, filesystem
<1>5. ASSUME NEW t \in Targets, NEW root \in Roots, Kept(t, root)
      PROVE  Kept(t, root)'
  <2>1. CASE manifest'[root] = manifest[root]
    BY <1>1, <1>5, <2>1, KeptFrame
  <2>2. CASE manifest'[root] # manifest[root]
    <3>1. RecordAgents(p) /\ root = AgentsRoot /\ manifest'[root] = Saved(m)
      BY <1>4, <2>2 DEF TypeOK
    <3>2. Loaded(AgentsRoot) \in Manifest /\ agentsPlan[p] \in AgentsPlans
      BY <3>1, LoadedType DEF RecordAgents, Keeping, Ready, ReadyAt, TypeOK
    <3>3. m \in Manifest
      BY <3>2, WithBlockType
    <3>4. m.targets = Loaded(AgentsRoot).targets /\ m.files = Loaded(AgentsRoot).files
      BY <3>2 DEF WithBlock, Manifest
    <3> HIDE DEF m
    <3>5. /\ t \in m.targets /\ Recorded(m) # {}
          /\ \A f \in Files : Common(root, f) => content[root][f] # None
      BY <1>5, <3>1, <3>4 DEF Kept, Recorded
    <3> QED
      BY <1>1, <3>1, <3>3, <3>5, KeptSaved
  <2> QED
    BY <2>1, <2>2
<1>6. PlanKeeps(p)' /\ DoneKeeps(p)'
  BY <1>1 DEF PlanKeeps, DoneKeeps
<1> QED
  BY <1>1, <1>3, <1>5, <1>6, OthersKeep DEF Keeping

LEMMA WriteAgentsKeeping ==
  ASSUME TypeOK, Ready, LockInv, Keeping, losses = 0, stalls = 0, NEW p \in Runs, WriteAgents(p)
  PROVE  Keeping'
<1>1. /\ Moves(p) /\ UNCHANGED <<content, manifest, command, todo, held, installed>>
      /\ pc[p] = "write" /\ todo[p] = {} /\ pc'[p] = "record"
  BY DEF WriteAgents, RootsDone, Moves, Step, TypeOK
<1>2. ASSUME NEW t, NEW root, Kept(t, root) PROVE Kept(t, root)'
  BY <1>1, <1>2, KeptFrame
<1>3. PlanKeeps(p)' /\ DoneKeeps(p)'
  BY <1>1, <1>2 DEF Keeping, PlanKeeps, DoneKeeps
<1>4. \A root \in Roots : Readable(root)' /\ \A f \in Files : content'[root][f] # Mine
  BY <1>1, LoadedSame DEF Keeping
<1> QED
  BY <1>1, <1>2, <1>3, <1>4, OthersKeep DEF Keeping

\* Only the user's own edits are counted as edits.
LEMMA RunsCountNoEdits ==
  ASSUME NEW p \in Runs, Moves(p)
  PROVE  edits' = edits
<1>1. CASE \E root \in Roots : \/ LockRoot(p, root) \/ JudgeStale(p, root)
                               \/ TakeOver(p, root) \/ GiveUp(p, root)
  BY <1>1 DEF LockRoot, JudgeStale, TakeOver, GiveUp, bounds
<1>2. CASE \E root \in Roots, f \in Files : ExecuteOp(p, root, f) \/ FailOp(p, root, f)
  BY <1>2 DEF ExecuteOp, FailOp, bounds
<1>3. CASE \E root \in Roots : SaveManifest(p, root) \/ LoseManifest(p, root)
  BY <1>3 DEF SaveManifest, LoseManifest, bounds
<1>4. CASE Plan(p) \/ Finish(p) \/ WriteAgents(p) \/ RecordAgents(p) \/ Unlock(p)
  BY <1>4 DEF Plan, Finish, WriteAgents, RecordAgents, Unlock, bounds
<1>5. CASE (\E c \in Commands[p] : Begins(p, c)) \/ FailAgents(p) \/ LoseBlock(p) \/ Kill(p)
  BY <1>5 DEF Begins, FailAgents, LoseBlock, Kill
<1> QED
  BY <1>1, <1>2, <1>3, <1>4, <1>5 DEF Moves, Step

LEMMA StaysInvNext ==
  ASSUME TypeOK, TypeOK', Ready, EditsInv, LockInv, RecordInv, StaysInv, [Next]_vars
  PROVE  StaysInv'
<1> SUFFICES ASSUME Smooth' PROVE Keeping'
  BY DEF StaysInv
<1>1. losses = 0 /\ stalls = 0 /\ EachShips
  BY CalmBefore DEF Calm, Smooth
<1>2. edits = 0 /\ ~UserEdits
  <2>1. edits' = edits \/ edits' = edits + 1
    <3>1. CASE UserEdits \/ UNCHANGED vars \/ \E root \in Roots : Age(root)
      BY <3>1 DEF UserEdits, Age, vars, bounds
    <3> QED
      BY <3>1, RunsCountNoEdits, NextMoves
  <2>2. edits \in Nat /\ edits' = 0 /\ (UserEdits => edits' = edits + 1)
    BY DEF TypeOK, Smooth, UserEdits
  <2> QED
    BY <2>1, <2>2
<1>3. Told /\ Keeping
  BY <1>1, <1>2 DEF RecordInv, StaysInv, Smooth
<1>4. ASSUME NEW p \in Runs, Moves(p) PROVE Keeping'
  <2>1. /\ NoNewEdits
        /\ \A r \in Roots : Readable(r)' /\ \A f \in Files : content'[r][f] # Mine
    BY <1>3, <1>4, RunsMakeNoEdits, StaysReadable
  <2>2. ASSUME UNCHANGED <<content, manifest, installed>>, pc'[p] \notin {"write", "record"}
        PROVE  Keeping'
    BY <1>3, <1>4, <2>2, OthersStay, KeepingFrame
  <2>3. CASE \E root \in Roots : \/ LockRoot(p, root) \/ JudgeStale(p, root)
                                 \/ TakeOver(p, root) \/ GiveUp(p, root)
    BY <2>2, <2>3 DEF LockRoot, JudgeStale, TakeOver, GiveUp, Wants, Unlocks, filesystem, TypeOK
  <2>4. CASE \E root \in Roots, f \in Files : ExecuteOp(p, root, f)
    BY <1>1, <1>3, <2>1, <2>4, ExecuteKeeping
  <2>5. CASE \E root \in Roots, f \in Files : FailOp(p, root, f)
    BY <1>1, <1>3, <1>4, <2>1, <2>5, SaveKeeping DEF FailOp, OpFails, HasOp
  <2>6. CASE \E root \in Roots : SaveManifest(p, root)
    BY <1>1, <1>3, <1>4, <2>1, <2>6, SaveKeeping DEF SaveManifest, RootDone
  <2>7. CASE (\E root \in Roots : LoseManifest(p, root)) \/ LoseBlock(p) \/ Kill(p)
    BY <1>1, <2>7 DEF LoseManifest, LoseBlock, Kill, Smooth
  <2>8. CASE Plan(p)
    BY <1>1, <1>3, <2>8, PlanKeeping
  <2>9. CASE Finish(p) \/ RecordAgents(p)
    BY <1>1, <1>3, <2>1, <2>9, FinishKeeping
  <2>10. CASE WriteAgents(p)
    BY <1>1, <1>3, <2>10, WriteAgentsKeeping
  <2>11. CASE (\E c \in Commands[p] : Begins(p, c)) \/ FailAgents(p) \/ Unlock(p)
    BY <2>2, <2>11 DEF Begins, FailAgents, Unlock, Unlocks, Ends, filesystem, TypeOK
  <2> QED
    BY <1>4, <2>3, <2>4, <2>5, <2>6, <2>7, <2>8, <2>9, <2>10, <2>11 DEF Moves, Step
<1>5. CASE (\E root \in Roots : Age(root)) \/ UNCHANGED vars
  BY <1>3, <1>5, KeepingFrame DEF Age, vars, filesystem, local, Same
<1> QED
  BY <1>2, <1>4, <1>5, NextMoves

LEMMA StaysInvInit == Init => StaysInv
<1> SUFFICES ASSUME Init PROVE Keeping
  BY DEF StaysInv
<1>1. \A root \in Roots : Readable(root) /\ \A f \in Files : content[root][f] # Mine
  BY MineIsNoHash, NoneAssumption DEF Init, Readable
<1> QED
  BY <1>1 DEF Init, Keeping, PlanKeeps, DoneKeeps

LEMMA KeptStays ==
  ASSUME TypeOK, StaysInv, EachShips, losses = 0
  PROVE  InstalledStays
<1> SUFFICES ASSUME stalls = 0, edits = 0, NEW i \in installed
             PROVE  /\ i[1] \in Loaded(i[2]).targets
                    /\ \A f \in Files :
                         (\A v \in Versions : f \in Ships[v][i[2]]) => content[i[2]][f] # None
  BY DEF InstalledStays
<1>1. i[1] \in Targets /\ i[2] \in Roots /\ i = <<i[1], i[2]>>
  BY DEF TypeOK
<1>2. Kept(i[1], i[2])
  BY <1>1 DEF StaysInv, Smooth, Keeping
<1> QED
  BY <1>2 DEF Kept, Common

\* If every release ships a file to every root, a target that was installed
\* stays installed, with its files, until it is uninstalled itself, whatever else is
\* installed, uninstalled or fails in a root it shares, by any number of runs
\* and releases and until one is killed (plan_install_root writes before it
\* removes, plan_uninstall_root keeps what another target uses, and
\* execute_root saves the manifest of what was done).
THEOREM InstalledAreKept == Spec => [](EachShips /\ losses = 0 => InstalledStays)
<1> DEFINE Inv == TypeOK /\ Ready /\ EditsInv /\ LockInv /\ RecordInv /\ StaysInv
<1>1. Init => Inv
  BY TypeOKInit, LockInvInit, RecordInvInit, StaysInvInit DEF Init, EditsInv, KeepsEdits
<1>2. Inv /\ [Next]_vars => Inv'
  BY TypeOKNext, ReadyNext, EditsInvNext, LockInvNext, RecordInvNext, StaysInvNext
<1>3. Inv => (EachShips /\ losses = 0 => InstalledStays)
  BY KeptStays
<1> QED
  BY <1>1, <1>2, <1>3, PTL DEF Spec
=============================================================================
