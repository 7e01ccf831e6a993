---------------------------- MODULE StoreProofs ----------------------------
(***************************************************************************)
(* What one process promises about the store it works on: the documents in *)
(* its memory and on disk, their revisions, and the history in the audit   *)
(* log.  With several processes on one state none of it holds: a put       *)
(* replaces what another process has written since the documents were read.*)
(***************************************************************************)
EXTENDS SessionProofs

\* The store root is served by one process.
OneProcess == \A p, q \in Procs : p = q

ReadPhases == {"open.config", "open.dims", "open.audit"}
EarlyPhases == {"create.config", "create.dims", "create.state"}
LatePhases == {"create.audit", "create.newline"}
LoggedPhases == {"put.audit", "put.newline"}
WritePhases == PutPhases \cup LoggedPhases

-----------------------------------------------------------------------------
(* Which documents a command in flight works on *)

\* The state behind an open model is on disk; the flag that dispatch tests is
\* that of both documents, and a mutation in flight has found it unset.
OpenState(p) ==
  backing[p] # None =>
    LET s == backing[p].state.id
    IN  /\ states[s] # None
        /\ states[s].locked = locked[p]
        /\ backing[p].state.locked = locked[p]
        /\ phase[p] \in WritePhases => ~ locked[p]

\* A state document in hand is the one on disk, or about to be the first.
DocsInHand(p) ==
  /\ phase[p] \in ReadPhases => states[docs[p].state.id] = docs[p].state
  /\ phase[p] \in EarlyPhases => states[docs[p].state.id] = None
  /\ phase[p] \in LatePhases => states[docs[p].state.id] = docs[p].state
  /\ phase[p] \in EarlyPhases \cup LatePhases => docs[p].state.revision = 0

Sole(p) == Filed(states) /\ OpenState(p) /\ DocsInHand(p)
SoleInv == TypeInv /\ \A p \in Procs : Sole(p)

\* The types a proof about one process keeps needing.
LEMMA TypesOf ==
  ASSUME TypeInv, NEW p \in Procs
  PROVE  /\ phase \in [Procs -> Phases] /\ phase[p] \in Phases
         /\ current \in [Procs -> RequestIds \cup {None}]
         /\ docs \in [Procs -> DocsOf]
         /\ next \in [Procs -> Model \cup {None}]
         /\ model \in [Procs -> Model \cup {None}]
         /\ backing \in [Procs -> Backing \cup {None}]
         /\ revision \in [Procs -> Nat] /\ revision[p] \in Nat
         /\ locked \in [Procs -> BOOLEAN] /\ locked[p] \in BOOLEAN
         /\ states \in [StateIds -> State \cup {None}]
         /\ audit \in [StateIds -> AuditFile]
         /\ InFlight(p)
BY DEF TypeInv, TypeOK, DiskOK, SessionOK, FlightOK

LEMMA IdsOf ==
  /\ \A b \in Backing : /\ b.state \in State /\ b.state.id \in StateIds
                        /\ b.state.locked \in BOOLEAN /\ b.state.revision \in Nat
                        /\ b.config \in Configuration /\ b.dims \in Dimensions
                        /\ b.config.id \in ConfigIds /\ b.dims.id \in DimSetIds
  /\ \A s \in State : /\ s # None /\ s.id \in StateIds
                      /\ s.locked \in BOOLEAN /\ s.revision \in Nat
  /\ \A c \in Configuration : c # None /\ c.id \in ConfigIds
  /\ \A d \in Dimensions : d # None /\ d.id \in DimSetIds
BY NoneAssumption DEF Backing, State, Configuration, Dimensions, NoneAssumption

\* A command that arrives finds its process between commands.
LEMMA AtOnceSole ==
  ASSUME TypeInv, NEW p \in Procs, Sole(p), NEW r \in RequestIds, NEW e,
         \/ ReplayCached(p, r, e) \/ ReplayAudited(p, r, e) \/ Import(p, r, e)
         \/ Status(p, r, e) \/ Refuse(p, r, e) \/ NoOp(p, r, e)
         \/ MutateEphemeral(p, r, e)
  PROVE  Sole(p)'
<1>1. UNCHANGED disk /\ UNCHANGED flight /\ phase[p] = "idle"
  BY DEF ReplayCached, ReplayAudited, Import, Status, Refuse, NoOp, MutateEphemeral,
         Mutates, Dispatches, Arrives
<1>2. backing'[p] = None \/ (backing'[p] = backing[p] /\ locked'[p] = locked[p])
  <2>1. CASE UNCHANGED session
    BY <2>1 DEF session
  <2>2. CASE MutateEphemeral(p, r, e)
    BY <2>2 DEF MutateEphemeral
  <2>3. CASE Import(p, r, e) /\ ~ UNCHANGED session
    BY <2>3, TypesOf DEF Import
  <2> QED BY <2>1, <2>2, <2>3 DEF ReplayCached, ReplayAudited, Status, Refuse, NoOp
<1>3. phase'[p] = "idle" /\ states' = states
  BY <1>1 DEF disk, flight
<1> QED
  BY <1>2, <1>3 DEF Sole, Filed, OpenState, DocsInHand, ReadPhases, EarlyPhases,
     LatePhases, LoggedPhases, WritePhases, PutPhases

LEMMA TakesFlightSole ==
  ASSUME TypeInv, NEW p \in Procs, Sole(p), NEW r \in RequestIds, NEW e,
         \/ OpenExisting(p, r, e)
         \/ \E cr, dr \in BOOLEAN : Create(p, r, e, cr, dr)
         \/ MutatePersisted(p, r, e)
  PROVE  Sole(p)'
<1>1. Arrives(p, r, e) /\ UNCHANGED disk /\ UNCHANGED session
  BY DEF OpenExisting, Create, MutatePersisted, Mutates, Dispatches
<1>2. states' = states /\ backing' = backing /\ locked' = locked
  BY <1>1 DEF disk, session
<1>3. e.op \in Op
  BY <1>1, ArrivesType
<1> USE DEF ReadPhases, EarlyPhases, LatePhases, LoggedPhases, WritePhases, PutPhases
<1>4. CASE OpenExisting(p, r, e)
  <2>1. e.op.state \in StateIds
    BY <1>3, <1>4 DEF OpenExisting, Op, OpenOp, MutationOp
  <2>2. states[e.op.state].id = e.op.state
    BY <1>4, <2>1, TypesOf DEF OpenExisting, Sole, Filed
  <2>3. phase'[p] = "open.config" /\ docs'[p].state = states[e.op.state]
    BY <1>4, TypesOf DEF OpenExisting, NoDocs
  <2> QED
    BY <1>2, <2>2, <2>3 DEF Sole, Filed, OpenState, DocsInHand
<1>5. ASSUME NEW cr \in BOOLEAN, NEW dr \in BOOLEAN, Create(p, r, e, cr, dr)
      PROVE  Sole(p)'
  <2>1. /\ phase'[p] = "create.config" /\ states[e.op.state] = None
        /\ docs'[p].state = EmptyState(e.op.state, e.op.config, e.op.locked)
    BY <1>5, TypesOf DEF Create
  <2> QED
    BY <1>2, <2>1 DEF Sole, Filed, OpenState, DocsInHand, EmptyState
<1>6. CASE MutatePersisted(p, r, e)
  <2>1. phase'[p] \in PutPhases /\ ~ locked[p]
    BY <1>6, TypesOf DEF MutatePersisted, Accepts
  <2> QED
    BY <1>2, <2>1 DEF Sole, Filed, OpenState, DocsInHand
<1> QED BY <1>4, <1>5, <1>6

\* A command that lands has nothing in hand.
LEMMA LandsSole ==
  ASSUME TypeInv, NEW p \in Procs, Sole(p), Lands(p), states' = states,
         backing'[p] # None =>
           /\ states[backing'[p].state.id] # None
           /\ states[backing'[p].state.id].locked = locked'[p]
           /\ backing'[p].state.locked = locked'[p]
  PROVE  Sole(p)'
<1>1. phase'[p] = "idle"
  BY TypesOf DEF Lands
<1> QED
  BY <1>1 DEF Sole, Filed, OpenState, DocsInHand, ReadPhases, EarlyPhases,
     LatePhases, LoggedPhases, WritePhases, PutPhases

\* The session switches to documents whose state is on disk.
LEMMA SwitchesSole ==
  ASSUME TypeInv, NEW p \in Procs, Sole(p), NEW replays, Switches(p, replays),
         Lands(p), states' = states, phase[p] \in {"open.audit"} \cup LatePhases
  PROVE  Sole(p)'
<1>1. docs[p] \in Backing /\ states[docs[p].state.id] = docs[p].state
  BY TypesOf DEF InFlight, Sole, DocsInHand, ReadPhases, LatePhases
<1>2. backing'[p] = docs[p] /\ locked'[p] = docs[p].state.locked
  BY TypesOf DEF Switches
<1> QED
  BY <1>1, <1>2, IdsOf, LandsSole

\* Reading documents and creating a state.
LEMMA OpensSole ==
  ASSUME TypeInv, NEW p \in Procs, Sole(p),
         \/ OpenReadConfig(p) \/ OpenReadDims(p) \/ OpenReadAudit(p)
         \/ CreatePutConfig(p) \/ CreatePutDims(p) \/ CreatePutState(p)
         \/ CreateAppendLine(p) \/ CreateAppendAudit(p)
  PROVE  Sole(p)'
<1> USE DEF ReadPhases, EarlyPhases, LatePhases, LoggedPhases, WritePhases, PutPhases
<1>1. CASE OpenFails(p)
  BY <1>1, LandsSole DEF OpenFails, Sole, OpenState, session, disk
<1>2. CASE OpenReadAudit(p)
  BY <1>2, SwitchesSole DEF OpenReadAudit, disk
<1>3. CASE CreateAppendAudit(p)
  BY <1>3, SwitchesSole DEF CreateAppendAudit
<1>4. CASE (OpenReadConfig(p) \/ OpenReadDims(p)) /\ ~ OpenFails(p)
  <2>1. /\ phase'[p] \in {"open.dims", "open.audit"} /\ phase[p] \in ReadPhases
        /\ docs'[p].state = docs[p].state
        /\ UNCHANGED disk /\ UNCHANGED session
    BY <1>4, TypesOf DEF OpenReadConfig, OpenReadDims, DocsOf
  <2> QED
    BY <2>1 DEF Sole, Filed, OpenState, DocsInHand, disk, session
<1>5. CASE CreatePutConfig(p) \/ CreatePutDims(p)
  <2>1. /\ phase'[p] \in EarlyPhases /\ phase[p] \in EarlyPhases
        /\ docs' = docs /\ states' = states /\ UNCHANGED session
    BY <1>5, TypesOf DEF CreatePutConfig, CreatePutDims
  <2> QED
    BY <2>1 DEF Sole, Filed, OpenState, DocsInHand, session
<1>6. CASE CreatePutState(p)
  <2>1. /\ phase[p] = "create.state" /\ phase'[p] = "create.audit"
        /\ states' = [states EXCEPT ![docs[p].state.id] = docs[p].state]
        /\ docs' = docs /\ UNCHANGED session
    BY <1>6, TypesOf DEF CreatePutState
  <2>2. docs[p] \in Backing /\ states[docs[p].state.id] = None
    BY <2>1, TypesOf DEF InFlight, Sole, DocsInHand
  <2>3. states'[docs[p].state.id] = docs[p].state /\ Filed(states)'
    BY <2>1, <2>2, IdsOf, TypesOf DEF Sole, Filed
  <2>4. backing[p] # None => backing[p].state.id # docs[p].state.id
    BY <2>2 DEF Sole, OpenState
  <2> QED
    BY <2>1, <2>3, <2>4, TypesOf DEF Sole, OpenState, DocsInHand, session
<1>7. CASE CreateAppendLine(p)
  <2>1. /\ phase'[p] \in LatePhases /\ phase[p] \in LatePhases
        /\ docs' = docs /\ states' = states /\ UNCHANGED session
    BY <1>7, TypesOf DEF CreateAppendLine
  <2> QED
    BY <2>1 DEF Sole, Filed, OpenState, DocsInHand, session
<1> QED
  BY <1>1, <1>2, <1>3, <1>4, <1>5, <1>6, <1>7

\* A mutation keeps the identity of the documents it writes (merge::split).
LEMMA PutsSole ==
  ASSUME TypeInv, NEW p \in Procs, Sole(p),
         PutConfig(p) \/ PutDims(p) \/ PutState(p) \/ AppendLine(p) \/ AppendAudit(p)
  PROVE  Sole(p)'
<1> USE DEF ReadPhases, EarlyPhases, LatePhases, LoggedPhases, WritePhases, PutPhases
<1>1. CASE PutConfig(p) \/ PutDims(p) \/ AppendLine(p)
  <2>1. /\ phase'[p] \in WritePhases /\ phase[p] \in WritePhases
        /\ states' = states /\ UNCHANGED session
    BY <1>1, TypesOf DEF PutConfig, PutDims, AppendLine
  <2> QED
    BY <2>1 DEF Sole, Filed, OpenState, DocsInHand, session
<1>2. CASE PutState(p)
  <2> DEFINE old == backing[p].state
             new == SplitState(next[p], old, revision[p] + 1)
  <2>1. /\ phase[p] = "put.state" /\ phase'[p] = "put.audit"
        /\ states' = [states EXCEPT ![new.id] = new]
        /\ backing'[p].state = new
        /\ UNCHANGED <<locked, docs>>
    BY <1>2, TypesOf DEF PutState
  <2>2. backing[p] \in Backing /\ next[p] \in Model
    BY <2>1, TypesOf DEF InFlight
  <2>3. new.id = old.id /\ new.locked = old.locked /\ new # None /\ old.id \in StateIds
    <3>1. old \in State /\ old.id \in StateIds
      BY <2>2, IdsOf
    <3>2. new.id = old.id /\ new.locked = old.locked
      BY <3>1 DEF SplitState, State
    <3>3. new \in State
      <4>1. backing[p].config \in Configuration /\ backing[p].dims \in Dimensions
        BY <2>2, IdsOf
      <4>2. revision[p] + 1 \in Nat
        BY TypesOf
      <4> QED BY <2>2, <3>1, <4>1, <4>2, SplitType
    <3> QED BY <3>1, <3>2, <3>3, IdsOf
  <2> HIDE DEF new
  <2>4. states'[old.id] = new /\ Filed(states)'
    BY <2>1, <2>3, TypesOf DEF Sole, Filed
  <2> QED
    BY <2>1, <2>2, <2>3, <2>4, NoneAssumption
       DEF Sole, OpenState, DocsInHand, NoneAssumption
<1>3. CASE AppendAudit(p)
  BY <1>3, LandsSole DEF AppendAudit, Sole, OpenState
<1> QED
  BY <1>1, <1>2, <1>3

LEMMA FaultSole ==
  ASSUME TypeInv, NEW p \in Procs, Sole(p), Fault(p) \/ Start(p)
  PROVE  Sole(p)'
<1>1. CASE OpenError(p) \/ PutError(p) \/ CreateAuditError(p) \/ AuditError(p)
  <2>1. Lands(p) /\ states' = states /\ UNCHANGED session
    BY <1>1 DEF OpenError, PutError, CreateAuditError, AuditError, disk
  <2> QED
    BY <2>1, LandsSole DEF Sole, OpenState, session
<1>2. CASE ReplaysError(p)
  BY <1>2, SwitchesSole DEF ReplaysError, disk
<1>3. CASE Crash(p) \/ Start(p)
  <2>1. /\ phase'[p] \in {"down", "idle"} /\ (phase[p] = "down" \/ backing'[p] = None)
        /\ states' = states
        /\ Start(p) => UNCHANGED session
    BY <1>3, TypesOf DEF Crash, Start, disk
  <2>2. phase'[p] \in {"down", "idle"}
    BY <1>3, TypesOf DEF Crash, Start
  <2> QED
    BY <1>3, <2>1, <2>2 DEF Crash, Sole, Filed, OpenState, DocsInHand, ReadPhases,
       EarlyPhases, LatePhases, LoggedPhases, WritePhases, PutPhases, session
<1> QED
  BY <1>1, <1>2, <1>3 DEF Fault

LEMMA SoleNext ==
  ASSUME OneProcess, SoleInv, [Next]_vars
  PROVE  SoleInv'
<1>1. TypeInv /\ TypeInv'
  BY NextType DEF SoleInv
<1>2. CASE UNCHANGED vars
  BY <1>1, <1>2 DEF vars, disk, session, flight, SoleInv, Sole, Filed, OpenState,
     DocsInHand
<1>3. ASSUME NEW p \in Procs, Start(p) \/ Step(p) \/ Fault(p) PROVE Sole(p)'
  BY <1>1, <1>3, OpensSole, PutsSole, FaultSole DEF SoleInv, Step
<1>4. ASSUME NEW p \in Procs, NEW r \in RequestIds, NEW e,
             Receive(p, r, e) \/ CreateReadError(p, r, e)
      PROVE  Sole(p)'
  <2>1. CASE OpenCreate(p, r, e) \/ CreateReadError(p, r, e)
    <3>1. \E cr, dr \in BOOLEAN : Create(p, r, e, cr, dr)
      BY <2>1 DEF OpenCreate, CreateReadError
    <3> QED BY <1>1, <3>1, TakesFlightSole DEF SoleInv
  <2> QED BY <1>1, <1>4, <2>1, AtOnceSole, TakesFlightSole DEF SoleInv, Receive
<1> QED
  BY <1>1, <1>2, <1>3, <1>4 DEF Next, SoleInv, OneProcess

LEMMA SoleInit == Init => SoleInv
<1> SUFFICES ASSUME Init PROVE SoleInv
  OBVIOUS
<1>1. TypeInv
  BY InitType
<1>2. Filed(states)
  BY CommittedAssumption DEF Init, CommittedAssumption
<1> QED
  BY <1>1, <1>2 DEF Init, SoleInv, Sole, OpenState, DocsInHand, ReadPhases, EarlyPhases,
     LatePhases

-----------------------------------------------------------------------------
(* Action properties of the state files *)

\* Only open_model and apply_mutation write a state file, one file in a step.
LEMMA StatesWritten ==
  ASSUME Next
  PROVE  states' = states \/ \E p \in Procs : CreatePutState(p) \/ PutState(p)
<1>1. PICK p \in Procs :
        \/ Start(p) \/ Step(p) \/ Fault(p)
        \/ \E r \in RequestIds : \E e \in Sendable(r) :
             Receive(p, r, e) \/ CreateReadError(p, r, e)
  BY DEF Next
<1>2. CASE Start(p) \/ Fault(p)
  BY <1>2 DEF Start, Fault, OpenError, ReplaysError, PutError, CreateAuditError,
     AuditError, Crash, disk
<1>3. CASE Step(p)
  BY <1>3 DEF Step, OpenReadConfig, OpenReadDims, OpenReadAudit, OpenFails,
     CreatePutConfig, CreatePutDims, CreatePutState, CreateAppendLine,
     CreateAppendAudit, PutConfig, PutDims, PutState, AppendLine, AppendAudit, disk
<1>4. ASSUME NEW r \in RequestIds, NEW e, Receive(p, r, e) \/ CreateReadError(p, r, e)
      PROVE  states' = states
  BY <1>4 DEF Receive, CreateReadError, Create, ReplayCached, ReplayAudited, Import,
     Status, OpenExisting, OpenCreate, Refuse, NoOp, MutateEphemeral, MutatePersisted,
     disk
<1> QED
  BY <1>1, <1>2, <1>3, <1>4

\* What the two writes do: one puts a state that was not there, the other the
\* state of the model that is written, which is not locked.
LEMMA WhatIsWritten ==
  ASSUME SoleInv, NEW p \in Procs, NEW s \in StateIds, states[s] # None
  PROVE  /\ CreatePutState(p) => states'[s] = states[s]
         /\ PutState(p) /\ states'[s] # states[s] =>
              /\ backing[p].state.id = s
              /\ ~ states[s].locked
              /\ states'[s] = SplitState(next[p], backing[p].state, revision[p] + 1)
<1>1. Sole(p) /\ TypeInv
  BY DEF SoleInv
<1>2. ASSUME CreatePutState(p) PROVE states'[s] = states[s]
  <2>1. docs[p] \in Backing /\ states[docs[p].state.id] = None
    BY <1>1, <1>2, TypesOf DEF CreatePutState, InFlight, Sole, DocsInHand, EarlyPhases
  <2> QED
    BY <1>1, <1>2, <2>1, TypesOf DEF CreatePutState
<1>3. ASSUME PutState(p), states'[s] # states[s]
      PROVE  /\ backing[p].state.id = s
             /\ ~ states[s].locked
             /\ states'[s] = SplitState(next[p], backing[p].state, revision[p] + 1)
  <2> DEFINE new == SplitState(next[p], backing[p].state, revision[p] + 1)
  <2>1. phase[p] = "put.state" /\ backing[p] \in Backing
    BY <1>1, <1>3, TypesOf DEF PutState, InFlight, PutPhases
  <2>2. states' = [states EXCEPT ![new.id] = new]
    BY <1>3 DEF PutState
  <2>3. new.id = backing[p].state.id
    BY <2>1 DEF SplitState, Backing, State
  <2> HIDE DEF new
  <2>4. backing[p].state.id = s /\ states'[s] = new
    BY <1>1, <1>3, <2>2, <2>3, TypesOf
  <2>5. ~ states[s].locked
    BY <1>1, <2>1, <2>4, NoneAssumption
       DEF Sole, OpenState, WritePhases, PutPhases, NoneAssumption
  <2> QED BY <2>4, <2>5 DEF new
<1> QED BY <1>2, <1>3

\* A process that is about to write a layer works on a state that is not locked.
LEMMA WritersHoldUnlocked ==
  ASSUME SoleInv, NEW p \in Procs, phase[p] \in WritePhases
  PROVE  backing[p] # None /\ ~ states[backing[p].state.id].locked
BY TypesOf DEF SoleInv, Sole, OpenState, InFlight, WritePhases, LoggedPhases

LEMMA SoleHolds == ASSUME OneProcess PROVE Spec => []SoleInv
<1>1. SoleInv /\ [Next]_vars => SoleInv'
  BY SoleNext
<1> QED
  BY <1>1, SoleInit, PTL DEF Spec

\* A locked or archived model is never written, however a mutation reaches it:
\* the flag dispatch tests is, with one process, that of the document on disk,
\* whatever is opened, imported, killed or fails in between.
THEOREM LockedStaysUntouched == ASSUME OneProcess PROVE Spec => LockedIsUntouched
<1> DEFINE A == \A s \in StateIds : states[s] # None /\ states[s].locked =>
             states'[s] = states[s] /\
               \A p \in Procs : phase[p] = "put.config" \/ phase[p] = "put.dims" =>
                 backing[p].state.id # s
<1>1. SoleInv /\ [Next]_vars => [A]_vars
  <2> SUFFICES ASSUME SoleInv, Next, NEW s \in StateIds,
                      states[s] # None, states[s].locked
               PROVE  /\ states'[s] = states[s]
                      /\ \A p \in Procs : phase[p] = "put.config" \/ phase[p] = "put.dims"
                           => backing[p].state.id # s
    OBVIOUS
  <2>1. states'[s] = states[s]
    BY StatesWritten, WhatIsWritten
  <2>2. ASSUME NEW p \in Procs, phase[p] = "put.config" \/ phase[p] = "put.dims"
        PROVE  backing[p].state.id # s
    BY <2>2, WritersHoldUnlocked DEF WritePhases, PutPhases
  <2> QED BY <2>1, <2>2
<1>2. Spec => []SoleInv
  BY SoleHolds
<1> QED
  BY <1>1, <1>2, PTL DEF Spec, LockedIsUntouched

-----------------------------------------------------------------------------
(* The history in the audit log *)

\* Only a state that is there has a log.
LoggedAreThere == \A s \in StateIds : states[s] = None => Lines(s) = <<>>

\* The state file is at the revision in memory, or one ahead of it once the
\* files of a mutation are written and its line is not; the lines do not go
\* beyond the revision in memory, where the next one starts.
Versions(p) ==
  /\ backing[p] # None =>
       LET s == backing[p].state.id
       IN  /\ states[s].revision \in {revision[p], revision[p] + 1}
           /\ phase[p] \in LoggedPhases => states[s].revision = revision[p] + 1
           /\ phase[p] # "put.newline" =>
                \A i \in 1 .. Len(Lines(s)) : Lines(s)[i].after <= revision[p]
  /\ phase[p] = "create.audit" => Lines(docs[p].state.id) = <<>>

ChainInv ==
  SoleInv /\ LoggedAreThere /\ AuditChain /\ \A p \in Procs : Versions(p)

\* An append changes no line that is there, and adds its own at the end.
LEMMA LinesAppended ==
  ASSUME NEW log \in AuditFile, NEW line \in Line
  PROVE  /\ LineWritten(log, line).lines = Append(log.lines, line)
         /\ Appended(log, line).lines = Append(log.lines, line)
         /\ Terminated(log).lines = log.lines
         /\ \A new \in Killed(log, line) :
              new.lines \in {log.lines, Append(log.lines, line)}
         /\ "unterminated" \notin Tears =>
              \A new \in Torn(log, line) : new.lines = log.lines
<1>1. LineWritten(log, line).lines = Append(log.lines, line)
  BY DEF LineWritten
<1>2. Appended(log, line).lines = Append(log.lines, line)
  BY DEF LineWritten, Appended, Terminated
<1>3. Terminated(log).lines = log.lines /\ [log EXCEPT !.tail = "garbled"].lines = log.lines
  BY DEF Terminated, AuditFile
<1>4. \A new \in Killed(log, line) :
        new.lines \in {log.lines, Append(log.lines, line)}
  BY <1>1, <1>2, <1>3 DEF Killed, Torn
<1>5. "unterminated" \notin Tears => \A new \in Torn(log, line) : new.lines = log.lines
  BY <1>3 DEF Torn
<1> QED BY <1>1, <1>2, <1>3, <1>4, <1>5

\* A line that starts where the log ends, and ends where the state is, keeps
\* the history.
LEMMA LogChain ==
  ASSUME ChainInv, states' = states, NEW s \in StateIds, NEW line \in Line,
         states[s] # None,
         \A t \in StateIds \ {s} : Lines(t)' = Lines(t),
         Lines(s)' \in {Lines(s), Append(Lines(s), line)},
         line.after = line.before + 1 \/ line.after = 0,
         \A i \in 1 .. Len(Lines(s)) : Lines(s)[i].after <= line.before,
         line.after <= states[s].revision
  PROVE  LoggedAreThere' /\ AuditChain'
<1>1. LoggedAreThere'
  BY DEF ChainInv, LoggedAreThere
<1>2. \A t \in StateIds : Lines(t)' = Lines(t) =>
        \A i \in 1 .. Len(Lines(t)') :
          LET l == Lines(t)'[i]
          IN  /\ l.after = l.before + 1 \/ l.after = 0
              /\ i > 1 => Lines(t)'[i - 1].after <= l.before
              /\ l.after <= states'[t].revision
  BY DEF ChainInv, AuditChain
<1>3. CASE Lines(s)' = Lines(s)
  <2>1. \A t \in StateIds : Lines(t)' = Lines(t)
    BY <1>3
  <2> QED BY <1>1, <1>2, <2>1 DEF AuditChain
<1>4. CASE Lines(s)' = Append(Lines(s), line)
  <2> DEFINE n == Len(Lines(s))
             new == Lines(s)'
  <2>1. Lines(s) \in Seq(Line) /\ n \in Nat
    BY TypesOf, LenProperties DEF ChainInv, SoleInv, Lines, AuditFile, TypeInv, TypeOK, DiskOK
  <2>2. /\ Len(new) = n + 1
        /\ \A i \in 1 .. n : new[i] = Lines(s)[i]
        /\ new[n + 1] = line
    BY <1>4, <2>1, AppendProperties
  <2> HIDE DEF n, new
  <2>3. ASSUME NEW i \in 1 .. n + 1
        PROVE  /\ new[i].after = new[i].before + 1 \/ new[i].after = 0
               /\ i > 1 => new[i - 1].after <= new[i].before
               /\ new[i].after <= states[s].revision
    <3>1. CASE i = n + 1
      <4>1. i > 1 => i - 1 \in 1 .. n
        BY <2>1, <3>1
      <4> QED BY <2>2, <3>1, <4>1 DEF n
    <3>2. CASE i \in 1 .. n
      <4>1. i > 1 => i - 1 \in 1 .. n
        BY <2>1, <3>2
      <4> QED BY <2>2, <3>2, <4>1 DEF n, ChainInv, AuditChain
    <3> QED BY <2>1, <3>1, <3>2
  <2>4. \A t \in StateIds \ {s} : Lines(t)' = Lines(t)
    OBVIOUS
  <2> QED BY <1>1, <1>2, <2>2, <2>3, <2>4 DEF AuditChain, new
<1> QED BY <1>3, <1>4

\* A step that leaves states and logs alone, and the model open or closes it.
LEMMA QuietVersions ==
  ASSUME ChainInv, NEW p \in Procs, audit' = audit, states' = states,
         phase[p] # "put.newline",
         phase'[p] \notin LoggedPhases \cup {"create.audit"},
         backing'[p] # None => backing'[p] = backing[p] /\ revision'[p] = revision[p]
  PROVE  LoggedAreThere' /\ AuditChain' /\ Versions(p)'
<1>1. LoggedAreThere' /\ AuditChain'
  BY DEF ChainInv, LoggedAreThere, AuditChain, Lines
<1> QED
  BY <1>1 DEF ChainInv, Versions, LoggedPhases, Lines

\* The session switches to documents in hand: their state is the one on disk,
\* and the log does not go beyond it.
LEMMA SwitchVersions ==
  ASSUME SoleInv, NEW p \in Procs, NEW replays, Switches(p, replays), Lands(p),
         states' = states, phase[p] \in {"open.audit"} \cup LatePhases, AuditChain'
  PROVE  Versions(p)'
<1>1. docs[p] \in Backing /\ states[docs[p].state.id] = docs[p].state
  BY TypesOf DEF SoleInv, InFlight, Sole, DocsInHand, ReadPhases, LatePhases
<1>2. backing'[p] = docs[p] /\ revision'[p] = docs[p].state.revision /\ phase'[p] = "idle"
  BY TypesOf DEF SoleInv, Switches, Lands
<1>3. docs[p].state.id \in StateIds
  BY <1>1, IdsOf
<1> QED
  BY <1>1, <1>2, <1>3 DEF Versions, LoggedPhases, AuditChain

LEMMA ReceiveChain ==
  ASSUME ChainInv, NEW p \in Procs, NEW r \in RequestIds, NEW e,
         Receive(p, r, e) \/ CreateReadError(p, r, e)
  PROVE  LoggedAreThere' /\ AuditChain' /\ Versions(p)'
<1>1. TypeInv
  BY DEF ChainInv, SoleInv
<1>2. phase[p] = "idle" /\ UNCHANGED disk
  BY DEF Receive, CreateReadError, Create, ReplayCached, ReplayAudited, Import, Status,
     OpenExisting, OpenCreate, Refuse, NoOp, MutateEphemeral, MutatePersisted, Mutates,
     Dispatches, Arrives
<1>3. phase'[p] \notin LoggedPhases \cup {"create.audit"}
  <2>1. CASE UNCHANGED flight
    BY <1>2, <2>1 DEF flight, LoggedPhases
  <2>2. CASE OpenExisting(p, r, e)
    BY <1>1, <2>2, TypesOf DEF OpenExisting, LoggedPhases
  <2>3. CASE OpenCreate(p, r, e) \/ CreateReadError(p, r, e)
    BY <1>1, <2>3, TypesOf DEF OpenCreate, CreateReadError, Create, LoggedPhases
  <2>4. CASE MutatePersisted(p, r, e)
    BY <1>1, <2>4, TypesOf DEF MutatePersisted, LoggedPhases
  <2> QED
    BY <2>1, <2>2, <2>3, <2>4 DEF Receive, ReplayCached, ReplayAudited, Import, Status,
       Refuse, NoOp, MutateEphemeral
<1>4. backing'[p] # None => backing'[p] = backing[p] /\ revision'[p] = revision[p]
  <2>1. CASE UNCHANGED session
    BY <2>1 DEF session
  <2>2. CASE Import(p, r, e) /\ ~ UNCHANGED session
    BY <1>1, <2>2, TypesOf DEF Import
  <2>3. CASE MutateEphemeral(p, r, e)
    BY <2>3 DEF MutateEphemeral, Persisted
  <2> QED
    BY <2>1, <2>2, <2>3 DEF Receive, CreateReadError, Create, ReplayCached,
       ReplayAudited, Status, OpenExisting, OpenCreate, Refuse, NoOp, MutatePersisted
<1> QED
  BY <1>2, <1>3, <1>4, QuietVersions DEF disk

\* The steps of a command that write neither its state nor its line.
LEMMA StepsChain ==
  ASSUME ChainInv, NEW p \in Procs,
         \/ OpenReadConfig(p) \/ OpenReadDims(p) \/ OpenReadAudit(p)
         \/ CreatePutConfig(p) \/ CreatePutDims(p)
         \/ PutConfig(p) \/ PutDims(p)
         \/ OpenError(p) \/ ReplaysError(p) \/ PutError(p) \/ Start(p)
  PROVE  LoggedAreThere' /\ AuditChain' /\ Versions(p)'
<1>1. TypeInv /\ SoleInv
  BY DEF ChainInv, SoleInv
<1>2. CASE OpenReadAudit(p) \/ ReplaysError(p)
  <2>1. /\ \E replays : Switches(p, replays)
        /\ Lands(p) /\ phase[p] = "open.audit" /\ audit' = audit /\ states' = states
    BY <1>2 DEF OpenReadAudit, ReplaysError, disk
  <2>2. LoggedAreThere' /\ AuditChain'
    BY <2>1 DEF ChainInv, LoggedAreThere, AuditChain, Lines
  <2> QED BY <1>1, <2>1, <2>2, SwitchVersions
<1>3. CASE OpenReadConfig(p) \/ OpenReadDims(p)
  <2>1. phase[p] # "put.newline" /\ UNCHANGED disk /\ UNCHANGED session
    BY <1>3 DEF OpenReadConfig, OpenReadDims, OpenFails
  <2>2. phase'[p] \in {"idle", "open.dims", "open.audit"}
    BY <1>1, <1>3, TypesOf DEF OpenReadConfig, OpenReadDims, OpenFails, Lands
  <2> QED BY <2>1, <2>2, QuietVersions DEF disk, session, LoggedPhases
<1>4. CASE CreatePutConfig(p) \/ CreatePutDims(p) \/ PutConfig(p) \/ PutDims(p)
  <2>1. /\ phase[p] # "put.newline" /\ audit' = audit /\ states' = states
        /\ UNCHANGED session
    BY <1>4 DEF CreatePutConfig, CreatePutDims, PutConfig, PutDims
  <2>2. phase'[p] \in {"create.dims", "create.state", "put.dims", "put.state"}
    BY <1>1, <1>4, TypesOf DEF CreatePutConfig, CreatePutDims, PutConfig, PutDims
  <2> QED BY <2>1, <2>2, QuietVersions DEF session, LoggedPhases
<1>5. CASE OpenError(p) \/ PutError(p) \/ Start(p)
  <2>1. phase[p] # "put.newline" /\ UNCHANGED disk /\ UNCHANGED session
    BY <1>5 DEF OpenError, PutError, PutPhases, Start
  <2>2. phase'[p] = "idle"
    BY <1>1, <1>5, TypesOf DEF OpenError, PutError, Start, Lands
  <2> QED BY <2>1, <2>2, QuietVersions DEF disk, session, LoggedPhases
<1> QED BY <1>2, <1>3, <1>4, <1>5

\* A state is put before its first line is written.
LEMMA CreatePutStateChain ==
  ASSUME OneProcess, ChainInv, NEW p \in Procs, CreatePutState(p)
  PROVE  LoggedAreThere' /\ AuditChain' /\ Versions(p)'
<1> DEFINE s == docs[p].state.id
<1>1. TypeInv /\ Sole(p)
  BY DEF ChainInv, SoleInv
<1>2. docs[p] \in Backing /\ states[s] = None /\ docs[p].state \in State /\ s \in StateIds
  BY <1>1, TypesOf, IdsOf DEF CreatePutState, InFlight, Sole, DocsInHand, EarlyPhases
<1>3. Lines(s) = <<>>
  BY <1>2 DEF ChainInv, LoggedAreThere
<1>4. /\ states' = [states EXCEPT ![s] = docs[p].state]
      /\ audit' = audit /\ docs' = docs /\ UNCHANGED session
      /\ phase'[p] = "create.audit"
  BY <1>1, TypesOf DEF CreatePutState
<1>5. /\ \A t \in StateIds : Lines(t)' = Lines(t)
      /\ \A t \in StateIds \ {s} : states'[t] = states[t]
      /\ states'[s] # None
  BY <1>1, <1>2, <1>4, TypesOf, IdsOf DEF Lines
<1>6. LoggedAreThere' /\ AuditChain'
  <2>1. LoggedAreThere'
    BY <1>3, <1>5 DEF ChainInv, LoggedAreThere
  <2>2. AuditChain'
    <3>1. \A i : i \notin 1 .. Len(Lines(s))
      BY <1>3
    <3> QED BY <1>5, <3>1 DEF ChainInv, AuditChain
  <2> QED BY <2>1, <2>2
<1>7. Versions(p)'
  <2>1. backing[p] # None =>
          backing[p].state.id \in StateIds \ {s} /\ phase[p] # "put.newline"
    BY <1>1, <1>2, TypesOf, IdsOf DEF Sole, OpenState, CreatePutState
  <2> HIDE DEF s
  <2>2. Lines(docs[p].state.id)' = <<>>
    BY <1>2, <1>3, <1>4, <1>5 DEF s, Lines
  <2> QED
    BY <1>4, <1>5, <2>1, <2>2 DEF ChainInv, Versions, LoggedPhases, session
<1> QED BY <1>6, <1>7

\* The state file gets the revision its line is going to end in.
LEMMA PutStateChain ==
  ASSUME ChainInv, NEW p \in Procs, PutState(p)
  PROVE  LoggedAreThere' /\ AuditChain' /\ Versions(p)'
<1> DEFINE s == backing[p].state.id
           new == SplitState(next[p], backing[p].state, revision[p] + 1)
<1>1. TypeInv /\ Sole(p) /\ Versions(p)
  BY DEF ChainInv, SoleInv
<1>2. /\ phase[p] = "put.state" /\ phase'[p] = "put.audit"
      /\ states' = [states EXCEPT ![new.id] = new]
      /\ backing'[p].state = new
      /\ UNCHANGED <<audit, revision>>
  BY <1>1, TypesOf DEF PutState
<1>3. /\ backing[p] \in Backing /\ next[p] \in Model /\ s \in StateIds
      /\ backing[p].state \in State
  BY <1>1, <1>2, TypesOf, IdsOf DEF InFlight, PutPhases
<1>4. new.id = s /\ new.revision = revision[p] + 1
  BY <1>3 DEF SplitState, State
<1>5. new # None
  <2>1. revision[p] + 1 \in Nat
    BY <1>1, TypesOf
  <2>2. new \in State
    BY <1>3, <2>1, SplitType, IdsOf
  <2> QED BY <2>2, IdsOf
<1> HIDE DEF new
<1>6. /\ states'[s] = new /\ \A t \in StateIds \ {s} : states'[t] = states[t]
      /\ \A t \in StateIds : Lines(t)' = Lines(t)
  BY <1>1, <1>2, <1>3, <1>4, TypesOf DEF Lines
<1>7. \A i \in 1 .. Len(Lines(s)) : Lines(s)[i].after <= revision[p]
  BY <1>1, <1>2, <1>3, NoneAssumption DEF Versions, NoneAssumption
<1>8. LoggedAreThere'
  BY <1>5, <1>6 DEF ChainInv, LoggedAreThere
<1>9. AuditChain'
  <2>1. \A i \in 1 .. Len(Lines(s)) : Lines(s)[i].after <= revision[p] + 1
    <3> TAKE i \in 1 .. Len(Lines(s))
    <3>1. Lines(s)[i].after \in Nat
      <4>1. Lines(s) \in Seq(Line)
        BY <1>1, <1>3, TypesOf DEF Lines, AuditFile
      <4>2. Lines(s)[i] \in Line
        BY <4>1, ElementOfSeq
      <4> QED BY <4>2 DEF Line
    <3> QED BY <1>1, <1>7, <3>1, TypesOf
  <2> QED BY <1>4, <1>6, <2>1 DEF ChainInv, AuditChain
<1>10. Versions(p)'
  <2>1. backing'[p].state.id = s
    BY <1>2, <1>4
  <2> HIDE DEF s
  <2> QED BY <1>2, <1>4, <1>6, <1>7, <2>1, <1>3 DEF Versions, LoggedPhases
<1> QED BY <1>8, <1>9, <1>10

\* The lines two commands write, where the log and the state are.
LEMMA LineOfStep ==
  ASSUME ChainInv, NEW p \in Procs
  PROVE  /\ phase[p] = "put.audit" =>
              LET s == backing[p].state.id
                  line == MutationLine(p)
              IN  /\ s \in StateIds /\ states[s] # None /\ line \in Line
                  /\ states[s].revision = revision[p] + 1
                  /\ line.after = line.before + 1 /\ line.after = states[s].revision
                  /\ \A i \in 1 .. Len(Lines(s)) : Lines(s)[i].after <= line.before
         /\ phase[p] = "create.audit" =>
              LET s == docs[p].state.id
                  line == CreateLine(p)
              IN  /\ s \in StateIds /\ states[s] = docs[p].state /\ line \in Line
                  /\ states[s] # None
                  /\ line.after = 0 /\ line.after = states[s].revision
                  /\ \A i \in 1 .. Len(Lines(s)) : Lines(s)[i].after <= line.before
<1>1. TypeInv /\ Sole(p) /\ Versions(p)
  BY DEF ChainInv, SoleInv
<1>2. ASSUME phase[p] = "put.audit"
      PROVE  LET s == backing[p].state.id
                 line == MutationLine(p)
             IN  /\ s \in StateIds /\ states[s] # None /\ line \in Line
                 /\ states[s].revision = revision[p] + 1
                 /\ line.after = line.before + 1 /\ line.after = states[s].revision
                 /\ \A i \in 1 .. Len(Lines(s)) : Lines(s)[i].after <= line.before
  <2>1. backing[p] \in Backing /\ backing[p] # None /\ current[p] \in RequestIds
    BY <1>1, <1>2, TypesOf DEF InFlight
  <2>2. MutationLine(p) \in Line
    BY <1>1, <2>1, TypesOf DEF MutationLine, Line
  <2>3. backing[p].state.id \in StateIds
    BY <2>1, IdsOf
  <2> QED
    BY <1>1, <1>2, <2>1, <2>2, <2>3 DEF Sole, OpenState, Versions, LoggedPhases, MutationLine
<1>3. ASSUME phase[p] = "create.audit"
      PROVE  LET s == docs[p].state.id
                 line == CreateLine(p)
             IN  /\ s \in StateIds /\ states[s] = docs[p].state /\ line \in Line
                 /\ states[s] # None
                 /\ line.after = 0 /\ line.after = states[s].revision
                 /\ \A i \in 1 .. Len(Lines(s)) : Lines(s)[i].after <= line.before
  <2>1. docs[p] \in Backing /\ current[p] \in RequestIds
    BY <1>1, <1>3, TypesOf DEF InFlight
  <2>2. /\ docs[p].state.id \in StateIds /\ docs[p].state # None
        /\ states[docs[p].state.id] = docs[p].state /\ docs[p].state.revision = 0
    BY <1>1, <1>3, <2>1, IdsOf DEF Sole, DocsInHand, LatePhases
  <2>3. \A i : i \notin 1 .. Len(Lines(docs[p].state.id))
    <3>1. Lines(docs[p].state.id) = <<>>
      BY <1>1, <1>3 DEF Versions
    <3> QED BY <3>1
  <2>4. CreateLine(p) \in Line
    BY <2>1 DEF CreateLine, Line
  <2> QED BY <2>2, <2>3, <2>4 DEF CreateLine
<1> QED BY <1>2, <1>3

\* What an append may leave in the files, whether it completes or not.
Logs(s, line) ==
  \E new \in {Appended(audit[s], line), Terminated(audit[s]), LineWritten(audit[s], line)}
             \cup Killed(audit[s], line) :
    audit' = [audit EXCEPT ![s] = new]

LEMMA LogsChain ==
  ASSUME ChainInv, NEW p \in Procs, states' = states,
         \/ phase[p] = "put.audit" /\ Logs(backing[p].state.id, MutationLine(p))
         \/ phase[p] = "create.audit" /\ Logs(docs[p].state.id, CreateLine(p))
  PROVE  LoggedAreThere' /\ AuditChain'
<1>1. ASSUME NEW s \in StateIds, NEW line \in Line, states[s] # None, Logs(s, line),
             line.after = line.before + 1 \/ line.after = 0,
             \A i \in 1 .. Len(Lines(s)) : Lines(s)[i].after <= line.before,
             line.after = states[s].revision
      PROVE  LoggedAreThere' /\ AuditChain'
  <2>1. audit[s] \in AuditFile
    BY TypesOf DEF ChainInv, SoleInv, TypeInv, TypeOK, DiskOK
  <2>2. PICK new \in {Appended(audit[s], line), Terminated(audit[s]),
                      LineWritten(audit[s], line)} \cup Killed(audit[s], line) :
          audit' = [audit EXCEPT ![s] = new]
    BY <1>1 DEF Logs
  <2>3. new.lines \in {audit[s].lines, Append(audit[s].lines, line)}
    BY <2>1, <2>2, LinesAppended
  <2>4. /\ Lines(s)' \in {Lines(s), Append(Lines(s), line)}
        /\ \A t \in StateIds \ {s} : Lines(t)' = Lines(t)
    BY <2>2, <2>3 DEF Lines, ChainInv, SoleInv, TypeInv, TypeOK, DiskOK
  <2>5. line.after <= states[s].revision
    BY <1>1 DEF Line
  <2> QED BY <1>1, <2>4, <2>5, LogChain
<1>2. CASE phase[p] = "put.audit" /\ Logs(backing[p].state.id, MutationLine(p))
  BY <1>1, <1>2, LineOfStep
<1>3. CASE phase[p] = "create.audit" /\ Logs(docs[p].state.id, CreateLine(p))
  BY <1>1, <1>3, LineOfStep
<1> QED BY <1>2, <1>3

\* The newline of a line that has been written.
LEMMA NewlineChain ==
  ASSUME ChainInv, NEW s \in StateIds, states' = states,
         audit' = [audit EXCEPT ![s] = Terminated(audit[s])]
  PROVE  LoggedAreThere' /\ AuditChain'
<1>1. audit \in [StateIds -> AuditFile]
  BY DEF ChainInv, SoleInv, TypeInv, TypeOK, DiskOK
<1>2. \A t \in StateIds : Lines(t)' = Lines(t)
  BY <1>1 DEF Lines, Terminated, AuditFile
<1> QED BY <1>2 DEF ChainInv, LoggedAreThere, AuditChain

\* The line of a mutation, and the line of a new state, are written.
LEMMA AppendsChain ==
  ASSUME ChainInv, NEW p \in Procs,
         \/ AppendLine(p) \/ AppendAudit(p) \/ CreateAppendLine(p) \/ CreateAppendAudit(p)
  PROVE  LoggedAreThere' /\ AuditChain' /\ Versions(p)'
<1>1. TypeInv /\ SoleInv /\ Versions(p)
  BY DEF ChainInv, SoleInv
<1>2. CASE AppendLine(p)
  <2>1. /\ phase[p] = "put.audit" /\ phase'[p] = "put.newline"
        /\ Logs(backing[p].state.id, MutationLine(p))
        /\ states' = states /\ UNCHANGED session
    BY <1>1, <1>2, TypesOf DEF AppendLine, Logs
  <2>2. LoggedAreThere' /\ AuditChain'
    BY <2>1, LogsChain
  <2>3. Versions(p)'
    BY <1>1, <2>1 DEF Versions, LoggedPhases, session
  <2> QED BY <2>2, <2>3
<1>3. CASE CreateAppendLine(p)
  <2>1. /\ phase[p] = "create.audit" /\ phase'[p] = "create.newline"
        /\ Logs(docs[p].state.id, CreateLine(p))
        /\ \E l : audit' = [audit EXCEPT ![docs[p].state.id] = l]
        /\ states' = states /\ UNCHANGED session /\ backing' = backing
    BY <1>1, <1>3, TypesOf DEF CreateAppendLine, Logs, session
  <2>2. LoggedAreThere' /\ AuditChain'
    BY <2>1, LogsChain
  <2>3. ASSUME backing[p] # None
        PROVE  \A i \in 1 .. Len(Lines(backing[p].state.id)') :
                 Lines(backing[p].state.id)'[i].after <= revision[p]
    <3> DEFINE s == backing[p].state.id
    <3>1. s \in StateIds
      BY <1>1, <2>3, TypesOf, IdsOf
    <3>2. CASE s # docs[p].state.id
      <4>1. Lines(s)' = Lines(s)
        BY <1>1, <2>1, <3>1, <3>2 DEF Lines, TypeInv, TypeOK, DiskOK
      <4> QED BY <1>1, <2>1, <2>3, <4>1 DEF Versions
    <3>3. CASE s = docs[p].state.id
      <4>1. states[s].revision = 0 /\ revision[p] \in Nat
        BY <1>1, <2>1, <3>3, LineOfStep, TypesOf DEF CreateLine
      <4>2. \A i \in 1 .. Len(Lines(s)') : Lines(s)'[i].after <= 0
        BY <2>1, <2>2, <3>1, <4>1 DEF AuditChain, Lines
      <4>3. revision[p] = 0
        BY <1>1, <2>3, <4>1 DEF Versions
      <4> QED BY <4>2, <4>3
    <3> QED BY <3>2, <3>3
  <2>4. Versions(p)'
    BY <1>1, <2>1, <2>3 DEF Versions, LoggedPhases, session
  <2> QED BY <2>2, <2>4
<1>4. CASE AppendAudit(p)
  <2> DEFINE s == backing[p].state.id
  <2>1. /\ phase[p] \in LoggedPhases /\ phase'[p] = "idle"
        /\ states' = states /\ backing' = backing /\ revision'[p] = revision[p] + 1
    BY <1>1, <1>4, TypesOf DEF AppendAudit, Lands, LoggedPhases
  <2>2. backing[p] # None /\ s \in StateIds
    BY <1>1, <2>1, TypesOf, IdsOf DEF InFlight, LoggedPhases
  <2>3. LoggedAreThere' /\ AuditChain'
    <3>1. CASE phase[p] = "put.audit"
      BY <1>4, <3>1, <2>1, LogsChain DEF AppendAudit, Logs
    <3>2. CASE phase[p] = "put.newline"
      BY <1>4, <3>2, <2>1, <2>2, NewlineChain DEF AppendAudit
    <3> QED BY <2>1, <3>1, <3>2 DEF LoggedPhases
  <2>4. states[s].revision = revision[p] + 1
    BY <1>1, <2>1, <2>2 DEF Versions
  <2>5. Versions(p)'
    BY <2>1, <2>2, <2>3, <2>4 DEF Versions, LoggedPhases, AuditChain
  <2> QED BY <2>3, <2>5
<1>5. CASE CreateAppendAudit(p)
  <2>1. /\ phase[p] \in LatePhases /\ states' = states /\ Lands(p)
        /\ \E replays : Switches(p, replays)
    BY <1>5 DEF CreateAppendAudit, LatePhases
  <2>2. docs[p].state.id \in StateIds
    BY <1>1, <2>1, TypesOf, IdsOf DEF InFlight, LatePhases
  <2>3. LoggedAreThere' /\ AuditChain'
    <3>1. CASE phase[p] = "create.audit"
      BY <1>5, <3>1, <2>1, LogsChain DEF CreateAppendAudit, Logs
    <3>2. CASE phase[p] = "create.newline"
      BY <1>5, <3>2, <2>1, <2>2, NewlineChain DEF CreateAppendAudit
    <3> QED BY <2>1, <3>1, <3>2 DEF LatePhases
  <2> QED BY <1>1, <2>1, <2>3, SwitchVersions
<1> QED BY <1>2, <1>3, <1>4, <1>5

LEMMA CrashChain ==
  ASSUME ChainInv, NEW p \in Procs, Crash(p)
  PROVE  LoggedAreThere' /\ AuditChain' /\ Versions(p)'
<1>1. TypeInv
  BY DEF ChainInv, SoleInv
<1>2. backing'[p] = None /\ phase'[p] = "down" /\ states' = states
  BY <1>1, TypesOf DEF Crash
<1>3. Versions(p)'
  BY <1>2 DEF Versions
<1>4. CASE audit' = audit
  BY <1>2, <1>3, <1>4 DEF ChainInv, LoggedAreThere, AuditChain, Lines
<1>5. CASE phase[p] = "put.audit" /\ Logs(backing[p].state.id, MutationLine(p))
  BY <1>2, <1>3, <1>5, LogsChain
<1>6. CASE phase[p] = "create.audit" /\ Logs(docs[p].state.id, CreateLine(p))
  BY <1>2, <1>3, <1>6, LogsChain
<1> QED
  BY <1>4, <1>5, <1>6 DEF Crash, CrashLog, Logs

\* An append that fails and is lived through: the version of its line would be
\* given again, so the line must not be there.
LEMMA AppendErrorChain ==
  ASSUME MaxFaults = 0 \/ "unterminated" \notin Tears,
         ChainInv, NEW p \in Procs, CreateAuditError(p) \/ AuditError(p)
  PROVE  LoggedAreThere' /\ AuditChain' /\ Versions(p)'
<1>1. TypeInv /\ Versions(p)
  BY DEF ChainInv, SoleInv
<1>2. "unterminated" \notin Tears
  BY <1>1 DEF CreateAuditError, AuditError, Faulty, TypeInv, TypeOK, BoundsOK
<1>3. /\ states' = states /\ UNCHANGED session /\ phase'[p] = "idle"
      /\ phase[p] # "put.newline"
  BY <1>1, TypesOf DEF CreateAuditError, AuditError, Lands
<1>4. \A t \in StateIds : Lines(t)' = Lines(t)
  <2>1. ASSUME NEW s \in StateIds, NEW line \in Line, NEW log \in Torn(audit[s], line),
               audit' = [audit EXCEPT ![s] = log]
        PROVE  \A t \in StateIds : Lines(t)' = Lines(t)
    <3>1. audit[s] \in AuditFile
      BY <1>1 DEF TypeInv, TypeOK, DiskOK
    <3>2. log.lines = audit[s].lines
      BY <1>2, <3>1, LinesAppended
    <3> QED BY <1>1, <2>1, <3>2 DEF Lines, TypeInv, TypeOK, DiskOK
  <2>2. CASE AuditError(p)
    <3>1. backing[p].state.id \in StateIds /\ MutationLine(p) \in Line
      BY <2>2, LineOfStep DEF AuditError
    <3>2. PICK log \in Torn(audit[backing[p].state.id], MutationLine(p)) :
            audit' = [audit EXCEPT ![backing[p].state.id] = log]
      BY <2>2 DEF AuditError
    <3> QED BY <2>1, <3>1, <3>2
  <2>3. CASE CreateAuditError(p)
    <3>1. docs[p].state.id \in StateIds /\ CreateLine(p) \in Line
      BY <2>3, LineOfStep DEF CreateAuditError
    <3>2. PICK log \in Torn(audit[docs[p].state.id], CreateLine(p)) :
            audit' = [audit EXCEPT ![docs[p].state.id] = log]
      BY <2>3 DEF CreateAuditError
    <3> QED BY <2>1, <3>1, <3>2
  <2> QED BY <2>2, <2>3
<1>5. LoggedAreThere' /\ AuditChain'
  BY <1>3, <1>4 DEF ChainInv, LoggedAreThere, AuditChain
<1>6. backing[p] # None => backing[p].state.id \in StateIds
  BY <1>1, TypesOf, IdsOf
<1>7. Versions(p)'
  BY <1>1, <1>3, <1>4, <1>6 DEF Versions, LoggedPhases, session
<1> QED BY <1>5, <1>7

LEMMA ChainNext ==
  ASSUME OneProcess, MaxFaults = 0 \/ "unterminated" \notin Tears, ChainInv, [Next]_vars
  PROVE  ChainInv'
<1>1. SoleInv'
  BY SoleNext DEF ChainInv
<1>2. CASE UNCHANGED vars
  BY <1>1, <1>2 DEF vars, disk, session, flight, ChainInv, LoggedAreThere, AuditChain,
     Versions, Lines
<1>3. CASE Next
  <2>1. PICK p \in Procs :
          \/ Start(p) \/ Step(p) \/ Fault(p)
          \/ \E r \in RequestIds : \E e \in Sendable(r) :
               Receive(p, r, e) \/ CreateReadError(p, r, e)
    BY <1>3 DEF Next
  <2> SUFFICES LoggedAreThere' /\ AuditChain' /\ Versions(p)'
    <3>1. \A q \in Procs : q = p
      BY DEF OneProcess
    <3> QED BY <1>1, <3>1 DEF ChainInv
  <2>2. CASE Start(p)
    BY <2>2, StepsChain
  <2>3. CASE Step(p)
    BY <2>3, StepsChain, CreatePutStateChain, PutStateChain, AppendsChain DEF Step
  <2>4. CASE Fault(p)
    BY <2>4, StepsChain, CrashChain, AppendErrorChain DEF Fault
  <2>5. ASSUME NEW r \in RequestIds, NEW e, Receive(p, r, e) \/ CreateReadError(p, r, e)
        PROVE  LoggedAreThere' /\ AuditChain' /\ Versions(p)'
    BY <2>5, ReceiveChain
  <2> QED BY <2>1, <2>2, <2>3, <2>4, <2>5
<1> QED BY <1>2, <1>3

LEMMA ChainInit == Init => ChainInv
<1> SUFFICES ASSUME Init PROVE ChainInv
  OBVIOUS
<1>1. SoleInv
  BY SoleInit
<1>2. \A s \in StateIds : Lines(s) = <<>>
  BY DEF Init, Lines
<1>3. \A s \in StateIds : \A i : i \notin 1 .. Len(Lines(s))
  BY <1>2
<1> QED
  BY <1>1, <1>2, <1>3 DEF Init, ChainInv, LoggedAreThere, AuditChain, Versions

\* The audit log of a state tells its history: every mutation takes one version
\* to the next, none starts before an earlier one ended, and the state file is
\* never behind its log (apply_mutation puts the state before it appends the
\* line).  One process on any store, whatever is killed where; if an append may
\* fail and the process live on, it must not leave its whole line behind, since
\* the next mutation starts from the same version (`revision' in memory has
\* not moved).
THEOREM LogIsAHistory ==
  ASSUME OneProcess, MaxFaults = 0 \/ "unterminated" \notin Tears
  PROVE  Spec => []AuditChain
<1>1. ChainInv /\ [Next]_vars => ChainInv'
  BY ChainNext
<1>2. ChainInv => AuditChain
  BY DEF ChainInv
<1> QED
  BY <1>1, <1>2, ChainInit, PTL DEF Spec

-----------------------------------------------------------------------------
(* The documents a process holds in memory are those on disk, so that what it *)
(* writes next extends what is there: one process, no failing file operation, *)
(* any kills.  After a failed append the files are ahead of the memory, and   *)
(* the next mutation overwrites them.                                         *)

-----------------------------------------------------------------------------
(* Writes only add to the cells *)

LEMMA PrefixOfSelf ==
  ASSUME NEW S, NEW a \in Seq(S)
  PROVE  IsPrefixOf(a, a)
BY SubSeqFull, LenProperties DEF IsPrefixOf

LEMMA PrefixOfAppend ==
  ASSUME NEW S, NEW a \in Seq(S), NEW x \in S
  PROVE  IsPrefixOf(a, Append(a, x))
<1> DEFINE n == Len(a)
           b == Append(a, x)
<1>1. n \in Nat /\ Len(b) = n + 1 /\ b \in Seq(S) /\ \A i \in 1 .. n : b[i] = a[i]
  BY AppendProperties, LenProperties
<1>2. \A i \in 1 .. n : b[i] \in S
  BY <1>1, ElementOfSeq
<1> HIDE DEF b
<1>3. /\ SubSeq(b, 1, n) \in Seq(S)
      /\ Len(SubSeq(b, 1, n)) = IF 1 <= n THEN n - 1 + 1 ELSE 0
      /\ \A i \in 1 .. n - 1 + 1 : SubSeq(b, 1, n)[i] = b[1 + i - 1]
  BY <1>1, <1>2, SubSeqProperties
<1>4. Len(SubSeq(b, 1, n)) = n
  BY <1>1, <1>3
<1>5. \A i \in 1 .. n : SubSeq(b, 1, n)[i] = a[i]
  BY <1>1, <1>3
<1>6. SubSeq(b, 1, n) = a
  BY <1>3, <1>4, <1>5, SeqEqual
<1> QED BY <1>1, <1>6 DEF IsPrefixOf, b

LEMMA CellGrowsSelf ==
  ASSUME NEW cell \in Seq(Observation)
  PROVE  CellGrows(cell, cell)
<1>1. Len(cell) \in Nat
  BY LenProperties
<1>2. ASSUME NEW i \in 1 .. Len(cell)
      PROVE  IsPrefixOf(cell[i].evidence, cell[i].evidence)
  <2>1. cell[i] \in Observation
    BY ElementOfSeq
  <2>2. cell[i].evidence \in Seq(RequestIds)
    BY <2>1 DEF Observation
  <2> QED BY <2>2, PrefixOfSelf
<1> QED BY <1>1, <1>2 DEF CellGrows

\* An observation is added behind the others, or not at all (write::observe).
LEMMA ObservedGrows ==
  ASSUME NEW cell \in Seq(Observation), NEW token \in Tokens
  PROVE  CellGrows(cell, Observed(cell, token))
<1> DEFINE o == [token |-> token, evidence |-> <<>>]
           new == Append(cell, o)
<1>1. o \in Observation
  BY DEF Observation
<1>2. /\ Len(cell) \in Nat /\ Len(new) = Len(cell) + 1
      /\ \A i \in 1 .. Len(cell) : new[i] = cell[i]
  BY <1>1, AppendProperties, LenProperties
<1>3. CellGrows(cell, cell)
  BY CellGrowsSelf
<1> HIDE DEF new
<1>4. CellGrows(cell, new)
  BY <1>2, <1>3 DEF CellGrows
<1> QED BY <1>3, <1>4 DEF Observed, new

\* Evidence is added behind the evidence of the last observation
\* (write::attach_evidence).
LEMMA AttachedGrows ==
  ASSUME NEW cell \in Seq(Observation), cell # <<>>, NEW request \in RequestIds
  PROVE  CellGrows(cell, Attached(cell, request))
<1> DEFINE n == Len(cell)
           o == [cell[n] EXCEPT !.evidence = Append(@, request)]
           new == [cell EXCEPT ![n] = o]
<1>1. n \in 1 .. Len(cell) /\ Len(cell) \in Nat
  BY EmptySeq, LenProperties
<1>2. cell[n] \in Observation
  BY <1>1, ElementOfSeq
<1>3. cell[n].evidence \in Seq(RequestIds)
  BY <1>2 DEF Observation
<1>4. o.token = cell[n].token /\ o.evidence = Append(cell[n].evidence, request)
  BY <1>2 DEF Observation
<1>5. IsPrefixOf(cell[n].evidence, o.evidence)
  BY <1>3, <1>4, PrefixOfAppend
<1>6. o \in Observation
  BY <1>2, <1>3, <1>4, AppendProperties DEF Observation
<1> HIDE DEF o
<1>7. /\ Len(new) = Len(cell)
      /\ \A j \in 1 .. Len(cell) : new[j] = IF j = n THEN o ELSE cell[j]
  BY <1>1, <1>6, ExceptSeq
<1>8. CellGrows(cell, cell)
  BY CellGrowsSelf
<1> HIDE DEF new, n
<1>9. CellGrows(cell, new)
  BY <1>1, <1>4, <1>5, <1>7, <1>8 DEF CellGrows
<1> QED BY <1>9 DEF Attached, new, n, o

\* No write of the engine removes an observation or a piece of evidence, or
\* changes the token of an observation.
LEMMA WrittenGrows ==
  ASSUME NEW m \in Model, NEW op \in MutationOp, NEW request \in RequestIds,
         Admissible(m, op), NEW r \in Relations, NEW x \in Members
  PROVE  CellGrows(m.cells[r][x], Written(m, op, request).cells[r][x])
<1> DEFINE w == Written(m, op, request)
<1>1. m.cells[r][x] \in Seq(Observation)
  BY DEF Model, Cells
<1>2. CASE w.cells[r][x] = m.cells[r][x]
  BY <1>1, <1>2, CellGrowsSelf
<1>3. CASE op.kind = "observe"
  <2>1. op.relation \in Relations /\ op.member \in Members /\ op.token \in Tokens
    BY <1>3 DEF MutationOp
  <2>2. w.cells[r][x] = IF r = op.relation /\ x = op.member
                        THEN Observed(m.cells[r][x], op.token) ELSE m.cells[r][x]
    BY <1>3, <2>1 DEF Written, Model, Cells
  <2> QED BY <1>1, <1>2, <2>1, <2>2, ObservedGrows
<1>4. CASE op.kind = "evidence.attach"
  <2>1. op.relation \in Relations /\ op.member \in Members
        /\ m.cells[op.relation][op.member] # <<>>
    BY <1>4 DEF MutationOp, Admissible
  <2>2. w.cells[r][x] = IF r = op.relation /\ x = op.member
                        THEN Attached(m.cells[r][x], request) ELSE m.cells[r][x]
    BY <1>4, <2>1 DEF Written, Model, Cells
  <2> QED BY <1>1, <1>2, <2>1, <2>2, AttachedGrows
<1>5. op.kind \notin {"observe", "evidence.attach"} => w.cells = m.cells
  BY DEF Written, MutationOp, Model
<1> QED BY <1>2, <1>3, <1>4, <1>5

-----------------------------------------------------------------------------
(* The state in memory and the state on disk *)

\* What a mutation in flight has found and built.
Extends(p) ==
  /\ sent[current[p]].expected \in {None, revision[p]}
  /\ \A r \in Relations, m \in Members :
       CellGrows(model[p].cells[r][m], next[p].cells[r][m])

\* The state file is the state document in memory; the open model is made of
\* it until the put, and the model of the mutation after it.
ExactState(p) ==
  backing[p] # None =>
    LET state == backing[p].state
    IN  /\ model[p] # None
        /\ states[state.id] = state
        /\ phase[p] \notin LoggedPhases =>
             model[p].cells = state.cells /\ revision[p] = state.revision
        /\ phase[p] \in LoggedPhases =>
             next[p].cells = state.cells /\ revision[p] + 1 = state.revision
        /\ phase[p] \in PutPhases => Extends(p)

StateInv == SoleInv /\ \A p \in Procs : ExactState(p)

\* A step that leaves the state files alone, and the model open or closes it.
LEMMA QuietExact ==
  ASSUME NEW p \in Procs, ExactState(p), states' = states,
         phase[p] \notin LoggedPhases, phase'[p] \notin LoggedPhases,
         backing'[p] # None =>
           /\ backing'[p] = backing[p] /\ model'[p] = model[p]
           /\ revision'[p] = revision[p],
         phase'[p] \in PutPhases => Extends(p)'
  PROVE  ExactState(p)'
BY DEF ExactState

LEMMA SwitchExact ==
  ASSUME SoleInv, NEW p \in Procs, NEW replays, Switches(p, replays), Lands(p),
         states' = states, phase[p] \in {"open.audit"} \cup LatePhases
  PROVE  ExactState(p)'
<1>1. docs[p] \in Backing /\ states[docs[p].state.id] = docs[p].state
  BY TypesOf DEF SoleInv, InFlight, Sole, DocsInHand, ReadPhases, LatePhases
<1>2. /\ backing'[p] = docs[p] /\ revision'[p] = docs[p].state.revision
      /\ model'[p] = Merge(docs[p].config, docs[p].dims, docs[p].state)
      /\ phase'[p] = "idle"
  BY TypesOf DEF SoleInv, Switches, Lands
<1>3. model'[p] \in Model
  BY <1>1, <1>2, IdsOf, MergeType
<1>4. model'[p].cells = docs[p].state.cells
  BY <1>2 DEF Merge
<1>5. "idle" \notin LoggedPhases /\ "idle" \notin PutPhases
  BY DEF LoggedPhases, PutPhases
<1> QED
  BY <1>1, <1>2, <1>3, <1>4, <1>5, NoneAssumption DEF ExactState, NoneAssumption

\* A mutation that is accepted expected this revision, and adds to the cells.
LEMMA MutatePersistedExact ==
  ASSUME StateInv, NEW p \in Procs, NEW r \in RequestIds, NEW e,
         MutatePersisted(p, r, e)
  PROVE  ExactState(p)' /\ Extends(p)'
<1>1. TypeInv /\ ExactState(p)
  BY DEF StateInv, SoleInv
<1>2. /\ Mutates(p, r, e) /\ Accepts(p, r, e) /\ Arrives(p, r, e)
      /\ next' = [next EXCEPT ![p] = Written(model[p], e.op, r)]
      /\ current' = [current EXCEPT ![p] = r]
      /\ UNCHANGED disk /\ UNCHANGED session
  BY DEF MutatePersisted, Mutates, Dispatches
<1>3. e.op \in Op /\ phase[p] = "idle"
  BY <1>1, <1>2, ArrivesType
<1>4. e.op \in MutationOp
  BY <1>2, <1>3 DEF Mutates, Op, OpenOp
<1>5. model[p] \in Model /\ Admissible(model[p], e.op)
  BY <1>1, <1>2, TypesOf DEF Accepts, Succeeds
<1>6. sent'[r] = e /\ current'[p] = r /\ next'[p] = Written(model[p], e.op, r)
  BY <1>1, <1>2, TypesOf DEF Arrives, TypeInv, TypeOK, ClientOK
<1>7. model' = model /\ revision' = revision /\ states' = states /\ backing' = backing
  BY <1>2 DEF disk, session
<1>8. e.expected \in {None, revision[p]}
  BY <1>2 DEF Accepts, Conflicts
<1>9. \A rel \in Relations, m \in Members :
        CellGrows(model[p].cells[rel][m], next'[p].cells[rel][m])
  BY <1>4, <1>5, <1>6, WrittenGrows
<1>10. Extends(p)'
  BY <1>6, <1>7, <1>8, <1>9 DEF Extends
<1>11. phase'[p] \in PutPhases
  BY <1>1, TypesOf DEF MutatePersisted, PutPhases
<1>12. phase[p] \notin LoggedPhases /\ phase'[p] \notin LoggedPhases
  BY <1>3, <1>11 DEF LoggedPhases, PutPhases
<1> QED
  BY <1>1, <1>7, <1>10, <1>12, QuietExact

LEMMA ReceiveExact ==
  ASSUME StateInv, NEW p \in Procs, NEW r \in RequestIds, NEW e,
         Receive(p, r, e) \/ CreateReadError(p, r, e)
  PROVE  ExactState(p)'
<1>1. TypeInv /\ ExactState(p)
  BY DEF StateInv, SoleInv
<1>2. CASE MutatePersisted(p, r, e)
  BY <1>2, MutatePersistedExact
<1>3. CASE ~ MutatePersisted(p, r, e)
  <2>1. phase[p] = "idle" /\ UNCHANGED disk
    BY DEF Receive, CreateReadError, Create, ReplayCached, ReplayAudited, Import,
       Status, OpenExisting, OpenCreate, Refuse, NoOp, MutateEphemeral,
       MutatePersisted, Mutates, Dispatches, Arrives
  <2>2. phase'[p] \in {"idle", "open.config", "create.config"}
    <3>1. CASE OpenExisting(p, r, e)
      BY <1>1, <3>1, TypesOf DEF OpenExisting
    <3>2. CASE OpenCreate(p, r, e) \/ CreateReadError(p, r, e)
      BY <1>1, <3>2, TypesOf DEF OpenCreate, CreateReadError, Create
    <3>3. CASE UNCHANGED flight
      BY <2>1, <3>3 DEF flight
    <3> QED
      BY <1>3, <3>1, <3>2, <3>3 DEF Receive, ReplayCached, ReplayAudited, Import, Status,
         Refuse, NoOp, MutateEphemeral
  <2>3. backing'[p] # None =>
           /\ backing'[p] = backing[p] /\ model'[p] = model[p]
           /\ revision'[p] = revision[p]
    <3>1. CASE UNCHANGED session
      BY <3>1 DEF session
    <3>2. CASE Import(p, r, e) /\ ~ UNCHANGED session
      BY <1>1, <3>2, TypesOf DEF Import
    <3>3. CASE MutateEphemeral(p, r, e)
      BY <3>3 DEF MutateEphemeral, Persisted
    <3> QED
      BY <1>3, <3>1, <3>2, <3>3 DEF Receive, CreateReadError, Create, ReplayCached,
         ReplayAudited, Status, OpenExisting, OpenCreate, Refuse, NoOp
  <2> QED
    BY <1>1, <2>1, <2>2, <2>3, QuietExact DEF LoggedPhases, PutPhases, disk
<1> QED BY <1>2, <1>3

LEMMA StepExact ==
  ASSUME StateInv, NEW p \in Procs, Step(p) \/ Start(p),
         ~ CreatePutState(p), ~ PutState(p), ~ AppendLine(p), ~ AppendAudit(p)
  PROVE  ExactState(p)'
<1>1. TypeInv /\ SoleInv /\ ExactState(p)
  BY DEF StateInv, SoleInv
<1> USE DEF LoggedPhases, PutPhases
<1>2. CASE OpenReadAudit(p)
  BY <1>1, <1>2, SwitchExact DEF OpenReadAudit, disk
<1>3. CASE CreateAppendAudit(p)
  BY <1>1, <1>3, SwitchExact DEF CreateAppendAudit, LatePhases
<1>4. CASE OpenReadConfig(p) \/ OpenReadDims(p)
  <2>1. phase[p] \notin LoggedPhases /\ UNCHANGED disk /\ UNCHANGED session
    BY <1>4 DEF OpenReadConfig, OpenReadDims, OpenFails
  <2>2. phase'[p] \in {"idle", "open.dims", "open.audit"}
    BY <1>1, <1>4, TypesOf DEF OpenReadConfig, OpenReadDims, OpenFails, Lands
  <2> QED BY <1>1, <2>1, <2>2, QuietExact DEF disk, session
<1>5. CASE CreatePutConfig(p) \/ CreatePutDims(p) \/ CreateAppendLine(p) \/ Start(p)
  <2>1. phase[p] \notin LoggedPhases /\ states' = states /\ UNCHANGED session
    BY <1>5 DEF CreatePutConfig, CreatePutDims, CreateAppendLine, Start, disk
  <2>2. phase'[p] \in {"create.dims", "create.state", "create.newline", "idle"}
    BY <1>1, <1>5, TypesOf DEF CreatePutConfig, CreatePutDims, CreateAppendLine, Start
  <2> QED BY <1>1, <2>1, <2>2, QuietExact DEF session
<1>6. CASE PutConfig(p) \/ PutDims(p)
  <2>1. /\ phase[p] \in PutPhases /\ phase'[p] \in PutPhases
        /\ states' = states /\ UNCHANGED session
        /\ UNCHANGED <<sent, current, next>>
    BY <1>1, <1>6, TypesOf DEF PutConfig, PutDims, client
  <2>2. backing[p] # None
    BY <1>1, <2>1 DEF TypeInv, InFlight
  <2>3. Extends(p)'
    BY <1>1, <2>1, <2>2 DEF ExactState, Extends, session
  <2> QED BY <1>1, <2>1, <2>3, QuietExact DEF session
<1> QED
  BY <1>2, <1>3, <1>4, <1>5, <1>6 DEF Step

\* The put of a new state is not that of the open one.
LEMMA CreatePutStateExact ==
  ASSUME StateInv, NEW p \in Procs, CreatePutState(p)
  PROVE  ExactState(p)'
<1>1. TypeInv /\ Sole(p) /\ ExactState(p)
  BY DEF StateInv, SoleInv
<1>2. /\ phase[p] = "create.state" /\ phase'[p] = "create.audit"
      /\ states' = [states EXCEPT ![docs[p].state.id] = docs[p].state]
      /\ UNCHANGED session
  BY <1>1, TypesOf DEF CreatePutState
<1>3. states[docs[p].state.id] = None
  BY <1>1, <1>2 DEF Sole, DocsInHand, EarlyPhases
<1>4. backing[p] # None =>
        /\ backing[p].state.id \in StateIds /\ backing[p].state.id # docs[p].state.id
  BY <1>1, <1>3, TypesOf, IdsOf DEF Sole, OpenState
<1>5. backing[p] # None => states'[backing[p].state.id] = states[backing[p].state.id]
  BY <1>1, <1>2, <1>4, TypesOf
<1> QED
  BY <1>1, <1>2, <1>5 DEF ExactState, session, LoggedPhases, PutPhases

\* The state document in memory is replaced with the state file.
LEMMA PutStateExact ==
  ASSUME StateInv, NEW p \in Procs, PutState(p)
  PROVE  ExactState(p)'
<1> DEFINE new == SplitState(next[p], backing[p].state, revision[p] + 1)
<1>1. TypeInv /\ ExactState(p)
  BY DEF StateInv, SoleInv
<1>2. /\ phase[p] = "put.state" /\ phase'[p] = "put.audit"
      /\ states' = [states EXCEPT ![new.id] = new]
      /\ backing'[p].state = new
      /\ UNCHANGED <<model, revision, next>>
  BY <1>1, TypesOf DEF PutState
<1>3. backing[p] \in Backing /\ backing[p] # None /\ backing[p].state \in State
      /\ backing[p].state.id \in StateIds
  BY <1>1, <1>2, TypesOf, IdsOf, NoneAssumption DEF InFlight, PutPhases
<1>4. new.id = backing[p].state.id /\ new.revision = revision[p] + 1
      /\ new.cells = next[p].cells
  BY <1>3 DEF SplitState, State
<1> HIDE DEF new
<1>5. states'[new.id] = new
  BY <1>1, <1>2, <1>3, <1>4, TypesOf
<1> QED
  BY <1>1, <1>2, <1>3, <1>4, <1>5 DEF ExactState, LoggedPhases, PutPhases

\* The model and revision in memory follow once the line is written.
LEMMA AppendExact ==
  ASSUME StateInv, NEW p \in Procs, AppendLine(p) \/ AppendAudit(p)
  PROVE  ExactState(p)'
<1>1. TypeInv /\ ExactState(p)
  BY DEF StateInv, SoleInv
<1>2. CASE AppendLine(p)
  <2>1. /\ phase[p] = "put.audit" /\ phase'[p] = "put.newline"
        /\ UNCHANGED <<states, next>> /\ UNCHANGED session
    BY <1>1, <1>2, TypesOf DEF AppendLine
  <2> QED BY <1>1, <2>1 DEF ExactState, LoggedPhases, PutPhases, session
<1>3. CASE AppendAudit(p)
  <2>1. /\ phase[p] \in LoggedPhases /\ phase'[p] = "idle"
        /\ UNCHANGED <<states, backing>>
        /\ model'[p] = next[p] /\ revision'[p] = revision[p] + 1
    BY <1>1, <1>3, TypesOf DEF AppendAudit, Lands, LoggedPhases
  <2>2. next[p] # None
    BY <1>1, <2>1 DEF TypeInv, InFlight, LoggedPhases
  <2> QED BY <1>1, <2>1, <2>2 DEF ExactState, LoggedPhases, PutPhases
<1> QED BY <1>2, <1>3

LEMMA StateNext ==
  ASSUME OneProcess, MaxFaults = 0, StateInv, [Next]_vars
  PROVE  StateInv'
<1>1. SoleInv' /\ TypeInv
  BY SoleNext DEF StateInv, SoleInv
<1>2. CASE UNCHANGED vars
  BY <1>1, <1>2 DEF vars, disk, session, flight, client, StateInv, ExactState, Extends
<1>3. CASE Next
  <2>1. PICK p \in Procs :
          \/ Start(p) \/ Step(p) \/ Fault(p)
          \/ \E r \in RequestIds : \E e \in Sendable(r) :
               Receive(p, r, e) \/ CreateReadError(p, r, e)
    BY <1>3 DEF Next
  <2> SUFFICES ExactState(p)'
    <3>1. \A q \in Procs : q = p
      BY DEF OneProcess
    <3> QED BY <1>1, <3>1 DEF StateInv
  <2>2. CASE Start(p) \/ Step(p)
    BY <2>2, StepExact, CreatePutStateExact, PutStateExact, AppendExact
  <2>3. CASE Fault(p)
    <3>1. ~ Faulty
      BY <1>1 DEF Faulty, TypeInv, TypeOK, BoundsOK
    <3>2. Crash(p)
      BY <2>3, <3>1 DEF Fault, OpenError, ReplaysError, PutError, CreateAuditError,
         AuditError
    <3>3. backing'[p] = None
      BY <1>1, <3>2, TypesOf DEF Crash
    <3> QED BY <3>3 DEF ExactState
  <2>4. ASSUME NEW r \in RequestIds, NEW e, Receive(p, r, e) \/ CreateReadError(p, r, e)
        PROVE  ExactState(p)'
    BY <2>4, ReceiveExact
  <2> QED BY <2>1, <2>2, <2>3, <2>4
<1> QED BY <1>2, <1>3

LEMMA StateHolds == ASSUME OneProcess, MaxFaults = 0 PROVE Spec => []StateInv
<1>1. Init => StateInv
  BY SoleInit DEF Init, StateInv, ExactState
<1>2. StateInv /\ [Next]_vars => StateInv'
  BY StateNext
<1> QED BY <1>1, <1>2, PTL DEF Spec

\* What the put of a mutation replaces: a state document that the command has
\* expected, and that the new one extends.
LEMMA PutExtends ==
  ASSUME StateInv, NEW p \in Procs, PutState(p), NEW s \in StateIds,
         states[s] # None, states'[s] # states[s]
  PROVE  /\ phase[p] = "put.state" /\ backing[p].state.id = s
         /\ sent[current[p]].expected \in {None, states[s].revision}
         /\ states'[s].revision = states[s].revision + 1
         /\ \A r \in Relations, m \in Members :
              CellGrows(states[s].cells[r][m], states'[s].cells[r][m])
<1>1. TypeInv /\ SoleInv /\ ExactState(p)
  BY DEF StateInv, SoleInv
<1>2. phase[p] = "put.state" /\ backing[p].state.id = s
      /\ states'[s] = SplitState(next[p], backing[p].state, revision[p] + 1)
  BY <1>1, WhatIsWritten DEF PutState
<1>3. backing[p] \in Backing /\ backing[p] # None /\ backing[p].state \in State
  BY <1>1, <1>2, TypesOf, IdsOf, NoneAssumption DEF InFlight, PutPhases
<1>4. states'[s].cells = next[p].cells /\ states'[s].revision = revision[p] + 1
  BY <1>2, <1>3 DEF SplitState, State
<1>5. states[s].cells = model[p].cells /\ states[s].revision = revision[p] /\ Extends(p)
  BY <1>1, <1>2, <1>3 DEF ExactState, LoggedPhases, PutPhases
<1> QED BY <1>2, <1>4, <1>5 DEF Extends

\* A state document is replaced only by a command that expected no version or
\* the version of the document it replaces: dispatch compares expectedVersion
\* with the revision in memory, which is that of the file.
THEOREM ExpectationsHold ==
  ASSUME OneProcess, MaxFaults = 0
  PROVE  Spec => ExpectedVersionHeld
<1> DEFINE A == \A s \in StateIds : states[s] # None /\ states'[s] # states[s] =>
             \E p \in Procs :
               /\ phase[p] = "put.state"
               /\ backing[p].state.id = s
               /\ sent[current[p]].expected \in {None, states[s].revision}
<1>1. StateInv /\ [Next]_vars => [A]_vars
  <2> SUFFICES ASSUME StateInv, Next, NEW s \in StateIds,
                      states[s] # None, states'[s] # states[s]
               PROVE  \E p \in Procs :
                        /\ phase[p] = "put.state"
                        /\ backing[p].state.id = s
                        /\ sent[current[p]].expected \in {None, states[s].revision}
    OBVIOUS
  <2>1. PICK p \in Procs : PutState(p)
    BY StatesWritten, WhatIsWritten DEF StateInv
  <2> QED BY <2>1, PutExtends
<1>2. Spec => []StateInv
  BY StateHolds
<1> QED BY <1>1, <1>2, PTL DEF Spec, ExpectedVersionHeld

\* Observations and evidence are only appended to a state document, and its
\* revision never goes back, whatever is killed between the puts and the line
\* of a mutation (Session::apply_mutation, write.rs).
THEOREM StatesGrow ==
  ASSUME OneProcess, MaxFaults = 0
  PROVE  Spec => StateGrows
<1> DEFINE A == \A s \in StateIds : states[s] # None =>
             /\ states'[s].revision >= states[s].revision
             /\ \A r \in Relations, m \in Members :
                  CellGrows(states[s].cells[r][m], states'[s].cells[r][m])
<1>1. StateInv /\ [Next]_vars => [A]_vars
  <2> SUFFICES ASSUME StateInv, Next, NEW s \in StateIds, states[s] # None
               PROVE  /\ states'[s].revision >= states[s].revision
                      /\ \A r \in Relations, m \in Members :
                           CellGrows(states[s].cells[r][m], states'[s].cells[r][m])
    OBVIOUS
  <2>1. states[s] \in State
    BY TypesOf DEF StateInv, SoleInv, TypeInv, TypeOK, DiskOK
  <2>2. states[s].revision \in Nat
    BY <2>1 DEF State
  <2>3. CASE states'[s] = states[s]
    <3>1. \A r \in Relations, m \in Members : states[s].cells[r][m] \in Seq(Observation)
      BY <2>1 DEF State, Cells
    <3> QED BY <2>2, <2>3, <3>1, CellGrowsSelf
  <2>4. CASE states'[s] # states[s]
    <3>1. PICK p \in Procs : PutState(p)
      BY <2>4, StatesWritten, WhatIsWritten DEF StateInv
    <3> QED BY <2>2, <2>4, <3>1, PutExtends
  <2> QED BY <2>3, <2>4
<1>2. Spec => []StateInv
  BY StateHolds
<1> QED BY <1>1, <1>2, PTL DEF Spec, StateGrows

-----------------------------------------------------------------------------
(* The documents in memory and the documents on disk *)

\* Every configuration names the dimensions that the commands give with it:
\* those committed, and those model.open builds anew.
OwnDimensions(named) ==
  /\ \A c \in ConfigIds :
       Committed.configs[c] # None => Committed.configs[c].dimensionSetRef = named[c]
  /\ \A r \in RequestIds : \A op \in Commands[r] :
       op.kind = "model.open" => op.dims = named[op.config]

Named(named) ==
  \A c \in ConfigIds : configs[c] # None => configs[c].dimensionSetRef = named[c]

\* The documents of a model name one another.
Joined(d) == d.config.dimensionSetRef = d.dims.id /\ d.state.configRef = d.config.id

MergeOf(d) == Merge(d.config, d.dims, d.state)

\* What merge and load require of a model.
HoldsRelations(m) ==
  \A r \in Relations, x \in Members : m.cells[r][x] # <<>> => m.relations[r] # "absent"
HoldsModel(m) == HoldsRelations(m) /\ Loadable(m)

\* The files of an open model are the documents in memory, but for the layers
\* a mutation in flight has already written; the next model is what the three
\* layers give once they are all written.
ExactDocs(p) ==
  backing[p] # None =>
    LET b == backing[p]
        config2 == SplitConfiguration(next[p], b.config)
        dims2 == SplitDimensions(next[p], b.dims)
    IN  /\ Joined(b)
        /\ configs[b.config.id] =
             IF phase[p] \in {"put.dims", "put.state"} THEN config2 ELSE b.config
        /\ dimensions[b.dims.id] = IF phase[p] = "put.state" THEN dims2 ELSE b.dims
        /\ phase[p] \notin LoggedPhases => model[p] = MergeOf(b) /\ HoldsModel(model[p])
        /\ phase[p] \in LoggedPhases => next[p] = MergeOf(b)
        /\ phase[p] \in WritePhases => HoldsModel(next[p])
        /\ phase[p] = "put.config"
             /\ ~ RewritesDimensions(sent[current[p]].op, next[p], b.dims)
           => dims2 = b.dims

\* The documents model.open has in hand are on disk, as far as it has read or
\* written them, and nothing else is under their ids.
DocsJoined(p) ==
  LET d == docs[p]
  IN  /\ phase[p] = "open.dims" => configs[d.state.configRef] = d.config
      /\ phase[p] \in {"open.audit"} \cup EarlyPhases \cup LatePhases =>
           Joined(d) /\ HoldsModel(MergeOf(d))
      /\ phase[p] \in EarlyPhases =>
           /\ configs[d.config.id] \in {None, d.config}
           /\ dimensions[d.dims.id] \in {None, d.dims}
      /\ phase[p] \in {"open.audit", "create.dims", "create.state"} \cup LatePhases =>
           configs[d.config.id] = d.config
      /\ phase[p] \in {"open.audit", "create.state"} \cup LatePhases =>
           dimensions[d.dims.id] = d.dims

CreatesNamed(p, named) ==
  phase[p] \in EarlyPhases => docs[p].config.dimensionSetRef = named[docs[p].config.id]

\* A request carries one of its commands, also when it is sent again.
SentInv == \A r \in RequestIds : sent[r] # None => sent[r].op \in Commands[r]

DocsInv(named) ==
  /\ StateInv /\ SentInv
  /\ Filed(configs) /\ Filed(dimensions) /\ Named(named)
  /\ \A p \in Procs : ExactDocs(p) /\ DocsJoined(p) /\ CreatesNamed(p, named)

LEMMA DiskTypes ==
  ASSUME TypeInv
  PROVE  /\ configs \in [ConfigIds -> Configuration \cup {None}]
         /\ dimensions \in [DimSetIds -> Dimensions \cup {None}]
BY DEF TypeInv, TypeOK, DiskOK

\* A write whose checks pass leaves a model that merges and loads.
LEMMA WrittenHolds ==
  ASSUME NEW m \in Model, NEW op \in MutationOp, NEW request \in RequestIds,
         Succeeds(m, op, request), HoldsModel(m)
  PROVE  HoldsModel(Written(m, op, request))
<1> DEFINE w == Written(m, op, request)
<1>1. Admissible(m, op) /\ Loadable(w)
  BY DEF Succeeds
<1>2. HoldsRelations(w)
  <2> SUFFICES ASSUME NEW r \in Relations, NEW x \in Members, w.cells[r][x] # <<>>
               PROVE  w.relations[r] # "absent"
    BY DEF HoldsRelations
  <2>1. m.cells[r][x] # <<>> => m.relations[r] # "absent"
    BY DEF HoldsModel, HoldsRelations
  <2>2. CASE op.kind = "observe"
    <3>1. /\ op.relation \in Relations /\ op.member \in Members
          /\ m.relations[op.relation] = "active"
      BY <1>1, <2>2 DEF MutationOp, Admissible
    <3>2. /\ w.relations = m.relations
          /\ r # op.relation => w.cells[r][x] = m.cells[r][x]
      BY <2>2, <3>1 DEF Written, Model, Cells
    <3> QED BY <2>1, <3>1, <3>2
  <2>3. CASE op.kind = "evidence.attach"
    <3>1. /\ op.relation \in Relations /\ op.member \in Members
          /\ m.cells[op.relation][op.member] # <<>>
      BY <1>1, <2>3 DEF MutationOp, Admissible
    <3>2. /\ w.relations = m.relations
          /\ (r = op.relation /\ x = op.member) \/ w.cells[r][x] = m.cells[r][x]
      BY <2>3, <3>1 DEF Written, Model, Cells
    <3> QED BY <2>1, <3>1, <3>2
  <2>4. CASE op.kind = "deprecate"
    <3>1. /\ w.cells = m.cells
          /\ w.relations[r] \in {m.relations[r], "deprecated"}
      BY <2>4 DEF Written, Model, MutationOp
    <3> QED BY <2>1, <3>1
  <2>5. CASE op.kind = "relation.declare"
    <3>1. /\ w.cells = m.cells
          /\ w.relations[r] \in {m.relations[r], "active"}
      BY <2>5 DEF Written, Model, MutationOp
    <3> QED BY <2>1, <3>1
  <2>6. CASE op.kind \in {"dimension.register", "scale.declare", "members.sync",
                          "member.propose"}
    <3>1. w.cells = m.cells /\ w.relations = m.relations
      BY <2>6 DEF Written, Model
    <3> QED BY <2>1, <3>1
  <2> QED BY <2>2, <2>3, <2>4, <2>5, <2>6 DEF MutationOp
<1> QED BY <1>1, <1>2 DEF HoldsModel

\* A layer that a mutation does not rewrite is not changed by it: the op kinds
\* of the test cover every write to the layer (layers_touched).
LEMMA NotRewritten ==
  ASSUME NEW config \in Configuration, NEW dims \in Dimensions, NEW state \in State,
         NEW op \in MutationOp, NEW request \in RequestIds,
         NEW m, m = Merge(config, dims, state), NEW w, w = Written(m, op, request)
  PROVE  /\ ~ RewritesConfiguration(op, w, config) => SplitConfiguration(w, config) = config
         /\ ~ RewritesDimensions(op, w, dims) => SplitDimensions(w, dims) = dims
<1>1. m \in Model /\ m.tokens = config.tokens /\ m.relations = config.relations
      /\ m.registered = dims.registered /\ m.members = dims.members
  BY MergeType DEF Merge
<1>2. ASSUME ~ RewritesConfiguration(op, w, config)
      PROVE  SplitConfiguration(w, config) = config
  <2>1. CASE op.kind = "deprecate"
    BY <1>2, <2>1 DEF RewritesConfiguration
  <2>2. CASE op.kind # "deprecate"
    <3>1. op.kind \notin {"scale.declare", "relation.declare"}
      BY <1>2 DEF RewritesConfiguration
    <3>2. w.tokens = m.tokens /\ w.relations = m.relations
      BY <1>1, <2>2, <3>1 DEF Written, Model, MutationOp
    <3> QED BY <1>1, <3>2 DEF SplitConfiguration, Configuration
  <2> QED BY <2>1, <2>2
<1>3. ASSUME ~ RewritesDimensions(op, w, dims)
      PROVE  SplitDimensions(w, dims) = dims
  <2>1. CASE op.kind = "deprecate"
    BY <1>3, <2>1 DEF RewritesDimensions
  <2>2. CASE op.kind # "deprecate"
    <3>1. op.kind \notin {"dimension.register", "members.sync", "member.propose"}
      BY <1>3 DEF RewritesDimensions
    <3>2. w.registered = m.registered /\ w.members = m.members
      BY <1>1, <2>2, <3>1 DEF Written, Model, MutationOp
    <3> QED BY <1>1, <3>2 DEF SplitDimensions, Dimensions
  <2> QED BY <2>1, <2>2
<1> QED BY <1>2, <1>3

\* Merging what a model is split into gives the model.
LEMMA MergeOfSplit ==
  ASSUME NEW m \in Model, NEW config \in Configuration, NEW dims \in Dimensions,
         NEW state \in State, NEW v \in Nat
  PROVE  /\ m = Merge(SplitConfiguration(m, config), SplitDimensions(m, dims),
                      SplitState(m, state, v))
         /\ SplitConfiguration(m, config).id = config.id
         /\ SplitConfiguration(m, config).dimensionSetRef = config.dimensionSetRef
         /\ SplitDimensions(m, dims).id = dims.id
         /\ SplitState(m, state, v).configRef = state.configRef
BY DEF Merge, SplitConfiguration, SplitDimensions, SplitState, Model, Configuration,
   Dimensions, State

-----------------------------------------------------------------------------
(* Every step keeps the documents in memory and on disk the same *)

OpeningPhases == {"open.dims", "open.audit"} \cup EarlyPhases \cup LatePhases

\* A step that is not part of a mutation, and leaves the documents alone.
LEMMA QuietDocs ==
  ASSUME NEW p \in Procs, ExactDocs(p),
         phase[p] \notin WritePhases, phase'[p] \notin WritePhases,
         backing[p] # None =>
           /\ configs'[backing[p].config.id] = configs[backing[p].config.id]
           /\ dimensions'[backing[p].dims.id] = dimensions[backing[p].dims.id],
         backing'[p] # None => backing'[p] = backing[p] /\ model'[p] = model[p]
  PROVE  ExactDocs(p)'
BY DEF ExactDocs, WritePhases, PutPhases, LoggedPhases

\* Nothing is in hand outside model.open.
LEMMA NothingInHand ==
  ASSUME NEW p \in Procs, NEW named, phase'[p] \notin OpeningPhases
  PROVE  DocsJoined(p)' /\ CreatesNamed(p, named)'
BY DEF DocsJoined, CreatesNamed, OpeningPhases, EarlyPhases, LatePhases

\* The parts of DocsInv that the steps have to keep.
FilesInv(named) == Filed(configs) /\ Filed(dimensions) /\ Named(named)
FlightInv(p, named) == ExactDocs(p) /\ DocsJoined(p) /\ CreatesNamed(p, named)

LEMMA SameFiles ==
  ASSUME NEW named, FilesInv(named), UNCHANGED <<configs, dimensions>>
  PROVE  FilesInv(named)'
BY DEF FilesInv, Filed, Named

LEMMA SentNext ==
  ASSUME TypeInv, SentInv, [Next]_vars
  PROVE  SentInv'
<1>1. CASE sent' = sent
  BY <1>1 DEF SentInv
<1>2. ASSUME NEW p \in Procs, NEW r \in RequestIds, NEW e, Arrives(p, r, e)
      PROVE  SentInv'
  <2>1. e.op \in Commands[r]
    BY <1>2 DEF Arrives, Envelopes, SentInv
  <2>2. sent' = [sent EXCEPT ![r] = e]
    BY <1>2 DEF Arrives
  <2> QED BY <2>1, <2>2 DEF SentInv, TypeInv, TypeOK, ClientOK
<1>3. ASSUME NEW p \in Procs, Start(p) \/ Step(p) \/ Fault(p)
      PROVE  sent' = sent
  <2>1. CASE Start(p) \/ Fault(p)
    BY <2>1 DEF Start, Fault, OpenError, ReplaysError, PutError, CreateAuditError,
       AuditError, Crash, client
  <2>2. CASE Step(p)
    BY <2>2 DEF Step, OpenReadConfig, OpenReadDims, OpenReadAudit, OpenFails,
       CreatePutConfig, CreatePutDims, CreatePutState, CreateAppendLine,
       CreateAppendAudit, PutConfig, PutDims, PutState, AppendLine, AppendAudit, client
  <2> QED BY <1>3, <2>1, <2>2
<1>4. ASSUME NEW p \in Procs, NEW r \in RequestIds, NEW e,
             Receive(p, r, e) \/ CreateReadError(p, r, e)
      PROVE  Arrives(p, r, e)
  BY <1>4 DEF Receive, CreateReadError, Create, ReplayCached, ReplayAudited, Import,
     Status, OpenExisting, OpenCreate, Refuse, NoOp, MutateEphemeral, MutatePersisted,
     Mutates, Dispatches
<1> QED
  BY <1>1, <1>2, <1>3, <1>4 DEF Next, vars, client

LEMMA AtOnceDocs ==
  ASSUME NEW named, DocsInv(named), NEW p \in Procs, NEW r \in RequestIds, NEW e,
         \/ ReplayCached(p, r, e) \/ ReplayAudited(p, r, e) \/ Import(p, r, e)
         \/ Status(p, r, e) \/ Refuse(p, r, e) \/ NoOp(p, r, e)
         \/ MutateEphemeral(p, r, e) \/ OpenExisting(p, r, e)
  PROVE  FilesInv(named)' /\ FlightInv(p, named)'
<1>1. TypeInv /\ ExactDocs(p) /\ FilesInv(named)
  BY DEF DocsInv, StateInv, SoleInv, FilesInv
<1>2. phase[p] = "idle" /\ UNCHANGED disk
  BY DEF ReplayCached, ReplayAudited, Import, Status, OpenExisting, Refuse, NoOp,
     MutateEphemeral, Mutates, Dispatches, Arrives
<1>3. phase'[p] \in {"idle", "open.config"}
  BY <1>1, <1>2, TypesOf DEF ReplayCached, ReplayAudited, Import, Status, OpenExisting,
     Refuse, NoOp, MutateEphemeral, flight
<1>4. backing'[p] # None => backing'[p] = backing[p] /\ model'[p] = model[p]
  <2>1. CASE UNCHANGED session
    BY <2>1 DEF session
  <2>2. CASE Import(p, r, e) /\ ~ UNCHANGED session
    BY <1>1, <2>2, TypesOf DEF Import
  <2>3. CASE MutateEphemeral(p, r, e)
    BY <2>3 DEF MutateEphemeral, Persisted
  <2> QED
    BY <2>1, <2>2, <2>3 DEF ReplayCached, ReplayAudited, Status, OpenExisting, Refuse,
       NoOp
<1>5. UNCHANGED <<configs, dimensions>>
  BY <1>2 DEF disk
<1>6. phase'[p] \notin OpeningPhases /\ phase'[p] \notin WritePhases
      /\ phase[p] \notin WritePhases
  BY <1>2, <1>3 DEF OpeningPhases, EarlyPhases, LatePhases, WritePhases, PutPhases,
     LoggedPhases
<1>7. ExactDocs(p)'
  BY <1>1, <1>4, <1>5, <1>6, QuietDocs
<1> QED
  BY <1>1, <1>5, <1>6, <1>7, SameFiles, NothingInHand DEF FlightInv

\* A new state starts with the documents that are there, or with empty ones:
\* they name one another, and there are no cells to load.
LEMMA OpenCreateDocs ==
  ASSUME NEW named, OwnDimensions(named), DocsInv(named),
         NEW p \in Procs, NEW r \in RequestIds, NEW e, OpenCreate(p, r, e)
  PROVE  FilesInv(named)' /\ FlightInv(p, named)'
<1> DEFINE op == e.op
           d == docs'[p]
<1>1. TypeInv /\ ExactDocs(p) /\ FilesInv(named)
  BY DEF DocsInv, StateInv, SoleInv, FilesInv
<1>2. /\ Arrives(p, r, e) /\ op.kind = "model.open"
      /\ UNCHANGED disk /\ UNCHANGED session
      /\ phase'[p] = "create.config"
      /\ d = [config |-> IF configs[op.config] # None THEN configs[op.config]
                         ELSE EmptyConfiguration(op.config, op.dims),
              dims |-> IF dimensions[op.dims] # None THEN dimensions[op.dims]
                       ELSE EmptyDimensions(op.dims),
              state |-> EmptyState(op.state, op.config, op.locked)]
  BY <1>1, TypesOf DEF OpenCreate, Create, Dispatches
<1>3. op \in OpenOp /\ phase[p] = "idle"
  BY <1>1, <1>2, ArrivesType DEF Op, MutationOp
<1>4. op.config \in ConfigIds /\ op.dims \in DimSetIds
  BY <1>3 DEF OpenOp
<1>5. op.dims = named[op.config]
  <2>1. op \in Commands[r]
    BY <1>2 DEF Arrives, Envelopes, DocsInv, SentInv
  <2> QED BY <1>2, <2>1 DEF OwnDimensions
<1>6. UNCHANGED <<configs, dimensions>> /\ backing' = backing /\ model' = model
  BY <1>2 DEF disk, session
<1>7. /\ d.config.id = op.config /\ d.dims.id = op.dims
      /\ d.config.dimensionSetRef = op.dims
      /\ d.state.configRef = op.config /\ d.state.cells = NoCells
  BY <1>1, <1>2, <1>4, <1>5 DEF FilesInv, Filed, Named, EmptyConfiguration,
     EmptyDimensions, EmptyState, TypeInv, TypeOK, DiskOK
<1>8. /\ configs'[d.config.id] \in {None, d.config}
      /\ dimensions'[d.dims.id] \in {None, d.dims}
  BY <1>2, <1>6, <1>7
<1>9. Joined(d) /\ HoldsModel(MergeOf(d))
  <2>1. MergeOf(d).cells = NoCells
    BY <1>7 DEF MergeOf, Merge
  <2>2. \A rel \in Relations, m \in Members : MergeOf(d).cells[rel][m] = <<>>
    BY <2>1 DEF NoCells
  <2> HIDE DEF d
  <2>3. HoldsModel(MergeOf(d))
    BY <2>2 DEF HoldsModel, HoldsRelations, Loadable
  <2> QED BY <1>7, <2>3 DEF Joined
<1>10. phase'[p] \notin WritePhases /\ phase[p] \notin WritePhases
  BY <1>2, <1>3 DEF WritePhases, PutPhases, LoggedPhases
<1>11. ExactDocs(p)'
  BY <1>1, <1>6, <1>10, QuietDocs
<1> HIDE DEF d, op
<1>12. d = docs'[p]
  BY DEF d
<1>13. DocsJoined(p)'
  <2>1. Joined(docs[p])' /\ HoldsModel(MergeOf(docs[p]))'
    BY <1>9, <1>12
  <2> QED
    BY <1>2, <1>8, <1>12, <2>1 DEF DocsJoined, EarlyPhases, LatePhases
<1>14. CreatesNamed(p, named)'
  BY <1>5, <1>7, <1>12 DEF CreatesNamed
<1> QED
  BY <1>1, <1>6, <1>11, <1>13, <1>14, SameFiles DEF FlightInv

\* A mutation finds the open model merged from the documents, and builds one
\* that merges and loads; the layers it skips are those it does not change.
LEMMA MutatePersistedDocs ==
  ASSUME NEW named, DocsInv(named), NEW p \in Procs, NEW r \in RequestIds, NEW e,
         MutatePersisted(p, r, e)
  PROVE  FilesInv(named)' /\ FlightInv(p, named)'
<1> DEFINE b == backing[p]
           w == Written(model[p], e.op, r)
<1>1. TypeInv /\ ExactDocs(p) /\ FilesInv(named)
  BY DEF DocsInv, StateInv, SoleInv, FilesInv
<1>2. /\ Mutates(p, r, e) /\ Accepts(p, r, e) /\ Arrives(p, r, e)
      /\ next'[p] = w /\ current'[p] = r
      /\ UNCHANGED disk /\ UNCHANGED session
      /\ b # None /\ b \in Backing
      /\ phase'[p] = IF RewritesConfiguration(e.op, w, b.config) THEN "put.config"
                     ELSE IF RewritesDimensions(e.op, w, b.dims)
                     THEN "put.dims" ELSE "put.state"
  BY <1>1, TypesOf DEF MutatePersisted, Mutates, Dispatches, Persisted
<1>3. e.op \in MutationOp /\ phase[p] = "idle"
  BY <1>1, <1>2, ArrivesType DEF Mutates, Op, OpenOp
<1>4. /\ b.config \in Configuration /\ b.dims \in Dimensions /\ b.state \in State
  BY <1>2, IdsOf
<1>5. /\ Joined(b) /\ configs[b.config.id] = b.config /\ dimensions[b.dims.id] = b.dims
      /\ model[p] = MergeOf(b) /\ HoldsModel(model[p])
  BY <1>1, <1>2, <1>3 DEF ExactDocs, LoggedPhases
<1>6. model[p] \in Model /\ Succeeds(model[p], e.op, r)
  BY <1>2, <1>4, <1>5, MergeType DEF MergeOf, Accepts
<1>7. HoldsModel(w)
  BY <1>3, <1>5, <1>6, WrittenHolds
<1>8. /\ ~ RewritesConfiguration(e.op, w, b.config) => SplitConfiguration(w, b.config) = b.config
      /\ ~ RewritesDimensions(e.op, w, b.dims) => SplitDimensions(w, b.dims) = b.dims
  BY <1>3, <1>4, <1>5, NotRewritten DEF MergeOf
<1>9. /\ sent'[current'[p]].op = e.op
      /\ configs' = configs /\ dimensions' = dimensions /\ backing' = backing
      /\ model' = model
  BY <1>1, <1>2 DEF Arrives, disk, session, TypeInv, TypeOK, ClientOK
<1>10. phase'[p] \in PutPhases
  BY <1>2 DEF PutPhases
<1> HIDE DEF w
<1>11. ExactDocs(p)'
  BY <1>2, <1>5, <1>7, <1>8, <1>9, <1>10 DEF ExactDocs, PutPhases, LoggedPhases,
     WritePhases
<1>12. phase'[p] \notin OpeningPhases
  BY <1>10 DEF PutPhases, OpeningPhases, EarlyPhases, LatePhases
<1> QED
  BY <1>1, <1>9, <1>11, <1>12, SameFiles, NothingInHand DEF FlightInv

\* The session switches to documents that are on disk and load.
LEMMA SwitchDocs ==
  ASSUME NEW named, DocsInv(named), NEW p \in Procs, NEW replays,
         Switches(p, replays), Lands(p), UNCHANGED <<configs, dimensions>>,
         phase[p] \in {"open.audit"} \cup LatePhases
  PROVE  FilesInv(named)' /\ FlightInv(p, named)'
<1>1. TypeInv /\ DocsJoined(p) /\ FilesInv(named)
  BY DEF DocsInv, StateInv, SoleInv, FilesInv
<1>2. /\ backing'[p] = docs[p] /\ model'[p] = MergeOf(docs[p]) /\ phase'[p] = "idle"
  BY <1>1, TypesOf DEF Switches, Lands, MergeOf
<1>3. /\ Joined(docs[p]) /\ HoldsModel(MergeOf(docs[p]))
      /\ configs[docs[p].config.id] = docs[p].config
      /\ dimensions[docs[p].dims.id] = docs[p].dims
  BY <1>1 DEF DocsJoined
<1>4. ExactDocs(p)'
  BY <1>2, <1>3 DEF ExactDocs, WritePhases, LoggedPhases, PutPhases
<1>5. phase'[p] \notin OpeningPhases
  BY <1>2 DEF OpeningPhases, EarlyPhases, LatePhases
<1> QED BY <1>1, <1>4, <1>5, SameFiles, NothingInHand DEF FlightInv

\* model.open follows the references from the state: what it has read names one
\* another, and it goes on only with documents that merge and load.
LEMMA OpenReadDocs ==
  ASSUME NEW named, DocsInv(named), NEW p \in Procs,
         OpenReadConfig(p) \/ OpenReadDims(p)
  PROVE  FilesInv(named)' /\ FlightInv(p, named)'
<1>1. TypeInv /\ ExactDocs(p) /\ DocsJoined(p) /\ FilesInv(named)
  BY DEF DocsInv, StateInv, SoleInv, FilesInv
<1>2. /\ UNCHANGED disk /\ UNCHANGED session
      /\ phase[p] \in {"open.config", "open.dims"}
  BY DEF OpenReadConfig, OpenReadDims, OpenFails
<1>3. UNCHANGED <<configs, dimensions, backing, model>>
  BY <1>2 DEF disk, session
<1>4. phase'[p] \in {"idle", "open.dims", "open.audit"}
  BY <1>1, TypesOf DEF OpenReadConfig, OpenReadDims, OpenFails, Lands
<1>5. ExactDocs(p)'
  BY <1>1, <1>2, <1>3, <1>4, QuietDocs DEF WritePhases, PutPhases, LoggedPhases
<1>6. CASE OpenFails(p)
  <2>1. phase'[p] \notin OpeningPhases
    BY <1>1, <1>6, TypesOf DEF OpenFails, Lands, OpeningPhases, EarlyPhases, LatePhases
  <2> QED BY <1>1, <1>3, <1>5, <2>1, SameFiles, NothingInHand DEF FlightInv
<1>7. CASE OpenReadConfig(p) /\ ~ OpenFails(p)
  <2>1. /\ phase'[p] = "open.dims"
        /\ docs' = [docs EXCEPT ![p].config = configs[docs[p].state.configRef]]
    BY <1>1, <1>7, TypesOf DEF OpenReadConfig
  <2>2. docs'[p].config = configs[docs[p].state.configRef]
        /\ docs'[p].state = docs[p].state
    BY <1>1, <2>1, TypesOf DEF DocsOf
  <2>3. DocsJoined(p)' /\ CreatesNamed(p, named)'
    BY <1>3, <2>1, <2>2 DEF DocsJoined, CreatesNamed, EarlyPhases, LatePhases
  <2> QED BY <1>1, <1>3, <1>5, <2>3, SameFiles DEF FlightInv
<1>8. CASE OpenReadDims(p) /\ ~ OpenFails(p)
  <2> DEFINE c == docs[p].config
             m == dimensions[c.dimensionSetRef]
             s == docs[p].state
  <2>1. /\ phase'[p] = "open.audit" /\ phase[p] = "open.dims"
        /\ docs' = [docs EXCEPT ![p].dims = m]
        /\ m # None /\ Mergeable(c, s) /\ Loadable(Merge(c, m, s))
    BY <1>1, <1>8, TypesOf DEF OpenReadDims
  <2>2. docs'[p].config = c /\ docs'[p].dims = m /\ docs'[p].state = s
    BY <1>1, <2>1, TypesOf DEF DocsOf
  <2>3. /\ c # None /\ s # None /\ configs[s.configRef] = c
        /\ c \in Configuration /\ s \in State
    BY <1>1, <2>1, TypesOf DEF DocsJoined, TypeInv, InFlight, DocsOf
  <2>4. c.id = s.configRef /\ m.id = c.dimensionSetRef
    <3>1. s.configRef \in ConfigIds /\ c.dimensionSetRef \in DimSetIds
      BY <2>3 DEF State, Configuration
    <3> QED
      BY <1>1, <2>1, <2>3, <3>1, DiskTypes DEF FilesInv, Filed
  <2>5. HoldsModel(Merge(c, m, s))
    BY <2>1 DEF HoldsModel, HoldsRelations, Mergeable, Merge
  <2> HIDE DEF c, m, s
  <2>6. DocsJoined(p)'
    <3>1. MergeOf(docs[p])' = Merge(c, m, s)
      BY <2>2 DEF MergeOf
    <3>2. HoldsModel(MergeOf(docs[p]))' /\ Joined(docs[p])'
      BY <2>2, <2>4, <2>5, <3>1 DEF Joined
    <3>3. configs'[docs'[p].config.id] = docs'[p].config
          /\ dimensions'[docs'[p].dims.id] = docs'[p].dims
      BY <1>3, <2>2, <2>3, <2>4 DEF m
    <3> QED BY <2>1, <3>2, <3>3 DEF DocsJoined, EarlyPhases, LatePhases
  <2>7. CreatesNamed(p, named)'
    BY <2>1 DEF CreatesNamed, EarlyPhases
  <2> QED BY <1>1, <1>3, <1>5, <2>6, <2>7, SameFiles DEF FlightInv
<1> QED BY <1>6, <1>7, <1>8

\* Creating a state, open_model writes documents under ids that are free or
\* hold the same documents: the open model does not notice.
LEMMA CreatePutsDocs ==
  ASSUME NEW named, DocsInv(named), NEW p \in Procs,
         CreatePutConfig(p) \/ CreatePutDims(p)
  PROVE  FilesInv(named)' /\ FlightInv(p, named)'
<1> DEFINE d == docs[p]
<1>1. TypeInv /\ ExactDocs(p) /\ DocsJoined(p) /\ CreatesNamed(p, named)
      /\ FilesInv(named)
  BY DEF DocsInv, StateInv, SoleInv, FilesInv
<1>2. /\ phase[p] \in {"create.config", "create.dims"}
      /\ docs' = docs /\ backing' = backing /\ model' = model
  BY DEF CreatePutConfig, CreatePutDims, session
<1>3. phase'[p] \in {"create.dims", "create.state"}
  BY <1>1, TypesOf DEF CreatePutConfig, CreatePutDims
<1>4. /\ phase[p] \notin WritePhases /\ phase'[p] \notin WritePhases
      /\ phase[p] \in EarlyPhases
  BY <1>2, <1>3 DEF WritePhases, PutPhases, LoggedPhases, EarlyPhases
<1>5. /\ d \in Backing /\ d.config.id \in ConfigIds /\ d.dims.id \in DimSetIds
      /\ d.config # None /\ d.dims # None
      /\ d.config.dimensionSetRef = named[d.config.id]
      /\ configs[d.config.id] \in {None, d.config}
      /\ dimensions[d.dims.id] \in {None, d.dims}
      /\ Joined(d) /\ HoldsModel(MergeOf(d))
  BY <1>1, <1>2, <1>4, TypesOf, IdsOf DEF InFlight, DocsJoined, CreatesNamed
<1>6. backing[p] # None =>
        /\ backing[p] \in Backing
        /\ configs[backing[p].config.id] = backing[p].config
        /\ dimensions[backing[p].dims.id] = backing[p].dims
        /\ backing[p].config # None /\ backing[p].dims # None
        /\ backing[p].config.id \in ConfigIds /\ backing[p].dims.id \in DimSetIds
  BY <1>1, <1>2, TypesOf, IdsOf DEF ExactDocs
<1>7. HoldsModel(MergeOf(docs[p]))' /\ Joined(docs[p])'
  BY <1>2, <1>5
<1>8. CASE CreatePutConfig(p)
  <2>1. /\ phase[p] = "create.config" /\ phase'[p] = "create.dims"
        /\ configs' = [configs EXCEPT ![d.config.id] = d.config]
        /\ dimensions' = dimensions
    BY <1>1, <1>8, TypesOf DEF CreatePutConfig
  <2>2. /\ configs'[d.config.id] = d.config
        /\ \A c \in ConfigIds \ {d.config.id} : configs'[c] = configs[c]
        /\ configs' \in [ConfigIds -> Configuration \cup {None}]
    BY <1>1, <1>5, <2>1, DiskTypes, IdsOf
  <2>3. FilesInv(named)'
    BY <1>1, <1>5, <2>1, <2>2 DEF FilesInv, Filed, Named
  <2>4. ExactDocs(p)'
    <3>1. backing[p] # None =>
            configs'[backing[p].config.id] = configs[backing[p].config.id]
      BY <1>5, <1>6, <2>2
    <3> QED BY <1>1, <1>2, <1>4, <2>1, <3>1, QuietDocs
  <2>5. DocsJoined(p)'
    BY <1>2, <1>5, <1>7, <2>1, <2>2 DEF DocsJoined, EarlyPhases, LatePhases
  <2>6. CreatesNamed(p, named)'
    BY <1>2, <1>5 DEF CreatesNamed
  <2> QED BY <2>3, <2>4, <2>5, <2>6 DEF FlightInv
<1>9. CASE CreatePutDims(p)
  <2>1. /\ phase[p] = "create.dims" /\ phase'[p] = "create.state"
        /\ dimensions' = [dimensions EXCEPT ![d.dims.id] = d.dims]
        /\ configs' = configs
    BY <1>1, <1>9, TypesOf DEF CreatePutDims
  <2>2. /\ dimensions'[d.dims.id] = d.dims
        /\ \A c \in DimSetIds \ {d.dims.id} : dimensions'[c] = dimensions[c]
        /\ dimensions' \in [DimSetIds -> Dimensions \cup {None}]
    BY <1>1, <1>5, <2>1, DiskTypes, IdsOf
  <2>3. FilesInv(named)'
    BY <1>1, <1>5, <2>1, <2>2 DEF FilesInv, Filed, Named
  <2>4. ExactDocs(p)'
    <3>1. backing[p] # None =>
            dimensions'[backing[p].dims.id] = dimensions[backing[p].dims.id]
      BY <1>5, <1>6, <2>2
    <3> QED BY <1>1, <1>2, <1>4, <2>1, <3>1, QuietDocs
  <2>5. configs[d.config.id] = d.config
    BY <1>1, <2>1 DEF DocsJoined
  <2>6. DocsJoined(p)'
    BY <1>2, <1>5, <1>7, <2>1, <2>2, <2>5 DEF DocsJoined, EarlyPhases, LatePhases
  <2>7. CreatesNamed(p, named)'
    BY <1>2, <1>5 DEF CreatesNamed
  <2> QED BY <2>3, <2>4, <2>6, <2>7 DEF FlightInv
<1> QED BY <1>8, <1>9

\* The later steps of creating a state leave the two documents alone.
LEMMA CreateLateDocs ==
  ASSUME NEW named, DocsInv(named), NEW p \in Procs,
         CreatePutState(p) \/ CreateAppendLine(p)
  PROVE  FilesInv(named)' /\ FlightInv(p, named)'
<1>1. TypeInv /\ ExactDocs(p) /\ DocsJoined(p) /\ FilesInv(named)
  BY DEF DocsInv, StateInv, SoleInv, FilesInv
<1>2. /\ phase[p] \in {"create.state", "create.audit"}
      /\ UNCHANGED <<configs, dimensions, docs, backing, model>>
  BY DEF CreatePutState, CreateAppendLine, session
<1>3. phase'[p] \in LatePhases
  BY <1>1, TypesOf DEF CreatePutState, CreateAppendLine, LatePhases
<1>4. phase[p] \notin WritePhases /\ phase'[p] \notin WritePhases
  BY <1>2, <1>3 DEF WritePhases, PutPhases, LoggedPhases, LatePhases
<1>5. ExactDocs(p)'
  BY <1>1, <1>2, <1>4, QuietDocs
<1>6. DocsJoined(p)'
  <2>1. /\ Joined(docs[p]) /\ HoldsModel(MergeOf(docs[p]))
        /\ configs[docs[p].config.id] = docs[p].config
        /\ dimensions[docs[p].dims.id] = docs[p].dims
    BY <1>1, <1>2 DEF DocsJoined, EarlyPhases, LatePhases
  <2>2. Joined(docs[p])' /\ HoldsModel(MergeOf(docs[p]))'
    BY <1>2, <2>1
  <2> QED BY <1>2, <1>3, <2>1, <2>2 DEF DocsJoined, EarlyPhases, LatePhases
<1>7. CreatesNamed(p, named)'
  BY <1>3 DEF CreatesNamed, EarlyPhases, LatePhases
<1> QED BY <1>1, <1>2, <1>5, <1>6, <1>7, SameFiles DEF FlightInv

\* A mutation writes the layers one after the other, each under its own id.
LEMMA PutLayersDocs ==
  ASSUME NEW named, DocsInv(named), NEW p \in Procs, PutConfig(p) \/ PutDims(p)
  PROVE  FilesInv(named)' /\ FlightInv(p, named)'
<1> DEFINE b == backing[p]
           config2 == SplitConfiguration(next[p], b.config)
           dims2 == SplitDimensions(next[p], b.dims)
<1>1. TypeInv /\ ExactDocs(p) /\ FilesInv(named)
  BY DEF DocsInv, StateInv, SoleInv, FilesInv
<1>2. /\ phase[p] \in {"put.config", "put.dims"} /\ phase'[p] \in {"put.dims", "put.state"}
      /\ UNCHANGED <<backing, model, next, sent, current>>
  BY <1>1, TypesOf DEF PutConfig, PutDims, session, client
<1>3. /\ b \in Backing /\ b # None /\ next[p] \in Model
      /\ b.config \in Configuration /\ b.dims \in Dimensions /\ b.state \in State
  BY <1>1, <1>2, TypesOf, IdsOf, NoneAssumption DEF InFlight, PutPhases
<1>4. /\ config2 \in Configuration /\ config2.id = b.config.id
      /\ config2.dimensionSetRef = b.config.dimensionSetRef
      /\ dims2 \in Dimensions /\ dims2.id = b.dims.id
      /\ b.config.id \in ConfigIds /\ b.dims.id \in DimSetIds
  BY <1>3, SplitType, MergeOfSplit, IdsOf
<1>5. /\ Joined(b) /\ model[p] = MergeOf(b) /\ HoldsModel(model[p]) /\ HoldsModel(next[p])
      /\ dimensions[b.dims.id] = b.dims
      /\ configs[b.config.id] = IF phase[p] = "put.dims" THEN config2 ELSE b.config
  BY <1>1, <1>2, <1>3 DEF ExactDocs, WritePhases, LoggedPhases, PutPhases
<1>6. phase'[p] \notin OpeningPhases
  BY <1>2 DEF OpeningPhases, EarlyPhases, LatePhases
<1>7. CASE PutConfig(p)
  <2>1. /\ configs' = [configs EXCEPT ![config2.id] = config2]
        /\ dimensions' = dimensions
        /\ phase'[p] = IF RewritesDimensions(sent[current[p]].op, next[p], b.dims)
                       THEN "put.dims" ELSE "put.state"
        /\ phase[p] = "put.config"
    BY <1>1, <1>7, TypesOf DEF PutConfig
  <2>2. phase'[p] = "put.state" => dims2 = b.dims
    BY <1>1, <1>3, <2>1 DEF ExactDocs
  <2> HIDE DEF config2, dims2
  <2>3. /\ configs'[b.config.id] = config2
        /\ \A c \in ConfigIds \ {b.config.id} : configs'[c] = configs[c]
        /\ configs' \in [ConfigIds -> Configuration \cup {None}]
    BY <1>1, <1>4, <2>1, DiskTypes
  <2>4. FilesInv(named)'
    <3>1. b.config.dimensionSetRef = named[b.config.id]
      BY <1>1, <1>3, <1>4, <1>5, <2>1, IdsOf DEF FilesInv, Named
    <3> QED
      BY <1>1, <1>4, <2>1, <2>3, <3>1 DEF FilesInv, Filed, Named
  <2>5. ExactDocs(p)'
    BY <1>2, <1>3, <1>5, <2>1, <2>2, <2>3 DEF ExactDocs, WritePhases, LoggedPhases,
       PutPhases, config2, dims2
  <2> QED BY <1>6, <2>4, <2>5, NothingInHand DEF FlightInv
<1>8. CASE PutDims(p)
  <2>1. /\ dimensions' = [dimensions EXCEPT ![dims2.id] = dims2]
        /\ configs' = configs
        /\ phase'[p] = "put.state" /\ phase[p] = "put.dims"
    BY <1>1, <1>8, TypesOf DEF PutDims
  <2> HIDE DEF config2, dims2
  <2>2. /\ dimensions'[b.dims.id] = dims2
        /\ \A c \in DimSetIds \ {b.dims.id} : dimensions'[c] = dimensions[c]
        /\ dimensions' \in [DimSetIds -> Dimensions \cup {None}]
    BY <1>1, <1>4, <2>1, DiskTypes
  <2>3. FilesInv(named)'
    BY <1>1, <1>4, <2>1, <2>2 DEF FilesInv, Filed, Named
  <2>4. ExactDocs(p)'
    BY <1>2, <1>3, <1>5, <2>1, <2>2 DEF ExactDocs, WritePhases, LoggedPhases,
       PutPhases, config2, dims2
  <2> QED BY <1>6, <2>3, <2>4, NothingInHand DEF FlightInv
<1> QED BY <1>7, <1>8

\* The documents in memory become those of the next model, and the model
\* itself follows with the line.
LEMMA PutStateDocs ==
  ASSUME NEW named, DocsInv(named), NEW p \in Procs,
         PutState(p) \/ AppendLine(p) \/ AppendAudit(p)
  PROVE  FilesInv(named)' /\ FlightInv(p, named)'
<1> DEFINE b == backing[p]
<1>1. TypeInv /\ ExactDocs(p) /\ FilesInv(named)
  BY DEF DocsInv, StateInv, SoleInv, FilesInv
<1>2. /\ phase[p] \in {"put.state"} \cup LoggedPhases
      /\ UNCHANGED <<configs, dimensions>>
  BY DEF PutState, AppendLine, AppendAudit, LoggedPhases
<1>3. phase'[p] \in {"idle"} \cup LoggedPhases
  BY <1>1, TypesOf DEF PutState, AppendLine, AppendAudit, Lands, LoggedPhases
<1>4. phase'[p] \notin OpeningPhases
  BY <1>3 DEF OpeningPhases, EarlyPhases, LatePhases, LoggedPhases
<1>5. b \in Backing /\ b # None /\ next[p] \in Model
  BY <1>1, <1>2, TypesOf DEF InFlight, PutPhases, LoggedPhases
<1>6. Joined(b) /\ HoldsModel(next[p])
  BY <1>1, <1>2, <1>5 DEF ExactDocs, WritePhases, PutPhases
<1> USE DEF LoggedPhases, PutPhases, WritePhases
<1>7. CASE PutState(p)
  <2> DEFINE config2 == SplitConfiguration(next[p], b.config)
             dims2 == SplitDimensions(next[p], b.dims)
             state2 == SplitState(next[p], b.state, revision[p] + 1)
  <2>1. /\ phase[p] = "put.state" /\ phase'[p] = "put.audit" /\ next' = next
        /\ backing'[p] = [config |-> config2, dims |-> dims2, state |-> state2]
    BY <1>1, <1>7, TypesOf DEF PutState
  <2>2. revision[p] + 1 \in Nat
    BY <1>1, TypesOf
  <2>3. /\ next[p] = Merge(config2, dims2, state2)
        /\ config2.id = b.config.id /\ dims2.id = b.dims.id
        /\ config2.dimensionSetRef = b.config.dimensionSetRef
        /\ state2.configRef = b.state.configRef
    BY <1>5, <2>2, MergeOfSplit, IdsOf
  <2>4. configs[b.config.id] = config2 /\ dimensions[b.dims.id] = dims2
    BY <1>1, <1>5, <2>1 DEF ExactDocs
  <2> HIDE DEF config2, dims2, state2
  <2>5. Joined(backing[p])' /\ MergeOf(backing[p])' = next'[p]
    BY <1>6, <2>1, <2>3 DEF Joined, MergeOf
  <2>6. /\ configs'[backing'[p].config.id] = backing'[p].config
        /\ dimensions'[backing'[p].dims.id] = backing'[p].dims
    BY <1>2, <2>1, <2>3, <2>4
  <2>7. HoldsModel(next[p])'
    BY <1>6, <2>1
  <2>8. ExactDocs(p)'
    BY <2>1, <2>5, <2>6, <2>7 DEF ExactDocs
  <2> QED BY <1>1, <1>2, <1>4, <2>8, SameFiles, NothingInHand DEF FlightInv
<1>8. CASE AppendLine(p) \/ AppendAudit(p)
  <2>1. /\ phase[p] \in LoggedPhases /\ backing' = backing
        /\ \/ phase'[p] = "idle" /\ model'[p] = next[p]
           \/ phase'[p] \in LoggedPhases /\ next' = next
    BY <1>1, <1>8, TypesOf DEF AppendLine, AppendAudit, Lands, session
  <2>2. /\ next[p] = MergeOf(b)
        /\ configs[b.config.id] = b.config /\ dimensions[b.dims.id] = b.dims
    BY <1>1, <1>5, <2>1 DEF ExactDocs
  <2>3. ExactDocs(p)'
    BY <1>2, <1>5, <1>6, <2>1, <2>2 DEF ExactDocs
  <2> QED BY <1>1, <1>2, <1>4, <2>3, SameFiles, NothingInHand DEF FlightInv
<1> QED BY <1>7, <1>8

LEMMA DocsNext ==
  ASSUME NEW named, OwnDimensions(named), OneProcess, MaxFaults = 0,
         DocsInv(named), [Next]_vars
  PROVE  DocsInv(named)'
<1>1. StateInv' /\ TypeInv
  BY StateNext DEF DocsInv, StateInv, SoleInv
<1>2. SentInv'
  BY <1>1, SentNext DEF DocsInv
<1>3. CASE UNCHANGED vars
  BY <1>1, <1>2, <1>3 DEF vars, disk, session, flight, client, DocsInv, Filed, Named,
     ExactDocs, DocsJoined, CreatesNamed, Joined, MergeOf, HoldsModel, HoldsRelations
<1>4. CASE Next
  <2>1. PICK p \in Procs :
          \/ Start(p) \/ Step(p) \/ Fault(p)
          \/ \E r \in RequestIds : \E e \in Sendable(r) :
               Receive(p, r, e) \/ CreateReadError(p, r, e)
    BY <1>4 DEF Next
  <2>2. \A q \in Procs : q = p
    BY DEF OneProcess
  <2> SUFFICES FilesInv(named)' /\ FlightInv(p, named)'
    BY <1>1, <1>2, <2>2 DEF DocsInv, FilesInv, FlightInv
  <2>3. FilesInv(named) /\ ExactDocs(p) /\ ~ Faulty
    BY <1>1 DEF DocsInv, FilesInv, Faulty, TypeInv, TypeOK, BoundsOK
  <2>4. CASE Step(p)
    <3>1. CASE OpenReadAudit(p) \/ CreateAppendAudit(p)
      BY <3>1, SwitchDocs DEF OpenReadAudit, CreateAppendAudit, disk, LatePhases
    <3> QED
      BY <2>4, <3>1, OpenReadDocs, CreatePutsDocs, CreateLateDocs, PutLayersDocs,
         PutStateDocs DEF Step
  <2>5. CASE Start(p) \/ Fault(p)
    <3>1. Start(p) \/ Crash(p)
      BY <2>3, <2>5 DEF Fault, OpenError, ReplaysError, PutError, CreateAuditError,
         AuditError
    <3>2. UNCHANGED <<configs, dimensions>>
      BY <3>1 DEF Start, Crash, disk
    <3>3. phase'[p] \in {"idle", "down"}
      BY <1>1, <3>1, TypesOf DEF Start, Crash
    <3>4. phase'[p] \notin OpeningPhases
      BY <3>3 DEF OpeningPhases, EarlyPhases, LatePhases
    <3>5. ExactDocs(p)'
      <4>1. CASE Crash(p)
        <5>1. backing'[p] = None
          BY <1>1, <4>1, TypesOf DEF Crash
        <5> QED BY <5>1 DEF ExactDocs
      <4>2. CASE Start(p)
        <5>1. phase[p] = "down" /\ phase'[p] = "idle"
              /\ UNCHANGED <<backing, model, configs, dimensions>>
          BY <1>1, <4>2, TypesOf DEF Start, session, disk
        <5> QED
          BY <2>3, <5>1, QuietDocs DEF WritePhases, PutPhases, LoggedPhases
      <4> QED BY <3>1, <4>1, <4>2
    <3> QED BY <2>3, <3>2, <3>4, <3>5, SameFiles, NothingInHand DEF FlightInv
  <2>6. ASSUME NEW r \in RequestIds, NEW e, Receive(p, r, e) \/ CreateReadError(p, r, e)
        PROVE  FilesInv(named)' /\ FlightInv(p, named)'
    <3>1. Receive(p, r, e)
      BY <2>3, <2>6 DEF CreateReadError
    <3> QED
      BY <3>1, AtOnceDocs, OpenCreateDocs, MutatePersistedDocs DEF Receive
  <2> QED BY <2>1, <2>4, <2>5, <2>6
<1> QED BY <1>3, <1>4

LEMMA DocsInit ==
  ASSUME NEW named, OwnDimensions(named), Init
  PROVE  DocsInv(named)
<1>1. StateInv
  BY SoleInit DEF Init, StateInv, ExactState
<1>2. SentInv
  BY DEF Init, SentInv
<1>3. Filed(configs) /\ Filed(dimensions) /\ Named(named)
  BY CommittedAssumption DEF Init, CommittedAssumption, OwnDimensions, Named
<1>4. \A p \in Procs : ExactDocs(p) /\ DocsJoined(p) /\ CreatesNamed(p, named)
  BY DEF Init, ExactDocs, DocsJoined, CreatesNamed, EarlyPhases, LatePhases
<1> QED BY <1>1, <1>2, <1>3, <1>4 DEF DocsInv

\* Between commands, the documents on disk are those in memory.
LEMMA DocsInMemory ==
  ASSUME NEW named, DocsInv(named)
  PROVE  MemoryIsDisk
<1> SUFFICES ASSUME NEW p \in Procs, phase[p] = "idle", backing[p] # None
             PROVE  LET s == backing[p].state.id
                    IN  /\ states[s] # None
                        /\ Resolves(s)
                        /\ backing[p] = [config |-> ConfigOf(s), dims |-> DimsOf(s),
                                         state |-> states[s]]
                        /\ model[p] = Merge(ConfigOf(s), DimsOf(s), states[s])
                        /\ revision[p] = states[s].revision
  BY DEF MemoryIsDisk, Persisted
<1> DEFINE b == backing[p]
           s == b.state.id
<1>1. TypeInv /\ ExactDocs(p) /\ ExactState(p)
  BY DEF DocsInv, StateInv, SoleInv
<1>2. b \in Backing
  BY <1>1, TypesOf
<1>3. /\ b.state # None /\ b.config # None /\ b.dims # None
  BY <1>2, IdsOf
<1>4. /\ Joined(b) /\ model[p] = MergeOf(b) /\ HoldsModel(model[p])
      /\ configs[b.config.id] = b.config /\ dimensions[b.dims.id] = b.dims
      /\ states[s] = b.state /\ revision[p] = b.state.revision
  BY <1>1 DEF ExactDocs, ExactState, LoggedPhases
<1>5. ConfigOf(s) = b.config /\ DimsOf(s) = b.dims
  BY <1>4 DEF ConfigOf, DimsOf, Joined
<1>6. Mergeable(b.config, b.state) /\ Loadable(MergeOf(b))
  BY <1>4 DEF HoldsModel, HoldsRelations, MergeOf, Merge, Mergeable
<1>7. b = [config |-> b.config, dims |-> b.dims, state |-> b.state]
  BY <1>2 DEF Backing
<1> QED
  BY <1>3, <1>4, <1>5, <1>6, <1>7 DEF Resolves, MergeOf

\* Between commands a process holds in memory exactly what opening its state
\* would give: the three documents of the files, the model they merge to and
\* the revision (open_model, apply_mutation).  One process, whatever is killed
\* where, as long as no file operation fails and a new state is not put on a
\* configuration with other dimensions than the command names.
THEOREM MemoryMirrorsDisk ==
  ASSUME OneProcess, MaxFaults = 0, NEW named, OwnDimensions(named)
  PROVE  Spec => []MemoryIsDisk
<1>1. Init => DocsInv(named)
  BY DocsInit
<1>2. DocsInv(named) /\ [Next]_vars => DocsInv(named)'
  BY DocsNext
<1>3. DocsInv(named) => MemoryIsDisk
  BY DocsInMemory
<1> QED BY <1>1, <1>2, <1>3, PTL DEF Spec
=============================================================================
