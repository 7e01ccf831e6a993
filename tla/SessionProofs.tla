--------------------------- MODULE SessionProofs ---------------------------
(***************************************************************************)
(* Proofs about the session, for every store, every set of processes,      *)
(* requests and commands, and any number of kills, also when several       *)
(* processes have the same state open: its types, and what the audit logs  *)
(* say of requests.  A request leaves one line in the log of a state at    *)
(* most, as long as an append is one write and no file operation fails;    *)
(* and what clients are told is what the logs say, whatever fails or comes *)
(* apart.                                                                  *)
(***************************************************************************)
EXTENDS SessionProperties, SequenceTheorems, WellFoundedInduction, TLAPS

-----------------------------------------------------------------------------
(* What the operators of Layers return: merging and splitting documents    *)
(* and writing to a model stay within the types of the three layers.       *)

\* Merging three documents gives a model (merge::merge).
LEMMA MergeType ==
  ASSUME NEW config \in Configuration, NEW dims \in Dimensions, NEW state \in State
  PROVE  Merge(config, dims, state) \in Model
BY DEF Merge, Configuration, Dimensions, State, Model

\* Splitting a model gives the three documents again (merge::split).
LEMMA SplitType ==
  ASSUME NEW m \in Model, NEW config \in Configuration, NEW dims \in Dimensions,
         NEW state \in State, NEW n \in Nat
  PROVE  /\ SplitConfiguration(m, config) \in Configuration
         /\ SplitDimensions(m, dims) \in Dimensions
         /\ SplitState(m, state, n) \in State
BY DEF SplitConfiguration, SplitDimensions, SplitState, Model, Configuration,
       Dimensions, State

\* The documents of a new state (open_model).
LEMMA EmptyType ==
  ASSUME NEW s \in StateIds, NEW c \in ConfigIds, NEW d \in DimSetIds,
         NEW l \in BOOLEAN
  PROVE  /\ EmptyConfiguration(c, d) \in Configuration
         /\ EmptyDimensions(d) \in Dimensions
         /\ EmptyState(s, c, l) \in State
<1>1. EmptyConfiguration(c, d) \in Configuration
  BY DEF EmptyConfiguration, Configuration, Lifecycle
<1>2. EmptyDimensions(d) \in Dimensions
  BY DEF EmptyDimensions, Dimensions, Lifecycle
<1>3. NoCells \in Cells
  BY DEF NoCells, Cells
<1>4. EmptyState(s, c, l) \in State
  BY <1>3 DEF EmptyState, State
<1> QED BY <1>1, <1>2, <1>4

\* An observation leaves a cell (write::observe).
LEMMA ObservedType ==
  ASSUME NEW cell \in Seq(Observation), NEW token \in Tokens
  PROVE  Observed(cell, token) \in Seq(Observation)
<1> DEFINE o == [token |-> token, evidence |-> <<>>]
<1>1. o \in Observation
  BY DEF Observation
<1>2. Append(cell, o) \in Seq(Observation)
  BY <1>1, AppendProperties
<1> QED BY <1>2 DEF Observed

\* Evidence put on a cell that has an observation leaves a cell
\* (write::attach_evidence).
LEMMA AttachedType ==
  ASSUME NEW cell \in Seq(Observation), cell # <<>>, NEW request \in RequestIds
  PROVE  Attached(cell, request) \in Seq(Observation)
<1> DEFINE n == Len(cell)
           o == [cell[n] EXCEPT !.evidence = Append(@, request)]
<1>1. n \in 1 .. Len(cell)
  BY EmptySeq
<1>2. cell[n] \in Observation
  BY <1>1, ElementOfSeq
<1>3. Append(cell[n].evidence, request) \in Seq(RequestIds)
  BY <1>2, AppendProperties DEF Observation
<1>4. o \in Observation
  BY <1>2, <1>3 DEF Observation
<1>5. [cell EXCEPT ![n] = o] \in Seq(Observation)
  BY <1>1, <1>4, ExceptSeq
<1> QED BY <1>5 DEF Attached

\* A write whose checks pass turns a model into a model (the functions of
\* write.rs).
LEMMA WrittenType ==
  ASSUME NEW m \in Model, NEW op \in MutationOp, NEW request \in RequestIds,
         Admissible(m, op)
  PROVE  Written(m, op, request) \in Model
<1> USE DEF Lifecycle
<1>1. CASE op.kind = "dimension.register"
  BY <1>1 DEF Written, Model
<1>2. CASE op.kind = "scale.declare"
  <2>1. op.tokens \in SUBSET Tokens
    BY <1>2 DEF MutationOp
  <2> QED BY <1>2, <2>1 DEF Written, Model
<1>3. CASE op.kind = "relation.declare"
  BY <1>3 DEF Written, Model
<1>4. CASE op.kind = "members.sync"
  <2>1. Synced(m.members, op.roster) \in [Members -> Lifecycle]
    BY DEF Synced, Model
  <2> QED BY <1>4, <2>1 DEF Written, Model
<1>5. CASE op.kind = "member.propose"
  BY <1>5 DEF Written, Model
<1>6. CASE op.kind = "observe"
  <2>1. op.relation \in Relations /\ op.member \in Members /\ op.token \in Tokens
    BY <1>6 DEF MutationOp
  <2>2. Observed(m.cells[op.relation][op.member], op.token) \in Seq(Observation)
    BY <2>1, ObservedType DEF Model, Cells
  <2> QED BY <1>6, <2>1, <2>2 DEF Written, Model, Cells
<1>7. CASE op.kind = "evidence.attach"
  <2>1. op.relation \in Relations /\ op.member \in Members
    BY <1>7 DEF MutationOp
  <2>2. m.cells[op.relation][op.member] # <<>>
    BY <1>7 DEF Admissible
  <2>3. Attached(m.cells[op.relation][op.member], request) \in Seq(Observation)
    BY <2>1, <2>2, AttachedType DEF Model, Cells
  <2> QED BY <1>7, <2>1, <2>3 DEF Written, Model, Cells
<1>8. CASE op.kind = "deprecate"
  BY <1>8 DEF Written, Model
<1> QED BY <1>1, <1>2, <1>3, <1>4, <1>5, <1>6, <1>7, <1>8 DEF MutationOp

-----------------------------------------------------------------------------
(* Parts of the session *)

\* A finite non-empty set of numbers has a greatest element.
LEMMA GreatestOfSome ==
  ASSUME NEW n \in Nat, NEW S \in SUBSET (1 .. n), S # {}
  PROVE  \E i \in S : \A j \in S : j <= i
<1> DEFINE T == {x \in Nat : \E i \in S : x + i = n}
           R == {ss \in Nat \X Nat : ss[1] < ss[2]}
<1>1. \A i \in S : i \in Nat /\ i <= n /\ n - i \in Nat /\ (n - i) + i = n
  OBVIOUS
<1>2. T \subseteq Nat /\ T # {}
  BY <1>1
<1>3. R = OpToRel(<, Nat)
  BY DEF OpToRel
<1>4. PICK x \in T : \A y \in T : <<y, x>> \notin R
  <2>1. IsWellFoundedOn(R, Nat)
    BY <1>3, NatLessThanWellFounded
  <2> HIDE DEF T, R
  <2> QED BY <1>2, <2>1, WFMin
<1>5. \A y \in T : x <= y
  <2> TAKE y \in T
  <2>1. ~ (<<y, x>> \in Nat \X Nat /\ y < x)
    BY <1>4
  <2> QED BY <2>1
<1>6. PICK i \in S : x + i = n
  OBVIOUS
<1>7. ASSUME NEW j \in S PROVE j <= i
  <2>1. n - j \in T
    BY <1>1
  <2>2. x <= n - j
    BY <2>1, <1>5
  <2>3. x \in Nat /\ i \in Nat /\ j \in Nat
    BY <1>1
  <2> QED BY <2>2, <2>3, <1>6
<1> QED BY <1>7

\* What AuditLog::append leaves is a log, whether it completes or not.
LEMMA AppendedType ==
  ASSUME NEW log \in AuditFile, NEW line \in Line
  PROVE  /\ LineWritten(log, line) \in AuditFile
         /\ Terminated(log) \in AuditFile
         /\ Appended(log, line) \in AuditFile
         /\ Torn(log, line) \subseteq AuditFile
         /\ Killed(log, line) \subseteq AuditFile
<1>1. Append(log.lines, line) \in Seq(Line)
  BY AppendProperties DEF AuditFile
<1>2. LineWritten(log, line) \in AuditFile
  BY <1>1 DEF LineWritten, AuditFile
<1>3. \A l \in AuditFile : Terminated(l) \in AuditFile
  BY DEF Terminated, AuditFile
<1>4. Appended(log, line) \in AuditFile
  BY <1>2, <1>3 DEF Appended
<1>5. [log EXCEPT !.tail = "garbled"] \in AuditFile
  BY DEF AuditFile
<1> QED BY <1>2, <1>3, <1>4, <1>5 DEF Torn, Killed

\* load_audit_replays gives every request that has a line in a log that
\* parses, and no other, a version.
LEMMA ReplaysType ==
  ASSUME NEW log \in AuditFile
  PROVE  /\ Replays(log) \in [RequestIds -> Nat \cup {None}]
         /\ log.tail # "garbled" =>
              \A i \in 1 .. Len(log.lines) :
                Replays(log)[log.lines[i].request] # None
<1> DEFINE At(r) == {i \in 1 .. Len(log.lines) : log.lines[i].request = r}
           Last(r) == CHOOSE i \in At(r) : \A j \in At(r) : j <= i
<1>1. ASSUME NEW r \in RequestIds, At(r) # {}
      PROVE  Last(r) \in At(r)
  <2>1. Len(log.lines) \in Nat
    BY LenProperties DEF AuditFile
  <2>2. At(r) \in SUBSET (1 .. Len(log.lines))
    OBVIOUS
  <2> HIDE DEF At
  <2>3. \E i \in At(r) : \A j \in At(r) : j <= i
    BY <1>1, <2>1, <2>2, GreatestOfSome
  <2> QED BY <2>3
<1>2. \A i \in 1 .. Len(log.lines) :
        log.lines[i].request \in RequestIds /\ log.lines[i].after \in Nat
  <2> TAKE i \in 1 .. Len(log.lines)
  <2>1. log.lines \in Seq(Line)
    BY DEF AuditFile
  <2>2. log.lines[i] \in Line
    BY <2>1, ElementOfSeq
  <2> QED BY <2>2 DEF Line
<1>3. ASSUME NEW r \in RequestIds, At(r) # {}
      PROVE  log.lines[Last(r)].after \in Nat
  BY <1>1, <1>2, <1>3
<1>4. CASE log.tail = "garbled"
  BY <1>4 DEF Replays, NoReplays
<1>5. CASE log.tail # "garbled"
  <2>1. Replays(log) =
          [r \in RequestIds |->
             IF At(r) = {} THEN None ELSE log.lines[Last(r)].after]
    BY <1>5 DEF Replays
  <2> HIDE DEF Last
  <2>2. Replays(log) \in [RequestIds -> Nat \cup {None}]
    BY <2>1, <1>3
  <2>3. ASSUME NEW i \in 1 .. Len(log.lines)
        PROVE  Replays(log)[log.lines[i].request] # None
    <3>1. At(log.lines[i].request) # {}
      OBVIOUS
    <3> QED BY <3>1, <2>1, <1>2, <1>3, SessionAssumption DEF SessionAssumption
  <2> QED BY <2>2, <2>3
<1> QED BY <1>4, <1>5

-----------------------------------------------------------------------------
(* Types.  What a step reads of the command in flight is there: the phase  *)
(* says which of the documents model.open has in hand, and that a mutation *)
(* has a persisted model behind it.                                        *)

InFlight(p) ==
  /\ phase[p] \notin {"idle", "down"} => current[p] \in RequestIds
  /\ phase[p] \in {"open.config", "open.dims"} => docs[p].state # None
  /\ phase[p] = "open.dims" => docs[p].config # None
  /\ phase[p] \in {"open.audit", "create.config", "create.dims",
                   "create.state", "create.audit", "create.newline"} =>
       docs[p] \in Backing
  /\ phase[p] \in PutPhases \cup {"put.audit", "put.newline"} =>
       backing[p] # None /\ next[p] # None

TypeInv == TypeOK /\ \A p \in Procs : InFlight(p)

\* Init gives every variable a value of its kind, whatever is committed.
LEMMA InitType == Init => TypeInv
<1> SUFFICES ASSUME Init PROVE TypeInv
  OBVIOUS
<1> USE DEF Init
<1>1. configs \in [ConfigIds -> Configuration \cup {None}]
      /\ dimensions \in [DimSetIds -> Dimensions \cup {None}]
      /\ states \in [StateIds -> State \cup {None}]
  BY CommittedAssumption DEF CommittedAssumption, Store
<1>2. audit \in [StateIds -> AuditFile]
  BY DEF AuditFile
<1>3. TypeOK
  BY <1>1, <1>2 DEF TypeOK, DiskOK, SessionOK, FlightOK, ClientOK, BoundsOK, NoReplays, NoDocs, DocsOf, Phases
<1>4. \A p \in Procs : InFlight(p)
  BY DEF InFlight, PutPhases
<1> QED BY <1>3, <1>4 DEF TypeInv

\* What a step leaves alone keeps its type.
LEMMA UnchangedType ==
  ASSUME TypeInv
  PROVE  /\ UNCHANGED disk => DiskOK'
         /\ UNCHANGED session => SessionOK'
         /\ UNCHANGED flight => FlightOK'
         /\ UNCHANGED client => ClientOK'
         /\ UNCHANGED bounds => BoundsOK'
         /\ UNCHANGED flight /\ UNCHANGED backing => \A p \in Procs : InFlight(p)'
<1> USE DEF TypeInv, TypeOK
<1>1. UNCHANGED disk => DiskOK'
  BY DEF DiskOK, disk
<1>2. UNCHANGED session => SessionOK'
  BY DEF SessionOK, session
<1>3. UNCHANGED flight => FlightOK'
  BY DEF FlightOK, flight
<1>4. UNCHANGED client => ClientOK'
  BY DEF ClientOK, client
<1>5. UNCHANGED bounds => BoundsOK'
  BY DEF BoundsOK, bounds
<1>6. UNCHANGED flight /\ UNCHANGED backing => \A p \in Procs : InFlight(p)'
  BY DEF InFlight, flight
<1> QED BY <1>1, <1>2, <1>3, <1>4, <1>5, <1>6

\* A step of one process concerns only its own command in flight.
Others(p) ==
  \A q \in Procs \ {p} :
    /\ phase'[q] = phase[q] /\ current'[q] = current[q] /\ docs'[q] = docs[q]
    /\ next'[q] = next[q] /\ backing'[q] = backing[q]

\* The commands in flight elsewhere are not disturbed.
LEMMA OthersType ==
  ASSUME TypeInv, NEW p \in Procs, Others(p), InFlight(p)'
  PROVE  \A q \in Procs : InFlight(q)'
<1> TAKE q \in Procs
<1>1. CASE q = p
  BY <1>1
<1>2. CASE q # p
  BY <1>2 DEF Others, TypeInv, InFlight
<1> QED BY <1>1, <1>2

\* A command that arrives carries an envelope of its request.
LEMMA ArrivesType ==
  ASSUME TypeInv, NEW p \in Procs, NEW r \in RequestIds, NEW e, Arrives(p, r, e)
  PROVE  /\ sent' \in [RequestIds -> Envelope \cup {None}]
         /\ e.op \in Op
         /\ phase[p] = "idle"
<1>1. e \in Envelope
  <2>1. Envelopes(r) \subseteq Envelope
    BY CommandsAssumption, SessionAssumption
       DEF Envelopes, Envelope, CommandsAssumption, SessionAssumption
  <2> QED BY <2>1 DEF Arrives, TypeInv, TypeOK, ClientOK
<1>2. sent' = [sent EXCEPT ![r] = e] /\ phase[p] = "idle"
  BY DEF Arrives
<1>3. e.op \in Op
  BY <1>1 DEF Envelope
<1> QED BY <1>1, <1>2, <1>3 DEF TypeInv, TypeOK, ClientOK

\* An answer is kept for its request and given to the client.
LEMMA AnswersType ==
  ASSUME TypeInv, NEW p \in Procs, NEW r \in RequestIds, NEW code \in Codes,
         NEW version \in Nat, Answers(p, r, code, version),
         sent' \in [RequestIds -> Envelope \cup {None}]
  PROVE  ClientOK'
<1> DEFINE a == [code |-> code, version |-> version]
<1>1. a \in Answer
  BY DEF Answer
<1>2. /\ request_cache' = [request_cache EXCEPT ![p][r] = a]
      /\ answer' = [answer EXCEPT ![r] = a]
  BY DEF Answers
<1> HIDE DEF a
<1>3. request_cache' \in [Procs -> [RequestIds -> Answer \cup {None}]]
  BY <1>1, <1>2 DEF TypeInv, TypeOK, ClientOK
<1>4. answer' \in [RequestIds -> Answer \cup {None}]
  BY <1>1, <1>2 DEF TypeInv, TypeOK, ClientOK
<1> QED BY <1>3, <1>4 DEF ClientOK

\* A command that lands leaves nothing in flight in its process.
LEMMA LandsType ==
  ASSUME TypeInv, NEW p \in Procs, Lands(p),
         \A q \in Procs \ {p} : backing'[q] = backing[q]
  PROVE  FlightOK' /\ \A q \in Procs : InFlight(q)'
<1>1. FlightOK'
  BY DEF Lands, TypeInv, TypeOK, FlightOK, Phases, NoDocs, DocsOf
<1>2. Others(p)
  BY DEF Lands, Others, TypeInv, TypeOK, FlightOK
<1>3. phase'[p] = "idle"
  BY DEF Lands, TypeInv, TypeOK, FlightOK
<1>4. InFlight(p)'
  BY <1>3 DEF InFlight, PutPhases
<1> QED BY <1>1, <1>2, <1>4, OthersType

\* A step that keeps each part of TypeInv keeps it.
LEMMA PartsType ==
  ASSUME DiskOK', SessionOK', FlightOK', ClientOK', BoundsOK',
         \A p \in Procs : InFlight(p)'
  PROVE  TypeInv'
BY DEF TypeInv, TypeOK

-----------------------------------------------------------------------------
(* Every step of Receive keeps the types *)

\* A replayed answer changes nothing but what the client has.
LEMMA ReplayType ==
  ASSUME TypeInv, NEW p \in Procs, NEW r \in RequestIds, NEW e,
         ReplayCached(p, r, e) \/ ReplayAudited(p, r, e)
  PROVE  TypeInv'
<1>1. CASE ReplayCached(p, r, e)
  <2>1. Arrives(p, r, e) /\ UNCHANGED <<disk, session, flight, bounds, request_cache>>
    BY <1>1 DEF ReplayCached
  <2>2. request_cache[p][r] \in Answer
    BY <1>1 DEF ReplayCached, TypeInv, TypeOK, ClientOK
  <2>3. answer' = [answer EXCEPT ![r] = request_cache[p][r]]
    BY <1>1 DEF ReplayCached
  <2>4. ClientOK'
    BY <2>1, <2>2, <2>3, ArrivesType DEF TypeInv, TypeOK, ClientOK
  <2> QED BY <2>1, <2>4, UnchangedType, PartsType DEF session
<1>2. CASE ReplayAudited(p, r, e)
  <2>1. Arrives(p, r, e) /\ UNCHANGED <<disk, session, flight, bounds>>
    BY <1>2 DEF ReplayAudited
  <2>2. audit_replays[p][r] \in Nat
    BY <1>2 DEF ReplayAudited, AuditReplay, TypeInv, TypeOK, SessionOK
  <2>3. Answers(p, r, "replayed", audit_replays[p][r])
    BY <1>2 DEF ReplayAudited
  <2>4. ClientOK'
    BY <2>1, <2>2, <2>3, ArrivesType, AnswersType DEF Codes
  <2> QED BY <2>1, <2>4, UnchangedType, PartsType DEF session
<1> QED BY <1>1, <1>2

\* An imported model is a model, and its process has no documents behind it.
LEMMA ImportType ==
  ASSUME TypeInv, NEW p \in Procs, NEW r \in RequestIds, NEW e, Import(p, r, e)
  PROVE  TypeInv'
<1>1. /\ Arrives(p, r, e)
      /\ e.op.kind = "import"
      /\ UNCHANGED <<disk, flight, bounds>>
  BY DEF Import, Dispatches
<1>2. e.op.model \in Model
  BY <1>1, ArrivesType DEF Op, MutationOp, OpenOp
<1>3. SessionOK'
  <2>1. CASE Loadable(e.op.model)
    <3>1. /\ model' = [model EXCEPT ![p] = e.op.model]
          /\ backing' = [backing EXCEPT ![p] = None]
          /\ revision' = [revision EXCEPT ![p] = 0]
          /\ locked' = [locked EXCEPT ![p] = FALSE]
          /\ audit_replays' = [audit_replays EXCEPT ![p] = NoReplays]
      BY <2>1 DEF Import
    <3>2. NoReplays \in [RequestIds -> Nat \cup {None}]
      BY DEF NoReplays
    <3> QED BY <1>2, <3>1, <3>2 DEF TypeInv, TypeOK, SessionOK
  <2>2. CASE ~ Loadable(e.op.model)
    BY <2>2, UnchangedType DEF Import
  <2> QED BY <2>1, <2>2
<1>4. ClientOK'
  <2>1. Answers(p, r, "ok", 0) \/ Answers(p, r, "invalid_model", 0)
    BY DEF Import
  <2>2. {"ok", "invalid_model"} \subseteq Codes
    BY DEF Codes
  <2> QED BY <1>1, <2>1, <2>2, ArrivesType, AnswersType
<1>5. \A q \in Procs : InFlight(q)'
  <2>1. phase[p] = "idle"
    BY <1>1, ArrivesType
  <2>2. \A q \in Procs \ {p} : backing'[q] = backing[q]
    BY DEF Import, TypeInv, TypeOK, SessionOK, session
  <2>3. Others(p)
    BY <1>1, <2>2 DEF Others, flight
  <2>4. InFlight(p)'
    BY <1>1, <2>1 DEF InFlight, flight, PutPhases
  <2> QED BY <2>3, <2>4, OthersType
<1> QED BY <1>1, <1>3, <1>4, <1>5, UnchangedType, PartsType

\* A command answered at once, that leaves the session alone.
LEMMA AnsweredType ==
  ASSUME TypeInv, NEW p \in Procs, NEW r \in RequestIds, NEW e,
         Status(p, r, e) \/ Refuse(p, r, e) \/ NoOp(p, r, e)
  PROVE  TypeInv'
<1>1. /\ Arrives(p, r, e)
      /\ UNCHANGED <<disk, session, flight, bounds>>
  BY DEF Status, Refuse, NoOp, Mutates, Dispatches
<1>2. revision[p] \in Nat
  BY DEF TypeInv, TypeOK, SessionOK
<1>3. Refusal(p, r, e) \in Codes
  BY DEF Refusal, Codes
<1>4. \E code \in Codes, version \in Nat : Answers(p, r, code, version)
  BY <1>2, <1>3 DEF Status, Refuse, NoOp, Codes
<1>5. ClientOK'
  BY <1>1, <1>4, ArrivesType, AnswersType
<1> QED BY <1>1, <1>5, UnchangedType, PartsType DEF session

\* A command that takes flight, and what it needs from then on.
LEMMA TakesFlightType ==
  ASSUME TypeInv, NEW p \in Procs, NEW r \in RequestIds, NEW e,
         \/ OpenExisting(p, r, e)
         \/ \E cr, dr \in BOOLEAN : Create(p, r, e, cr, dr)
         \/ MutatePersisted(p, r, e),
         BoundsOK'
  PROVE  TypeInv'
<1>1. /\ Arrives(p, r, e)
      /\ UNCHANGED <<disk, session, request_cache, answer>>
      /\ current' = [current EXCEPT ![p] = r]
  BY DEF OpenExisting, Create, MutatePersisted, Mutates, Dispatches
<1>2. ClientOK'
  BY <1>1, ArrivesType DEF TypeInv, TypeOK, ClientOK
<1>3. e.op \in Op
  BY <1>1, ArrivesType
<1>4. CASE OpenExisting(p, r, e)
  <2>1. e.op.state \in StateIds
    BY <1>3, <1>4 DEF OpenExisting, Op, OpenOp, MutationOp
  <2>2. states[e.op.state] \in State
    BY <1>4, <2>1 DEF OpenExisting, TypeInv, TypeOK, DiskOK
  <2> DEFINE d == [NoDocs EXCEPT !.state = states[e.op.state]]
  <2>3. d \in DocsOf /\ d.state # None
    BY <2>2, NoneAssumption DEF DocsOf, NoDocs, NoneAssumption
  <2>4. /\ phase' = [phase EXCEPT ![p] = "open.config"]
        /\ docs' = [docs EXCEPT ![p] = d]
        /\ next' = next
    BY <1>4 DEF OpenExisting
  <2> HIDE DEF d
  <2>5. FlightOK'
    BY <1>1, <2>3, <2>4 DEF TypeInv, TypeOK, FlightOK, Phases
  <2>6. Others(p)
    BY <1>1, <2>4 DEF Others, TypeInv, TypeOK, FlightOK, session
  <2>7. InFlight(p)'
    BY <1>1, <2>3, <2>4 DEF InFlight, PutPhases, TypeInv, TypeOK, FlightOK
  <2> QED BY <1>1, <1>2, <2>5, <2>6, <2>7, OthersType, UnchangedType, PartsType
<1>5. ASSUME NEW cr \in BOOLEAN, NEW dr \in BOOLEAN, Create(p, r, e, cr, dr)
      PROVE  TypeInv'
  <2> DEFINE op == e.op
             cd == IF cr THEN configs[op.config] ELSE None
             dd == IF dr THEN dimensions[op.dims] ELSE None
             c == IF cd # None THEN cd ELSE EmptyConfiguration(op.config, op.dims)
             k == IF dd # None THEN dd ELSE EmptyDimensions(op.dims)
             s == EmptyState(op.state, op.config, op.locked)
             d == [config |-> c, dims |-> k, state |-> s]
  <2>1. /\ op.state \in StateIds /\ op.config \in ConfigIds
        /\ op.dims \in DimSetIds /\ op.locked \in BOOLEAN
    BY <1>3, <1>5 DEF Create, Op, OpenOp, MutationOp
  <2>2. c \in Configuration /\ k \in Dimensions /\ s \in State
    BY <2>1, EmptyType DEF TypeInv, TypeOK, DiskOK
  <2>3. /\ phase' = [phase EXCEPT ![p] = "create.config"]
        /\ docs' = [docs EXCEPT ![p] = d]
        /\ next' = next
    BY <1>5 DEF Create
  <2> HIDE DEF c, k, s
  <2>4. d \in Backing /\ d \in DocsOf
    BY <2>2 DEF Backing, DocsOf
  <2> HIDE DEF d
  <2>5. FlightOK'
    BY <1>1, <2>3, <2>4 DEF TypeInv, TypeOK, FlightOK, Phases
  <2>6. Others(p)
    BY <1>1, <2>3 DEF Others, TypeInv, TypeOK, FlightOK, session
  <2>7. InFlight(p)'
    BY <1>1, <2>3, <2>4 DEF InFlight, PutPhases, TypeInv, TypeOK, FlightOK
  <2> QED BY <1>1, <1>2, <2>5, <2>6, <2>7, OthersType, UnchangedType, PartsType
<1>6. CASE MutatePersisted(p, r, e)
  <2> DEFINE written == Written(model[p], e.op, r)
  <2>1. e.op \in MutationOp
    BY <1>3, <1>6 DEF MutatePersisted, Mutates, Op, OpenOp
  <2>2. model[p] \in Model /\ Admissible(model[p], e.op) /\ backing[p] # None
    BY <1>6 DEF MutatePersisted, Accepts, Succeeds, Persisted, TypeInv, TypeOK, SessionOK
  <2>3. written \in Model
    BY <2>1, <2>2, WrittenType
  <2>4. /\ phase'[p] \in PutPhases
        /\ \E ph \in PutPhases : phase' = [phase EXCEPT ![p] = ph]
        /\ next' = [next EXCEPT ![p] = written]
        /\ docs' = docs
    BY <1>6 DEF MutatePersisted, PutPhases, TypeInv, TypeOK, FlightOK
  <2> HIDE DEF written
  <2>5. FlightOK'
    BY <1>1, <2>3, <2>4 DEF TypeInv, TypeOK, FlightOK, Phases
  <2>6. Others(p)
    BY <1>1, <2>4 DEF Others, TypeInv, TypeOK, FlightOK, session
  <2>7. InFlight(p)'
    BY <1>1, <2>2, <2>3, <2>4, NoneAssumption
       DEF InFlight, PutPhases, TypeInv, TypeOK, FlightOK, session, NoneAssumption
  <2> QED BY <1>1, <1>2, <2>5, <2>6, <2>7, OthersType, UnchangedType, PartsType
<1> QED BY <1>4, <1>5, <1>6

\* A mutation in memory changes the model and its revision only.
LEMMA MutateEphemeralType ==
  ASSUME TypeInv, NEW p \in Procs, NEW r \in RequestIds, NEW e,
         MutateEphemeral(p, r, e)
  PROVE  TypeInv'
<1> DEFINE written == Written(model[p], e.op, r)
<1>1. /\ Arrives(p, r, e)
      /\ UNCHANGED <<disk, flight, bounds, backing, locked, audit_replays>>
      /\ model' = [model EXCEPT ![p] = written]
      /\ revision' = [revision EXCEPT ![p] = revision[p] + 1]
      /\ Answers(p, r, "in_memory", revision[p] + 1)
  BY DEF MutateEphemeral, Mutates, Dispatches
<1>2. e.op \in MutationOp
  BY <1>1, ArrivesType DEF MutateEphemeral, Mutates, Op, OpenOp
<1>3. model[p] \in Model /\ Admissible(model[p], e.op)
  BY DEF MutateEphemeral, Accepts, Succeeds, TypeInv, TypeOK, SessionOK
<1>4. written \in Model
  BY <1>2, <1>3, WrittenType
<1> HIDE DEF written
<1>5. SessionOK'
  BY <1>1, <1>4 DEF TypeInv, TypeOK, SessionOK
<1>6. revision[p] + 1 \in Nat
  BY DEF TypeInv, TypeOK, SessionOK
<1>7. ClientOK'
  BY <1>1, <1>6, ArrivesType, AnswersType DEF Codes
<1> QED BY <1>1, <1>5, <1>7, UnchangedType, PartsType

\* Every command that arrives keeps the types.
LEMMA ReceiveType ==
  ASSUME TypeInv, NEW p \in Procs, NEW r \in RequestIds, NEW e, Receive(p, r, e)
  PROVE  TypeInv'
<1>1. OpenExisting(p, r, e) \/ MutatePersisted(p, r, e) => BoundsOK'
  BY UnchangedType DEF OpenExisting, MutatePersisted
<1>2. OpenCreate(p, r, e) => Create(p, r, e, TRUE, TRUE) /\ BoundsOK'
  BY UnchangedType DEF OpenCreate
<1> QED BY <1>1, <1>2, ReplayType, ImportType, AnsweredType, TakesFlightType,
           MutateEphemeralType DEF Receive

-----------------------------------------------------------------------------
(* Every file operation keeps the types *)

\* An answer given as its command lands.
LEMMA AnsweredAndLandsType ==
  ASSUME TypeInv, NEW p \in Procs, phase[p] \notin {"idle", "down"},
         NEW code \in Codes, NEW version \in Nat,
         Answers(p, current[p], code, version), UNCHANGED sent, Lands(p),
         \A q \in Procs \ {p} : backing'[q] = backing[q],
         DiskOK', SessionOK', BoundsOK'
  PROVE  TypeInv'
<1>1. current[p] \in RequestIds
  BY DEF TypeInv, InFlight
<1>2. sent' \in [RequestIds -> Envelope \cup {None}]
  BY DEF TypeInv, TypeOK, ClientOK
<1>3. ClientOK'
  BY <1>1, <1>2, AnswersType
<1> QED BY <1>3, LandsType, PartsType

\* An open or a put that fails leaves the session alone.
LEMMA FailsType ==
  ASSUME TypeInv, NEW p \in Procs, phase[p] \notin {"idle", "down"},
         NEW code \in Codes, Answers(p, current[p], code, 0), Lands(p),
         UNCHANGED <<session, sent>>, DiskOK', BoundsOK'
  PROVE  TypeInv'
<1>1. SessionOK' /\ UNCHANGED backing
  BY UnchangedType DEF session
<1> QED BY <1>1, AnsweredAndLandsType

\* The session takes the documents of model.open: three of them, in hand.
LEMMA SwitchesType ==
  ASSUME TypeInv, NEW p \in Procs, 
         phase[p] \in {"open.audit", "create.audit", "create.newline"},
         NEW replays \in [RequestIds -> Nat \cup {None}], Switches(p, replays)
  PROVE  SessionOK' /\ \A q \in Procs \ {p} : backing'[q] = backing[q]
<1> DEFINE d == docs[p]
           m == Merge(d.config, d.dims, d.state)
<1>1. d \in Backing
  BY DEF TypeInv, InFlight
<1>2. /\ d.config \in Configuration /\ d.dims \in Dimensions /\ d.state \in State
      /\ d.state.revision \in Nat /\ d.state.locked \in BOOLEAN
  BY <1>1 DEF Backing, State
<1>3. m \in Model
  BY <1>2, MergeType
<1>4. /\ model' = [model EXCEPT ![p] = m]
      /\ backing' = [backing EXCEPT ![p] = d]
      /\ revision' = [revision EXCEPT ![p] = d.state.revision]
      /\ locked' = [locked EXCEPT ![p] = d.state.locked]
      /\ audit_replays' = [audit_replays EXCEPT ![p] = replays]
  BY DEF Switches
<1> HIDE DEF d, m
<1> QED BY <1>1, <1>2, <1>3, <1>4 DEF TypeInv, TypeOK, SessionOK

\* model.open reads the configuration, then the dimensions, then the log.
LEMMA OpenType ==
  ASSUME TypeInv, NEW p \in Procs,
         OpenReadConfig(p) \/ OpenReadDims(p) \/ OpenReadAudit(p)
  PROVE  TypeInv'
<1>1. {"open_failed", "ok"} \subseteq Codes
  BY DEF Codes
<1>2. CASE phase[p] \in {"open.config", "open.dims"} /\ OpenFails(p)
  BY <1>1, <1>2, FailsType, UnchangedType DEF OpenFails
<1>3. CASE OpenReadConfig(p) /\ ~ OpenFails(p)
  <2> DEFINE config == configs[docs[p].state.configRef]
             d == [docs[p] EXCEPT !.config = config]
  <2>1. /\ phase[p] = "open.config"
        /\ config # None
        /\ docs' = [docs EXCEPT ![p] = d]
        /\ phase' = [phase EXCEPT ![p] = "open.dims"]
        /\ UNCHANGED <<disk, session, client, bounds, current, next>>
    BY <1>3 DEF OpenReadConfig
  <2>2. docs[p].state \in State /\ current[p] \in RequestIds /\ docs[p] \in DocsOf
    BY <2>1 DEF TypeInv, InFlight, TypeOK, FlightOK, DocsOf
  <2>3. config \in Configuration
    BY <2>1, <2>2 DEF TypeInv, TypeOK, DiskOK, State
  <2>4. d \in DocsOf /\ d.config # None /\ d.state # None
    BY <2>2, <2>3, NoneAssumption DEF DocsOf, NoneAssumption
  <2> HIDE DEF d, config
  <2>5. FlightOK'
    BY <2>1, <2>4 DEF TypeInv, TypeOK, FlightOK, Phases
  <2>6. Others(p)
    BY <2>1 DEF Others, TypeInv, TypeOK, FlightOK, session
  <2>7. InFlight(p)'
    BY <2>1, <2>2, <2>4 DEF InFlight, PutPhases, TypeInv, TypeOK, FlightOK
  <2> QED BY <2>1, <2>5, <2>6, <2>7, OthersType, UnchangedType, PartsType
<1>4. CASE OpenReadDims(p) /\ ~ OpenFails(p)
  <2> DEFINE dims == dimensions[docs[p].config.dimensionSetRef]
             d == [docs[p] EXCEPT !.dims = dims]
  <2>1. /\ phase[p] = "open.dims"
        /\ dims # None
        /\ docs' = [docs EXCEPT ![p] = d]
        /\ phase' = [phase EXCEPT ![p] = "open.audit"]
        /\ UNCHANGED <<disk, session, client, bounds, current, next>>
    BY <1>4 DEF OpenReadDims
  <2>2. /\ docs[p].state \in State /\ docs[p].config \in Configuration
        /\ current[p] \in RequestIds /\ docs[p] \in DocsOf
    BY <2>1 DEF TypeInv, InFlight, TypeOK, FlightOK, DocsOf
  <2>3. dims \in Dimensions
    BY <2>1, <2>2 DEF TypeInv, TypeOK, DiskOK, Configuration
  <2>4. d \in DocsOf /\ d \in Backing
    BY <2>2, <2>3 DEF DocsOf, Backing
  <2> HIDE DEF d, dims
  <2>5. FlightOK'
    BY <2>1, <2>4 DEF TypeInv, TypeOK, FlightOK, Phases
  <2>6. Others(p)
    BY <2>1 DEF Others, TypeInv, TypeOK, FlightOK, session
  <2>7. InFlight(p)'
    BY <2>1, <2>2, <2>4 DEF InFlight, PutPhases, TypeInv, TypeOK, FlightOK
  <2> QED BY <2>1, <2>5, <2>6, <2>7, OthersType, UnchangedType, PartsType
<1>5. CASE OpenReadAudit(p)
  <2> DEFINE log == audit[docs[p].state.id]
  <2>1. /\ phase[p] = "open.audit"
        /\ Switches(p, Replays(log))
        /\ Answers(p, current[p], "ok", docs[p].state.revision)
        /\ Lands(p)
        /\ UNCHANGED <<disk, bounds, sent>>
    BY <1>5 DEF OpenReadAudit
  <2>2. docs[p].state \in State
    BY <2>1 DEF TypeInv, InFlight, Backing
  <2>3. log \in AuditFile /\ docs[p].state.revision \in Nat
    BY <2>2 DEF TypeInv, TypeOK, DiskOK, State
  <2> HIDE DEF log
  <2>4. Replays(log) \in [RequestIds -> Nat \cup {None}]
    BY <2>3, ReplaysType
  <2> QED BY <1>1, <2>1, <2>3, <2>4, SwitchesType, AnsweredAndLandsType, UnchangedType
<1> QED BY <1>2, <1>3, <1>4, <1>5 DEF OpenReadConfig, OpenReadDims

\* A step that moves on to the next write of a command: only its phase and a
\* file change.
LEMMA MovesOnType ==
  ASSUME TypeInv, NEW p \in Procs, NEW from \in Phases, NEW to \in Phases,
         phase[p] = from, phase' = [phase EXCEPT ![p] = to],
         \/ from \in PutPhases \cup {"put.audit"}
            /\ to \in PutPhases \cup {"put.audit", "put.newline"}
         \/ from \in {"create.config", "create.dims", "create.state", "create.audit"}
            /\ to \in {"create.dims", "create.state", "create.audit", "create.newline"},
         UNCHANGED <<session, client, bounds, current, docs, next>>, DiskOK'
  PROVE  TypeInv'
<1>1. FlightOK'
  BY DEF TypeInv, TypeOK, FlightOK
<1>2. Others(p)
  BY DEF Others, TypeInv, TypeOK, FlightOK, session
<1>3. InFlight(p)'
  BY DEF InFlight, PutPhases, TypeInv, TypeOK, FlightOK, session
<1> QED BY <1>1, <1>2, <1>3, OthersType, UnchangedType, PartsType

\* Creating a state writes the documents in hand and appends their line.
LEMMA CreateType ==
  ASSUME TypeInv, NEW p \in Procs,
         \/ CreatePutConfig(p) \/ CreatePutDims(p) \/ CreatePutState(p)
         \/ CreateAppendLine(p) \/ CreateAppendAudit(p)
  PROVE  TypeInv'
<1> DEFINE d == docs[p]
<1>1. d \in Backing /\ current[p] \in RequestIds
  BY DEF TypeInv, InFlight, CreatePutConfig, CreatePutDims, CreatePutState,
         CreateAppendLine, CreateAppendAudit
<1>2. /\ d.config \in Configuration /\ d.config.id \in ConfigIds
      /\ d.dims \in Dimensions /\ d.dims.id \in DimSetIds
      /\ d.state \in State /\ d.state.id \in StateIds
  BY <1>1 DEF Backing, Configuration, Dimensions, State
<1> USE DEF Phases
<1>3. CASE CreatePutConfig(p)
  <2>1. DiskOK'
    BY <1>2, <1>3 DEF CreatePutConfig, TypeInv, TypeOK, DiskOK
  <2> QED BY <1>3, <2>1, MovesOnType DEF CreatePutConfig
<1>4. CASE CreatePutDims(p)
  <2>1. DiskOK'
    BY <1>2, <1>4 DEF CreatePutDims, TypeInv, TypeOK, DiskOK
  <2> QED BY <1>4, <2>1, MovesOnType DEF CreatePutDims
<1>5. CASE CreatePutState(p)
  <2>1. DiskOK'
    BY <1>2, <1>5 DEF CreatePutState, TypeInv, TypeOK, DiskOK
  <2> QED BY <1>5, <2>1, MovesOnType DEF CreatePutState
<1>6. CreateLine(p) \in Line
  BY <1>1 DEF CreateLine, Line
<1>7. audit[d.state.id] \in AuditFile
  BY <1>2 DEF TypeInv, TypeOK, DiskOK
<1>8. CASE CreateAppendLine(p)
  <2>1. DiskOK'
    BY <1>2, <1>6, <1>7, <1>8, AppendedType
       DEF CreateAppendLine, TypeInv, TypeOK, DiskOK
  <2> QED BY <1>8, <2>1, MovesOnType DEF CreateAppendLine
<1>9. CASE CreateAppendAudit(p)
  <2>1. /\ phase[p] \in {"create.audit", "create.newline"}
        /\ Switches(p, Replays(audit'[d.state.id]))
        /\ Answers(p, current[p], "ok", 0)
        /\ Lands(p)
        /\ UNCHANGED <<configs, dimensions, states, bounds, sent>>
    BY <1>9 DEF CreateAppendAudit
  <2>2. PICK log \in AuditFile : audit' = [audit EXCEPT ![d.state.id] = log]
    BY <1>6, <1>7, <1>9, AppendedType DEF CreateAppendAudit
  <2>3. DiskOK' /\ audit'[d.state.id] \in AuditFile
    BY <1>2, <2>1, <2>2 DEF TypeInv, TypeOK, DiskOK
  <2>4. Replays(audit'[d.state.id]) \in [RequestIds -> Nat \cup {None}]
    BY <2>3, ReplaysType
  <2>5. "ok" \in Codes /\ 0 \in Nat
    BY DEF Codes
  <2>6. SessionOK' /\ \A q \in Procs \ {p} : backing'[q] = backing[q]
    BY <2>1, <2>4, SwitchesType
  <2>7. BoundsOK'
    BY <2>1, UnchangedType
  <2> QED BY <2>1, <2>3, <2>5, <2>6, <2>7, AnsweredAndLandsType
<1> QED BY <1>3, <1>4, <1>5, <1>8, <1>9

\* A mutation writes the layers of its split, then its line.
LEMMA PutType ==
  ASSUME TypeInv, NEW p \in Procs,
         \/ PutConfig(p) \/ PutDims(p) \/ PutState(p)
         \/ AppendLine(p) \/ AppendAudit(p)
  PROVE  TypeInv'
<1> DEFINE b == backing[p]
           config2 == SplitConfiguration(next[p], b.config)
           dims2 == SplitDimensions(next[p], b.dims)
           state2 == SplitState(next[p], b.state, revision[p] + 1)
<1>1. /\ phase[p] \in PutPhases \cup {"put.audit", "put.newline"}
      /\ b \in Backing /\ next[p] \in Model /\ current[p] \in RequestIds
      /\ revision[p] \in Nat /\ revision[p] + 1 \in Nat
  BY DEF TypeInv, TypeOK, SessionOK, FlightOK, InFlight, PutConfig, PutDims, PutState,
         AppendLine, AppendAudit, PutPhases
<1>2. /\ config2 \in Configuration /\ dims2 \in Dimensions /\ state2 \in State
  BY <1>1, SplitType DEF Backing
<1>3. /\ config2.id \in ConfigIds /\ dims2.id \in DimSetIds /\ state2.id \in StateIds
      /\ b.state.id \in StateIds
  BY <1>1, <1>2 DEF Configuration, Dimensions, State, Backing
<1>4. CASE PutConfig(p)
  <2>1. configs' = [configs EXCEPT ![config2.id] = config2]
        /\ UNCHANGED <<dimensions, states, audit>>
    BY <1>4 DEF PutConfig
  <2> HIDE DEF config2
  <2>2. DiskOK'
    BY <1>2, <1>3, <2>1 DEF TypeInv, TypeOK, DiskOK
  <2> QED BY <1>4, <2>2, MovesOnType DEF PutConfig, PutPhases, Phases
<1>5. CASE PutDims(p)
  <2>1. dimensions' = [dimensions EXCEPT ![dims2.id] = dims2]
        /\ UNCHANGED <<configs, states, audit>>
    BY <1>5 DEF PutDims
  <2> HIDE DEF dims2
  <2>2. DiskOK'
    BY <1>2, <1>3, <2>1 DEF TypeInv, TypeOK, DiskOK
  <2> QED BY <1>5, <2>2, MovesOnType DEF PutDims, PutPhases, Phases
<1>6. CASE PutState(p)
  <2> DEFINE b2 == [config |-> config2, dims |-> dims2, state |-> state2]
  <2>1. /\ phase[p] = "put.state"
        /\ states' = [states EXCEPT ![state2.id] = state2]
        /\ backing' = [backing EXCEPT ![p] = b2]
        /\ phase' = [phase EXCEPT ![p] = "put.audit"]
        /\ UNCHANGED <<configs, dimensions, audit, client, bounds, model,
                       revision, locked, audit_replays, current, docs, next>>
    BY <1>6 DEF PutState
  <2> HIDE DEF config2, dims2, state2
  <2>2. b2 \in Backing
    BY <1>2 DEF Backing
  <2> HIDE DEF b2
  <2>3. DiskOK'
    BY <1>2, <1>3, <2>1 DEF TypeInv, TypeOK, DiskOK
  <2>4. SessionOK'
    BY <2>1, <2>2 DEF TypeInv, TypeOK, SessionOK
  <2>5. FlightOK'
    BY <2>1 DEF TypeInv, TypeOK, FlightOK, Phases
  <2>6. Others(p)
    BY <2>1 DEF Others, TypeInv, TypeOK, FlightOK, SessionOK
  <2>7. InFlight(p)'
    <3>1. phase'[p] = "put.audit" /\ next'[p] = next[p] /\ current'[p] = current[p]
          /\ backing'[p] = b2
      BY <2>1 DEF TypeInv, TypeOK, FlightOK, SessionOK
    <3> QED BY <1>1, <2>2, <3>1, NoneAssumption DEF InFlight, PutPhases, NoneAssumption
  <2> QED BY <2>1, <2>3, <2>4, <2>5, <2>6, <2>7, OthersType, UnchangedType, PartsType
<1>7. MutationLine(p) \in Line
  BY <1>1 DEF MutationLine, Line
<1>8. audit[b.state.id] \in AuditFile
  BY <1>3 DEF TypeInv, TypeOK, DiskOK
<1>9. CASE AppendLine(p)
  <2>1. DiskOK'
    BY <1>3, <1>7, <1>8, <1>9, AppendedType DEF AppendLine, TypeInv, TypeOK, DiskOK
  <2> QED BY <1>9, <2>1, MovesOnType DEF AppendLine, PutPhases, Phases
<1>10. CASE AppendAudit(p)
  <2>1. /\ model' = [model EXCEPT ![p] = next[p]]
        /\ revision' = [revision EXCEPT ![p] = revision[p] + 1]
        /\ Answers(p, current[p], "ok", revision[p] + 1)
        /\ Lands(p)
        /\ UNCHANGED <<configs, dimensions, states, backing, locked,
                       audit_replays, bounds, sent>>
        /\ phase[p] \notin {"idle", "down"}
    BY <1>10 DEF AppendAudit
  <2>2. PICK log \in AuditFile : audit' = [audit EXCEPT ![b.state.id] = log]
    BY <1>7, <1>8, <1>10, AppendedType DEF AppendAudit
  <2>3. DiskOK'
    BY <1>3, <2>1, <2>2 DEF TypeInv, TypeOK, DiskOK
  <2>4. SessionOK'
    BY <1>1, <2>1 DEF TypeInv, TypeOK, SessionOK
  <2>5. "ok" \in Codes
    BY DEF Codes
  <2>6. BoundsOK' /\ UNCHANGED backing
    BY <2>1, UnchangedType
  <2> QED BY <1>1, <2>1, <2>3, <2>4, <2>5, <2>6, AnsweredAndLandsType
<1> QED BY <1>4, <1>5, <1>6, <1>9, <1>10

\* A file operation that fails ends its command with an answer.
LEMMA ErrorType ==
  ASSUME TypeInv, NEW p \in Procs,
         \/ OpenError(p) \/ ReplaysError(p) \/ PutError(p)
         \/ CreateAuditError(p) \/ AuditError(p)
  PROVE  TypeInv'
<1>1. BoundsOK'
  BY DEF OpenError, ReplaysError, PutError, CreateAuditError, AuditError, Faulty,
         TypeInv, TypeOK, BoundsOK
<1>2. {"open_failed", "persist_failed", "ok"} \subseteq Codes
  BY DEF Codes
<1>3. CASE OpenError(p) \/ PutError(p)
  <2>1. /\ phase[p] \notin {"idle", "down"}
        /\ Lands(p)
        /\ UNCHANGED <<disk, session, sent>>
        /\ \/ Answers(p, current[p], "open_failed", 0)
           \/ Answers(p, current[p], "persist_failed", 0)
    BY <1>3 DEF OpenError, PutError, PutPhases
  <2> QED BY <1>1, <1>2, <2>1, FailsType, UnchangedType
<1>4. CASE ReplaysError(p)
  <2>1. /\ phase[p] = "open.audit"
        /\ Switches(p, NoReplays)
        /\ Answers(p, current[p], "ok", docs[p].state.revision)
        /\ Lands(p)
        /\ UNCHANGED <<disk, sent>>
    BY <1>4 DEF ReplaysError
  <2>2. docs[p].state.revision \in Nat
    BY <2>1 DEF TypeInv, InFlight, Backing, State
  <2>3. NoReplays \in [RequestIds -> Nat \cup {None}]
    BY DEF NoReplays
  <2> QED BY <1>1, <1>2, <2>1, <2>2, <2>3, SwitchesType, AnsweredAndLandsType,
             UnchangedType
<1>5. CASE CreateAuditError(p)
  <2>1. PICK log \in Torn(audit[docs[p].state.id], CreateLine(p)) :
          audit' = [audit EXCEPT ![docs[p].state.id] = log]
    BY <1>5 DEF CreateAuditError
  <2>2. /\ phase[p] = "create.audit"
        /\ Answers(p, current[p], "open_failed", 0)
        /\ Lands(p)
        /\ UNCHANGED <<configs, dimensions, states, session, sent>>
    BY <1>5 DEF CreateAuditError
  <2>3. docs[p].state.id \in StateIds /\ CreateLine(p) \in Line
    BY <2>2 DEF TypeInv, InFlight, Backing, State, CreateLine, Line
  <2>4. log \in AuditFile
    BY <2>1, <2>3, AppendedType DEF TypeInv, TypeOK, DiskOK
  <2>5. DiskOK'
    BY <2>1, <2>2, <2>3, <2>4 DEF TypeInv, TypeOK, DiskOK
  <2> QED BY <1>1, <1>2, <2>2, <2>5, FailsType
<1>6. CASE AuditError(p)
  <2>1. PICK log \in Torn(audit[backing[p].state.id], MutationLine(p)) :
          audit' = [audit EXCEPT ![backing[p].state.id] = log]
    BY <1>6 DEF AuditError
  <2>2. /\ phase[p] = "put.audit"
        /\ Answers(p, current[p], "persist_failed", 0)
        /\ Lands(p)
        /\ UNCHANGED <<configs, dimensions, states, session, sent>>
    BY <1>6 DEF AuditError
  <2>3. backing[p].state.id \in StateIds /\ MutationLine(p) \in Line
    BY <2>2 DEF TypeInv, TypeOK, SessionOK, InFlight, Backing, State, MutationLine, Line
  <2>4. log \in AuditFile
    BY <2>1, <2>3, AppendedType DEF TypeInv, TypeOK, DiskOK
  <2>5. DiskOK'
    BY <2>1, <2>2, <2>3, <2>4 DEF TypeInv, TypeOK, DiskOK
  <2> QED BY <1>1, <1>2, <2>2, <2>5, FailsType
<1> QED BY <1>3, <1>4, <1>5, <1>6

\* A kill may tear the log only where an append is under way.
LEMMA CrashLogType ==
  ASSUME TypeInv, NEW p \in Procs, CrashLog(p)
  PROVE  audit' \in [StateIds -> AuditFile]
<1>1. audit \in [StateIds -> AuditFile]
  BY DEF TypeInv, TypeOK, DiskOK
<1>2. CASE phase[p] = "put.audit"
  <2>1. PICK log \in Killed(audit[backing[p].state.id], MutationLine(p)) :
          audit' = [audit EXCEPT ![backing[p].state.id] = log]
    BY <1>2 DEF CrashLog
  <2>2. backing[p].state.id \in StateIds /\ MutationLine(p) \in Line
    BY <1>2 DEF TypeInv, TypeOK, SessionOK, InFlight, Backing, State, MutationLine, Line
  <2> QED BY <1>1, <2>1, <2>2, AppendedType
<1>3. CASE phase[p] = "create.audit"
  <2>1. PICK log \in Killed(audit[docs[p].state.id], CreateLine(p)) :
          audit' = [audit EXCEPT ![docs[p].state.id] = log]
    BY <1>3 DEF CrashLog
  <2>2. docs[p].state.id \in StateIds /\ CreateLine(p) \in Line
    BY <1>3 DEF TypeInv, InFlight, Backing, State, CreateLine, Line
  <2> QED BY <1>1, <2>1, <2>2, AppendedType
<1>4. CASE phase[p] \notin {"put.audit", "create.audit"}
  BY <1>1, <1>4 DEF CrashLog
<1> QED BY <1>2, <1>3, <1>4

\* A kill empties the memory of its process.
LEMMA CrashType ==
  ASSUME TypeInv, NEW p \in Procs, Crash(p)
  PROVE  TypeInv'
<1> DEFINE Nothing == [r \in RequestIds |-> None]
<1>1. /\ crashes' = crashes + 1
      /\ CrashLog(p)
      /\ phase' = [phase EXCEPT ![p] = "down"]
      /\ current' = [current EXCEPT ![p] = None]
      /\ docs' = [docs EXCEPT ![p] = NoDocs]
      /\ next' = [next EXCEPT ![p] = None]
      /\ model' = [model EXCEPT ![p] = None]
      /\ backing' = [backing EXCEPT ![p] = None]
      /\ revision' = [revision EXCEPT ![p] = 0]
      /\ locked' = [locked EXCEPT ![p] = FALSE]
      /\ request_cache' = [request_cache EXCEPT ![p] = Nothing]
      /\ audit_replays' = [audit_replays EXCEPT ![p] = NoReplays]
      /\ UNCHANGED <<configs, dimensions, states, sent, answer, faults>>
  BY DEF Crash
<1>2. /\ NoReplays \in [RequestIds -> Nat \cup {None}]
      /\ Nothing \in [RequestIds -> Answer \cup {None}]
      /\ NoDocs \in DocsOf
  BY DEF NoReplays, NoDocs, DocsOf
<1> HIDE DEF Nothing
<1>3. DiskOK'
  BY <1>1, CrashLogType DEF TypeInv, TypeOK, DiskOK
<1>4. SessionOK'
  BY <1>1, <1>2 DEF TypeInv, TypeOK, SessionOK
<1>5. FlightOK'
  BY <1>1, <1>2 DEF TypeInv, TypeOK, FlightOK, Phases
<1>6. ClientOK'
  BY <1>1, <1>2 DEF TypeInv, TypeOK, ClientOK
<1>7. BoundsOK'
  BY <1>1 DEF TypeInv, TypeOK, BoundsOK
<1>8. Others(p)
  BY <1>1 DEF Others, TypeInv, TypeOK, FlightOK, SessionOK
<1>9. InFlight(p)'
  BY <1>1 DEF InFlight, PutPhases, TypeInv, TypeOK, FlightOK
<1> QED BY <1>3, <1>4, <1>5, <1>6, <1>7, <1>8, <1>9, OthersType, PartsType

\* A process that starts has nothing in flight.
LEMMA StartType ==
  ASSUME TypeInv, NEW p \in Procs, Start(p)
  PROVE  TypeInv'
<1>1. /\ phase' = [phase EXCEPT ![p] = "idle"]
      /\ UNCHANGED <<disk, session, client, bounds, current, docs, next>>
  BY DEF Start
<1>2. FlightOK'
  BY <1>1 DEF TypeInv, TypeOK, FlightOK, Phases
<1>3. Others(p)
  BY <1>1 DEF Others, TypeInv, TypeOK, FlightOK, session
<1>4. InFlight(p)'
  BY <1>1 DEF InFlight, PutPhases, TypeInv, TypeOK, FlightOK
<1> QED BY <1>1, <1>2, <1>3, <1>4, OthersType, UnchangedType, PartsType

\* Every step of the system keeps the types and what a command in flight
\* relies on.
LEMMA NextType == TypeInv /\ [Next]_vars => TypeInv'
<1> SUFFICES ASSUME TypeInv, [Next]_vars PROVE TypeInv'
  OBVIOUS
<1>1. CASE UNCHANGED vars
  BY <1>1, UnchangedType, PartsType DEF vars, session
<1>2. ASSUME NEW p \in Procs, Start(p) PROVE TypeInv'
  BY <1>2, StartType
<1>3. ASSUME NEW p \in Procs, Step(p) PROVE TypeInv'
  BY <1>3, OpenType, CreateType, PutType DEF Step
<1>4. ASSUME NEW p \in Procs, Fault(p) PROVE TypeInv'
  BY <1>4, ErrorType, CrashType DEF Fault
<1>5. ASSUME NEW p \in Procs, NEW r \in RequestIds, NEW e,
             Receive(p, r, e) \/ CreateReadError(p, r, e)
      PROVE  TypeInv'
  <2>1. CreateReadError(p, r, e) => BoundsOK'
    BY DEF CreateReadError, Faulty, TypeInv, TypeOK, BoundsOK
  <2>2. CreateReadError(p, r, e) =>
          Create(p, r, e, FALSE, TRUE) \/ Create(p, r, e, TRUE, FALSE)
    BY DEF CreateReadError
  <2>3. CASE CreateReadError(p, r, e)
    BY <2>1, <2>2, <2>3, TakesFlightType
  <2> QED BY <1>5, <2>3, ReceiveType
<1> QED BY <1>1, <1>2, <1>3, <1>4, <1>5 DEF Next

\* Every variable always holds a value of its kind, and every document and
\* model a command in flight reads is there: no step of session.rs reads a
\* document it does not have in hand, whatever is committed, killed, torn or
\* failed, and however many processes share the store.
THEOREM TypeCorrect == Spec => []TypeOK
<1>1. Init => TypeInv
  BY InitType
<1>2. TypeInv /\ [Next]_vars => TypeInv'
  BY NextType
<1>3. TypeInv => TypeOK
  BY DEF TypeInv
<1> QED BY <1>1, <1>2, <1>3, PTL DEF Spec

-----------------------------------------------------------------------------
(* One line per request: the inductive invariant *)

HasLine(r, s) == \E i \in 1 .. Len(Lines(s)) : Lines(s)[i].request = r

CreatePhases == {"create.config", "create.dims", "create.state", "create.audit"}
MutationPhases == PutPhases \cup {"put.audit"}
InHand(p) == phase[p] \notin {"idle", "down"}

CleanLogs == \A s \in StateIds : audit[s].tail = "clean"
LinesHaveStates == \A s \in StateIds : states[s] = None => Lines(s) = <<>>

\* A process carries out requests sent to it only.
Owner(p) == InHand(p) => ClientOf[current[p]] = p

\* What the process has answered before, or read when it opened the state,
\* covers the lines of its requests.
Remembers(p) ==
  backing[p] # None =>
    \A r \in RequestIds :
      ClientOf[r] = p /\ HasLine(r, backing[p].state.id) =>
        request_cache[p][r] # None \/ audit_replays[p][r] # None

\* The request in flight has no line yet where it is about to append one, and
\* the state is on disk by then; the line and its newline are one write.
FirstLine(p) ==
  /\ phase[p] \notin {"put.newline", "create.newline"}
  /\ phase[p] \in MutationPhases => ~ HasLine(current[p], backing[p].state.id)
  /\ phase[p] \in CreatePhases => ~ HasLine(current[p], docs[p].state.id)
  /\ phase[p] = "put.audit" => states[backing[p].state.id] # None
  /\ phase[p] = "create.audit" => states[docs[p].state.id] # None

RequestInv ==
  /\ TypeInv
  /\ CleanLogs
  /\ LinesHaveStates
  /\ OneLinePerRequest
  /\ \A p \in Procs : Owner(p) /\ Remembers(p) /\ FirstLine(p)

-----------------------------------------------------------------------------
(* What a step of one process leaves to the others *)

\* The Session and the command in flight of q are left alone.
Alone(q) ==
  /\ phase'[q] = phase[q] /\ current'[q] = current[q] /\ docs'[q] = docs[q]
  /\ backing'[q] = backing[q] /\ request_cache'[q] = request_cache[q]
  /\ audit_replays'[q] = audit_replays[q]

StatesStay == \A s \in StateIds : states[s] # None => states'[s] # None

\* Only lines of requests sent to p are new.
OnlyLinesOf(p) ==
  \A r \in RequestIds, s \in StateIds :
    HasLine(r, s)' /\ ClientOf[r] # p => HasLine(r, s)

\* Where the documents a process works on are filed.
LEMMA StateOfFlight ==
  ASSUME TypeInv, NEW p \in Procs
  PROVE  /\ backing[p] # None => backing[p].state.id \in StateIds
         /\ phase[p] \in CreatePhases \cup {"open.audit"} => docs[p].state.id \in StateIds
         /\ phase[p] \in MutationPhases => backing[p] # None
         /\ InHand(p) => current[p] \in RequestIds
<1>1. \A b \in Backing : b.state.id \in StateIds
  BY DEF Backing, State
<1>2. backing[p] # None => backing[p] \in Backing
  BY DEF TypeInv, TypeOK, SessionOK
<1>3. /\ phase[p] \in CreatePhases \cup {"open.audit"} => docs[p] \in Backing
      /\ phase[p] \in MutationPhases => backing[p] # None
      /\ InHand(p) => current[p] \in RequestIds
  BY DEF TypeInv, InFlight, CreatePhases, MutationPhases, InHand
<1> QED BY <1>1, <1>2, <1>3

\* A process that is left alone still owns its command, remembers its lines
\* and appends a first line, whatever lines the others append.
LEMMA AloneKeeps ==
  ASSUME RequestInv, NEW p \in Procs, NEW q \in Procs, q # p, Alone(q),
         OnlyLinesOf(p), StatesStay
  PROVE  Owner(q)' /\ Remembers(q)' /\ FirstLine(q)'
<1>1. TypeInv /\ Owner(q) /\ Remembers(q) /\ FirstLine(q)
  BY DEF RequestInv
<1>2. Owner(q)' /\ (InHand(q)' = InHand(q))
  BY <1>1 DEF Owner, InHand, Alone
<1>3. ASSUME NEW r \in RequestIds, NEW s \in StateIds, ClientOf[r] = q, HasLine(r, s)'
      PROVE  HasLine(r, s)
  BY <1>3 DEF OnlyLinesOf
<1>4. Remembers(q)'
  <2> SUFFICES ASSUME backing[q] # None,
                      NEW r \in RequestIds, ClientOf[r] = q,
                      HasLine(r, backing[q].state.id)'
               PROVE  request_cache'[q][r] # None \/ audit_replays'[q][r] # None
    BY DEF Remembers, Alone
  <2>1. backing[q].state.id \in StateIds /\ backing'[q] = backing[q]
    BY <1>1, StateOfFlight DEF Alone
  <2>2. HasLine(r, backing[q].state.id)
    BY <1>3, <2>1
  <2> QED BY <1>1, <2>2 DEF Remembers, Alone
<1>5. ASSUME NEW s \in StateIds, InHand(q), ~ HasLine(current[q], s)
      PROVE  ~ HasLine(current[q], s)'
  <2>1. current[q] \in RequestIds /\ ClientOf[current[q]] = q /\ current'[q] = current[q]
    BY <1>1, <1>5, StateOfFlight DEF Owner, Alone
  <2> QED BY <1>3, <1>5, <2>1
<1>6. ASSUME phase[q] \in MutationPhases
      PROVE  /\ ~ HasLine(current[q], backing[q].state.id)'
             /\ phase[q] = "put.audit" => states'[backing'[q].state.id] # None
  <2>1. InHand(q) /\ backing[q].state.id \in StateIds /\ backing'[q] = backing[q]
    BY <1>1, <1>6, StateOfFlight DEF InHand, MutationPhases, PutPhases, Alone
  <2> QED BY <1>1, <1>5, <1>6, <2>1 DEF FirstLine, StatesStay
<1>7. ASSUME phase[q] \in CreatePhases
      PROVE  /\ ~ HasLine(current[q], docs[q].state.id)'
             /\ phase[q] = "create.audit" => states'[docs'[q].state.id] # None
  <2>1. InHand(q) /\ docs[q].state.id \in StateIds /\ docs'[q] = docs[q]
    BY <1>1, <1>7, StateOfFlight DEF InHand, CreatePhases, Alone
  <2> QED BY <1>1, <1>5, <1>7, <2>1 DEF FirstLine, StatesStay
<1>8. FirstLine(q)'
  <2>1. phase'[q] = phase[q] /\ phase[q] \notin {"put.newline", "create.newline"}
    BY <1>1 DEF FirstLine, Alone
  <2> QED BY <1>6, <1>7, <2>1 DEF FirstLine, MutationPhases, CreatePhases
<1> QED BY <1>2, <1>4, <1>8

\* A log that is not written keeps its lines.
LEMMA SameLog ==
  ASSUME audit' = audit
  PROVE  /\ \A r, s : HasLine(r, s)' = HasLine(r, s)
         /\ OneLinePerRequest' = OneLinePerRequest
         /\ CleanLogs' = CleanLogs
         /\ \A p : OnlyLinesOf(p)
BY DEF HasLine, Lines, OneLinePerRequest, CleanLogs, OnlyLinesOf

\* A step that writes no log keeps the invariant if it does for its process.
LEMMA QuietStep ==
  ASSUME RequestInv, TypeInv', audit' = audit, StatesStay, NEW p \in Procs,
         \A q \in Procs \ {p} : Alone(q), Owner(p)', Remembers(p)', FirstLine(p)'
  PROVE  RequestInv'
<1>1. OnlyLinesOf(p) /\ OneLinePerRequest' /\ CleanLogs'
  BY SameLog DEF RequestInv
<1>2. LinesHaveStates'
  BY DEF RequestInv, LinesHaveStates, StatesStay, Lines
<1>3. \A q \in Procs : Owner(q)' /\ Remembers(q)' /\ FirstLine(q)'
  BY <1>1, AloneKeeps
<1> QED BY <1>1, <1>2, <1>3 DEF RequestInv

-----------------------------------------------------------------------------
(* What a process remembers *)

\* The answer to a request is remembered, and nothing is forgotten for it.
LEMMA AnswersRemembered ==
  ASSUME TypeInv, NEW p \in Procs, NEW r \in RequestIds, NEW code \in Codes,
         NEW version \in Nat, Answers(p, r, code, version)
  PROVE  /\ request_cache'[p][r] # None
         /\ \A x \in RequestIds :
              request_cache[p][x] # None => request_cache'[p][x] # None
         /\ \A q \in Procs \ {p} : request_cache'[q] = request_cache[q]
<1> DEFINE a == [code |-> code, version |-> version]
<1>1. a # None
  BY NoneAssumption DEF Answer, NoneAssumption
<1>2. request_cache' = [request_cache EXCEPT ![p][r] = a]
  BY DEF Answers
<1> HIDE DEF a
<1> QED BY <1>1, <1>2 DEF TypeInv, TypeOK, ClientOK

\* A process that keeps its state and forgets no answer remembers its lines.
LEMMA KeepsMemory ==
  ASSUME RequestInv, NEW p \in Procs, audit' = audit,
         backing'[p] # None =>
           /\ backing[p] # None
           /\ backing'[p].state.id = backing[p].state.id
           /\ audit_replays'[p] = audit_replays[p]
           /\ \A r \in RequestIds :
                request_cache[p][r] # None => request_cache'[p][r] # None
  PROVE  Remembers(p)'
<1> SUFFICES ASSUME backing'[p] # None,
                    NEW r \in RequestIds, ClientOf[r] = p,
                    HasLine(r, backing[p].state.id)'
             PROVE  request_cache'[p][r] # None \/ audit_replays'[p][r] # None
  BY DEF Remembers
<1>1. HasLine(r, backing[p].state.id)
  BY DEF HasLine, Lines
<1> QED BY <1>1 DEF RequestInv, Remembers

\* A process between commands or reading documents has no line to append.
LEMMA NoLineDue ==
  ASSUME NEW p \in Procs,
         phase'[p] \in {"idle", "down", "open.config", "open.dims", "open.audit"}
  PROVE  FirstLine(p)' /\ (phase'[p] \in {"idle", "down"} => Owner(p)')
BY DEF FirstLine, Owner, InHand, MutationPhases, CreatePhases, PutPhases

\* A request that is dispatched has no line in the state the process has open.
LEMMA DispatchedIsFirst ==
  ASSUME RequestInv, NEW p \in Procs, NEW r \in RequestIds, NEW e,
         Dispatches(p, r, e)
  PROVE  /\ ClientOf[r] = p
         /\ phase[p] = "idle"
         /\ backing[p] # None => ~ HasLine(r, backing[p].state.id)
BY DEF RequestInv, Remembers, Dispatches, AuditReplay, Persisted, Arrives

-----------------------------------------------------------------------------
(* Commands that arrive *)

\* An answer given at once changes neither the files nor the flight.
LEMMA ReceiveAtOnceKeeps ==
  ASSUME RequestInv, TypeInv', NEW p \in Procs, NEW r \in RequestIds, NEW e,
         \/ ReplayCached(p, r, e) \/ ReplayAudited(p, r, e) \/ Import(p, r, e)
         \/ Status(p, r, e) \/ Refuse(p, r, e) \/ NoOp(p, r, e)
         \/ MutateEphemeral(p, r, e)
  PROVE  RequestInv'
<1>1. TypeInv
  BY DEF RequestInv
<1>2. UNCHANGED disk /\ UNCHANGED flight /\ phase[p] = "idle"
  BY DEF ReplayCached, ReplayAudited, Import, Status, Refuse, NoOp, MutateEphemeral,
         Mutates, Dispatches, Arrives
<1>3. /\ \A x \in RequestIds :
           request_cache[p][x] # None => request_cache'[p][x] # None
      /\ \A q \in Procs \ {p} : request_cache'[q] = request_cache[q]
  <2>1. CASE ReplayCached(p, r, e)
    BY <2>1 DEF ReplayCached
  <2>2. CASE ~ ReplayCached(p, r, e)
    <3>1. \E code \in Codes, version \in Nat : Answers(p, r, code, version)
      <4>1. {"replayed", "ok", "invalid_model", "noop", "in_memory"} \subseteq Codes
        BY DEF Codes
      <4>2. Refusal(p, r, e) \in Codes
        BY DEF Refusal, Codes
      <4>3. revision[p] \in Nat /\ revision[p] + 1 \in Nat
        BY <1>1 DEF TypeInv, TypeOK, SessionOK
      <4>4. CASE ReplayAudited(p, r, e)
        <5>1. audit_replays[p][r] \in Nat
          BY <1>1, <4>4 DEF ReplayAudited, AuditReplay, TypeInv, TypeOK, SessionOK
        <5> QED BY <4>1, <4>4, <5>1 DEF ReplayAudited
      <4>5. CASE Import(p, r, e)
        <5>1. Answers(p, r, "ok", 0) \/ Answers(p, r, "invalid_model", 0)
          BY <4>5 DEF Import
        <5> QED BY <4>1, <5>1
      <4>6. CASE Status(p, r, e) \/ Refuse(p, r, e) \/ NoOp(p, r, e)
                   \/ MutateEphemeral(p, r, e)
        BY <4>1, <4>2, <4>3, <4>6 DEF Status, Refuse, NoOp, MutateEphemeral
      <4> QED BY <2>2, <4>4, <4>5, <4>6
    <3> QED BY <1>1, <3>1, AnswersRemembered
  <2> QED BY <2>1, <2>2
<1>4. /\ backing'[p] # None =>
           backing'[p] = backing[p] /\ audit_replays'[p] = audit_replays[p]
      /\ \A q \in Procs \ {p} :
           backing'[q] = backing[q] /\ audit_replays'[q] = audit_replays[q]
  <2>1. CASE UNCHANGED session
    BY <2>1 DEF session
  <2>2. CASE MutateEphemeral(p, r, e)
    BY <2>2 DEF MutateEphemeral
  <2>3. CASE Import(p, r, e) /\ ~ UNCHANGED session
    <3>1. backing' = [backing EXCEPT ![p] = None]
          /\ audit_replays' = [audit_replays EXCEPT ![p] = NoReplays]
      BY <2>3 DEF Import
    <3> QED BY <1>1, <3>1 DEF TypeInv, TypeOK, SessionOK
  <2> QED BY <2>1, <2>2, <2>3 DEF ReplayCached, ReplayAudited, Status, Refuse, NoOp
<1>5. audit' = audit /\ StatesStay /\ phase'[p] = "idle"
  BY <1>2 DEF disk, flight, StatesStay
<1>6. \A q \in Procs \ {p} : Alone(q)
  BY <1>2, <1>3, <1>4 DEF flight, Alone
<1>7. Remembers(p)'
  BY <1>3, <1>4, <1>5, KeepsMemory
<1> QED BY <1>5, <1>6, <1>7, NoLineDue, QuietStep

\* A command that takes flight is one of the process's own, and is about to
\* append the first line of its request.
LEMMA TakesFlightKeeps ==
  ASSUME RequestInv, TypeInv', NEW p \in Procs, NEW r \in RequestIds, NEW e,
         OpenExisting(p, r, e) \/ OpenCreate(p, r, e) \/ MutatePersisted(p, r, e)
  PROVE  RequestInv'
<1>1. /\ Dispatches(p, r, e)
      /\ UNCHANGED <<disk, session, request_cache>>
      /\ current' = [current EXCEPT ![p] = r]
  BY DEF OpenExisting, OpenCreate, Create, MutatePersisted, Mutates
<1>2. TypeInv /\ current'[p] = r
  BY <1>1 DEF RequestInv, TypeInv, TypeOK, FlightOK
<1>3. audit' = audit /\ states' = states /\ StatesStay
      /\ backing' = backing /\ audit_replays' = audit_replays
  BY <1>1 DEF disk, session, StatesStay
<1>4. Owner(p)'
  BY <1>1, <1>2, DispatchedIsFirst DEF Owner
<1>5. Remembers(p)'
  BY <1>1, <1>3, KeepsMemory
<1>6. \A q \in Procs \ {p} : Alone(q)
  <2>1. \A q \in Procs \ {p} :
          phase'[q] = phase[q] /\ docs'[q] = docs[q] /\ current'[q] = current[q]
    BY <1>1, <1>2 DEF OpenExisting, OpenCreate, Create, MutatePersisted,
                      TypeInv, TypeOK, FlightOK
  <2> QED BY <1>1, <1>3, <2>1 DEF Alone
<1>7. FirstLine(p)'
  <2>1. CASE OpenExisting(p, r, e)
    <3>1. phase'[p] = "open.config"
      BY <1>2, <2>1 DEF OpenExisting, TypeInv, TypeOK, FlightOK
    <3> QED BY <3>1, NoLineDue
  <2>2. CASE OpenCreate(p, r, e)
    <3>1. /\ phase'[p] = "create.config"
          /\ docs'[p].state.id = e.op.state
          /\ states[e.op.state] = None
      BY <1>2, <2>2 DEF OpenCreate, Create, EmptyState, TypeInv, TypeOK, FlightOK
    <3>2. e.op.state \in StateIds
      <4>1. e.op \in Op /\ e.op.kind = "model.open"
        BY <1>1, <1>2, <2>2, ArrivesType DEF OpenCreate, Create, Dispatches
      <4> QED BY <4>1 DEF Op, MutationOp, OpenOp
    <3>3. Lines(e.op.state) = <<>>
      BY <3>1, <3>2 DEF RequestInv, LinesHaveStates
    <3>4. ~ HasLine(current[p], docs[p].state.id)'
      BY <1>3, <3>1, <3>3 DEF HasLine, Lines
    <3> QED BY <3>1, <3>4 DEF FirstLine, MutationPhases, PutPhases
  <2>3. CASE MutatePersisted(p, r, e)
    <3>1. phase'[p] \in PutPhases
      BY <1>2, <2>3 DEF MutatePersisted, PutPhases, TypeInv, TypeOK, FlightOK
    <3>2. ~ HasLine(r, backing[p].state.id)
      BY <1>1, <2>3, DispatchedIsFirst DEF MutatePersisted, Persisted
    <3>3. ~ HasLine(current[p], backing[p].state.id)'
      BY <1>2, <1>3, <3>2 DEF HasLine, Lines
    <3> QED BY <3>1, <3>3 DEF FirstLine, MutationPhases, PutPhases, CreatePhases
  <2> QED BY <2>1, <2>2, <2>3
<1> QED BY <1>3, <1>4, <1>5, <1>6, <1>7, QuietStep

-----------------------------------------------------------------------------
(* File operations that write no log *)

\* A command that lands is in flight no more, and its process only.
LEMMA LandsAlone ==
  ASSUME TypeInv, NEW p \in Procs, Lands(p)
  PROVE  /\ phase'[p] = "idle"
         /\ \A q \in Procs \ {p} :
              phase'[q] = phase[q] /\ current'[q] = current[q] /\ docs'[q] = docs[q]
BY DEF Lands, TypeInv, TypeOK, FlightOK

\* Reading the configuration and the dimensions keeps the invariant.
LEMMA OpenReadKeeps ==
  ASSUME RequestInv, TypeInv', NEW p \in Procs, OpenReadConfig(p) \/ OpenReadDims(p)
  PROVE  RequestInv'
<1>1. TypeInv /\ InHand(p) /\ current[p] \in RequestIds
      /\ UNCHANGED disk /\ UNCHANGED session
  BY StateOfFlight DEF RequestInv, OpenReadConfig, OpenReadDims, OpenFails, InHand
<1>2. audit' = audit /\ StatesStay /\ backing' = backing
      /\ audit_replays' = audit_replays
  BY <1>1 DEF disk, session, StatesStay
<1>3. CASE OpenFails(p)
  <2>1. Answers(p, current[p], "open_failed", 0) /\ Lands(p)
    BY <1>3 DEF OpenFails
  <2>2. "open_failed" \in Codes /\ 0 \in Nat
    BY DEF Codes
  <2>3. Remembers(p)'
    BY <1>1, <1>2, <2>1, <2>2, AnswersRemembered, KeepsMemory
  <2>4. \A q \in Procs \ {p} : Alone(q)
    BY <1>1, <1>2, <2>1, <2>2, AnswersRemembered, LandsAlone DEF Alone
  <2> QED BY <1>1, <1>2, <2>1, <2>3, <2>4, LandsAlone, NoLineDue, QuietStep
<1>4. CASE ~ OpenFails(p)
  <2>1. /\ phase'[p] \in {"open.dims", "open.audit"}
        /\ \A q \in Procs \ {p} : phase'[q] = phase[q] /\ docs'[q] = docs[q]
        /\ UNCHANGED <<client, current>>
    BY <1>1, <1>4 DEF OpenReadConfig, OpenReadDims, TypeInv, TypeOK, FlightOK
  <2>2. Owner(p)'
    BY <1>1, <2>1 DEF RequestInv, Owner
  <2>3. Remembers(p)'
    BY <1>2, <2>1, KeepsMemory DEF client
  <2>4. \A q \in Procs \ {p} : Alone(q)
    BY <1>2, <2>1 DEF Alone, client
  <2> QED BY <1>2, <2>1, <2>2, <2>3, <2>4, NoLineDue, QuietStep
<1> QED BY <1>3, <1>4

\* Reading the log: the replays are the lines of the state.
LEMMA OpenReadAuditKeeps ==
  ASSUME RequestInv, TypeInv', NEW p \in Procs, OpenReadAudit(p)
  PROVE  RequestInv'
<1> DEFINE s == docs[p].state.id
<1>1. /\ phase[p] = "open.audit"
      /\ Switches(p, Replays(audit[s]))
      /\ Answers(p, current[p], "ok", docs[p].state.revision)
      /\ Lands(p)
      /\ UNCHANGED disk
  BY DEF OpenReadAudit
<1>2. TypeInv /\ current[p] \in RequestIds /\ s \in StateIds
  BY <1>1, StateOfFlight DEF RequestInv, InHand
<1>3. docs[p].state.revision \in Nat /\ "ok" \in Codes
  BY <1>1, <1>2 DEF TypeInv, InFlight, Backing, State, Codes
<1>4. audit[s] \in AuditFile /\ audit[s].tail = "clean"
  BY <1>2 DEF RequestInv, TypeInv, TypeOK, DiskOK, CleanLogs
<1>5. audit' = audit /\ StatesStay
  BY <1>1 DEF disk, StatesStay
<1>6. /\ backing'[p] = docs[p] /\ audit_replays'[p] = Replays(audit[s])
      /\ \A q \in Procs \ {p} :
           backing'[q] = backing[q] /\ audit_replays'[q] = audit_replays[q]
  BY <1>1, <1>2 DEF Switches, TypeInv, TypeOK, SessionOK
<1>7. Remembers(p)'
  <2>1. ASSUME NEW r \in RequestIds, HasLine(r, s)
        PROVE  Replays(audit[s])[r] # None
    BY <1>4, <2>1, ReplaysType DEF HasLine, Lines
  <2> QED BY <1>5, <1>6, <2>1 DEF Remembers, HasLine, Lines
<1>8. \A q \in Procs \ {p} : Alone(q)
  BY <1>1, <1>2, <1>3, <1>6, AnswersRemembered, LandsAlone DEF Alone
<1> QED BY <1>1, <1>2, <1>5, <1>7, <1>8, LandsAlone, NoLineDue, QuietStep

\* Putting a document keeps the invariant: the line is still to come.
LEMMA PutKeeps ==
  ASSUME RequestInv, TypeInv', NEW p \in Procs,
         \/ CreatePutConfig(p) \/ CreatePutDims(p) \/ CreatePutState(p)
         \/ PutConfig(p) \/ PutDims(p) \/ PutState(p)
  PROVE  RequestInv'
<1>1. TypeInv /\ InHand(p) /\ current[p] \in RequestIds
  BY StateOfFlight DEF RequestInv, InHand, CreatePutConfig, CreatePutDims,
     CreatePutState, PutConfig, PutDims, PutState
<1>2. audit' = audit /\ UNCHANGED <<client, current, docs, audit_replays>>
  BY DEF CreatePutConfig, CreatePutDims, CreatePutState, PutConfig, PutDims, PutState,
         session
<1>3. \A q \in Procs \ {p} : Alone(q)
  <2>1. \A q \in Procs \ {p} : phase'[q] = phase[q] /\ backing'[q] = backing[q]
    BY <1>1 DEF TypeInv, TypeOK, FlightOK, SessionOK, session, CreatePutConfig,
       CreatePutDims, CreatePutState, PutConfig, PutDims, PutState
  <2> QED BY <1>2, <2>1 DEF Alone, client
<1>4. ASSUME NEW s, NEW r PROVE HasLine(r, s)' = HasLine(r, s)
  BY <1>2 DEF HasLine, Lines
<1>5. CASE CreatePutConfig(p) \/ CreatePutDims(p) \/ CreatePutState(p)
  <2>1. /\ phase[p] \in CreatePhases /\ phase'[p] \in CreatePhases
        /\ UNCHANGED backing
        /\ phase'[p] = "create.audit" => CreatePutState(p)
        /\ ~ CreatePutState(p) => UNCHANGED states
    BY <1>1, <1>5 DEF CreatePutConfig, CreatePutDims, CreatePutState, CreatePhases,
       session, TypeInv, TypeOK, FlightOK
  <2>2. docs[p] \in Backing /\ docs[p].state.id \in StateIds
    BY <1>1, <2>1, StateOfFlight DEF TypeInv, InFlight, CreatePhases
  <2>3. docs[p].state # None
    BY <2>2, NoneAssumption DEF Backing, NoneAssumption
  <2>4. CreatePutState(p) => StatesStay /\ states'[docs[p].state.id] # None
    BY <1>1, <2>2, <2>3 DEF CreatePutState, StatesStay, TypeInv, TypeOK, DiskOK
  <2>5. StatesStay
    BY <2>1, <2>4 DEF StatesStay
  <2>6. Owner(p)'
    BY <1>1, <1>2 DEF RequestInv, Owner
  <2>7. Remembers(p)'
    BY <1>2, <2>1, KeepsMemory DEF client
  <2>8. ~ HasLine(current[p], docs[p].state.id)'
    BY <1>2, <2>1 DEF RequestInv, FirstLine, HasLine, Lines
  <2>9. FirstLine(p)'
    BY <1>2, <2>1, <2>4, <2>8 DEF FirstLine, MutationPhases, PutPhases, CreatePhases
  <2> QED BY <1>2, <1>3, <2>5, <2>6, <2>7, <2>9, QuietStep
<1>6. CASE PutConfig(p) \/ PutDims(p) \/ PutState(p)
  <2>1. /\ phase[p] \in MutationPhases /\ phase'[p] \in MutationPhases
        /\ phase'[p] = "put.audit" => PutState(p)
        /\ ~ PutState(p) => UNCHANGED <<states, backing>>
    BY <1>1, <1>6 DEF PutConfig, PutDims, PutState, MutationPhases, PutPhases,
       session, TypeInv, TypeOK, FlightOK
  <2>2. /\ backing[p] \in Backing /\ backing[p].state.id \in StateIds
        /\ next[p] \in Model /\ revision[p] + 1 \in Nat
    BY <1>1, <2>1, StateOfFlight
       DEF TypeInv, InFlight, MutationPhases, TypeOK, SessionOK, FlightOK
  <2> DEFINE state2 == SplitState(next[p], backing[p].state, revision[p] + 1)
  <2>3. state2 # None /\ state2.id = backing[p].state.id
    <3>1. state2 \in State
      BY <2>2, SplitType DEF Backing
    <3>2. state2.id = backing[p].state.id
      BY <2>2 DEF SplitState, Backing, State
    <3> QED BY <3>1, <3>2, NoneAssumption DEF NoneAssumption
  <2>4. ASSUME PutState(p)
        PROVE  /\ StatesStay /\ states'[backing[p].state.id] # None
               /\ backing'[p].state = state2
    <3>1. /\ states' = [states EXCEPT ![state2.id] = state2]
          /\ backing' = [backing EXCEPT ![p] =
               [config |-> SplitConfiguration(next[p], backing[p].config),
                dims |-> SplitDimensions(next[p], backing[p].dims),
                state |-> state2]]
      BY <2>4 DEF PutState
    <3> HIDE DEF state2
    <3> QED BY <1>1, <2>2, <2>3, <3>1 DEF StatesStay, TypeInv, TypeOK, DiskOK, SessionOK
  <2> HIDE DEF state2
  <2>5. StatesStay
    BY <2>1, <2>4 DEF StatesStay
  <2>6. Owner(p)'
    BY <1>1, <1>2 DEF RequestInv, Owner
  <2>7. backing'[p].state.id = backing[p].state.id /\ backing[p] # None
    BY <1>1, <2>1, <2>3, <2>4, StateOfFlight
  <2>8. Remembers(p)'
    BY <1>2, <2>7, KeepsMemory DEF client
  <2>9. ~ HasLine(current[p], backing[p].state.id)'
    BY <1>2, <2>1, <2>7 DEF RequestInv, FirstLine, HasLine, Lines
  <2>10. FirstLine(p)'
    BY <1>2, <2>1, <2>4, <2>7, <2>9 DEF FirstLine, MutationPhases, PutPhases, CreatePhases
  <2> QED BY <1>2, <1>3, <2>5, <2>6, <2>8, <2>10, QuietStep
<1> QED BY <1>5, <1>6

-----------------------------------------------------------------------------
(* Appending a line *)

\* A line added to a clean log.
LEMMA AppendedLines ==
  ASSUME NEW log \in AuditFile, log.tail = "clean", NEW line \in Line
  PROVE  /\ Appended(log, line).lines = Append(log.lines, line)
         /\ Appended(log, line).tail = "clean"
<1>1. LineWritten(log, line) =
        [lines |-> Append(log.lines, line), tail |-> "unterminated"]
  BY DEF LineWritten
<1> QED BY <1>1 DEF Appended, Terminated

\* The line of a request that has none in the log yet: the log gains that line
\* and no request has two.
LEMMA AppendsFirstLine ==
  ASSUME RequestInv, NEW p \in Procs, NEW s \in StateIds, NEW line \in Line,
         InHand(p), line.request = current[p], ~ HasLine(current[p], s),
         audit' = [audit EXCEPT ![s] = Appended(audit[s], line)],
         states' = states, states[s] # None
  PROVE  /\ \A r \in RequestIds, t \in StateIds :
              HasLine(r, t)' => r = current[p] \/ HasLine(r, t)
         /\ OnlyLinesOf(p)
         /\ CleanLogs' /\ LinesHaveStates' /\ OneLinePerRequest'
<1> DEFINE lines == audit[s].lines
           n == Len(lines)
<1>1. audit[s] \in AuditFile /\ audit[s].tail = "clean"
  BY DEF RequestInv, TypeInv, TypeOK, DiskOK, CleanLogs
<1>2. lines \in Seq(Line) /\ n \in Nat
  BY <1>1, LenProperties DEF AuditFile
<1>3. /\ audit'[s].lines = Append(lines, line) /\ audit'[s].tail = "clean"
      /\ \A t \in StateIds \ {s} : audit'[t] = audit[t]
  BY <1>1, AppendedLines DEF RequestInv, TypeInv, TypeOK, DiskOK
<1>4. /\ Len(Append(lines, line)) = n + 1
      /\ \A i \in 1 .. n : Append(lines, line)[i] = lines[i]
      /\ Append(lines, line)[n + 1] = line
  BY <1>2, AppendProperties
<1> HIDE DEF n
<1>5. /\ Len(Lines(s))' = n + 1
      /\ \A i \in 1 .. n : Lines(s)'[i] = Lines(s)[i]
      /\ Lines(s)'[n + 1].request = current[p]
  BY <1>3, <1>4 DEF Lines
<1>6. \A t \in StateIds \ {s} : Lines(t)' = Lines(t)
  BY <1>3 DEF Lines
<1>7. n = Len(Lines(s))
  BY DEF n, Lines
<1>8. \A i \in 1 .. n + 1 : i \in 1 .. n \/ i = n + 1
  BY <1>2
<1>9. ASSUME NEW r \in RequestIds, NEW t \in StateIds, HasLine(r, t)'
      PROVE  r = current[p] \/ HasLine(r, t)
  <2>1. CASE t = s
    <3>1. PICK i \in 1 .. n + 1 : Lines(s)'[i].request = r
      BY <1>5, <1>9, <2>1 DEF HasLine
    <3>2. CASE i \in 1 .. n
      BY <1>5, <1>7, <2>1, <3>1, <3>2 DEF HasLine
    <3>3. CASE i = n + 1
      BY <1>5, <3>1, <3>3
    <3> QED BY <1>8, <3>1, <3>2, <3>3
  <2>2. CASE t # s
    BY <1>6, <1>9, <2>2 DEF HasLine
  <2> QED BY <2>1, <2>2
<1>10. OnlyLinesOf(p)
  BY <1>9 DEF OnlyLinesOf, RequestInv, Owner
<1>11. CleanLogs'
  BY <1>3 DEF RequestInv, CleanLogs
<1>12. LinesHaveStates'
  BY <1>6 DEF RequestInv, LinesHaveStates
<1>13. OneLinePerRequest'
  <2> SUFFICES ASSUME NEW t \in StateIds,
                      NEW i \in 1 .. Len(Lines(t)'), NEW j \in 1 .. Len(Lines(t)'),
                      Lines(t)'[i].request = Lines(t)'[j].request
               PROVE  i = j
    BY DEF OneLinePerRequest
  <2>1. CASE t # s
    BY <1>6, <2>1 DEF RequestInv, OneLinePerRequest
  <2>2. CASE t = s
    <3>1. \A k \in 1 .. n : Lines(s)'[k].request # current[p]
      BY <1>5, <1>7 DEF HasLine
    <3>2. i \in 1 .. n + 1 /\ j \in 1 .. n + 1
      BY <1>5, <2>2
    <3>3. CASE i \in 1 .. n /\ j \in 1 .. n
      BY <1>5, <1>7, <2>2, <3>3 DEF RequestInv, OneLinePerRequest
    <3>4. CASE i = n + 1 \/ j = n + 1
      BY <1>5, <1>8, <2>2, <3>1, <3>2, <3>4
    <3> QED BY <1>8, <3>2, <3>3, <3>4
  <2> QED BY <2>1, <2>2
<1> QED BY <1>9, <1>10, <1>11, <1>12, <1>13

\* A step that appends the first line of its request keeps the invariant if
\* its process lands, or is killed, and remembers the line.
LEMMA AppendStep ==
  ASSUME RequestInv, TypeInv', NEW p \in Procs, NEW s \in StateIds,
         NEW line \in Line, InHand(p), line.request = current[p],
         ~ HasLine(current[p], s),
         audit' = [audit EXCEPT ![s] = Appended(audit[s], line)],
         states' = states, states[s] # None,
         \A q \in Procs \ {p} : Alone(q), phase'[p] \in {"idle", "down"},
         Remembers(p)'
  PROVE  RequestInv'
<1>1. OnlyLinesOf(p) /\ CleanLogs' /\ LinesHaveStates' /\ OneLinePerRequest'
  BY AppendsFirstLine
<1>2. StatesStay
  BY DEF StatesStay
<1>3. \A q \in Procs : Owner(q)' /\ Remembers(q)' /\ FirstLine(q)'
  BY <1>1, <1>2, AloneKeeps, NoLineDue
<1> QED BY <1>1, <1>3 DEF RequestInv

\* The line of a mutation: its answer is remembered in the process.
LEMMA AppendAuditKeeps ==
  ASSUME RequestInv, TypeInv', NEW p \in Procs, AppendAudit(p)
  PROVE  RequestInv'
<1> DEFINE s == backing[p].state.id
<1>1. /\ phase[p] = "put.audit"
      /\ audit' = [audit EXCEPT ![s] = Appended(audit[s], MutationLine(p))]
      /\ Answers(p, current[p], "ok", revision[p] + 1)
      /\ Lands(p)
      /\ UNCHANGED <<states, backing, audit_replays>>
  BY DEF AppendAudit, RequestInv, FirstLine
<1>2. TypeInv /\ InHand(p) /\ current[p] \in RequestIds /\ s \in StateIds
      /\ backing[p] # None
  BY <1>1, StateOfFlight DEF RequestInv, InHand, MutationPhases
<1>3. revision[p] \in Nat /\ revision[p] + 1 \in Nat /\ "ok" \in Codes
  BY <1>2 DEF TypeInv, TypeOK, SessionOK, Codes
<1>4. MutationLine(p) \in Line /\ MutationLine(p).request = current[p]
  BY <1>2, <1>3 DEF MutationLine, Line
<1>5. ~ HasLine(current[p], s) /\ states[s] # None
  BY <1>1 DEF RequestInv, FirstLine, MutationPhases
<1>6. \A q \in Procs \ {p} : Alone(q)
  BY <1>1, <1>2, <1>3, AnswersRemembered, LandsAlone DEF Alone
<1>7. Remembers(p)'
  <2> SUFFICES ASSUME NEW r \in RequestIds, ClientOf[r] = p, HasLine(r, s)'
               PROVE  request_cache'[p][r] # None \/ audit_replays'[p][r] # None
    BY <1>1 DEF Remembers, HasLine, Lines
  <2>1. r = current[p] \/ HasLine(r, s)
    BY <1>1, <1>2, <1>4, <1>5, AppendsFirstLine
  <2>2. CASE r = current[p]
    BY <1>1, <1>2, <1>3, <2>2, AnswersRemembered
  <2>3. CASE HasLine(r, s)
    BY <1>1, <1>2, <1>3, <2>3, AnswersRemembered DEF RequestInv, Remembers
  <2> QED BY <2>1, <2>2, <2>3
<1> HIDE DEF s
<1> QED BY <1>1, <1>2, <1>4, <1>5, <1>6, <1>7, AppendStep, LandsAlone

\* The line of a created state: it is among the replays read after it.
LEMMA CreateAppendAuditKeeps ==
  ASSUME RequestInv, TypeInv', NEW p \in Procs, CreateAppendAudit(p)
  PROVE  RequestInv'
<1> DEFINE s == docs[p].state.id
<1>1. /\ phase[p] = "create.audit"
      /\ audit' = [audit EXCEPT ![s] = Appended(audit[s], CreateLine(p))]
      /\ Switches(p, Replays(audit'[s]))
      /\ Answers(p, current[p], "ok", 0)
      /\ Lands(p)
      /\ UNCHANGED states
  BY DEF CreateAppendAudit, RequestInv, FirstLine
<1>2. TypeInv /\ InHand(p) /\ current[p] \in RequestIds /\ s \in StateIds
  BY <1>1, StateOfFlight DEF RequestInv, InHand, CreatePhases
<1>3. "ok" \in Codes /\ 0 \in Nat
  BY DEF Codes
<1>4. CreateLine(p) \in Line /\ CreateLine(p).request = current[p]
  BY <1>2 DEF CreateLine, Line
<1>5. ~ HasLine(current[p], s) /\ states[s] # None
  BY <1>1 DEF RequestInv, FirstLine, CreatePhases
<1>6. /\ backing'[p] = docs[p] /\ audit_replays'[p] = Replays(audit'[s])
      /\ \A q \in Procs \ {p} :
           backing'[q] = backing[q] /\ audit_replays'[q] = audit_replays[q]
  BY <1>1, <1>2 DEF Switches, TypeInv, TypeOK, SessionOK
<1>7. \A q \in Procs \ {p} : Alone(q)
  BY <1>1, <1>2, <1>3, <1>6, AnswersRemembered, LandsAlone DEF Alone
<1>8. audit'[s] \in AuditFile /\ audit'[s].tail = "clean"
  <2>1. CleanLogs'
    BY <1>1, <1>2, <1>4, <1>5, AppendsFirstLine
  <2> QED BY <1>2, <2>1 DEF TypeInv, TypeOK, DiskOK, CleanLogs
<1>9. Remembers(p)'
  <2>1. ASSUME NEW r \in RequestIds, \E i \in 1 .. Len(audit'[s].lines) :
                                       audit'[s].lines[i].request = r
        PROVE  Replays(audit'[s])[r] # None
    BY <1>8, <2>1, ReplaysType
  <2> QED BY <1>6, <2>1 DEF Remembers, HasLine, Lines
<1> HIDE DEF s
<1> QED BY <1>1, <1>2, <1>4, <1>5, <1>7, <1>9, AppendStep, LandsAlone

-----------------------------------------------------------------------------
(* Kills and starts *)

\* A kill leaves the log as it is or, during an append, with the whole line.
LEMMA CrashKeeps ==
  ASSUME Tears = {}, RequestInv, TypeInv', NEW p \in Procs, Crash(p)
  PROVE  RequestInv'
<1>1. TypeInv
  BY DEF RequestInv
<1>2. \A log, line : Killed(log, line) = {log, Appended(log, line)}
  BY DEF Killed, Torn
<1>3. /\ phase'[p] = "down" /\ backing'[p] = None
      /\ states' = states
      /\ \A q \in Procs \ {p} : Alone(q)
  BY <1>1 DEF Crash, Alone, TypeInv, TypeOK, FlightOK, SessionOK, ClientOK
<1>4. StatesStay
  BY <1>3 DEF StatesStay
<1>5. Remembers(p)'
  BY <1>3 DEF Remembers
<1>6. CASE audit' = audit
  BY <1>3, <1>4, <1>5, <1>6, NoLineDue, QuietStep
<1>7. ASSUME phase[p] = "put.audit", audit' # audit
      PROVE  RequestInv'
  <2> DEFINE s == backing[p].state.id
  <2>1. s \in StateIds /\ InHand(p) /\ current[p] \in RequestIds
        /\ revision[p] \in Nat
    BY <1>1, <1>7, StateOfFlight
       DEF InHand, MutationPhases, TypeInv, TypeOK, SessionOK
  <2>2. audit' = [audit EXCEPT ![s] = Appended(audit[s], MutationLine(p))]
    BY <1>1, <1>2, <1>7, <2>1 DEF Crash, CrashLog, TypeInv, TypeOK, DiskOK
  <2>3. MutationLine(p) \in Line /\ MutationLine(p).request = current[p]
    BY <2>1 DEF MutationLine, Line
  <2>4. ~ HasLine(current[p], s) /\ states[s] # None
    BY <1>7 DEF RequestInv, FirstLine, MutationPhases
  <2> HIDE DEF s
  <2> QED BY <1>3, <1>5, <2>1, <2>2, <2>3, <2>4, AppendStep
<1>8. ASSUME phase[p] = "create.audit", audit' # audit
      PROVE  RequestInv'
  <2> DEFINE s == docs[p].state.id
  <2>1. s \in StateIds /\ InHand(p) /\ current[p] \in RequestIds
    BY <1>1, <1>8, StateOfFlight DEF InHand, CreatePhases
  <2>2. audit' = [audit EXCEPT ![s] = Appended(audit[s], CreateLine(p))]
    BY <1>1, <1>2, <1>8, <2>1 DEF Crash, CrashLog, TypeInv, TypeOK, DiskOK
  <2>3. CreateLine(p) \in Line /\ CreateLine(p).request = current[p]
    BY <2>1 DEF CreateLine, Line
  <2>4. ~ HasLine(current[p], s) /\ states[s] # None
    BY <1>8 DEF RequestInv, FirstLine, CreatePhases
  <2> HIDE DEF s
  <2> QED BY <1>3, <1>5, <2>1, <2>2, <2>3, <2>4, AppendStep
<1>9. audit' = audit \/ phase[p] \in {"put.audit", "create.audit"}
  BY DEF Crash, CrashLog
<1> QED BY <1>6, <1>7, <1>8, <1>9

\* A process that starts has nothing open.
LEMMA StartKeeps ==
  ASSUME RequestInv, TypeInv', NEW p \in Procs, Start(p)
  PROVE  RequestInv'
<1>1. /\ phase' = [phase EXCEPT ![p] = "idle"]
      /\ UNCHANGED <<disk, session, client, current, docs>>
  BY DEF Start
<1>2. audit' = audit /\ StatesStay /\ backing' = backing
      /\ audit_replays' = audit_replays /\ request_cache' = request_cache
  BY <1>1 DEF disk, session, client, StatesStay
<1>3. phase'[p] = "idle" /\ \A q \in Procs \ {p} : Alone(q)
  BY <1>1, <1>2 DEF Alone, RequestInv, TypeInv, TypeOK, FlightOK
<1>4. Remembers(p)'
  BY <1>2, KeepsMemory
<1> QED BY <1>2, <1>3, <1>4, NoLineDue, QuietStep

-----------------------------------------------------------------------------

\* Nothing is open and no log has a line at the start.
LEMMA InitRequests == Init => RequestInv
<1> SUFFICES ASSUME Init PROVE RequestInv
  OBVIOUS
<1>1. TypeInv
  BY InitType
<1>2. \A s \in StateIds : Lines(s) = <<>> /\ audit[s].tail = "clean"
  BY DEF Init, Lines
<1>3. \A p \in Procs : phase[p] = "down" /\ backing[p] = None
  BY DEF Init
<1> QED BY <1>1, <1>2, <1>3
           DEF RequestInv, CleanLogs, LinesHaveStates, OneLinePerRequest, Owner, InHand,
               Remembers, FirstLine, MutationPhases, CreatePhases, PutPhases

\* Every step keeps the invariant, when no file operation fails.
LEMMA NextRequests ==
  ASSUME Tears = {}, MaxFaults = 0
  PROVE  RequestInv /\ [Next]_vars => RequestInv'
<1> SUFFICES ASSUME RequestInv, [Next]_vars PROVE RequestInv'
  OBVIOUS
<1>1. TypeInv /\ TypeInv'
  BY NextType DEF RequestInv
<1>2. ~ Faulty
  BY <1>1 DEF Faulty, TypeInv, TypeOK, BoundsOK
<1>3. CASE UNCHANGED vars
  <2>1. /\ audit' = audit /\ StatesStay
        /\ \A p \in Procs : Alone(p) /\ backing'[p] = backing[p]
    BY <1>3 DEF vars, disk, session, flight, client, StatesStay, Alone
  <2>2. \A p \in Procs : Owner(p)' /\ Remembers(p)' /\ FirstLine(p)'
    BY <1>3 DEF vars, disk, session, flight, client, RequestInv, Owner, InHand,
       Remembers, FirstLine, HasLine, Lines
  <2> QED BY <1>1, <1>3, <2>1, <2>2, SameLog
          DEF RequestInv, LinesHaveStates, Lines, vars, disk
<1>4. ASSUME NEW p \in Procs, Start(p) PROVE RequestInv'
  BY <1>1, <1>4, StartKeeps
<1>5. ASSUME NEW p \in Procs, Step(p) PROVE RequestInv'
  <2>1. ~ AppendLine(p) /\ ~ CreateAppendLine(p)
    BY DEF AppendLine, CreateAppendLine
  <2> QED BY <1>1, <1>5, <2>1, OpenReadKeeps, OpenReadAuditKeeps, PutKeeps,
             AppendAuditKeeps, CreateAppendAuditKeeps DEF Step
<1>6. ASSUME NEW p \in Procs, Fault(p) PROVE RequestInv'
  <2>1. Crash(p)
    BY <1>2, <1>6 DEF Fault, OpenError, ReplaysError, PutError, CreateAuditError,
       AuditError
  <2> QED BY <1>1, <2>1, CrashKeeps
<1>7. ASSUME NEW p \in Procs, NEW r \in RequestIds, NEW e,
             Receive(p, r, e) \/ CreateReadError(p, r, e)
      PROVE  RequestInv'
  <2>1. Receive(p, r, e)
    BY <1>2, <1>7 DEF CreateReadError
  <2> QED BY <1>1, <2>1, ReceiveAtOnceKeeps, TakesFlightKeeps DEF Receive
<1> QED BY <1>3, <1>4, <1>5, <1>6, <1>7 DEF Next

\* A request leaves one audit line in a state at most: it is never carried out
\* there again once it has its line, however often it is resent, before or
\* after any number of kills and reopens, and however many processes have the
\* state open.  It is assumed that an append is one write, all or nothing, and
\* that no file operation fails: a log that cannot be parsed and a log that
\* cannot be read both make the replays empty.
THEOREM RequestsLeaveOneLine ==
  ASSUME Tears = {}, MaxFaults = 0
  PROVE  Spec => []OneLinePerRequest
<1>1. Init => RequestInv
  BY InitRequests
<1>2. RequestInv /\ [Next]_vars => RequestInv'
  BY NextRequests
<1>3. RequestInv => OneLinePerRequest
  BY DEF RequestInv
<1> QED BY <1>1, <1>2, <1>3, PTL DEF Spec

-----------------------------------------------------------------------------
(* Accepted requests are in the log: the inductive invariant *)

\* Some log has a line of r that ends in version v.
HasVersion(r, v) ==
  \E s \in StateIds : \E i \in 1 .. Len(Lines(s)) :
    Lines(s)[i].request = r /\ Lines(s)[i].after = v

\* An answer to r that calls a mutation persisted has its line.
Vouched(r, a) ==
  a # None /\ a.code \in {"ok", "replayed"} /\ sent[r].op \in MutationOp
    => HasVersion(r, a.version)

\* Only a request that has been sent is answered.
SentFirst ==
  \A r \in RequestIds :
    sent[r] = None =>
      answer[r] = None /\ \A p \in Procs : request_cache[p][r] = None

OpenPhases ==
  {"open.config", "open.dims", "open.audit", "create.newline"} \cup CreatePhases

\* What a process may still tell its clients: what it has told them, the
\* replays it has read, and the line it has written without its newline.
Knows(p) ==
  /\ \A r \in RequestIds : Vouched(r, request_cache[p][r])
  /\ \A r \in RequestIds :
       audit_replays[p][r] # None => HasVersion(r, audit_replays[p][r])
  /\ InHand(p) => sent[current[p]] # None
  /\ phase[p] \in OpenPhases => sent[current[p]].op.kind = "model.open"
  /\ phase[p] = "put.newline" => HasVersion(current[p], revision[p] + 1)

AuditInv ==
  /\ TypeInv
  /\ SentFirst
  /\ \A r \in RequestIds : Vouched(r, answer[r])
  /\ \A p \in Procs : Knows(p)

-----------------------------------------------------------------------------
(* Logs only grow, and what has been sent is not changed *)

LinesStay ==
  \A r, v : HasVersion(r, v) => HasVersion(r, v)'

SentStays == \A r \in RequestIds : sent[r] # None => sent'[r] = sent[r]

Grows(old, new) ==
  /\ Len(old.lines) \in Nat /\ Len(new.lines) \in Nat
  /\ Len(old.lines) <= Len(new.lines)
  /\ \A i \in 1 .. Len(old.lines) : new.lines[i] = old.lines[i]

\* An append that completes or not leaves the lines that were there.
LEMMA AppendGrows ==
  ASSUME NEW log \in AuditFile, NEW line \in Line
  PROVE  /\ Grows(log, Terminated(log))
         /\ \A new \in Killed(log, line) \cup {LineWritten(log, line)} : Grows(log, new)
         /\ \A new \in {LineWritten(log, line), Appended(log, line)} :
              \E i \in 1 .. Len(new.lines) : new.lines[i] = line
<1>1. log.lines \in Seq(Line) /\ Len(log.lines) \in Nat
  BY LenProperties DEF AuditFile
<1>2. /\ Len(Append(log.lines, line)) = Len(log.lines) + 1
      /\ \A i \in 1 .. Len(log.lines) : Append(log.lines, line)[i] = log.lines[i]
      /\ Append(log.lines, line)[Len(log.lines) + 1] = line
  BY <1>1, AppendProperties
<1>3. Terminated(log).lines = log.lines /\ [log EXCEPT !.tail = "garbled"].lines = log.lines
  BY DEF Terminated, AuditFile
<1>4. LineWritten(log, line).lines = Append(log.lines, line)
  BY DEF LineWritten
<1>5. Appended(log, line).lines = Append(log.lines, line)
  BY <1>4 DEF Appended, Terminated, LineWritten
<1>6. \A new : new.lines = log.lines \/ new.lines = Append(log.lines, line)
               => Grows(log, new)
  BY <1>1, <1>2 DEF Grows
<1>7. \A new \in Killed(log, line) \cup {LineWritten(log, line)} :
        new.lines = log.lines \/ new.lines = Append(log.lines, line)
  BY <1>3, <1>4, <1>5 DEF Killed, Torn
<1>8. \A new \in {LineWritten(log, line), Appended(log, line)} :
        \E i \in 1 .. Len(new.lines) : new.lines[i] = line
  <2>1. Len(log.lines) + 1 \in 1 .. Len(Append(log.lines, line))
    BY <1>1, <1>2
  <2> QED BY <1>2, <1>4, <1>5, <2>1
<1> QED BY <1>3, <1>6, <1>7, <1>8

\* A step that writes one log, or none, keeps the lines.
LEMMA LogWritten ==
  ASSUME TypeInv, NEW s \in StateIds, NEW new, Grows(audit[s], new),
         audit' = [audit EXCEPT ![s] = new]
  PROVE  /\ LinesStay
         /\ audit'[s] = new
<1>1. audit'[s] = new /\ \A t \in StateIds \ {s} : audit'[t] = audit[t]
  BY DEF TypeInv, TypeOK, DiskOK
<1>2. ASSUME NEW r, NEW v, HasVersion(r, v) PROVE HasVersion(r, v)'
  <2>1. PICK t \in StateIds : \E i \in 1 .. Len(audit[t].lines) :
          audit[t].lines[i].request = r /\ audit[t].lines[i].after = v
    BY <1>2 DEF HasVersion, Lines
  <2>2. PICK i \in 1 .. Len(audit[t].lines) :
          audit[t].lines[i].request = r /\ audit[t].lines[i].after = v
    BY <2>1
  <2>3. CASE t # s
    BY <1>1, <2>2, <2>3 DEF HasVersion, Lines
  <2>4. CASE t = s
    <3>1. i \in 1 .. Len(audit'[s].lines) /\ audit'[s].lines[i] = audit[s].lines[i]
      BY <1>1, <2>2, <2>4 DEF Grows
    <3> QED BY <2>2, <2>4, <3>1 DEF HasVersion, Lines
  <2> QED BY <2>3, <2>4
<1> QED BY <1>1, <1>2 DEF LinesStay

LEMMA LogsKept ==
  ASSUME audit' = audit
  PROVE  /\ LinesStay
         /\ \A r, v : HasVersion(r, v)' = HasVersion(r, v)
BY DEF LinesStay, HasVersion, Lines

\* The line of a request, once it is in a log, vouches for its version.
LEMMA LineVouches ==
  ASSUME NEW s \in StateIds, NEW line,
         \E i \in 1 .. Len(audit'[s].lines) : audit'[s].lines[i] = line
  PROVE  HasVersion(line.request, line.after)'
BY DEF HasVersion, Lines

-----------------------------------------------------------------------------
(* What a step of one process has to show *)

\* What q knows and has in flight is left alone.
Untouched(q) ==
  /\ request_cache'[q] = request_cache[q] /\ audit_replays'[q] = audit_replays[q]
  /\ phase'[q] = phase[q] /\ current'[q] = current[q]
  /\ phase[q] = "put.newline" => revision'[q] = revision[q]

\* An answer is given to the request, and remembered for it.
LEMMA AnswerTold ==
  ASSUME TypeInv, NEW p \in Procs, NEW r \in RequestIds, NEW code, NEW version,
         Answers(p, r, code, version), sent'[r] # None,
         code \in {"ok", "replayed"} /\ sent'[r].op \in MutationOp
           => HasVersion(r, version)'
  PROVE  /\ \A x \in RequestIds :
              answer'[x] = answer[x] \/ (sent'[x] # None /\ Vouched(x, answer[x])')
         /\ \A x \in RequestIds :
              request_cache'[p][x] \in {request_cache[p][x], None}
                \/ (sent'[x] # None /\ Vouched(x, request_cache[p][x])')
         /\ \A q \in Procs \ {p} : request_cache'[q] = request_cache[q]
<1> DEFINE a == [code |-> code, version |-> version]
<1>1. a.code = code /\ a.version = version
  OBVIOUS
<1>2. /\ request_cache' = [request_cache EXCEPT ![p][r] = a]
      /\ answer' = [answer EXCEPT ![r] = a]
  BY DEF Answers
<1> HIDE DEF a
<1>3. /\ answer'[r] = a /\ request_cache'[p][r] = a
      /\ \A x \in RequestIds \ {r} :
           answer'[x] = answer[x] /\ request_cache'[p][x] = request_cache[p][x]
      /\ \A q \in Procs \ {p} : request_cache'[q] = request_cache[q]
  BY <1>2 DEF TypeInv, TypeOK, ClientOK
<1>4. Vouched(r, answer[r])' /\ Vouched(r, request_cache[p][r])'
  BY <1>1, <1>3 DEF Vouched
<1> QED BY <1>3, <1>4

\* A step keeps the invariant if its process tells and knows what is vouched
\* for, the logs only grow and the others are left alone.
LEMMA StepVouches ==
  ASSUME AuditInv, TypeInv', NEW p \in Procs, LinesStay, SentStays,
         \A q \in Procs \ {p} : Untouched(q),
         \A r \in RequestIds :
           answer'[r] = answer[r] \/ (sent'[r] # None /\ Vouched(r, answer[r])'),
         \A r \in RequestIds :
           request_cache'[p][r] \in {request_cache[p][r], None}
             \/ (sent'[r] # None /\ Vouched(r, request_cache[p][r])'),
         \A r \in RequestIds :
           audit_replays'[p][r] # None => HasVersion(r, audit_replays[p][r])',
         InHand(p)' => sent'[current'[p]] # None,
         phase'[p] \in OpenPhases => sent'[current'[p]].op.kind = "model.open",
         phase'[p] = "put.newline" => HasVersion(current[p], revision[p] + 1)'
  PROVE  AuditInv'
<1>1. ASSUME NEW r \in RequestIds, NEW a, NEW b,
             Vouched(r, a), sent[r] = None => a = None, b = a
      PROVE  b # None /\ b.code \in {"ok", "replayed"} /\ sent'[r].op \in MutationOp
               => HasVersion(r, b.version)'
  BY <1>1 DEF Vouched, SentStays, LinesStay
<1>2. ASSUME NEW r \in RequestIds, NEW q \in Procs
      PROVE  /\ sent[r] = None => answer[r] = None /\ request_cache[q][r] = None
             /\ Vouched(r, answer[r]) /\ Vouched(r, request_cache[q][r])
  BY DEF AuditInv, SentFirst, Knows
<1>3. ASSUME NEW r \in RequestIds
      PROVE  Vouched(r, answer[r])'
  <2>1. CASE answer'[r] = answer[r]
    BY <1>1, <1>2, <2>1 DEF Vouched
  <2>2. CASE answer'[r] # answer[r]
    BY <2>2
  <2> QED BY <2>1, <2>2
<1>4. ASSUME NEW r \in RequestIds, NEW q \in Procs
      PROVE  Vouched(r, request_cache[q][r])'
  <2>1. CASE request_cache'[q][r] = request_cache[q][r]
    BY <1>1, <1>2, <2>1 DEF Vouched
  <2>2. CASE request_cache'[q][r] # request_cache[q][r]
    <3>1. q = p
      BY <2>2 DEF Untouched
    <3>2. CASE request_cache'[q][r] = None
      BY <3>2 DEF Vouched
    <3> QED BY <2>2, <3>1, <3>2
  <2> QED BY <2>1, <2>2
<1>5. SentFirst'
  <2> SUFFICES ASSUME NEW r \in RequestIds, sent'[r] = None
               PROVE  answer'[r] = None /\ \A q \in Procs : request_cache'[q][r] = None
    BY DEF SentFirst
  <2>1. sent[r] = None
    BY DEF SentStays
  <2>2. \A q \in Procs : request_cache'[q][r] \in {request_cache[q][r], None}
    BY DEF Untouched
  <2> QED BY <1>2, <2>1, <2>2
<1>6. ASSUME NEW q \in Procs PROVE Knows(q)'
  <2>1. CASE q = p
    BY <1>4, <2>1 DEF Knows
  <2>2. CASE q # p
    <3>1. Knows(q) /\ Untouched(q)
      BY <2>2 DEF AuditInv
    <3>2. \A r \in RequestIds :
            audit_replays'[q][r] # None => HasVersion(r, audit_replays[q][r])'
      BY <3>1 DEF Knows, Untouched, LinesStay
    <3>3. InHand(q)' => InHand(q) /\ current[q] \in RequestIds
      BY <3>1 DEF InHand, Untouched, AuditInv, TypeInv, InFlight
    <3>4. phase[q] \in OpenPhases \/ phase[q] = "put.newline" => InHand(q)
      BY DEF InHand, OpenPhases, CreatePhases
    <3>5. InHand(q)' => sent'[current'[q]] # None
      BY <3>1, <3>3 DEF Knows, Untouched, SentStays
    <3>6. phase'[q] \in OpenPhases => sent'[current'[q]].op.kind = "model.open"
      BY <3>1, <3>3, <3>4 DEF Knows, Untouched, SentStays, InHand
    <3>7. phase'[q] = "put.newline" => HasVersion(current[q], revision[q] + 1)'
      BY <3>1 DEF Knows, Untouched, LinesStay
    <3> QED BY <1>4, <3>2, <3>5, <3>6, <3>7 DEF Knows
  <2> QED BY <2>1, <2>2
<1> QED BY <1>3, <1>5, <1>6 DEF AuditInv

-----------------------------------------------------------------------------
(* Commands that arrive *)

LEMMA MutationKinds ==
  \A op \in MutationOp : op.kind \notin {"import", "model.status", "model.open"}
BY DEF MutationOp

\* A command that arrives is sent, now or before, and always the same.
LEMMA ArrivesSent ==
  ASSUME TypeInv, NEW p \in Procs, NEW r \in RequestIds, NEW e, Arrives(p, r, e)
  PROVE  SentStays /\ sent'[r] = e /\ sent'[r] # None
<1>1. sent'[r] = e /\ \A x \in RequestIds \ {r} : sent'[x] = sent[x]
  BY DEF Arrives, TypeInv, TypeOK, ClientOK
<1>2. e # None
  <2>1. e \in Envelope
    <3>1. Envelopes(r) \subseteq Envelope
      BY CommandsAssumption, SessionAssumption
         DEF Envelopes, Envelope, CommandsAssumption, SessionAssumption
    <3> QED BY <3>1 DEF Arrives, TypeInv, TypeOK, ClientOK
  <2> QED BY <2>1, NoneAssumption DEF NoneAssumption
<1> QED BY <1>1, <1>2 DEF SentStays, Arrives

\* A command answered at once: from the cache, from the replays, or without
\* having written a file.
LEMMA AtOnceVouches ==
  ASSUME AuditInv, TypeInv', NEW p \in Procs, NEW r \in RequestIds, NEW e,
         \/ ReplayCached(p, r, e) \/ ReplayAudited(p, r, e) \/ Import(p, r, e)
         \/ Status(p, r, e) \/ Refuse(p, r, e) \/ NoOp(p, r, e)
         \/ MutateEphemeral(p, r, e)
  PROVE  AuditInv'
<1>1. /\ TypeInv /\ Arrives(p, r, e) /\ phase[p] = "idle"
      /\ UNCHANGED disk /\ UNCHANGED flight
  BY DEF AuditInv, ReplayCached, ReplayAudited, Import, Status, Refuse, NoOp,
         MutateEphemeral, Mutates, Dispatches, Arrives
<1>2. SentStays /\ sent'[r] = e /\ sent'[r] # None
  BY <1>1, ArrivesSent
<1>3. LinesStay /\ \A x, v : HasVersion(x, v)' = HasVersion(x, v)
  BY <1>1, LogsKept DEF disk
<1>4. phase'[p] = "idle"
  BY <1>1 DEF flight
<1>5. /\ \A x \in RequestIds : audit_replays'[p][x] \in {audit_replays[p][x], None}
      /\ \A q \in Procs \ {p} :
           audit_replays'[q] = audit_replays[q] /\ revision'[q] = revision[q]
  <2>1. CASE UNCHANGED session
    BY <2>1 DEF session
  <2>2. CASE MutateEphemeral(p, r, e)
    BY <1>1, <2>2 DEF MutateEphemeral, TypeInv, TypeOK, SessionOK
  <2>3. CASE Import(p, r, e) /\ ~ UNCHANGED session
    <3>1. /\ revision' = [revision EXCEPT ![p] = 0]
          /\ audit_replays' = [audit_replays EXCEPT ![p] = NoReplays]
      BY <2>3 DEF Import
    <3> QED BY <1>1, <3>1 DEF NoReplays, TypeInv, TypeOK, SessionOK
  <2> QED BY <2>1, <2>2, <2>3 DEF ReplayCached, ReplayAudited, Status, Refuse, NoOp
<1>6. \A x \in RequestIds :
        audit_replays'[p][x] # None => HasVersion(x, audit_replays[p][x])'
  <2> SUFFICES ASSUME NEW x \in RequestIds, audit_replays'[p][x] # None
               PROVE  HasVersion(x, audit_replays[p][x])'
    OBVIOUS
  <2>1. HasVersion(x, audit_replays[p][x])
    BY <1>5 DEF AuditInv, Knows
  <2>2. audit_replays'[p][x] = audit_replays[p][x]
    BY <1>5
  <2> QED BY <1>3, <2>1, <2>2 DEF LinesStay
<1>7. /\ \A x \in RequestIds :
           answer'[x] = answer[x] \/ (sent'[x] # None /\ Vouched(x, answer[x])')
      /\ \A x \in RequestIds :
           request_cache'[p][x] \in {request_cache[p][x], None}
             \/ (sent'[x] # None /\ Vouched(x, request_cache[p][x])')
      /\ \A q \in Procs \ {p} : request_cache'[q] = request_cache[q]
  <2>1. CASE ReplayCached(p, r, e)
    <3>1. /\ request_cache[p][r] # None
          /\ answer' = [answer EXCEPT ![r] = request_cache[p][r]]
          /\ request_cache' = request_cache
      BY <2>1 DEF ReplayCached
    <3>2. Vouched(r, request_cache[p][r]) /\ sent[r] # None
      BY <3>1 DEF AuditInv, Knows, SentFirst
    <3>3. /\ answer'[r] = request_cache[p][r]
          /\ \A x \in RequestIds \ {r} : answer'[x] = answer[x]
      BY <1>1, <3>1 DEF TypeInv, TypeOK, ClientOK
    <3>4. Vouched(r, answer[r])'
      BY <1>2, <1>3, <3>2, <3>3 DEF Vouched, SentStays, LinesStay
    <3> QED BY <1>2, <3>1, <3>3, <3>4
  <2>2. CASE ReplayAudited(p, r, e)
    <3>1. HasVersion(r, audit_replays[p][r])
      BY <2>2 DEF ReplayAudited, AuditReplay, AuditInv, Knows
    <3>2. Answers(p, r, "replayed", audit_replays[p][r])
      BY <2>2 DEF ReplayAudited
    <3>3. PICK v : v = audit_replays[p][r] /\ HasVersion(r, v)
      BY <3>1
    <3> QED BY <1>1, <1>2, <1>3, <3>2, <3>3, AnswerTold
  <2>3. CASE Import(p, r, e) \/ Status(p, r, e)
    <3>1. e.op \notin MutationOp
      BY <2>3, MutationKinds DEF Import, Status
    <3>2. PICK code \in Codes, v \in Nat : Answers(p, r, code, v)
      <4>1. Answers(p, r, "ok", 0) \/ Answers(p, r, "invalid_model", 0)
              \/ Answers(p, r, "ok", revision[p])
        BY <2>3 DEF Import, Status
      <4>2. revision[p] \in Nat /\ {"ok", "invalid_model"} \subseteq Codes
        BY <1>1 DEF TypeInv, TypeOK, SessionOK, Codes
      <4> QED BY <4>1, <4>2
    <3> QED BY <1>1, <1>2, <3>1, <3>2, AnswerTold
  <2>4. CASE Refuse(p, r, e) \/ NoOp(p, r, e) \/ MutateEphemeral(p, r, e)
    <3>1. Refusal(p, r, e) \notin {"ok", "replayed"}
      BY DEF Refusal
    <3>2. \E code, v : Answers(p, r, code, v) /\ code \notin {"ok", "replayed"}
      BY <2>4, <3>1 DEF Refuse, NoOp, MutateEphemeral
    <3> QED BY <1>1, <1>2, <3>2, AnswerTold
  <2> QED BY <2>1, <2>2, <2>3, <2>4
<1>8. \A q \in Procs \ {p} : Untouched(q)
  BY <1>1, <1>5, <1>7 DEF Untouched, flight
<1>9. /\ ~ InHand(p)'
      /\ phase'[p] \notin OpenPhases /\ phase'[p] # "put.newline"
  BY <1>4 DEF InHand, OpenPhases, CreatePhases
<1> QED BY <1>2, <1>3, <1>6, <1>7, <1>8, <1>9, StepVouches

\* A command that takes flight: it has been sent, and answers nothing yet.
LEMMA FlightVouches ==
  ASSUME AuditInv, TypeInv', NEW p \in Procs, NEW r \in RequestIds, NEW e,
         \/ OpenExisting(p, r, e)
         \/ \E cr, dr \in BOOLEAN : Create(p, r, e, cr, dr)
         \/ MutatePersisted(p, r, e)
  PROVE  AuditInv'
<1>1. /\ TypeInv /\ Arrives(p, r, e)
      /\ UNCHANGED <<disk, session, request_cache, answer>>
      /\ current' = [current EXCEPT ![p] = r]
  BY DEF AuditInv, OpenExisting, Create, MutatePersisted, Mutates, Dispatches
<1>2. SentStays /\ sent'[r] = e /\ sent'[r] # None
  BY <1>1, ArrivesSent
<1>3. LinesStay
  BY <1>1, LogsKept DEF disk
<1>4. /\ current'[p] = r
      /\ \A q \in Procs \ {p} : current'[q] = current[q] /\ phase'[q] = phase[q]
      /\ phase'[p] \in OpenPhases => e.op.kind = "model.open"
      /\ phase'[p] # "put.newline"
  BY <1>1 DEF OpenExisting, Create, MutatePersisted, TypeInv, TypeOK, FlightOK,
              OpenPhases, CreatePhases
<1>5. \A q \in Procs \ {p} : Untouched(q)
  BY <1>1, <1>4 DEF Untouched, session
<1>6. \A x \in RequestIds :
        audit_replays'[p][x] # None => HasVersion(x, audit_replays[p][x])'
  BY <1>1, <1>3 DEF AuditInv, Knows, LinesStay, session
<1> QED BY <1>1, <1>2, <1>3, <1>4, <1>5, <1>6, StepVouches

-----------------------------------------------------------------------------
(* File operations *)

\* A process that has landed has nothing in flight to vouch for.
LEMMA LandsDone ==
  ASSUME TypeInv, NEW p \in Procs, Lands(p)
  PROVE  /\ ~ InHand(p)' /\ phase'[p] \notin OpenPhases /\ phase'[p] # "put.newline"
         /\ \A q \in Procs \ {p} : phase'[q] = phase[q] /\ current'[q] = current[q]
BY LandsAlone DEF InHand, OpenPhases, CreatePhases

\* A command that ends in an answer that is vouched for.
LEMMA LandVouches ==
  ASSUME AuditInv, TypeInv', NEW p \in Procs, InHand(p),
         NEW r \in RequestIds, r = current[p], NEW code, NEW version,
         Answers(p, r, code, version), Lands(p), UNCHANGED sent, LinesStay,
         code \in {"ok", "replayed"} /\ sent[r].op \in MutationOp
           => HasVersion(r, version)',
         \A q \in Procs \ {p} :
           audit_replays'[q] = audit_replays[q]
             /\ (phase[q] = "put.newline" => revision'[q] = revision[q]),
         \A x \in RequestIds :
           audit_replays'[p][x] # None => HasVersion(x, audit_replays[p][x])'
  PROVE  AuditInv'
<1>1. TypeInv /\ sent[r] # None
  BY DEF AuditInv, Knows
<1>2. SentStays
  BY DEF SentStays
<1>3. /\ \A x \in RequestIds :
           answer'[x] = answer[x] \/ (sent'[x] # None /\ Vouched(x, answer[x])')
      /\ \A x \in RequestIds :
           request_cache'[p][x] \in {request_cache[p][x], None}
             \/ (sent'[x] # None /\ Vouched(x, request_cache[p][x])')
      /\ \A q \in Procs \ {p} : request_cache'[q] = request_cache[q]
  BY <1>1, AnswerTold
<1>4. \A q \in Procs \ {p} : Untouched(q)
  BY <1>1, <1>3, LandsDone DEF Untouched
<1> QED BY <1>1, <1>2, <1>3, <1>4, LandsDone, StepVouches

\* The replays of a process whose session is left alone.
LEMMA SameReplays ==
  ASSUME AuditInv, NEW p \in Procs, UNCHANGED audit_replays, LinesStay
  PROVE  /\ \A q \in Procs : audit_replays'[q] = audit_replays[q]
         /\ \A x \in RequestIds :
              audit_replays'[p][x] # None => HasVersion(x, audit_replays[p][x])'
BY DEF AuditInv, Knows, LinesStay

\* Replays read from a log are lines of that log.
LEMMA ReplaysHaveLines ==
  ASSUME NEW log \in AuditFile, NEW r \in RequestIds, Replays(log)[r] # None
  PROVE  \E i \in 1 .. Len(log.lines) :
           log.lines[i].request = r /\ log.lines[i].after = Replays(log)[r]
<1> DEFINE At == {i \in 1 .. Len(log.lines) : log.lines[i].request = r}
           Last == CHOOSE i \in At : \A j \in At : j <= i
<1>1. log.tail # "garbled"
  BY DEF Replays, NoReplays
<1>2. Replays(log)[r] = IF At = {} THEN None ELSE log.lines[Last].after
  BY <1>1 DEF Replays
<1>3. At # {}
  BY <1>2
<1>4. Last \in At
  <2>1. Len(log.lines) \in Nat
    BY LenProperties DEF AuditFile
  <2>2. At \in SUBSET (1 .. Len(log.lines))
    OBVIOUS
  <2> HIDE DEF At
  <2>3. \E i \in At : \A j \in At : j <= i
    BY <1>3, <2>1, <2>2, GreatestOfSome
  <2> QED BY <2>3
<1> QED BY <1>2, <1>3, <1>4

\* The session switches to the documents in hand, with the replays of a log
\* that is there by now, or with none.
LEMMA SwitchVouches ==
  ASSUME TypeInv, TypeInv', NEW p \in Procs, NEW replays, Switches(p, replays),
         NEW s \in StateIds, replays \in {NoReplays, Replays(audit'[s])}
  PROVE  /\ \A q \in Procs \ {p} :
              audit_replays'[q] = audit_replays[q] /\ revision'[q] = revision[q]
         /\ \A x \in RequestIds :
              audit_replays'[p][x] # None => HasVersion(x, audit_replays[p][x])'
<1>1. /\ revision' = [revision EXCEPT ![p] = docs[p].state.revision]
      /\ audit_replays' = [audit_replays EXCEPT ![p] = replays]
  BY DEF Switches
<1>2. audit_replays'[p] = replays
  BY <1>1 DEF TypeInv, TypeOK, SessionOK
<1>3. audit'[s] \in AuditFile
  BY DEF TypeInv, TypeOK, DiskOK
<1>4. ASSUME NEW x \in RequestIds, audit_replays'[p][x] # None
      PROVE  HasVersion(x, audit_replays[p][x])'
  <2>1. replays = Replays(audit'[s]) /\ replays[x] # None
    BY <1>2, <1>4 DEF NoReplays
  <2>2. \E i \in 1 .. Len(audit'[s].lines) :
          audit'[s].lines[i].request = x /\ audit'[s].lines[i].after = replays[x]
    BY <1>3, <2>1, ReplaysHaveLines
  <2> QED BY <1>2, <2>2 DEF HasVersion, Lines
<1>5. \A q \in Procs \ {p} :
        audit_replays'[q] = audit_replays[q] /\ revision'[q] = revision[q]
  BY <1>1 DEF TypeInv, TypeOK, SessionOK
<1> QED BY <1>4, <1>5

\* Every command that gives up is told so, and its files left as they are.
LEMMA GivesUpVouches ==
  ASSUME AuditInv, TypeInv', NEW p \in Procs, InHand(p), LinesStay, Lands(p),
         NEW code \in {"open_failed", "persist_failed"},
         Answers(p, current[p], code, 0), UNCHANGED session, UNCHANGED sent
  PROVE  AuditInv'
<1>1. current[p] \in RequestIds
  BY StateOfFlight DEF AuditInv
<1>2. UNCHANGED <<audit_replays, revision>>
  BY DEF session
<1> QED BY <1>1, <1>2, SameReplays, LandVouches

\* A command that goes on tells nothing, and stays an open if it was one.
LEMMA MovesOnVouches ==
  ASSUME AuditInv, TypeInv', NEW p \in Procs, InHand(p), LinesStay,
         UNCHANGED <<client, current, audit_replays, revision>>,
         \A q \in Procs \ {p} : phase'[q] = phase[q],
         phase'[p] \in OpenPhases => phase[p] \in OpenPhases,
         phase'[p] = "put.newline" => HasVersion(current[p], revision[p] + 1)'
  PROVE  AuditInv'
<1>1. SentStays
  BY DEF SentStays, client
<1>2. \A q \in Procs \ {p} : Untouched(q)
  BY DEF Untouched, client
<1>3. /\ InHand(p)' => sent'[current'[p]] # None
      /\ phase'[p] \in OpenPhases => sent'[current'[p]].op.kind = "model.open"
  BY DEF AuditInv, Knows, client
<1> QED BY <1>1, <1>2, <1>3, SameReplays, StepVouches DEF client

\* Reading documents and putting them writes no log.
LEMMA QuietVouches ==
  ASSUME AuditInv, TypeInv', NEW p \in Procs,
         \/ OpenReadConfig(p) \/ OpenReadDims(p)
         \/ CreatePutConfig(p) \/ CreatePutDims(p) \/ CreatePutState(p)
         \/ PutConfig(p) \/ PutDims(p) \/ PutState(p)
  PROVE  AuditInv'
<1>1. TypeInv /\ InHand(p) /\ audit' = audit
  BY DEF AuditInv, InHand, OpenReadConfig, OpenReadDims, OpenFails, CreatePutConfig,
         CreatePutDims, CreatePutState, PutConfig, PutDims, PutState, disk
<1>2. LinesStay
  BY <1>1, LogsKept
<1>3. CASE OpenFails(p)
  BY <1>1, <1>2, <1>3, GivesUpVouches DEF OpenFails
<1>4. CASE ~ OpenFails(p)
  <2>1. UNCHANGED <<client, current, audit_replays, revision>>
    BY <1>4 DEF OpenReadConfig, OpenReadDims, CreatePutConfig, CreatePutDims,
       CreatePutState, PutConfig, PutDims, PutState, session
  <2>2. /\ \A q \in Procs \ {p} : phase'[q] = phase[q]
        /\ phase'[p] \in OpenPhases => phase[p] \in OpenPhases
        /\ phase'[p] # "put.newline"
    BY <1>1, <1>4 DEF OpenReadConfig, OpenReadDims, CreatePutConfig, CreatePutDims,
       CreatePutState, PutConfig, PutDims, PutState, OpenPhases, CreatePhases,
       TypeInv, TypeOK, FlightOK
  <2> QED BY <1>1, <1>2, <2>1, <2>2, MovesOnVouches
<1> QED BY <1>3, <1>4

\* An open that ends with what it read: not a mutation, so nothing to vouch for.
LEMMA OpenedVouches ==
  ASSUME AuditInv, TypeInv', NEW p \in Procs, phase[p] \in OpenPhases, LinesStay,
         NEW replays, Switches(p, replays),
         NEW s \in StateIds, replays \in {NoReplays, Replays(audit'[s])},
         NEW version, Answers(p, current[p], "ok", version), Lands(p), UNCHANGED sent
  PROVE  AuditInv'
<1>1. TypeInv /\ InHand(p)
  BY DEF AuditInv, InHand, OpenPhases, CreatePhases
<1>2. current[p] \in RequestIds /\ sent[current[p]].op.kind = "model.open"
  BY <1>1, StateOfFlight DEF AuditInv, Knows
<1>3. sent[current[p]].op \notin MutationOp
  BY <1>2, MutationKinds
<1>4. PICK r \in RequestIds : r = current[p]
  BY <1>2
<1>5. /\ \A q \in Procs \ {p} :
           audit_replays'[q] = audit_replays[q] /\ revision'[q] = revision[q]
      /\ \A x \in RequestIds :
           audit_replays'[p][x] # None => HasVersion(x, audit_replays[p][x])'
  BY <1>1, SwitchVouches
<1> QED BY <1>1, <1>3, <1>4, <1>5, LandVouches

\* A log that gains a line, or is only terminated, keeps its lines.
LEMMA LogGrows ==
  ASSUME TypeInv, NEW s \in StateIds, NEW line \in Line, NEW new,
         \/ new \in Killed(audit[s], line)
         \/ new = LineWritten(audit[s], line)
         \/ new = Terminated(audit[s]),
         audit' = [audit EXCEPT ![s] = new]
  PROVE  /\ LinesStay
         /\ new = LineWritten(audit[s], line) \/ new = Appended(audit[s], line)
              => HasVersion(line.request, line.after)'
<1>1. audit[s] \in AuditFile
  BY DEF TypeInv, TypeOK, DiskOK
<1>2. /\ Grows(audit[s], new)
      /\ new \in {LineWritten(audit[s], line), Appended(audit[s], line)} =>
           \E i \in 1 .. Len(new.lines) : new.lines[i] = line
  BY <1>1, AppendGrows
<1>3. LinesStay /\ audit'[s] = new
  BY <1>2, LogWritten
<1> QED BY <1>2, <1>3, LineVouches

\* The lines a process writes, and where.
LEMMA LineOfFlight ==
  ASSUME AuditInv, NEW p \in Procs
  PROVE  /\ phase[p] \in {"put.audit", "put.newline"} =>
              /\ InHand(p) /\ backing[p].state.id \in StateIds
              /\ MutationLine(p) \in Line
         /\ phase[p] \in {"create.audit", "create.newline"} =>
              /\ InHand(p) /\ docs[p].state.id \in StateIds
              /\ CreateLine(p) \in Line
<1>1. /\ InFlight(p) /\ revision[p] \in Nat
      /\ backing[p] \in Backing \cup {None}
  BY DEF AuditInv, TypeInv, TypeOK, SessionOK
<1>2. \A b \in Backing : b.state.id \in StateIds
  BY DEF Backing, State
<1> QED BY <1>1, <1>2 DEF InFlight, InHand, MutationLine, CreateLine, Line

\* The line of a mutation, in one write or two, vouches for its answer.
LEMMA MutationLineVouches ==
  ASSUME AuditInv, TypeInv', NEW p \in Procs, AppendLine(p) \/ AppendAudit(p)
  PROVE  AuditInv'
<1> DEFINE s == backing[p].state.id
<1>1. /\ TypeInv /\ InHand(p) /\ s \in StateIds /\ MutationLine(p) \in Line
      /\ current[p] \in RequestIds
  BY LineOfFlight, StateOfFlight DEF AuditInv, AppendLine, AppendAudit
<1>2. PICK line \in Line : line = MutationLine(p)
  BY <1>1
<1>3. PICK r \in RequestIds : r = current[p]
  BY <1>1
<1>4. PICK v : v = revision[p] + 1
  OBVIOUS
<1>5. line.request = r /\ line.after = v
  BY <1>2, <1>3, <1>4 DEF MutationLine
<1> HIDE DEF s
<1>6. CASE AppendLine(p)
  <2>1. audit' = [audit EXCEPT ![s] = LineWritten(audit[s], line)]
    BY <1>2, <1>6 DEF AppendLine, s
  <2>2. LinesStay /\ HasVersion(r, v)'
    BY <1>1, <1>5, <2>1, LogGrows
  <2>3. /\ UNCHANGED <<client, current, audit_replays, revision>>
        /\ phase'[p] = "put.newline"
        /\ \A q \in Procs \ {p} : phase'[q] = phase[q]
    BY <1>1, <1>6 DEF AppendLine, session, TypeInv, TypeOK, FlightOK
  <2>4. HasVersion(current[p], revision[p] + 1)'
    <3>1. current'[p] = r /\ revision'[p] + 1 = v
      BY <1>3, <1>4, <2>3
    <3> QED BY <2>2, <3>1 DEF HasVersion
  <2>5. phase'[p] \notin OpenPhases
    BY <2>3 DEF OpenPhases, CreatePhases
  <2> QED BY <1>1, <2>2, <2>3, <2>4, <2>5, MovesOnVouches
<1>7. CASE AppendAudit(p)
  <2>1. LinesStay /\ HasVersion(r, v)'
    <3>1. CASE phase[p] = "put.audit"
      <4>1. audit' = [audit EXCEPT ![s] = Appended(audit[s], line)]
        BY <1>2, <1>7, <3>1 DEF AppendAudit, s
      <4>2. Appended(audit[s], line) \in Killed(audit[s], line)
        BY DEF Killed
      <4> QED BY <1>1, <1>5, <4>1, <4>2, LogGrows
    <3>2. CASE phase[p] = "put.newline"
      <4>1. audit' = [audit EXCEPT ![s] = Terminated(audit[s])]
        BY <1>7, <3>2 DEF AppendAudit, s
      <4>2. LinesStay
        BY <1>1, <1>2, <4>1, LogGrows
      <4>3. HasVersion(r, v)
        BY <1>3, <1>4, <3>2 DEF AuditInv, Knows
      <4> QED BY <4>2, <4>3 DEF LinesStay
    <3> QED BY <1>7, <3>1, <3>2 DEF AppendAudit
  <2>2. /\ Answers(p, r, "ok", v) /\ Lands(p)
        /\ UNCHANGED sent /\ UNCHANGED audit_replays
        /\ \A q \in Procs \ {p} : revision'[q] = revision[q]
    BY <1>1, <1>3, <1>4, <1>7 DEF AppendAudit, TypeInv, TypeOK, SessionOK
  <2> QED BY <1>1, <1>3, <2>1, <2>2, SameReplays, LandVouches
<1> QED BY <1>6, <1>7

\* The line of a created state, in one write or two.
LEMMA CreateLineVouches ==
  ASSUME AuditInv, TypeInv', NEW p \in Procs, CreateAppendLine(p) \/ CreateAppendAudit(p)
  PROVE  AuditInv'
<1> DEFINE s == docs[p].state.id
<1>1. TypeInv /\ InHand(p) /\ s \in StateIds /\ CreateLine(p) \in Line
  BY LineOfFlight DEF AuditInv, CreateAppendLine, CreateAppendAudit
<1>2. phase[p] \in OpenPhases
  BY DEF CreateAppendLine, CreateAppendAudit, OpenPhases, CreatePhases
<1> HIDE DEF s
<1>3. CASE CreateAppendLine(p)
  <2>1. audit' = [audit EXCEPT ![s] = LineWritten(audit[s], CreateLine(p))]
    BY <1>3 DEF CreateAppendLine, s
  <2>2. PICK line \in Line : line = CreateLine(p)
    BY <1>1
  <2>3. LinesStay
    BY <1>1, <2>1, <2>2, LogGrows
  <2>4. /\ UNCHANGED <<client, current, audit_replays, revision>>
        /\ phase'[p] = "create.newline"
        /\ \A q \in Procs \ {p} : phase'[q] = phase[q]
    BY <1>1, <1>3 DEF CreateAppendLine, session, TypeInv, TypeOK, FlightOK
  <2> QED BY <1>1, <1>2, <2>3, <2>4, MovesOnVouches
<1>4. CASE CreateAppendAudit(p)
  <2>1. /\ Switches(p, Replays(audit'[s]))
        /\ Answers(p, current[p], "ok", 0) /\ Lands(p) /\ UNCHANGED sent
    BY <1>4 DEF CreateAppendAudit, s
  <2>2. LinesStay
    <3>1. PICK line \in Line : line = CreateLine(p)
      BY <1>1
    <3>2. \/ audit' = [audit EXCEPT ![s] = Appended(audit[s], line)]
          \/ audit' = [audit EXCEPT ![s] = Terminated(audit[s])]
      BY <1>4, <3>1 DEF CreateAppendAudit, s
    <3>3. Appended(audit[s], line) \in Killed(audit[s], line)
      BY DEF Killed
    <3> QED BY <1>1, <3>2, <3>3, LogGrows
  <2> QED BY <1>1, <1>2, <2>1, <2>2, OpenedVouches
<1> QED BY <1>3, <1>4

\* Reading the log, or failing to.
LEMMA OpenReadAuditVouches ==
  ASSUME AuditInv, TypeInv', NEW p \in Procs, OpenReadAudit(p) \/ ReplaysError(p)
  PROVE  AuditInv'
<1> DEFINE s == docs[p].state.id
<1>1. /\ phase[p] = "open.audit" /\ audit' = audit /\ UNCHANGED sent
      /\ Answers(p, current[p], "ok", docs[p].state.revision) /\ Lands(p)
  BY DEF OpenReadAudit, ReplaysError, disk
<1>2. s \in StateIds /\ phase[p] \in OpenPhases
  BY <1>1, StateOfFlight DEF AuditInv, OpenPhases
<1>3. Switches(p, NoReplays) \/ Switches(p, Replays(audit'[s]))
  BY <1>1 DEF OpenReadAudit, ReplaysError
<1> HIDE DEF s
<1> QED BY <1>1, <1>2, <1>3, LogsKept, OpenedVouches

\* A file operation that fails ends its command, which is told so.
LEMMA ErrorVouches ==
  ASSUME AuditInv, TypeInv', NEW p \in Procs,
         OpenError(p) \/ PutError(p) \/ CreateAuditError(p) \/ AuditError(p)
  PROVE  AuditInv'
<1>1. TypeInv
  BY DEF AuditInv
<1>2. LinesStay
  <2>1. CASE OpenError(p) \/ PutError(p)
    BY <2>1, LogsKept DEF OpenError, PutError, disk
  <2>2. CASE CreateAuditError(p)
    <3>1. PICK line \in Line : line = CreateLine(p)
      BY <2>2, LineOfFlight DEF CreateAuditError
    <3>2. PICK new \in Torn(audit[docs[p].state.id], line) :
            audit' = [audit EXCEPT ![docs[p].state.id] = new]
      BY <2>2, <3>1 DEF CreateAuditError
    <3> QED BY <1>1, <2>2, <3>2, LineOfFlight, LogGrows DEF CreateAuditError, Killed
  <2>3. CASE AuditError(p)
    <3>1. PICK line \in Line : line = MutationLine(p)
      BY <2>3, LineOfFlight DEF AuditError
    <3>2. PICK new \in Torn(audit[backing[p].state.id], line) :
            audit' = [audit EXCEPT ![backing[p].state.id] = new]
      BY <2>3, <3>1 DEF AuditError
    <3> QED BY <1>1, <2>3, <3>2, LineOfFlight, LogGrows DEF AuditError, Killed
  <2> QED BY <2>1, <2>2, <2>3
<1>3. InHand(p)
  BY DEF InHand, OpenError, PutError, PutPhases, CreateAuditError, AuditError
<1>4. \E code \in {"open_failed", "persist_failed"} :
        Answers(p, current[p], code, 0) /\ Lands(p)
          /\ UNCHANGED session /\ UNCHANGED sent
  BY DEF OpenError, PutError, CreateAuditError, AuditError
<1> QED BY <1>2, <1>3, <1>4, GivesUpVouches

\* A kill forgets what the process knew; the log keeps its lines.
LEMMA CrashVouches ==
  ASSUME AuditInv, TypeInv', NEW p \in Procs, Crash(p)
  PROVE  AuditInv'
<1>1. TypeInv
  BY DEF AuditInv
<1>2. LinesStay
  <2>1. CASE phase[p] = "put.audit"
    <3>1. PICK line \in Line : line = MutationLine(p)
      BY <2>1, LineOfFlight
    <3>2. PICK new \in Killed(audit[backing[p].state.id], line) :
            audit' = [audit EXCEPT ![backing[p].state.id] = new]
      BY <2>1, <3>1 DEF Crash, CrashLog
    <3> QED BY <1>1, <2>1, <3>2, LineOfFlight, LogGrows
  <2>2. CASE phase[p] = "create.audit"
    <3>1. PICK line \in Line : line = CreateLine(p)
      BY <2>2, LineOfFlight
    <3>2. PICK new \in Killed(audit[docs[p].state.id], line) :
            audit' = [audit EXCEPT ![docs[p].state.id] = new]
      BY <2>2, <3>1 DEF Crash, CrashLog
    <3> QED BY <1>1, <2>2, <3>2, LineOfFlight, LogGrows
  <2>3. CASE phase[p] \notin {"put.audit", "create.audit"}
    BY <2>3, LogsKept DEF Crash, CrashLog
  <2> QED BY <2>1, <2>2, <2>3
<1>3. /\ phase'[p] = "down"
      /\ \A x \in RequestIds : request_cache'[p][x] = None /\ audit_replays'[p][x] = None
      /\ \A q \in Procs \ {p} : Untouched(q)
  BY <1>1 DEF Crash, Untouched, NoReplays, TypeInv, TypeOK, FlightOK, SessionOK, ClientOK
<1>4. SentStays /\ answer' = answer
  BY DEF Crash, SentStays
<1>5. ~ InHand(p)' /\ phase'[p] \notin OpenPhases /\ phase'[p] # "put.newline"
  BY <1>3 DEF InHand, OpenPhases, CreatePhases
<1> QED BY <1>2, <1>3, <1>4, <1>5, StepVouches

\* A process that starts knows nothing.
LEMMA StartVouches ==
  ASSUME AuditInv, TypeInv', NEW p \in Procs, Start(p)
  PROVE  AuditInv'
<1>1. /\ LinesStay /\ SentStays /\ UNCHANGED <<client, session, current>>
  BY LogsKept DEF Start, disk, client, SentStays
<1>2. phase'[p] = "idle" /\ \A q \in Procs \ {p} : phase'[q] = phase[q]
  BY DEF Start, AuditInv, TypeInv, TypeOK, FlightOK
<1>3. \A q \in Procs \ {p} : Untouched(q)
  BY <1>1, <1>2 DEF Untouched, client, session
<1>4. ~ InHand(p)' /\ phase'[p] \notin OpenPhases /\ phase'[p] # "put.newline"
  BY <1>2 DEF InHand, OpenPhases, CreatePhases
<1>5. \A x \in RequestIds :
        audit_replays'[p][x] # None => HasVersion(x, audit_replays[p][x])'
  BY <1>1, SameReplays DEF session
<1> QED BY <1>1, <1>3, <1>4, <1>5, StepVouches DEF client

-----------------------------------------------------------------------------

\* Nothing has been sent or told at the start.
LEMMA InitAudit == Init => AuditInv
<1> SUFFICES ASSUME Init PROVE AuditInv
  OBVIOUS
<1>1. TypeInv
  BY InitType
<1>2. \A r \in RequestIds :
        answer[r] = None /\ \A p \in Procs :
          request_cache[p][r] = None /\ audit_replays[p][r] = None
  BY DEF Init, NoReplays
<1>3. \A p \in Procs : phase[p] = "down"
  BY DEF Init
<1>4. \A r : Vouched(r, None)
  BY DEF Vouched
<1>5. ASSUME NEW p \in Procs PROVE Knows(p)
  BY <1>2, <1>3, <1>4 DEF Knows, InHand, OpenPhases, CreatePhases
<1> QED BY <1>1, <1>2, <1>4, <1>5 DEF AuditInv, SentFirst

\* Every step keeps the invariant, whatever fails.
LEMMA NextAudit == AuditInv /\ [Next]_vars => AuditInv'
<1> SUFFICES ASSUME AuditInv, [Next]_vars PROVE AuditInv'
  OBVIOUS
<1>1. TypeInv'
  BY NextType DEF AuditInv
<1>2. CASE UNCHANGED vars
  BY <1>1, <1>2 DEF vars, disk, session, flight, client, AuditInv, SentFirst, Vouched,
     Knows, InHand, HasVersion, Lines
<1>3. ASSUME NEW p \in Procs, Step(p) PROVE AuditInv'
  BY <1>1, <1>3, QuietVouches, OpenReadAuditVouches, MutationLineVouches,
     CreateLineVouches DEF Step
<1>4. ASSUME NEW p \in Procs, Fault(p) PROVE AuditInv'
  BY <1>1, <1>4, ErrorVouches, OpenReadAuditVouches, CrashVouches DEF Fault
<1>5. ASSUME NEW p \in Procs, NEW r \in RequestIds, NEW e,
             Receive(p, r, e) \/ CreateReadError(p, r, e)
      PROVE  AuditInv'
  <2>1. CASE OpenCreate(p, r, e) \/ CreateReadError(p, r, e)
    <3>1. \E cr, dr \in BOOLEAN : Create(p, r, e, cr, dr)
      BY <2>1 DEF OpenCreate, CreateReadError
    <3> QED BY <1>1, <3>1, FlightVouches
  <2> QED BY <1>1, <1>5, <2>1, AtOnceVouches, FlightVouches DEF Receive
<1>6. ASSUME NEW p \in Procs, Start(p) PROVE AuditInv'
  BY <1>1, <1>6, StartVouches
<1> QED BY <1>2, <1>3, <1>4, <1>5, <1>6 DEF Next

\* What a client is told is what a log says: a mutation answered as accepted
\* and persisted, or as a replay, has its audit line with the version in the
\* answer, for ever.  Nothing is assumed of what fails: a line may be torn or
\* interleaved, any file operation may fail, processes may share a state.
THEOREM AnswersAreAudited == Spec => []AcceptedIsAudited
<1>1. Init => AuditInv
  BY InitAudit
<1>2. AuditInv /\ [Next]_vars => AuditInv'
  BY NextAudit
<1>3. AuditInv => AcceptedIsAudited
  BY DEF AuditInv, Vouched, HasVersion, AcceptedIsAudited
<1> QED BY <1>1, <1>2, <1>3, PTL DEF Spec
=============================================================================
