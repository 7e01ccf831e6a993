----------------------------- MODULE MCSession -----------------------------
(***************************************************************************)
(* Instances of Session for TLC: the store a run starts on, and for each   *)
(* request the commands it may carry, the versions it may expect and the   *)
(* process it is sent to.  Ids are strings; None is a model value.         *)
(***************************************************************************)
EXTENDS SessionRefinement, TLC

Open(s, c, d) ==
  [kind |-> "model.open", state |-> s, config |-> c, dims |-> d, locked |-> FALSE]
OpenLocked(s, c, d) == [Open(s, c, d) EXCEPT !.locked = TRUE]
ModelStatus == [kind |-> "model.status"]
Register == [kind |-> "dimension.register"]
Scale(ts) == [kind |-> "scale.declare", tokens |-> ts]
Declare(r) == [kind |-> "relation.declare", relation |-> r]
Sync(ms) == [kind |-> "members.sync", roster |-> ms]
Propose(m) == [kind |-> "member.propose", member |-> m]
Observe(m, t) == [kind |-> "observe", relation |-> "rel", member |-> m, token |-> t]
Attach(m) == [kind |-> "evidence.attach", relation |-> "rel", member |-> m]
Deprecate(x) == [kind |-> "deprecate", target |-> x]

\* Documents of a committed store: relation `rel', member `m1', all tokens, an
\* observation of `m1'.
Config(c, d) ==
  [id |-> c, dimensionSetRef |-> d, tokens |-> Tokens,
   relations |-> [r \in Relations |-> IF r = "rel" THEN "active" ELSE "absent"]]
Dims(d) ==
  [id |-> d, registered |-> TRUE,
   members |-> [m \in Members |-> IF m = "m1" THEN "active" ELSE "absent"]]
Low == <<[token |-> "lo", evidence |-> <<>>]>>
StateDoc(s, c) ==
  [EmptyState(s, c, FALSE) EXCEPT !.cells["rel"]["m1"] = Low]

NoStore ==
  [configs |-> [c \in ConfigIds |-> None],
   dimensions |-> [d \in DimSetIds |-> None],
   states |-> [s \in StateIds |-> None]]

\* State A with its own documents.
StoreA ==
  [NoStore EXCEPT !.configs["cA"] = Config("cA", "dA"),
                  !.dimensions["dA"] = Dims("dA"),
                  !.states["A"] = StateDoc("A", "cA")]

\* A model that loads, and one whose cell is on an unknown member.
Imports ==
  LET loads == Merge(Config("cA", "dA"), Dims("dA"), StateDoc("A", "cA"))
  IN  {loads, [loads EXCEPT !.members["m1"] = "absent"]}

OneProc == [r \in RequestIds |-> "p1"]
AnyVersion == [r \in RequestIds |-> {None}]

-----------------------------------------------------------------------------
(* One process, one state; killed at any point, or files failing *)

CrashCommands ==
  ("open" :> {Open("A", "cA", "dA")})
  @@ ("declare" :> {Declare("rel2"), Deprecate("m1")})
  @@ ("roster" :> {Sync({"m2"}), Propose("m2")})
  @@ ("observe" :> {Attach("m1"), Observe("m1", "hi"), Observe("m2", "hi")})
CrashRequests == DOMAIN CrashCommands

-----------------------------------------------------------------------------
(* One process killed while it creates a state or writes two *)

DurableCommands ==
  ("open" :> {Open("A", "cA", "dA")})
  @@ ("create" :> {Open("B", "cB", "dB")})
  @@ ("write" :> {Register, Sync({"m2"})})
  @@ ("attach" :> {Attach("m1")})
DurableRequests == DOMAIN DurableCommands

-----------------------------------------------------------------------------
(* One process, two states over the same configuration and dimensions *)

SharedCommands ==
  ("open" :> {Open("A", "cA", "dA")})
  @@ ("create" :> {Open("B", "cA", "dA")})
  @@ ("write" :> {Declare("rel2"), Deprecate("m1"), Observe("m1", "hi")})
  @@ ("write2" :> {Sync({"m2"}), Propose("m2"), Attach("m1")})
  @@ ("reopen" :> {Open("A", "cA", "dA")})
SharedRequests == DOMAIN SharedCommands

-----------------------------------------------------------------------------
(* One process, a state to open, one to create, models to import *)

SwitchCommands ==
  ("open" :> {Open("A", "cA", "dA")})
  @@ ("create" :> {Open("B", "cB", "dB"), OpenLocked("B", "cB", "dB")})
  @@ ("import" :> {[kind |-> "import", model |-> m] : m \in Imports})
  @@ ("write" :> {Register, Scale({"hi"}), Attach("m1")})
  @@ ("write2" :> {Register, Propose("m2"), Deprecate("rel")})
  @@ ("status" :> {ModelStatus})
SwitchRequests == DOMAIN SwitchCommands
SwitchVersions ==
  [r \in RequestIds |-> IF r = "write" THEN {None, 0, 1} ELSE {None}]

-----------------------------------------------------------------------------
(* One process, files failing; state B names a configuration that is not there *)

StoreMissing == [StoreA EXCEPT !.states["B"] = EmptyState("B", "cB", FALSE)]

FaultCommands ==
  ("open" :> {Open("A", "cA", "dA"), Open("B", "cB", "dB")})
  @@ ("create" :> {Open("C", "cB", "dB")})
  @@ ("write" :> {Declare("rel2"), Sync({"m2"})})
  @@ ("write2" :> {Attach("m1"), Observe("m2", "hi")})
FaultRequests == DOMAIN FaultCommands
=============================================================================
