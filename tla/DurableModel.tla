---------------------------- MODULE DurableModel ----------------------------
(***************************************************************************)
(* What the files of the session promise for each model, with the files    *)
(* and processes left out: a model is a document with a version and the    *)
(* set of requests recorded in its audit log.  A request is accepted at    *)
(* once and as a whole, recorded with it and never accepted again; or, if  *)
(* the process is killed, it may leave its effect without being recorded,  *)
(* with or without the new version.  Nothing else ever changes a model.    *)
(***************************************************************************)
EXTENDS Layers

CONSTANTS Commands, None

VARIABLES
  document,  \* stateId -> the model, None before it is created
  version,
  recorded   \* stateId -> the requests that have an audit line

dvars == <<document, version, recorded>>

DurableInit ==
  /\ document \in [StateIds -> Model \cup {None}]
  /\ version \in [StateIds -> Nat]
  /\ recorded = [s \in StateIds |-> {}]

\* A model starts at version 0, without cells, over whatever its configuration
\* and dimensions documents already hold.
Create(s) ==
  /\ document[s] = None
  /\ document' = [document EXCEPT ![s] = document'[s]]
  /\ document'[s] \in Model
  /\ document'[s].cells = NoCells
  /\ version' = [version EXCEPT ![s] = 0]

Created(s, r) ==
  /\ Create(s)
  /\ r \notin recorded[s]
  /\ recorded' = [recorded EXCEPT ![s] = recorded[s] \cup {r}]

CreateInterrupted(s) == Create(s) /\ UNCHANGED recorded

Changes(s, r, op) ==
  /\ document[s] # None
  /\ r \notin recorded[s]
  /\ op \in MutationOp
  /\ Succeeds(document[s], op, r)
  /\ Written(document[s], op, r) # document[s]
  /\ document' = [document EXCEPT ![s] = Written(document[s], op, r)]

Accepted(s, r, op) ==
  /\ Changes(s, r, op)
  /\ version' = [version EXCEPT ![s] = version[s] + 1]
  /\ recorded' = [recorded EXCEPT ![s] = recorded[s] \cup {r}]

Interrupted(s, r, op) ==
  /\ Changes(s, r, op)
  /\ \E v \in {version[s], version[s] + 1} :
       version' = [version EXCEPT ![s] = v]
  /\ UNCHANGED recorded

DurableNext ==
  \E s \in StateIds :
    \/ CreateInterrupted(s)
    \/ \E r \in RequestIds :
         \/ Created(s, r)
         \/ \E op \in Commands[r] : Accepted(s, r, op) \/ Interrupted(s, r, op)

DurableSpec == DurableInit /\ [][DurableNext]_dvars
=============================================================================
