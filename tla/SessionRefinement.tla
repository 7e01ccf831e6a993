------------------------- MODULE SessionRefinement -------------------------
(***************************************************************************)
(* Session implements DurableModel.  A command in flight has no effect yet *)
(* in the abstract model: its files become visible when its audit line is  *)
(* written, or when the process is killed and leaves them behind.          *)
(***************************************************************************)
EXTENDS SessionProperties

\* The processes that are writing an existing state, or creating one.
Writers(s) ==
  {p \in Procs : /\ phase[p] \in PutPhases \cup {"put.audit"}
                 /\ backing[p].state.id = s}
Creators(s) == {p \in Procs : phase[p] = "create.audit" /\ docs[p].state.id = s}

DocumentOf(s) ==
  IF states[s] = None \/ Creators(s) # {} THEN None
  ELSE IF Writers(s) # {} THEN model[CHOOSE p \in Writers(s) : TRUE]
  ELSE Merge(ConfigOf(s), DimsOf(s), states[s])

VersionOf(s) ==
  IF states[s] = None THEN 0
  ELSE IF Writers(s) # {} THEN revision[CHOOSE p \in Writers(s) : TRUE]
  ELSE states[s].revision

Durable ==
  INSTANCE DurableModel WITH
    document <- [s \in StateIds |-> DocumentOf(s)],
    version <- [s \in StateIds |-> VersionOf(s)],
    recorded <- [s \in StateIds |-> {Lines(s)[i].request : i \in 1 .. Len(Lines(s))}]

\* Seen from outside, every model is changed by one request at a time, as a
\* whole, and by a recorded request never again (command, open_model and
\* apply_mutation, with the process killed anywhere in between).
DurableSpec == Durable!DurableSpec
=============================================================================
