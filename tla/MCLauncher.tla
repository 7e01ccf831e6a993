----------------------------- MODULE MCLauncher -----------------------------
(***************************************************************************)
(* Instances of Launcher for TLC: three launches, the third of which may   *)
(* be on another machine.                                                  *)
(***************************************************************************)
EXTENDS Launcher

OneHost == [p \in Launches |-> "here"]
TwoHosts == [p \in Launches |-> IF p = "p3" THEN "there" ELSE "here"]
=============================================================================
