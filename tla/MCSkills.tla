------------------------------ MODULE MCSkills ------------------------------
(***************************************************************************)
(* An instance of Skills for TLC: two runs of two releases of the binary,  *)
(* over the shared root .agents/skills and the Gemini commands.            *)
(***************************************************************************)
EXTENDS Skills

MCRootsOf ==
  [t \in Targets |-> IF t = "gemini" THEN <<".agents/skills", ".gemini/commands">>
                     ELSE <<".agents/skills">>]

MCPathOrder == <<".agents/skills", ".gemini/commands">>

\* Release 2 no longer ships the file `old'.
MCShips ==
  [v \in Versions |->
     [root \in {".agents/skills", ".gemini/commands"} |->
        IF root = ".agents/skills" /\ v = "1" THEN {"skill", "old"} ELSE {"skill"}]]

MCFileOrder == <<"old", "skill">>

Install(t, v) == [op |-> "install", target |-> t, version |-> v, force |-> FALSE]
Uninstall(t, v) == [Install(t, v) EXCEPT !.op = "uninstall"]

MCCommands ==
  [r \in Runs |->
     IF r = "r1"
     THEN {Install("gemini", "1"), Uninstall("gemini", "2")}
     ELSE {Install("agents-md", "2"), Uninstall("agents-md", "2"),
           [Install("gemini", "2") EXCEPT !.force = TRUE]}]
=============================================================================
