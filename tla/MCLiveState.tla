----------------------------- MODULE MCLiveState -----------------------------
(* Instances of LiveState for TLC: a skill the PostToolUse hook clears and  *)
(* one it leaves to the Stop hook.                                          *)
EXTENDS LiveState

MCSkills == {"ux", "ralph"}
MCLevel == [s \in MCSkills |-> IF s = "ux" THEN "medium" ELSE "heavy"]
MCTtl == [light |-> 1, medium |-> 1, heavy |-> 1]
MCMaxReinf == [light |-> 1, medium |-> 1, heavy |-> 1]
=============================================================================
