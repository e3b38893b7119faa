---------------------------- MODULE MCKillSwitch ----------------------------
(* Runs of one project, each on its own issue.                             *)
EXTENDS KillSwitch, TLC

CONSTANTS r1, r2, r3, r4

MCRun == {r1, r2, r3, r4}
MCSymmetry == Permutations(MCRun)
=============================================================================
