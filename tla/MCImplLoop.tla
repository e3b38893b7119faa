----------------------------- MODULE MCImplLoop -----------------------------
(* The implementation loop with free agents or with agents that cost.      *)
EXTENDS ImplLoop

FreeOfCharge == {0}
OneEach == {0, 1}
Edits == {"edit"}
NoChanges == {}
=============================================================================
