----------------------------- MODULE MCImplRouter -----------------------------
(* Instances of ImplRouter for TLC.                                        *)
EXTENDS ImplRouter, TLC

CONSTANTS i1, i2

\* The plan that escalates, and a run of another issue beside it.
UnevenRuns == (i1 :> 4) @@ (i2 :> 1)
=============================================================================
