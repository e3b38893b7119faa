----------------------------- MODULE LoopContract -----------------------------
(***************************************************************************)
(* What impl_router.py and the executor rely on when they call a depth     *)
(* loop (run_simple, run_std, run_deep of harness/impl_loop.py): how a run *)
(* of the loop may end, and what each end says of the plan-validation flag *)
(* and of the merge.  ImplLoop implements it, ImplRouter uses it.          *)
(***************************************************************************)

VARIABLES state,   \* "ready", "running", or what the last run returned
          plan,    \* the flag plan_validation_passed
          merged   \* this run merged the branch

vars == <<state, plan, merged>>

Escalation == {"MERGE_CONFLICT_ESCALATE", "PRODUCT_PLANNER_ESCALATION_NEEDED",
               "TECH_CONSTRAINT_CONFLICT"}
Stop == {"HARNESS_KILLED", "HARNESS_BUDGET_EXCEEDED"}

Init == state # "running" /\ plan \in BOOLEAN /\ merged = FALSE

\* A loop marks the plan as validated itself when nobody has.
Begin ==
  /\ state # "running"
  /\ state' = "running" /\ plan' = TRUE /\ merged' = FALSE

\* The plan file is missing: nothing has been touched.
Missing == state' = "ERROR" /\ plan' = plan /\ merged' = FALSE

Done == state' = "HARNESS_DONE" /\ plan' = plan /\ merged' = TRUE

\* Only this end may take the plan's validation back; it need not.
GiveUp ==
  /\ state' = "IMPLEMENTATION_ESCALATE"
  /\ plan' \in BOOLEAN /\ merged' = FALSE

Stopped == state' \in Escalation \cup Stop /\ plan' = plan /\ merged' = FALSE

\* The process ends inside the loop; GitHub may have merged already.
Raised == state' = "exception" /\ plan' = plan /\ merged' \in BOOLEAN

End == state = "running" /\ (Missing \/ Done \/ GiveUp \/ Stopped \/ Raised)

\* While the loop runs, a prompt about the issue may take the flag back
\* (hooks/harness-router.py) and a depth upgrade sets it again.
Meanwhile ==
  /\ state = "running" /\ state' = "running"
  /\ plan' \in BOOLEAN /\ merged' = merged

\* What happens while no loop runs is the callers' business.
Outside == state # "running" /\ state' # "running"

Next == Begin \/ Meanwhile \/ End \/ Outside

Spec == Init /\ [][Next]_vars
=============================================================================
