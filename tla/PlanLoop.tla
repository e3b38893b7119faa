------------------------------- MODULE PlanLoop -------------------------------
(***************************************************************************)
(* run_plan of harness/plan_loop.py with run_ux_validation of core.py, over *)
(* several runs of one project: planner, plan-reviewer, ux-architect and   *)
(* validator, with the checkpoint file <prefix>_plan_metadata.json and the *)
(* one-shot flag <prefix>_plan_review_override that carry over from run to *)
(* run.  Agents are the environment, and so is the user between two runs.  *)
(***************************************************************************)
EXTENDS Integers

CONSTANT MaxRuns   \* runs of the plan loop that are started

ASSUME PlanLoopAssumption == MaxRuns \in Nat

VARIABLES pc, result, left,  \* step; what the last run returned; runs to come
          prd,       \* the PRD file: "absent", or the reviewer's word on it
          ux,        \* the UX flow file: "absent", or the validator's word on it
          meta,      \* the keys prd_path and ux_flow_doc of the checkpoint file
          prev,      \* _prev_meta: the keys when the run began
          doc,       \* ux_flow_doc is not empty
          override,  \* the flag file plan_review_override
          \* History: read by properties only.
          waived,    \* this run went without the reviewer
          ready,     \* the planner that wrote last called the PRD ready, and the
                     \* user has not wanted it changed since
          dangling,  \* keys of the checkpoint that have named a file not on disk
          overrides, \* how often the user chose to override
          stuck,     \* how often the flag could not be removed
          unreviewed \* runs that passed a PRD nobody had passed

run     == <<pc, result, left>>
docs    == <<prd, ux>>
locals  == <<prev, doc>>
history == <<waived, ready, dangling, overrides, stuck, unreviewed>>
vars == <<run, docs, meta, locals, override, history>>

Keys == [prd : BOOLEAN, ux : BOOLEAN]
NoKeys == [prd |-> FALSE, ux |-> FALSE]

\* History, not a guard.
WatchFiles ==
  dangling' = dangling \cup (IF meta'.prd /\ prd' = "absent" THEN {"prd"} ELSE {})
                       \cup (IF meta'.ux /\ ux' = "absent" THEN {"ux"} ELSE {})

Init ==
  /\ pc = "idle" /\ result = "none" /\ left = MaxRuns
  /\ prd \in {"absent", "open"} /\ ux \in {"absent", "open"}
  /\ meta = NoKeys /\ prev = NoKeys /\ doc = FALSE /\ override = FALSE
  /\ waived = FALSE /\ ready = FALSE /\ dangling = {}
  /\ overrides = 0 /\ stuck = 0 /\ unreviewed = 0

Goto(step) == pc' = step /\ UNCHANGED <<result, left>>
Return(r) == pc' = "idle" /\ result' = r /\ UNCHANGED left

-----------------------------------------------------------------------------
(* Planner.                                                                *)

Start ==
  /\ pc = "idle" /\ left > 0
  /\ pc' = "planner" /\ left' = left - 1 /\ UNCHANGED result
  /\ prev' = meta /\ doc' = FALSE /\ waived' = FALSE
  /\ UNCHANGED <<docs, meta, override, ready, dangling, overrides, stuck, unreviewed>>

\* Mutant: an existing PRD file counts as a checkpoint (the fallback that
\* docs and tests forbid).
AnyPrd == prd # "absent"

PrdCheckpoint == prev.prd /\ prd # "absent"

SkipPlanner ==
  /\ pc = "planner" /\ PrdCheckpoint
  /\ Goto("planned")
  /\ UNCHANGED <<docs, meta, locals, override, history>>

\* The planner may write the PRD whatever it answers.
CallPlanner ==
  /\ pc = "planner" /\ ~PrdCheckpoint
  /\ prd' \in {prd, "open"}
  /\ Goto("planned") \/ Goto("unclear")
  /\ ready' = (pc' = "planned")
  /\ UNCHANGED <<ux, meta, locals, override, waived, dangling, overrides, stuck, unreviewed>>

\* CLARITY_INSUFFICIENT, or no marker.
Unclear ==
  /\ pc = "unclear"
  /\ Return("CLARITY_INSUFFICIENT")
  /\ UNCHANGED <<docs, meta, locals, override, history>>

-----------------------------------------------------------------------------
(* plan-reviewer.                                                          *)

\* Mutant: the flag is left for the next run.
OverrideKept ==
  /\ pc = "planned" /\ override
  /\ waived' = TRUE
  /\ Goto("ui")
  /\ UNCHANGED <<docs, meta, locals, override, ready, dangling, overrides, stuck, unreviewed>>

\* The flag is consumed; the OSError of a removal that fails is swallowed, and
\* the run goes on without the reviewer all the same.
Override ==
  /\ pc = "planned" /\ override
  /\ \/ override' = FALSE /\ UNCHANGED stuck
     \/ override' = TRUE /\ stuck' = stuck + 1
  /\ waived' = TRUE
  /\ Goto("ui")
  /\ UNCHANGED <<docs, meta, locals, ready, dangling, overrides, unreviewed>>

\* What prd_path may be: a file, or a name without one, or nothing.
Named(there) == IF there THEN {TRUE} ELSE BOOLEAN

Review ==
  /\ pc = "planned" /\ ~override
  /\ \/ /\ Goto("ui")
        /\ prd' = IF prd = "absent" THEN prd ELSE "passed"
     \/ Goto("refused") /\ UNCHANGED prd
  /\ UNCHANGED <<ux, meta, locals, override, history>>

\* CHANGES_REQUESTED rewrites the checkpoint with the PRD alone; without a
\* marker the result is the same and the checkpoint stays.
ChangesRequested ==
  /\ pc = "refused"
  /\ Return("PLAN_REVIEW_CHANGES_REQUESTED")
  /\ \/ \E n \in Named(prd # "absent") : meta' = [prd |-> n, ux |-> FALSE]
     \/ UNCHANGED meta
  /\ UNCHANGED <<docs, locals, override, waived, ready, overrides, stuck, unreviewed>>
  /\ WatchFiles

-----------------------------------------------------------------------------
(* UX flow.                                                                *)

UxCheckpoint == prev.ux /\ ux # "absent"

\* A checkpoint, or a PRD without screens.
SkipUx ==
  /\ pc = "ui"
  /\ \/ UxCheckpoint /\ Goto("done") /\ doc' = TRUE
     \/ ~UxCheckpoint /\ prd # "absent" /\ Goto("no-ui") /\ UNCHANGED doc
  /\ UNCHANGED <<docs, meta, prev, override, history>>

\* The file it names need not be there; then there is nothing to validate.
CallUxArchitect ==
  /\ pc = "ui" /\ ~UxCheckpoint
  /\ ux' \in {ux, "open"}
  /\ \/ Goto("ux-stuck") /\ UNCHANGED doc
     \/ /\ doc' \in Named(ux' # "absent")
        /\ Goto(IF ux' # "absent" THEN "validate" ELSE "drawn")
  /\ UNCHANGED <<prd, meta, prev, override, history>>

\* UX_FLOW_ESCALATE, or no marker.
UxStuck ==
  /\ pc = "ux-stuck"
  /\ Return("UX_FLOW_ESCALATE")
  /\ UNCHANGED <<docs, meta, locals, override, history>>

\* run_ux_validation with max_rework = 1; kill_check is at every hand-over.
Validate ==
  /\ pc = "validate"
  /\ \/ ux' = "passed" /\ Goto("drawn")
     \/ ux' = "failed" /\ Goto("rework")
  /\ UNCHANGED <<prd, meta, locals, override, history>>

Rework ==
  /\ pc = "rework"
  /\ ux' = "open"
  /\ Goto("revalidate")
  /\ UNCHANGED <<prd, meta, locals, override, history>>

\* Mutant: the second verdict is not asked for.
ReworkTrusted ==
  /\ pc = "revalidate"
  /\ Goto("drawn")
  /\ UNCHANGED <<docs, meta, locals, override, history>>

Revalidate ==
  /\ pc = "revalidate"
  /\ \/ ux' = "passed" /\ Goto("drawn")
     \/ ux' = "failed" /\ Return("UX_REVIEW_ESCALATE")
  /\ UNCHANGED <<prd, meta, locals, override, history>>

\* kill_check behind the last agent.
Drawn ==
  /\ pc = "drawn"
  /\ Goto("done")
  /\ UNCHANGED <<docs, meta, locals, override, history>>

\* The checkpoint is written, then the result.
Finish ==
  /\ pc \in {"done", "no-ui"}
  /\ \E n \in Named(prd # "absent") : meta' = [prd |-> n, ux |-> doc]
  /\ Return(IF pc = "no-ui" THEN "UX_SKIP" ELSE "UX_REVIEW_PASS")
  /\ unreviewed' = IF waived /\ prd # "passed" THEN unreviewed + 1 ELSE unreviewed
  /\ UNCHANGED <<docs, locals, override, waived, ready, overrides, stuck>>
  /\ WatchFiles

\* kill_check after every agent.
Killed ==
  /\ pc \in {"planned", "unclear", "refused", "ui", "ux-stuck", "validate", "drawn",
             "rework", "revalidate"}
  /\ pc = "ui" => ~waived
  /\ Return("HARNESS_KILLED")
  /\ UNCHANGED <<docs, meta, locals, override, history>>

\* The process dies; in the middle of write_text it leaves no readable file.
Crash ==
  /\ pc # "idle"
  /\ Return("exception")
  /\ meta' \in {meta} \cup (IF pc \in {"refused", "done", "no-ui"} THEN {NoKeys} ELSE {})
  /\ UNCHANGED <<docs, locals, override, history>>

-----------------------------------------------------------------------------
(* The user between two runs (commands/product-plan.md).                   *)

\* "Go on as it is", in answer to a refusal.
ChooseOverride ==
  /\ pc = "idle" /\ result = "PLAN_REVIEW_CHANGES_REQUESTED" /\ ~override
  /\ override' = TRUE /\ overrides' = overrides + 1
  /\ UNCHANGED <<run, docs, meta, locals, waived, ready, dangling, stuck, unreviewed>>

\* "Change it": the keys of what is to be made anew are removed.
WantChanges ==
  /\ pc = "idle"
  /\ \E k \in Keys :
       /\ k # NoKeys
       /\ meta' = [prd |-> meta.prd /\ ~k.prd, ux |-> meta.ux /\ ~k.ux]
       /\ meta' # meta
       /\ ready' = (ready /\ ~k.prd)
  /\ UNCHANGED <<run, docs, locals, override, waived, dangling, overrides, stuck, unreviewed>>

\* Another branch is checked out, or the file removed.
LoseDocs ==
  /\ pc = "idle"
  /\ prd' \in {prd, "absent"} /\ ux' \in {ux, "absent"} /\ docs' # docs
  /\ UNCHANGED meta
  /\ WatchFiles
  /\ UNCHANGED <<run, locals, override, waived, ready, overrides, stuck, unreviewed>>

-----------------------------------------------------------------------------
Step ==
  \/ SkipPlanner \/ CallPlanner \/ Unclear \/ Override \/ Review \/ ChangesRequested
  \/ SkipUx \/ CallUxArchitect \/ UxStuck \/ Validate \/ Rework \/ Revalidate \/ Drawn \/ Finish

User == ChooseOverride \/ WantChanges \/ LoseDocs

Next == Start \/ Step \/ Killed \/ Crash \/ User

Spec == Init /\ [][Next]_vars

-----------------------------------------------------------------------------
PC == {"idle", "planner", "planned", "unclear", "refused", "ui", "no-ui", "ux-stuck",
       "validate", "rework", "revalidate", "drawn", "done"}
Result == {"none", "CLARITY_INSUFFICIENT", "PLAN_REVIEW_CHANGES_REQUESTED",
           "UX_FLOW_ESCALATE", "UX_REVIEW_ESCALATE", "UX_SKIP", "UX_REVIEW_PASS",
           "HARNESS_KILLED", "exception"}

\* Every variable keeps its shape.
TypeOK ==
  /\ pc \in PC /\ result \in Result /\ left \in 0 .. MaxRuns
  /\ prd \in {"absent", "open", "passed"}
  /\ ux \in {"absent", "open", "passed", "failed"}
  /\ meta \in Keys /\ prev \in Keys
  /\ doc \in BOOLEAN /\ override \in BOOLEAN
  /\ waived \in BOOLEAN /\ ready \in BOOLEAN /\ dangling \subseteq {"prd", "ux"}
  /\ overrides \in Nat /\ stuck \in Nat /\ unreviewed \in Nat

\* Over any number of runs, kills and crashes, one "go on as it is" of the user
\* lets at most one plan pass unreviewed (plan_loop.py:168-175, "one-shot"), and
\* one more for every time that the flag could not be removed: that error is
\* swallowed, and the flag waives the next run's review as well.
OneUnreviewedPassPerOverride ==
  unreviewed + (IF override THEN 1 ELSE 0) <= overrides + stuck

\* The planner is skipped only for a PRD that the planner who wrote it called
\* ready, and that the user has not wanted changed since (plan_loop.py:95-99: no
\* fallback to a PRD file that merely exists) - unless the checkpoint once named
\* a PRD that was not there and so meets one written by a later, unclear run.
SkippedPlannerWasReady ==
  pc \notin {"idle", "planner", "unclear"} => ready \/ "prd" \in dangling

\* UX_REVIEW_PASS is given to a UX flow that the validator passed in this run or
\* an earlier one, whatever checkpoints, escalations and resets came between,
\* unless the checkpoint once named a file that was not there: written by a run
\* that skipped the validation for that reason (plan_loop.py:370-385), or left
\* alone when the file went.
UxPassIsEarned == pc = "done" /\ ux # "absent" => ux = "passed" \/ "ux" \in dangling
=============================================================================
