------------------------------ MODULE ImplRouter ------------------------------
(***************************************************************************)
(* run_impl of harness/impl_router.py, over several runs of several issues *)
(* of one project.  Runs of one issue follow each other (the executor's    *)
(* guards); runs of different issues go on side by side and share the one  *)
(* file <prefix>_escalate_history.json, which every update reads, then     *)
(* rewrites whole.  Agents are the environment.  The depth loop is taken   *)
(* as LoopContract has it.                                                 *)
(***************************************************************************)
EXTENDS Integers, FiniteSets

CONSTANTS Issue,  \* issues with one plan (impl) file each
          Runs    \* how many runs of an issue are started

ASSUME ImplRouterAssumption == Runs \in [Issue -> Nat]

THRESHOLD == 2   \* ESCALATE_AUTO_SPEC_GAP_THRESHOLD

VARIABLES pc,          \* step of the run; "named" and "unnamed": begun with or without --impl
          left,        \* runs still to come
          plan,        \* the flag plan_validation_passed
          impl,        \* the plan file exists
          verdict,     \* the validator's last word on the plan as it is
          result,      \* what the last run returned
          history,     \* the escalate counts a reader of the file gets
          snap,        \* what a run has read and will write back
          \* History: read by properties only.
          via,         \* what let the run into the loop
          due, ever,   \* escalations since the last cleared gap; of all time
          exhausted,   \* the plan's last loop gave up and nobody passed it since
          damaged      \* updates overlapped, or one failed or died half way

run    == <<pc, left, result>>
file   == <<history, snap, damaged>>
counts == <<due, ever>>
vars   == <<run, plan, impl, verdict, file, via, counts, exhausted>>

Empty == [i \in Issue |-> 0]

Init ==
  /\ pc = [i \in Issue |-> "idle"] /\ left = Runs
  /\ plan = [i \in Issue |-> FALSE] /\ impl = [i \in Issue |-> FALSE]
  /\ verdict = [i \in Issue |-> "none"] /\ result = [i \in Issue |-> "none"]
  /\ history = Empty /\ snap = [i \in Issue |-> Empty]
  /\ via = [i \in Issue |-> "none"]
  /\ due = Empty /\ ever = Empty
  /\ exhausted = [i \in Issue |-> FALSE] /\ damaged = FALSE

At(i, step) == pc[i] = step
Goto(i, step) == pc' = [pc EXCEPT ![i] = step] /\ UNCHANGED result
Return(i, r) ==
  /\ pc' = [pc EXCEPT ![i] = "idle"]
  /\ result' = [result EXCEPT ![i] = r]

\* A run knows its plan file when --impl names one that exists.
Known(i) == At(i, "named") /\ impl[i]
Unknown(i) == At(i, "unnamed") \/ (At(i, "named") /\ ~impl[i])

\* The architect may write or change the plan; what was judged no longer counts.
PlanTouched(i) == verdict' = [verdict EXCEPT ![i] = "none"]

-----------------------------------------------------------------------------
Start(i) ==
  /\ At(i, "idle") /\ left[i] > 0
  /\ left' = [left EXCEPT ![i] = @ - 1]
  /\ via' = [via EXCEPT ![i] = "none"]
  /\ Goto(i, "named") \/ Goto(i, "unnamed")
  /\ UNCHANGED <<plan, impl, verdict, file, counts, exhausted>>

\* Mutant: a plan file is enough to re-enter.
ReEnterAnyPlan(i) ==
  /\ Known(i)
  /\ plan' = [plan EXCEPT ![i] = TRUE]
  /\ via' = [via EXCEPT ![i] = "flag"]
  /\ Goto(i, "loop")
  /\ UNCHANGED <<left, impl, verdict, file, counts, exhausted>>

\* Flag and plan file are there: straight to the engineer.
ReEnter(i) ==
  /\ plan[i] /\ Known(i)
  /\ via' = [via EXCEPT ![i] = "flag"]
  /\ Goto(i, "loop")
  /\ UNCHANGED <<left, plan, impl, verdict, file, counts, exhausted>>

\* `design: required` without design_critic_passed.
DesignRequired(i) ==
  /\ Known(i) /\ ~plan[i]
  /\ Return(i, "UI_DESIGN_REQUIRED")
  /\ UNCHANGED <<left, plan, impl, verdict, file, via, counts, exhausted>>

KeepPlan(i) ==
  /\ Known(i) /\ ~plan[i]
  /\ Goto(i, "depth")
  /\ UNCHANGED <<left, plan, impl, verdict, file, via, counts, exhausted>>

\* No plan file known: the architect plans.  It may write the file and still not
\* say so, or say so and not write it.  plan_validation_passed is left as it is.
CallArchitect(i) ==
  /\ Unknown(i)
  /\ \E there \in {impl[i], TRUE} :
       /\ impl' = [impl EXCEPT ![i] = there]
       /\ PlanTouched(i)
       /\ \/ \E r \in {"PRODUCT_PLANNER_ESCALATION_NEEDED", "TECH_CONSTRAINT_CONFLICT",
                       "SPEC_GAP_ESCALATE"} : Return(i, r)
          \/ there /\ Goto(i, "depth")
  /\ UNCHANGED <<left, plan, file, via, counts, exhausted>>

\* ensure_depth_frontmatter; a patch that failed is only logged.
EnsureDepth(i) ==
  /\ At(i, "depth")
  /\ Goto(i, "count")
  /\ PlanTouched(i) \/ UNCHANGED verdict
  /\ UNCHANGED <<left, plan, impl, file, via, counts, exhausted>>

-----------------------------------------------------------------------------
(* The escalate history.  An update reads the file, truncates it and fills *)
(* it (Path.write_text).  A truncated or garbled file reads as empty.      *)

Filling  == {"clearing", "recording"}
Updating == {"clear", "record"} \cup Filling

Others(i, steps) == \E j \in Issue \ {i} : pc[j] \in steps

Read(i) ==
  /\ snap' = [snap EXCEPT ![i] = history]
  /\ damaged' = (damaged \/ Others(i, Updating))

\* When somebody filled the file since this run truncated it, a shorter text
\* leaves the tail of the longer one behind.
Fill(i, data) ==
  /\ history' \in {data} \cup (IF history = Empty THEN {} ELSE {Empty})
  /\ snap' = [snap EXCEPT ![i] = Empty]
  /\ UNCHANGED damaged

\* Mutant: the threshold has to be exceeded.
OverThreshold(i) == history[i] > THRESHOLD

AtThreshold(i) == history[i] >= THRESHOLD

BelowThreshold(i) ==
  /\ At(i, "count") /\ ~AtThreshold(i)
  /\ damaged' = (damaged \/ Others(i, Filling))
  /\ Goto(i, "validate")
  /\ UNCHANGED <<left, plan, impl, verdict, history, snap, via, counts, exhausted>>

\* _maybe_auto_spec_gap: the architect is asked to close the gap.
AutoSpecGap(i) ==
  /\ At(i, "count") /\ AtThreshold(i)
  /\ via' = [via EXCEPT ![i] = "gap"]
  /\ Goto(i, "gap")
  /\ UNCHANGED <<left, plan, impl, verdict, file, counts, exhausted>>

\* Its answer comes much later; other runs have used the file meanwhile.
GapAnswered(i) ==
  /\ At(i, "gap")
  /\ PlanTouched(i)
  /\ \/ Goto(i, "clear") /\ Read(i) /\ UNCHANGED history   \* SPEC_GAP_RESOLVED
     \/ Goto(i, "validate") /\ UNCHANGED file              \* no marker
     \/ /\ \E r \in {"PRODUCT_PLANNER_ESCALATION_NEEDED", "TECH_CONSTRAINT_CONFLICT"} : Return(i, r)
        /\ UNCHANGED file
  /\ UNCHANGED <<left, plan, impl, via, counts, exhausted>>

\* clear_escalate_count leaves the file alone when the plan is not in it.
NothingToClear(i) ==
  /\ At(i, "clear") /\ snap[i][i] = 0
  /\ snap' = [snap EXCEPT ![i] = Empty]
  /\ Goto(i, "validate")
  /\ due' = [due EXCEPT ![i] = 0]
  /\ UNCHANGED <<left, plan, impl, verdict, history, damaged, via, ever, exhausted>>

Truncate(i) ==
  /\ \/ At(i, "clear") /\ snap[i][i] > 0 /\ Goto(i, "clearing")
     \/ At(i, "record") /\ Goto(i, "recording")
  /\ history' = Empty
  /\ UNCHANGED <<left, plan, impl, verdict, snap, damaged, via, counts, exhausted>>

\* Mutant: only the escalations that made up the threshold are taken off.
ClearThreshold(i) ==
  /\ At(i, "clearing")
  /\ Fill(i, [snap[i] EXCEPT ![i] = @ - THRESHOLD])
  /\ due' = [due EXCEPT ![i] = 0]
  /\ Goto(i, "validate")
  /\ UNCHANGED <<left, plan, impl, verdict, via, ever, exhausted>>

\* clear_escalate_count writes what it read, without this plan.
ClearCount(i) ==
  /\ At(i, "clearing")
  /\ Fill(i, [snap[i] EXCEPT ![i] = 0])
  /\ due' = [due EXCEPT ![i] = 0]
  /\ Goto(i, "validate")
  /\ UNCHANGED <<left, plan, impl, verdict, via, ever, exhausted>>

\* Mutants: the other plans' entries are dropped; the run is counted twice.
RecordAlone(i) ==
  /\ At(i, "recording")
  /\ Fill(i, [Empty EXCEPT ![i] = snap[i][i] + 1])
  /\ due' = [due EXCEPT ![i] = @ + 1]
  /\ ever' = [ever EXCEPT ![i] = @ + 1]
  /\ Goto(i, "idle")
  /\ UNCHANGED <<left, plan, impl, verdict, via, exhausted>>

RecordTwice(i) ==
  /\ At(i, "recording")
  /\ Fill(i, [snap[i] EXCEPT ![i] = @ + 2])
  /\ due' = [due EXCEPT ![i] = @ + 1]
  /\ ever' = [ever EXCEPT ![i] = @ + 1]
  /\ Goto(i, "idle")
  /\ UNCHANGED <<left, plan, impl, verdict, via, exhausted>>

\* record_escalate writes what it read, with one more for this plan.
Record(i) ==
  /\ At(i, "recording")
  /\ Fill(i, [snap[i] EXCEPT ![i] = @ + 1])
  /\ due' = [due EXCEPT ![i] = @ + 1]
  /\ ever' = [ever EXCEPT ![i] = @ + 1]
  /\ Goto(i, "idle")
  /\ UNCHANGED <<left, plan, impl, verdict, via, exhausted>>

\* An OSError of either update is swallowed: the file keeps its text, or is left
\* truncated, and the run goes on.
WriteFails(i) ==
  /\ pc[i] \in {"record"} \cup Filling \/ (At(i, "clear") /\ snap[i][i] > 0)
  /\ damaged' = TRUE
  /\ snap' = [snap EXCEPT ![i] = Empty]
  /\ Goto(i, IF pc[i] \in {"clear", "clearing"} THEN "validate" ELSE "idle")
  /\ UNCHANGED <<left, plan, impl, verdict, history, via, counts, exhausted>>

-----------------------------------------------------------------------------
(* run_plan_validation with max_rework = 1.                                *)

\* The result is known; record_escalate begins.
Escalate(i, r) ==
  /\ pc' = [pc EXCEPT ![i] = "record"]
  /\ result' = [result EXCEPT ![i] = r]
  /\ Read(i)
  /\ UNCHANGED history

Passed(i) ==
  /\ verdict' = [verdict EXCEPT ![i] = "pass"]
  /\ plan' = [plan EXCEPT ![i] = TRUE]
  /\ exhausted' = [exhausted EXCEPT ![i] = FALSE]
  /\ Goto(i, "loop")

\* No marker counts as FAIL.  The flag of an earlier run stays.
Validate(i) ==
  /\ At(i, "validate")
  /\ \/ Passed(i)
     \/ /\ verdict' = [verdict EXCEPT ![i] = "fail"]
        /\ Goto(i, "rework")
        /\ UNCHANGED <<plan, exhausted>>
  /\ UNCHANGED <<left, impl, file, via, counts>>

Rework(i) ==
  /\ At(i, "rework")
  /\ PlanTouched(i)
  /\ Goto(i, "revalidate")
  /\ UNCHANGED <<left, plan, impl, file, via, counts, exhausted>>

\* PLAN_VALIDATION_ESCALATE is counted like the loop's escalations.
Revalidate(i) ==
  /\ At(i, "revalidate")
  /\ \/ Passed(i) /\ UNCHANGED file
     \/ /\ verdict' = [verdict EXCEPT ![i] = "fail"]
        /\ Escalate(i, "PLAN_VALIDATION_ESCALATE")
        /\ UNCHANGED <<plan, exhausted>>
  /\ UNCHANGED <<left, impl, via, counts>>

\* kill_check before and after the rework.
Killed(i) ==
  /\ pc[i] \in {"rework", "revalidate"}
  /\ Return(i, "HARNESS_KILLED")
  /\ UNCHANGED <<left, plan, impl, verdict, file, via, counts, exhausted>>

-----------------------------------------------------------------------------
(* _dispatch_depth: the loop, by its contract.                             *)

\* Mutant: the flag survives the attempts.
GaveUpKeepingPlan(i) ==
  /\ At(i, "loop")
  /\ UNCHANGED plan
  /\ exhausted' = [exhausted EXCEPT ![i] = TRUE]
  /\ Escalate(i, "IMPLEMENTATION_ESCALATE")
  /\ UNCHANGED <<left, impl, verdict, via, counts>>

\* The attempts are used up or the breaker trips: the flag goes.
GaveUp(i) ==
  /\ At(i, "loop")
  /\ plan' = [plan EXCEPT ![i] = FALSE]
  /\ exhausted' = [exhausted EXCEPT ![i] = TRUE]
  /\ Escalate(i, "IMPLEMENTATION_ESCALATE")
  /\ UNCHANGED <<left, impl, verdict, via, counts>>

\* Too many SPEC_GAPs: counted, the flag stays.
GapsExceeded(i) ==
  /\ At(i, "loop")
  /\ PlanTouched(i)
  /\ Escalate(i, "IMPLEMENTATION_ESCALATE")
  /\ UNCHANGED <<left, plan, impl, via, counts, exhausted>>

\* Mutant: every end of the loop takes the flag back.
LoopEndsPlanless(i) ==
  /\ At(i, "loop")
  /\ plan' = [plan EXCEPT ![i] = FALSE]
  /\ PlanTouched(i) \/ UNCHANGED verdict
  /\ \E r \in {"HARNESS_DONE", "MERGE_CONFLICT_ESCALATE", "HARNESS_KILLED", "ERROR"} : Return(i, r)
  /\ UNCHANGED <<left, impl, file, via, counts, exhausted>>

\* Every other end leaves flag and history alone; SPEC_GAPs may have changed the
\* plan file.
LoopEnds(i) ==
  /\ At(i, "loop")
  /\ PlanTouched(i) \/ UNCHANGED verdict
  /\ \E r \in {"HARNESS_DONE", "MERGE_CONFLICT_ESCALATE", "HARNESS_KILLED", "ERROR"} : Return(i, r)
  /\ UNCHANGED <<left, plan, impl, file, via, counts, exhausted>>

\* The router hook at a prompt that names this issue, after prompts about
\* another one: the flag goes, also in the middle of a run.
TaskSwitch(i) ==
  /\ plan[i]
  /\ plan' = [plan EXCEPT ![i] = FALSE]
  /\ UNCHANGED <<run, impl, verdict, file, via, counts, exhausted>>

\* An exception, a signal or a SIGKILL, anywhere; the files stay as they are.
Crash(i) ==
  /\ ~At(i, "idle")
  /\ Return(i, "exception")
  /\ damaged' = (damaged \/ pc[i] \in Filling)
  /\ snap' = [snap EXCEPT ![i] = Empty]
  /\ UNCHANGED <<left, plan, impl, verdict, history, via, counts, exhausted>>

-----------------------------------------------------------------------------
Step(i) ==
  \/ ReEnter(i) \/ DesignRequired(i) \/ KeepPlan(i) \/ CallArchitect(i) \/ EnsureDepth(i)
  \/ BelowThreshold(i) \/ AutoSpecGap(i) \/ GapAnswered(i) \/ NothingToClear(i)
  \/ Truncate(i) \/ ClearCount(i) \/ Record(i) \/ WriteFails(i)
  \/ Validate(i) \/ Rework(i) \/ Revalidate(i) \/ Killed(i)
  \/ GaveUp(i) \/ GapsExceeded(i) \/ LoopEnds(i)

Next == \E i \in Issue : Start(i) \/ Step(i) \/ TaskSwitch(i) \/ Crash(i)

Spec == Init /\ [][Next]_vars

-----------------------------------------------------------------------------
PC == {"idle", "named", "unnamed", "depth", "count", "gap", "validate", "rework", "revalidate", "loop"}
        \cup Updating
Result == {"none", "UI_DESIGN_REQUIRED", "PRODUCT_PLANNER_ESCALATION_NEEDED",
           "TECH_CONSTRAINT_CONFLICT", "SPEC_GAP_ESCALATE", "PLAN_VALIDATION_ESCALATE",
           "IMPLEMENTATION_ESCALATE", "MERGE_CONFLICT_ESCALATE", "HARNESS_DONE",
           "HARNESS_KILLED", "ERROR", "exception"}
Counts == [Issue -> Nat]

\* Every variable keeps its shape.
TypeOK ==
  /\ pc \in [Issue -> PC]
  /\ left \in Counts /\ result \in [Issue -> Result]
  /\ plan \in [Issue -> BOOLEAN] /\ impl \in [Issue -> BOOLEAN]
  /\ verdict \in [Issue -> {"none", "pass", "fail"}]
  /\ history \in Counts /\ snap \in [Issue -> Counts] /\ damaged \in BOOLEAN
  /\ via \in [Issue -> {"none", "flag", "gap"}]
  /\ due \in Counts /\ ever \in Counts
  /\ exhausted \in [Issue -> BOOLEAN]

\* The history file counts every escalated run of every plan exactly once, and
\* forgets a plan exactly when its gap was closed, unless two runs of different
\* issues updated it at the same time, or one failed or died within write_text
\* (core.py:85-142 takes no lock).
HistoryExact ==
  ~damaged /\ (\A i \in Issue : pc[i] \notin Filling) => history = due

\* However updates overlap, tear or die: no plan is charged with escalations it
\* never had, so the architect is never sent to a plan that did not fail twice
\* (impl_router.py:57-58).
NeverOvercounted == \A i \in Issue : history[i] <= ever[i]

\* A plan whose loop used up its attempts or tripped the breaker is passed by
\* the validator again before an engineer gets it (impl_loop.py:295, 807,
\* impl_router.py:226), even when runs are started without --impl or die.
ExhaustedPlanIsRevalidated == \A i \in Issue : pc[i] = "loop" => ~exhausted[i]

\* impl_router.py:465-467: unless the history was damaged, a plan that
\* escalated twice meets the architect's SPEC_GAP before its next attempt -
\* if the run came by the validator and not by the flag.
ThresholdForcesGap ==
  \A i \in Issue :
    pc[i] = "loop" /\ due[i] >= THRESHOLD /\ ~damaged =>
      via[i] # "none"

\* The router starts, and takes the ends of, the depth loops as they promise.
Loop(i) == INSTANCE LoopContract
  WITH state  <- IF pc[i] = "loop" THEN "running" ELSE result[i],
       plan   <- plan[i],
       merged <- pc[i] # "loop" /\ result[i] = "HARNESS_DONE"
UsesLoopContract == [][\A i \in Issue : Loop(i)!Next \/ UNCHANGED Loop(i)!vars]_vars
=============================================================================
