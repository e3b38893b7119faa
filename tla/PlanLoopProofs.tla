---------------------------- MODULE PlanLoopProofs ----------------------------
(***************************************************************************)
(* Theorems about PlanLoop, for any number of runs: type correctness, the  *)
(* one-shot override, and what the checkpoint lets a run skip.             *)
(***************************************************************************)
EXTENDS PlanLoop, TLAPS

USE DEF run, docs, locals, history

-----------------------------------------------------------------------------
(* Type correctness.                                                       *)

LEMMA InitType == Init => TypeOK
<1> SUFFICES ASSUME Init PROVE TypeOK
  OBVIOUS
<1>1. left \in 0 .. MaxRuns
  BY PlanLoopAssumption DEF Init
<1>2. meta \in Keys /\ prev \in Keys
  BY DEF Init, NoKeys, Keys
<1> QED BY <1>1, <1>2 DEF Init, TypeOK, PC, Result

\* Steps of a run that neither write the checkpoint nor count.
LEMMA RunType ==
  ASSUME TypeOK,
         \/ SkipPlanner \/ CallPlanner \/ Unclear \/ Override \/ Review \/ SkipUx
         \/ CallUxArchitect \/ UxStuck \/ Validate \/ Rework \/ Revalidate \/ Drawn \/ Killed
  PROVE  TypeOK'
<1> USE DEF TypeOK, PC, Result, Goto, Return, Named
<1>1. CASE SkipPlanner \/ Unclear
  BY <1>1 DEF SkipPlanner, Unclear
<1>7. CASE CallPlanner
  <2>1. /\ prd' \in {"absent", "open", "passed"} /\ ready' \in BOOLEAN
        /\ pc' \in PC /\ result' = result /\ left' = left
    BY <1>7 DEF CallPlanner
  <2> QED BY <1>7, <2>1 DEF CallPlanner
<1>2. CASE Override
  <2>0. stuck' = stuck \/ stuck' = stuck + 1
    BY <1>2, Zenon DEF Override
  <2>1. stuck' \in Nat
    BY <2>0
  <2>2. override' \in BOOLEAN
    BY <1>2, Zenon DEF Override
  <2> QED BY <1>2, <2>1, <2>2 DEF Override
<1>8. CASE Review
  BY <1>8 DEF Review
<1>3. CASE SkipUx
  BY <1>3 DEF SkipUx
<1>4. CASE CallUxArchitect
  <2>1. ux' \in {"absent", "open", "passed", "failed"} /\ doc' \in BOOLEAN
    BY <1>4 DEF CallUxArchitect
  <2>2. pc' \in PC /\ result' = result /\ left' = left
    BY <1>4 DEF CallUxArchitect
  <2> QED BY <1>4, <2>1, <2>2 DEF CallUxArchitect
<1>5. CASE UxStuck \/ Drawn \/ Killed
  <2>1. pc' \in PC /\ result' \in Result /\ left' = left
    BY <1>5 DEF UxStuck, Drawn, Killed
  <2>2. UNCHANGED <<docs, meta, locals, override, history>>
    BY <1>5 DEF UxStuck, Drawn, Killed
  <2> QED BY <2>1, <2>2
<1>6. CASE Validate \/ Rework \/ Revalidate
  <2>1. ux' \in {"passed", "failed", "open"} /\ pc' \in PC /\ result' \in Result /\ left' = left
    BY <1>6 DEF Validate, Rework, Revalidate
  <2> QED BY <1>6, <2>1 DEF Validate, Rework, Revalidate
<1> QED BY <1>1, <1>2, <1>3, <1>4, <1>5, <1>6, <1>7, <1>8

\* Steps that begin or end a run, and the user's.
LEMMA EdgeType ==
  ASSUME TypeOK, Start \/ ChangesRequested \/ Finish \/ Crash \/ User
  PROVE  TypeOK'
<1> USE DEF TypeOK, PC, Result, Goto, Return
<1>0. NoKeys \in Keys
  BY DEF NoKeys, Keys
<1>1. CASE Start
  <2>1. left' \in 0 .. MaxRuns
    BY <1>1, PlanLoopAssumption DEF Start
  <2> QED BY <1>1, <2>1 DEF Start
<1>2. CASE ChangesRequested
  <2>0. \A n \in BOOLEAN : [prd |-> n, ux |-> FALSE] \in Keys
    BY DEF Keys
  <2>1. meta' \in Keys
    BY <1>2, <2>0 DEF ChangesRequested, Named
  <2>2. dangling' \subseteq {"prd", "ux"}
    BY <1>2 DEF ChangesRequested, WatchFiles
  <2> QED BY <1>2, <2>1, <2>2 DEF ChangesRequested
<1>3. CASE Finish
  <2>0. \A n \in BOOLEAN : [prd |-> n, ux |-> doc] \in Keys
    BY DEF Keys
  <2>1. meta' \in Keys
    BY <1>3, <2>0 DEF Finish, Named
  <2>2. dangling' \subseteq {"prd", "ux"} /\ unreviewed' \in Nat
    BY <1>3 DEF Finish, WatchFiles
  <2> QED BY <1>3, <2>1, <2>2 DEF Finish
<1>4. CASE Crash
  <2>1. meta' \in Keys
    BY <1>0, <1>4 DEF Crash
  <2> QED BY <1>4, <2>1 DEF Crash
<1>5. CASE ChooseOverride
  BY <1>5 DEF ChooseOverride
<1>6. CASE WantChanges
  <2>1. meta' \in Keys
    BY <1>6 DEF WantChanges, Keys
  <2>2. ready' \in BOOLEAN
    BY <1>6 DEF WantChanges
  <2> QED BY <1>6, <2>1, <2>2 DEF WantChanges
<1>7. CASE LoseDocs
  <2>1. /\ prd' \in {"absent", "open", "passed"}
        /\ ux' \in {"absent", "open", "passed", "failed"}
    BY <1>7 DEF LoseDocs
  <2>2. dangling' \subseteq {"prd", "ux"}
    BY <1>7 DEF LoseDocs, WatchFiles
  <2> QED BY <1>7, <2>1, <2>2 DEF LoseDocs
<1> QED BY <1>1, <1>2, <1>3, <1>4, <1>5, <1>6, <1>7 DEF User

LEMMA NextType == TypeOK /\ [Next]_vars => TypeOK'
<1>1. TypeOK /\ UNCHANGED vars => TypeOK'
  BY DEF vars, TypeOK
<1> QED BY <1>1, RunType, EdgeType DEF Next, Step

\* The checkpoint, the documents and the override flag keep their types over any
\* number of runs that end, are killed or crash.
THEOREM TypeCorrect == Spec => []TypeOK
BY InitType, NextType, PTL DEF Spec

-----------------------------------------------------------------------------
(* The override: a choice of the user is either still in the file, or with *)
(* the run that took it, or spent; a flag that stays is one choice more.   *)

Unspent == IF override THEN 1 ELSE 0
Carried == IF waived /\ pc # "idle" THEN 1 ELSE 0

OverrideInv ==
  /\ unreviewed + Unspent + Carried <= overrides + stuck
  /\ pc \in {"planner", "planned", "unclear", "refused"} => ~waived

LEMMA OverrideNext == TypeOK /\ OverrideInv /\ [Next]_vars => OverrideInv'
<1> SUFFICES ASSUME TypeOK, OverrideInv, [Next]_vars PROVE OverrideInv'
  OBVIOUS
<1>0. unreviewed \in Nat /\ overrides \in Nat /\ stuck \in Nat
  BY DEF TypeOK
<1> USE DEF OverrideInv, Unspent, Carried, Goto, Return
<1>1. CASE UNCHANGED vars
  BY <1>1 DEF vars
<1>2. CASE Start \/ SkipPlanner \/ CallPlanner \/ Unclear \/ Review \/ ChangesRequested
  BY <1>0, <1>2 DEF Start, SkipPlanner, CallPlanner, Unclear, Review, ChangesRequested
<1>3. CASE Override
  BY <1>0, <1>3 DEF Override
<1>4. CASE \/ SkipUx \/ CallUxArchitect \/ UxStuck \/ Validate \/ Rework \/ Revalidate \/ Drawn
           \/ Killed \/ Crash
  <2>1. UNCHANGED <<override, waived, overrides, stuck, unreviewed>> /\ pc # "idle"
    BY <1>4 DEF SkipUx, CallUxArchitect, UxStuck, Validate, Rework, Revalidate, Drawn, Killed,
                Crash
  <2>2. pc' \notin {"planner", "planned", "unclear", "refused"}
    BY <1>4 DEF SkipUx, CallUxArchitect, UxStuck, Validate, Rework, Revalidate, Drawn, Killed,
                Crash
  <2> QED BY <1>0, <2>1, <2>2
<1>5. CASE Finish
  BY <1>0, <1>5 DEF Finish
<1>6. CASE ChooseOverride
  BY <1>0, <1>6 DEF ChooseOverride
<1>7. CASE WantChanges \/ LoseDocs
  BY <1>0, <1>7 DEF WantChanges, LoseDocs
<1> QED BY <1>1, <1>2, <1>3, <1>4, <1>5, <1>6, <1>7 DEF Next, Step, User

\* One choice of the user lets at most one unreviewed plan pass, and each
\* removal of the flag that fails one more.
THEOREM OverrideIsOneShot == Spec => []OneUnreviewedPassPerOverride
<1>1. Init => OverrideInv
  BY DEF Init, OverrideInv, Unspent, Carried
<1>2. TypeOK /\ OverrideInv => OneUnreviewedPassPerOverride
  BY DEF TypeOK, OverrideInv, Unspent, Carried, OneUnreviewedPassPerOverride
<1> QED BY <1>1, <1>2, InitType, NextType, OverrideNext, PTL DEF Spec

-----------------------------------------------------------------------------
(* The checkpoint: what it says of a document held when the run began, or  *)
(* the document was not there at some time.                                *)

Began == pc # "idle" => prev = meta
PrdInv ==
  /\ Began
  /\ meta.prd => ready \/ "prd" \in dangling
  /\ meta.prd /\ prd = "absent" => "prd" \in dangling
  /\ SkippedPlannerWasReady

LEMMA BeganNext == Began /\ [Next]_vars => Began'
<1> SUFFICES ASSUME Began, [Next]_vars PROVE Began'
  OBVIOUS
<1> USE DEF Began, Goto, Return
<1>1. CASE UNCHANGED vars
  BY <1>1 DEF vars
<1>2. CASE Start
  BY <1>2 DEF Start
<1>3. CASE Unclear \/ ChangesRequested \/ UxStuck \/ Finish \/ Killed \/ Crash \/ User
  BY <1>3 DEF Unclear, ChangesRequested, UxStuck, Finish, Killed, Crash, User, ChooseOverride,
              WantChanges, LoseDocs
<1>4. CASE \/ SkipPlanner \/ CallPlanner \/ Override \/ Review \/ SkipUx \/ CallUxArchitect
           \/ Validate \/ Rework \/ Revalidate \/ Drawn
  BY <1>4 DEF SkipPlanner, CallPlanner, Override, Review, SkipUx, CallUxArchitect, Validate,
              Rework, Revalidate, Drawn
<1> QED BY <1>1, <1>2, <1>3, <1>4 DEF Next, Step

LEMMA PrdNext == TypeOK /\ PrdInv /\ [Next]_vars => PrdInv'
<1> SUFFICES ASSUME TypeOK, PrdInv, [Next]_vars PROVE PrdInv'
  OBVIOUS
<1>0. Began'
  BY BeganNext DEF PrdInv
<1> USE DEF PrdInv, SkippedPlannerWasReady, Goto, Return
<1>1. CASE UNCHANGED vars
  BY <1>0, <1>1 DEF vars
<1>2. CASE Start \/ Unclear
  BY <1>0, <1>2 DEF Start, Unclear
<1>3. CASE SkipPlanner
  BY <1>0, <1>3 DEF SkipPlanner, PrdCheckpoint, Began
<1>4. CASE CallPlanner
  <2>1. meta.prd => "prd" \in dangling
    BY <1>4 DEF CallPlanner, PrdCheckpoint, Began
  <2> QED BY <1>0, <1>4, <2>1 DEF CallPlanner
<1>5. CASE \/ Override \/ Review \/ SkipUx \/ CallUxArchitect \/ UxStuck \/ Validate \/ Rework
           \/ Revalidate \/ Drawn
  <2>1. /\ UNCHANGED <<meta, ready, dangling>> /\ pc \notin {"idle", "planner", "unclear"}
        /\ prd' = "absent" => prd = "absent"
    BY <1>5 DEF Override, Review, SkipUx, CallUxArchitect, UxStuck, Validate, Rework, Revalidate,
                Drawn
  <2> QED BY <1>0, <2>1
<1>6. CASE ChangesRequested \/ Finish
  <2>1. /\ UNCHANGED <<ready, prd>> /\ pc' = "idle" /\ (ready \/ "prd" \in dangling)
        /\ WatchFiles
    BY <1>6 DEF ChangesRequested, Finish
  <2> QED BY <1>0, <2>1 DEF WatchFiles
<1>7. CASE Killed
  <2>1. UNCHANGED <<meta, ready, dangling, prd>> /\ pc' = "idle"
    BY <1>7 DEF Killed
  <2> QED BY <1>0, <2>1
<1>8. CASE Crash
  <2>1. UNCHANGED <<ready, dangling, prd>> /\ pc' = "idle" /\ meta' \in {meta, NoKeys}
    BY <1>8 DEF Crash
  <2> QED BY <1>0, <2>1 DEF NoKeys
<1>9. CASE ChooseOverride
  BY <1>0, <1>9 DEF ChooseOverride
<1>10. CASE WantChanges
  <2>0. PICK k \in Keys : /\ meta' = [prd |-> meta.prd /\ ~k.prd, ux |-> meta.ux /\ ~k.ux]
                          /\ ready' = (ready /\ ~k.prd)
    BY <1>10 DEF WantChanges
  <2>1. /\ UNCHANGED <<pc, dangling, prd>> /\ pc = "idle"
        /\ meta'.prd => meta.prd /\ (ready => ready')
    BY <1>10, <2>0 DEF WantChanges, Keys, TypeOK
  <2> QED BY <1>0, <2>1
<1>11. CASE LoseDocs
  BY <1>0, <1>11 DEF LoseDocs, WatchFiles
<1> QED BY <1>1, <1>2, <1>3, <1>4, <1>5, <1>6, <1>7, <1>8, <1>9, <1>10, <1>11
        DEF Next, Step, User

\* The planner is skipped only for a PRD its planner called ready, or one that
\* took the place of a lost one.
THEOREM SkippedIsReady == Spec => []SkippedPlannerWasReady
<1>1. Init => PrdInv
  BY DEF Init, NoKeys, PrdInv, Began, SkippedPlannerWasReady
<1>2. PrdInv => SkippedPlannerWasReady
  BY DEF PrdInv
<1> QED BY <1>1, <1>2, InitType, NextType, PrdNext, PTL DEF Spec

UxInv ==
  /\ Began
  /\ meta.ux => ux = "passed" \/ "ux" \in dangling
  /\ pc \in {"validate", "rework", "revalidate"} => ~meta.ux \/ "ux" \in dangling
  /\ pc \in {"drawn", "done"} => ux \in {"passed", "absent"} \/ "ux" \in dangling
  /\ pc \in {"planner", "planned", "unclear", "refused", "ui", "no-ui"} => ~doc

LEMMA UxNext == TypeOK /\ UxInv /\ [Next]_vars => UxInv'
<1> SUFFICES ASSUME TypeOK, UxInv, [Next]_vars PROVE UxInv'
  OBVIOUS
<1>0. Began'
  BY BeganNext DEF UxInv
<1> USE DEF UxInv, Goto, Return
<1>1. CASE UNCHANGED vars
  BY <1>0, <1>1 DEF vars
<1>2. CASE Start \/ SkipPlanner \/ CallPlanner \/ Unclear \/ Override \/ Review
  <2>1. /\ UNCHANGED <<meta, ux, dangling>> /\ ~doc'
        /\ pc' \in {"idle", "planner", "planned", "unclear", "refused", "ui"}
    BY <1>2 DEF Start, SkipPlanner, CallPlanner, Unclear, Override, Review
  <2> QED BY <1>0, <2>1
<1>3. CASE SkipUx
  <2>1. /\ UNCHANGED <<meta, ux, dangling>> /\ ~doc
        /\ \/ prev.ux /\ pc' = "done"
           \/ pc' = "no-ui" /\ doc' = doc
    BY <1>3 DEF SkipUx, UxCheckpoint
  <2>2. prev = meta
    BY <1>3 DEF SkipUx, Began
  <2> QED BY <1>0, <2>1, <2>2
<1>4. CASE CallUxArchitect
  <2>1. ~meta.ux \/ "ux" \in dangling
    BY <1>4 DEF CallUxArchitect, UxCheckpoint, Began
  <2>2. /\ UNCHANGED <<meta, dangling>>
        /\ pc' \in {"ux-stuck", "validate", "drawn"}
        /\ pc' = "drawn" => ux' = "absent"
    BY <1>4 DEF CallUxArchitect
  <2> QED BY <1>0, <2>1, <2>2
<1>5. CASE Validate \/ Rework \/ Revalidate
  <2>1. /\ UNCHANGED <<meta, dangling>> /\ (~meta.ux \/ "ux" \in dangling)
        /\ pc' \in {"drawn", "rework", "revalidate", "idle"}
        /\ pc' = "drawn" => ux' = "passed"
    BY <1>5 DEF Validate, Rework, Revalidate
  <2> QED BY <1>0, <2>1
<1>6. CASE UxStuck \/ Drawn \/ Killed
  <2>1. UNCHANGED <<meta, ux, dangling>> /\ (pc' = "idle" \/ (pc = "drawn" /\ pc' = "done"))
    BY <1>6 DEF UxStuck, Drawn, Killed
  <2> QED BY <1>0, <2>1
<1>7. CASE Finish
  <2>1. /\ UNCHANGED ux /\ pc' = "idle" /\ WatchFiles /\ meta'.ux = doc
        /\ doc => pc = "done"
    BY <1>7 DEF Finish
  <2> QED BY <1>0, <2>1 DEF WatchFiles
<1>8. CASE ChangesRequested
  <2>1. /\ UNCHANGED ux /\ pc' = "idle" /\ WatchFiles /\ (meta'.ux => meta.ux)
    BY <1>8 DEF ChangesRequested
  <2> QED BY <1>0, <2>1 DEF WatchFiles
<1>9. CASE Crash
  <2>1. UNCHANGED <<ux, dangling>> /\ pc' = "idle" /\ meta' \in {meta, NoKeys}
    BY <1>9 DEF Crash
  <2> QED BY <1>0, <2>1 DEF NoKeys
<1>10. CASE ChooseOverride
  BY <1>0, <1>10 DEF ChooseOverride
<1>11. CASE WantChanges
  <2>1. UNCHANGED <<pc, dangling, ux>> /\ pc = "idle" /\ (meta'.ux => meta.ux)
    BY <1>11 DEF WantChanges, Keys, TypeOK
  <2> QED BY <1>0, <2>1
<1>12. CASE LoseDocs
  BY <1>0, <1>12 DEF LoseDocs, WatchFiles
<1> QED BY <1>1, <1>2, <1>3, <1>4, <1>5, <1>6, <1>7, <1>8, <1>9, <1>10, <1>11, <1>12
        DEF Next, Step, User

\* UX_REVIEW_PASS is given to a UX flow the validator has passed, unless the
\* checkpoint once named one that was not there.
THEOREM UxPassEarned == Spec => []UxPassIsEarned
<1>1. Init => UxInv
  BY DEF Init, NoKeys, UxInv, Began
<1>2. UxInv => UxPassIsEarned
  BY DEF UxInv, UxPassIsEarned
<1> QED BY <1>1, <1>2, InitType, NextType, UxNext, PTL DEF Spec
=============================================================================
