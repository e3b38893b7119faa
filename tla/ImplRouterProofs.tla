--------------------------- MODULE ImplRouterProofs ---------------------------
(***************************************************************************)
(* Theorems about ImplRouter, for any set of issues and any number of runs *)
(* of each: type correctness, the flag that guards the loop, the escalate  *)
(* history that all issues share, and the use of LoopContract.             *)
(***************************************************************************)
EXTENDS ImplRouter, TLAPS

USE DEF run, file, counts

-----------------------------------------------------------------------------
(* Type correctness.                                                       *)

LEMMA EmptyType == Empty \in Counts
BY DEF Empty, Counts

LEMMA InitType == Init => TypeOK
<1> SUFFICES ASSUME Init PROVE TypeOK
  OBVIOUS
<1>1. left \in Counts
  BY ImplRouterAssumption DEF Init, Counts
<1>2. /\ pc \in [Issue -> PC] /\ result \in [Issue -> Result]
      /\ via \in [Issue -> {"none", "flag", "gap"}]
      /\ verdict \in [Issue -> {"none", "pass", "fail"}]
  BY DEF Init, PC, Result
<1>3. /\ plan \in [Issue -> BOOLEAN] /\ impl \in [Issue -> BOOLEAN]
      /\ exhausted \in [Issue -> BOOLEAN] /\ damaged \in BOOLEAN
  BY DEF Init
<1>4. history \in Counts /\ snap \in [Issue -> Counts] /\ due \in Counts /\ ever \in Counts
  BY EmptyType DEF Init
<1> QED BY <1>1, <1>2, <1>3, <1>4 DEF TypeOK

\* What a reader of the file may get after it has been filled.
LEMMA FillType ==
  ASSUME NEW i \in Issue, NEW data \in Counts, TypeOK, Fill(i, data)
  PROVE  history' \in Counts /\ snap' \in [Issue -> Counts] /\ damaged' \in BOOLEAN
BY EmptyType DEF Fill, TypeOK

LEMMA ReadType ==
  ASSUME NEW i \in Issue, TypeOK, Read(i)
  PROVE  snap' \in [Issue -> Counts] /\ damaged' \in BOOLEAN
BY DEF Read, TypeOK

\* Steps that leave the history alone.
LEMMA PlainType ==
  ASSUME NEW i \in Issue, TypeOK,
         \/ Start(i) \/ ReEnter(i) \/ DesignRequired(i) \/ KeepPlan(i) \/ EnsureDepth(i)
         \/ AutoSpecGap(i) \/ Validate(i) \/ Rework(i) \/ Killed(i) \/ LoopEnds(i)
         \/ TaskSwitch(i)
  PROVE  TypeOK'
<1> USE DEF Goto, Return, PlanTouched, TypeOK, PC, Result
<1>1. CASE Start(i)
  <2>1. left' \in Counts
    BY <1>1 DEF Start, Counts
  <2> QED BY <1>1, <2>1 DEF Start
<1>2. CASE ReEnter(i)
  BY <1>2 DEF ReEnter
<1>3. CASE DesignRequired(i) \/ KeepPlan(i) \/ Killed(i)
  BY <1>3 DEF DesignRequired, KeepPlan, Killed
<1>4. CASE EnsureDepth(i) \/ Rework(i)
  BY <1>4 DEF EnsureDepth, Rework
<1>5. CASE AutoSpecGap(i)
  BY <1>5 DEF AutoSpecGap
<1>6. CASE Validate(i)
  BY <1>6 DEF Validate, Passed
<1>7. CASE LoopEnds(i)
  BY <1>7 DEF LoopEnds
<1>8. CASE TaskSwitch(i)
  BY <1>8 DEF TaskSwitch
<1> QED BY <1>1, <1>2, <1>3, <1>4, <1>5, <1>6, <1>7, <1>8

\* CallArchitect, and the steps that use the history.
LEMMA CountType ==
  ASSUME NEW i \in Issue, TypeOK,
         \/ CallArchitect(i) \/ BelowThreshold(i) \/ GapAnswered(i) \/ NothingToClear(i)
         \/ Truncate(i) \/ ClearCount(i) \/ Record(i) \/ Revalidate(i) \/ GaveUp(i)
         \/ GapsExceeded(i) \/ Crash(i) \/ WriteFails(i)
  PROVE  TypeOK'
<1> USE DEF Goto, Return, PlanTouched, TypeOK, PC, Result, Updating, Filling
<1>1. CASE CallArchitect(i)
  <2>0. PICK there \in {impl[i], TRUE} :
          impl' = [impl EXCEPT ![i] = there] /\ verdict' = [verdict EXCEPT ![i] = "none"]
    BY <1>1 DEF CallArchitect
  <2>a. there \in BOOLEAN
    OBVIOUS
  <2>1. impl' \in [Issue -> BOOLEAN] /\ verdict' \in [Issue -> {"none", "pass", "fail"}]
    BY <2>0, <2>a
  <2>2. pc' \in [Issue -> PC] /\ result' \in [Issue -> Result]
    BY <1>1 DEF CallArchitect
  <2> QED BY <1>1, <2>1, <2>2 DEF CallArchitect
<1>2. CASE BelowThreshold(i)
  BY <1>2 DEF BelowThreshold
<1>3. CASE GapAnswered(i)
  <2>1. snap' \in [Issue -> Counts] /\ damaged' \in BOOLEAN
    BY <1>3, ReadType DEF GapAnswered
  <2>2. pc' \in [Issue -> PC] /\ result' \in [Issue -> Result]
    BY <1>3 DEF GapAnswered
  <2>3. UNCHANGED <<history, left, plan, impl, via, due, ever, exhausted>>
    BY <1>3 DEF GapAnswered
  <2>4. verdict' \in [Issue -> {"none", "pass", "fail"}]
    BY <1>3 DEF GapAnswered
  <2> QED BY <2>1, <2>2, <2>3, <2>4
<1>4. CASE NothingToClear(i)
  <2>1. due' \in Counts /\ snap' \in [Issue -> Counts]
    BY <1>4, EmptyType DEF NothingToClear, Counts
  <2> QED BY <1>4, <2>1 DEF NothingToClear
<1>5. CASE Truncate(i)
  BY <1>5, EmptyType DEF Truncate
<1>6. CASE ClearCount(i)
  <2>1. [snap[i] EXCEPT ![i] = 0] \in Counts /\ due' \in Counts
    BY <1>6 DEF ClearCount, Counts
  <2>2. history' \in Counts /\ snap' \in [Issue -> Counts] /\ damaged' \in BOOLEAN
    BY <1>6, <2>1, FillType DEF ClearCount
  <2> QED BY <1>6, <2>1, <2>2 DEF ClearCount
<1>7. CASE Record(i)
  <2>1. [snap[i] EXCEPT ![i] = @ + 1] \in Counts /\ due' \in Counts /\ ever' \in Counts
    BY <1>7 DEF Record, Counts
  <2>2. history' \in Counts /\ snap' \in [Issue -> Counts] /\ damaged' \in BOOLEAN
    BY <1>7, <2>1, FillType DEF Record
  <2> QED BY <1>7, <2>1, <2>2 DEF Record
<1>8. CASE Revalidate(i)
  <2>1. snap' \in [Issue -> Counts] /\ damaged' \in BOOLEAN
    BY <1>8, ReadType DEF Revalidate, Escalate
  <2> QED BY <1>8, <2>1 DEF Revalidate, Escalate, Passed
<1>9. CASE GaveUp(i) \/ GapsExceeded(i)
  <2>1. snap' \in [Issue -> Counts] /\ damaged' \in BOOLEAN
    BY <1>9, ReadType DEF GaveUp, GapsExceeded, Escalate
  <2> QED BY <1>9, <2>1 DEF GaveUp, GapsExceeded, Escalate
<1>10. CASE Crash(i)
  BY <1>10, EmptyType DEF Crash
<1>11. CASE WriteFails(i)
  BY <1>11, EmptyType DEF WriteFails
<1> QED BY <1>1, <1>2, <1>3, <1>4, <1>5, <1>6, <1>7, <1>8, <1>9, <1>10, <1>11

LEMMA NextType == TypeOK /\ [Next]_vars => TypeOK'
<1>1. ASSUME TypeOK, UNCHANGED vars PROVE TypeOK'
  BY <1>1 DEF vars, TypeOK
<1> QED BY <1>1, PlainType, CountType DEF Next, Step

\* The router's places, the shared escalate history and the plan flags keep
\* their types, torn and overlapping updates of the file included.
THEOREM TypeCorrect == Spec => []TypeOK
BY InitType, NextType, PTL DEF Spec

-----------------------------------------------------------------------------
(* The flag: a plan that exhausted its loop has lost it, and the loop is   *)
(* entered with it only.  It may go while the loop runs.                   *)

FlagInv == \A i \in Issue : exhausted[i] => ~plan[i] /\ pc[i] # "loop"

LEMMA FlagNext == TypeOK /\ FlagInv /\ [Next]_vars => FlagInv'
<1> SUFFICES ASSUME TypeOK, FlagInv, [Next]_vars PROVE FlagInv'
  OBVIOUS
<1> USE DEF Goto, Return, Escalate, FlagInv, TypeOK
<1>1. CASE UNCHANGED vars
  BY <1>1 DEF vars
<1>2. ASSUME NEW i \in Issue,
             \/ Start(i) \/ DesignRequired(i) \/ KeepPlan(i) \/ CallArchitect(i)
             \/ EnsureDepth(i) \/ BelowThreshold(i) \/ AutoSpecGap(i) \/ GapAnswered(i)
             \/ NothingToClear(i) \/ Truncate(i) \/ ClearCount(i) \/ Record(i) \/ Rework(i)
             \/ Killed(i) \/ GapsExceeded(i) \/ LoopEnds(i) \/ Crash(i) \/ WriteFails(i)
      PROVE  FlagInv'
  <2>1. UNCHANGED <<plan, exhausted>>
    BY <1>2 DEF Start, DesignRequired, KeepPlan, CallArchitect, EnsureDepth, BelowThreshold,
                AutoSpecGap, GapAnswered, NothingToClear, Truncate, ClearCount, Record, Rework,
                Killed, GapsExceeded, LoopEnds, Crash, WriteFails
  <2>2. \E to \in PC \ {"loop"} : pc' = [pc EXCEPT ![i] = to]
    BY <1>2 DEF Start, DesignRequired, KeepPlan, CallArchitect, EnsureDepth, BelowThreshold,
                AutoSpecGap, GapAnswered, NothingToClear, Truncate, ClearCount, Record, Rework,
                Killed, GapsExceeded, LoopEnds, Crash, WriteFails, PC, Updating, Filling
  <2> QED BY <2>1, <2>2
<1>3. ASSUME NEW i \in Issue, ReEnter(i) PROVE FlagInv'
  BY <1>3 DEF ReEnter
<1>4. ASSUME NEW i \in Issue, Validate(i) \/ Revalidate(i) PROVE FlagInv'
  <2>1. CASE Passed(i)
    BY <2>1 DEF Passed
  <2>2. CASE UNCHANGED <<plan, exhausted>> /\ pc' \in {[pc EXCEPT ![i] = "rework"],
                                                       [pc EXCEPT ![i] = "record"]}
    BY <2>2
  <2> QED BY <1>4, <2>1, <2>2 DEF Validate, Revalidate
<1>5. ASSUME NEW i \in Issue, GaveUp(i) PROVE FlagInv'
  BY <1>5 DEF GaveUp
<1>6. ASSUME NEW i \in Issue, TaskSwitch(i) PROVE FlagInv'
  BY <1>6 DEF TaskSwitch
<1> QED BY <1>1, <1>2, <1>3, <1>4, <1>5, <1>6 DEF Next, Step

\* No engineer gets a plan whose last loop gave up before the validator has
\* passed it again.
THEOREM ExhaustedRevalidated == Spec => []ExhaustedPlanIsRevalidated
<1>1. Init => FlagInv
  BY DEF Init, FlagInv
<1>2. FlagInv => ExhaustedPlanIsRevalidated
  BY DEF FlagInv, ExhaustedPlanIsRevalidated
<1> QED BY <1>1, <1>2, InitType, NextType, FlagNext, PTL DEF Spec

-----------------------------------------------------------------------------
(* No plan is overcharged: neither the file nor what a run holds to write  *)
(* back ever exceeds what has happened.                                    *)

Below(data) == \A j \in Issue : data[j] <= ever[j]
CountInv == Below(history) /\ \A i \in Issue : Below(snap[i])

\* Steps that count nothing: the file stays or is emptied, a run may read it.
LEMMA CountStays ==
  ASSUME TypeOK, CountInv, NEW i \in Issue, UNCHANGED ever,
         history' \in {history, Empty},
         snap' \in {snap, [snap EXCEPT ![i] = history], [snap EXCEPT ![i] = Empty]}
  PROVE  CountInv'
<1>1. \A j \in Issue : 0 <= ever[j] /\ Empty[j] = 0
  BY DEF TypeOK, Counts, Empty
<1>2. Below(history)' /\ Below(Empty)'
  BY <1>1 DEF CountInv, Below
<1>3. ASSUME NEW k \in Issue PROVE Below(snap[k])'
  BY <1>1, <1>2 DEF CountInv, Below, TypeOK
<1> QED BY <1>2, <1>3 DEF CountInv

LEMMA CountNext == TypeOK /\ CountInv /\ [Next]_vars => CountInv'
<1> SUFFICES ASSUME TypeOK, CountInv, [Next]_vars PROVE CountInv'
  OBVIOUS
<1>1. CASE UNCHANGED vars
  BY <1>1 DEF vars, CountInv, Below
<1>2. ASSUME NEW i \in Issue,
             \/ Start(i) \/ ReEnter(i) \/ DesignRequired(i) \/ KeepPlan(i) \/ CallArchitect(i)
             \/ EnsureDepth(i) \/ BelowThreshold(i) \/ AutoSpecGap(i) \/ GapAnswered(i)
             \/ NothingToClear(i) \/ Truncate(i) \/ Validate(i) \/ Rework(i) \/ Killed(i)
             \/ LoopEnds(i) \/ Crash(i) \/ WriteFails(i)
      PROVE  CountInv'
  <2>1. /\ UNCHANGED ever /\ history' \in {history, Empty}
        /\ snap' \in {snap, [snap EXCEPT ![i] = history], [snap EXCEPT ![i] = Empty]}
    BY <1>2 DEF Start, ReEnter, DesignRequired, KeepPlan, CallArchitect, EnsureDepth,
                BelowThreshold, AutoSpecGap, GapAnswered, NothingToClear, Truncate, Validate,
                Rework, Killed, LoopEnds, Crash, WriteFails, Read
  <2> QED BY <2>1, CountStays
<1>3. ASSUME NEW i \in Issue, Revalidate(i) \/ GaveUp(i) \/ GapsExceeded(i) PROVE CountInv'
  <2>1. /\ UNCHANGED <<ever, history>>
        /\ snap' \in {snap, [snap EXCEPT ![i] = history]}
    BY <1>3 DEF Revalidate, GaveUp, GapsExceeded, Escalate, Read
  <2> QED BY <2>1, CountStays
<1>4. ASSUME NEW i \in Issue, ClearCount(i) PROVE CountInv'
  <2>1. UNCHANGED ever /\ snap' = [snap EXCEPT ![i] = Empty]
        /\ history' \in {[snap[i] EXCEPT ![i] = 0], Empty}
    BY <1>4 DEF ClearCount, Fill
  <2>2. \A j \in Issue : /\ Empty[j] <= ever'[j]
                          /\ [snap[i] EXCEPT ![i] = 0][j] <= ever'[j]
    BY <2>1 DEF TypeOK, Counts, Empty, CountInv, Below
  <2>3. Below(history)'
    BY <2>1, <2>2 DEF Below
  <2>4. ASSUME NEW k \in Issue PROVE Below(snap[k])'
    BY <2>1, <2>2 DEF CountInv, Below, TypeOK
  <2> QED BY <2>3, <2>4 DEF CountInv
<1>5. ASSUME NEW i \in Issue, Record(i) PROVE CountInv'
  <2>1. /\ ever' = [ever EXCEPT ![i] = @ + 1] /\ snap' = [snap EXCEPT ![i] = Empty]
        /\ history' \in {[snap[i] EXCEPT ![i] = @ + 1], Empty}
    BY <1>5 DEF Record, Fill
  <2>2. \A j \in Issue : /\ Empty[j] <= ever'[j] /\ ever[j] <= ever'[j]
                          /\ [snap[i] EXCEPT ![i] = @ + 1][j] <= ever'[j]
    BY <2>1 DEF TypeOK, Counts, Empty, CountInv, Below
  <2>3. Below(history)'
    BY <2>1, <2>2 DEF Below
  <2>4. ASSUME NEW k \in Issue PROVE Below(snap[k])'
    <3>1. ASSUME NEW j \in Issue PROVE snap'[k][j] <= ever'[j]
      <4>1. snap[k][j] <= ever[j] /\ snap[k][j] \in Nat /\ ever[j] \in Nat /\ ever'[j] \in Nat
        BY <2>1 DEF CountInv, Below, TypeOK, Counts
      <4>2. snap'[k] = Empty \/ snap'[k] = snap[k]
        BY <2>1 DEF TypeOK
      <4> QED BY <2>2, <4>1, <4>2
    <3> QED BY <3>1 DEF Below
  <2> QED BY <2>3, <2>4 DEF CountInv
<1>6. ASSUME NEW i \in Issue, TaskSwitch(i) PROVE CountInv'
  BY <1>6 DEF TaskSwitch, CountInv, Below
<1> QED BY <1>1, <1>2, <1>3, <1>4, <1>5, <1>6 DEF Next, Step

\* However the updates of different issues overlap, no plan is charged with
\* escalations it never had.
THEOREM NobodyOvercharged == Spec => []NeverOvercounted
<1>1. Init => CountInv
  BY DEF Init, Empty, CountInv, Below
<1>2. CountInv => NeverOvercounted
  BY DEF CountInv, Below, NeverOvercounted
<1> QED BY <1>1, <1>2, InitType, NextType, CountNext, PTL DEF Spec

-----------------------------------------------------------------------------
(* The file is exact as long as no two updates overlap and none dies half  *)
(* way: then at most one run is updating, and it holds what the file held. *)

Alone(i) == \A j \in Issue : pc[j] \in Updating => j = i

ExactInv ==
  ~damaged =>
    /\ (\A i \in Issue : pc[i] \notin Filling) => history = due
    /\ \A i \in Issue :
         /\ pc[i] \in Updating => Alone(i) /\ snap[i] = due
         /\ pc[i] \in Filling => history = Empty
         /\ pc[i] \in {"validate", "rework", "revalidate", "loop"} /\ due[i] >= THRESHOLD
              => via[i] # "none"
GapInv == \A i \in Issue : pc[i] \in {"gap", "clear", "clearing"} => via[i] = "gap"

\* Steps outside an update.
LEMMA ExactStays ==
  ASSUME TypeOK, ExactInv, NEW i \in Issue, UNCHANGED <<history, damaged, due>>,
         snap' \in {snap, [snap EXCEPT ![i] = Empty]},
         pc[i] \notin Filling, NEW to \in PC \ Updating, pc' = [pc EXCEPT ![i] = to],
         via'  \in [Issue -> {"none", "flag", "gap"}], \A j \in Issue \ {i} : via'[j] = via[j],
         \/ to \notin {"validate", "rework", "revalidate", "loop"}
         \/ via'[i] # "none"
         \/ /\ pc[i] \in {"validate", "rework", "revalidate", "loop"} /\ via'[i] = via[i]
  PROVE  ExactInv'
<1> SUFFICES ASSUME ~damaged PROVE ExactInv'
  BY DEF ExactInv
<1>1. (\A j \in Issue : pc'[j] \notin Filling) => history' = due'
  BY DEF ExactInv, TypeOK, Updating
<1>2. ASSUME NEW k \in Issue
      PROVE  /\ pc'[k] \in Updating => Alone(k)' /\ snap'[k] = due'
             /\ pc'[k] \in Filling => history' = Empty
    BY DEF ExactInv, TypeOK, Updating, Alone
<1>3. ASSUME NEW k \in Issue,
             pc'[k] \in {"validate", "rework", "revalidate", "loop"}, due'[k] >= THRESHOLD
      PROVE  via'[k] # "none"
  BY <1>3 DEF ExactInv, TypeOK
<1> QED BY <1>1, <1>2, <1>3 DEF ExactInv

\* Reading the file at the beginning of an update.
LEMMA ExactRead ==
  ASSUME TypeOK, ExactInv, NEW i \in Issue, Read(i), UNCHANGED <<history, due, via>>,
         pc[i] \notin Updating, NEW to \in {"clear", "record"}, pc' = [pc EXCEPT ![i] = to]
  PROVE  ExactInv'
<1> SUFFICES ASSUME ~damaged' PROVE ExactInv'
  BY DEF ExactInv
<1>1. ~damaged /\ \A j \in Issue \ {i} : pc[j] \notin Updating
  BY DEF Read, Others, TypeOK
<1>2. \A j \in Issue : pc[j] \notin Updating
  BY <1>1
<1>3. history = due
  BY <1>1, <1>2 DEF ExactInv, Updating
<1>4. snap' = [snap EXCEPT ![i] = due]
  BY <1>3 DEF Read
<1>5. ASSUME NEW k \in Issue
      PROVE  /\ pc'[k] \in Updating => Alone(k)' /\ snap'[k] = due'
             /\ pc'[k] \notin Filling
  BY <1>2, <1>4 DEF TypeOK, Updating, Filling, Alone
<1>6. ASSUME NEW k \in Issue,
             pc'[k] \in {"validate", "rework", "revalidate", "loop"}, due'[k] >= THRESHOLD
      PROVE  via'[k] # "none"
  BY <1>1, <1>6 DEF ExactInv, TypeOK
<1> QED BY <1>3, <1>5, <1>6 DEF ExactInv

\* The update is over: the file has what has happened.
LEMMA ExactFilled ==
  ASSUME TypeOK, ExactInv, NEW i \in Issue, pc[i] \in Filling, Fill(i, due'), UNCHANGED via,
         NEW to \in {"idle", "validate"}, pc' = [pc EXCEPT ![i] = to],
         \A j \in Issue \ {i} : due'[j] = due[j],
         to = "validate" => via[i] # "none"
  PROVE  ExactInv'
<1> SUFFICES ASSUME ~damaged PROVE ExactInv'
  BY DEF ExactInv, Fill
<1>1. history = Empty /\ Alone(i)
  BY DEF ExactInv, Updating
<1>2. history' = due'
  BY <1>1 DEF Fill
<1>3. \A j \in Issue : pc'[j] \notin Updating
  BY <1>1 DEF Alone, TypeOK, Updating, Filling
<1>4. ASSUME NEW k \in Issue,
             pc'[k] \in {"validate", "rework", "revalidate", "loop"}, due'[k] >= THRESHOLD
      PROVE  via'[k] # "none"
  BY <1>4 DEF ExactInv, TypeOK
<1> QED BY <1>2, <1>3, <1>4 DEF ExactInv, Updating

LEMMA GapNext == TypeOK /\ GapInv /\ [Next]_vars => GapInv'
<1> SUFFICES ASSUME TypeOK, GapInv, [Next]_vars PROVE GapInv'
  OBVIOUS
<1>1. CASE UNCHANGED vars
  BY <1>1 DEF vars, GapInv
<1>2. ASSUME NEW i \in Issue, Start(i) \/ ReEnter(i) \/ AutoSpecGap(i) PROVE GapInv'
  BY <1>2 DEF Start, ReEnter, AutoSpecGap, Goto, GapInv, TypeOK
<1>3. ASSUME NEW i \in Issue, GapAnswered(i) \/ Truncate(i) PROVE GapInv'
  BY <1>3 DEF GapAnswered, Truncate, At, Goto, Return, GapInv, TypeOK
<1>4. ASSUME NEW i \in Issue,
             \/ DesignRequired(i) \/ KeepPlan(i) \/ CallArchitect(i) \/ EnsureDepth(i)
             \/ BelowThreshold(i) \/ NothingToClear(i) \/ ClearCount(i) \/ Record(i)
             \/ Validate(i) \/ Rework(i) \/ Revalidate(i) \/ Killed(i)
             \/ GaveUp(i) \/ GapsExceeded(i) \/ LoopEnds(i) \/ Crash(i) \/ WriteFails(i)
      PROVE  GapInv'
  <2>1. UNCHANGED via
    BY <1>4 DEF DesignRequired, KeepPlan, CallArchitect, EnsureDepth, BelowThreshold,
                NothingToClear, ClearCount, Record, Validate, Rework, Revalidate, Killed,
                GaveUp, GapsExceeded, LoopEnds, Crash, WriteFails
  <2>2. \E to \in PC \ {"gap", "clear", "clearing"} : pc' = [pc EXCEPT ![i] = to]
    BY <1>4 DEF DesignRequired, KeepPlan, CallArchitect, EnsureDepth, BelowThreshold,
                NothingToClear, ClearCount, Record, Validate, Rework, Revalidate, Killed,
                GaveUp, GapsExceeded, LoopEnds, Crash, WriteFails, Passed, Escalate, Goto, Return, PC,
                Updating, Filling
  <2> QED BY <2>1, <2>2 DEF GapInv, TypeOK
<1>5. ASSUME NEW i \in Issue, TaskSwitch(i) PROVE GapInv'
  BY <1>5 DEF TaskSwitch, GapInv
<1> QED BY <1>1, <1>2, <1>3, <1>4, <1>5 DEF Next, Step

LEMMA ExactNext == TypeOK /\ GapInv /\ ExactInv /\ [Next]_vars => ExactInv'
<1> SUFFICES ASSUME TypeOK, GapInv, ExactInv, [Next]_vars PROVE ExactInv'
  OBVIOUS
<1>1. CASE UNCHANGED vars
  BY <1>1 DEF vars, ExactInv, Alone
<1>2. ASSUME NEW i \in Issue,
             \/ Start(i) \/ DesignRequired(i) \/ KeepPlan(i) \/ CallArchitect(i)
             \/ EnsureDepth(i) \/ Killed(i) \/ LoopEnds(i)
      PROVE  ExactInv'
  <2> DEFINE Away == PC \ (Updating \cup {"validate", "rework", "revalidate", "loop"})
  <2>1. /\ UNCHANGED <<history, damaged, due, snap>> /\ pc[i] \notin Filling
        /\ via' \in {via, [via EXCEPT ![i] = "none"]}
    BY <1>2 DEF Start, DesignRequired, KeepPlan, CallArchitect, EnsureDepth, Killed, LoopEnds,
                Known, Unknown, At, Filling
  <2>2. \E to \in Away : pc' = [pc EXCEPT ![i] = to]
    BY <1>2 DEF Start, DesignRequired, KeepPlan, CallArchitect, EnsureDepth, Killed, LoopEnds,
                Goto, Return, PC, Updating, Filling
  <2>3. PICK to \in Away : pc' = [pc EXCEPT ![i] = to]
    BY <2>2
  <2>4. via' \in [Issue -> {"none", "flag", "gap"}] /\ \A j \in Issue \ {i} : via'[j] = via[j]
    BY <2>1 DEF TypeOK
  <2> QED BY <2>1, <2>3, <2>4, ExactStays
<1>3. ASSUME NEW i \in Issue, ReEnter(i) \/ AutoSpecGap(i) PROVE ExactInv'
  <2>1. /\ UNCHANGED <<history, damaged, due, snap>> /\ pc[i] \notin Filling
        /\ via' \in {[via EXCEPT ![i] = "flag"], [via EXCEPT ![i] = "gap"]}
    BY <1>3 DEF ReEnter, AutoSpecGap, Known, At, Filling
  <2>2. via' \in [Issue -> {"none", "flag", "gap"}] /\ via'[i] # "none"
        /\ \A j \in Issue \ {i} : via'[j] = via[j]
    BY <2>1 DEF TypeOK
  <2>3. PICK to \in {"loop", "gap"} : pc' = [pc EXCEPT ![i] = to]
    BY <1>3 DEF ReEnter, AutoSpecGap, Goto
  <2>4. to \in PC \ Updating
    BY DEF PC, Updating, Filling
  <2> QED BY <2>1, <2>2, <2>3, <2>4, ExactStays
<1>4. ASSUME NEW i \in Issue, Validate(i) \/ Rework(i) \/ (Revalidate(i) /\ Passed(i))
      PROVE  ExactInv'
  <2>1. /\ UNCHANGED <<history, damaged, due, snap, via>>
        /\ pc[i] \in {"validate", "rework", "revalidate"}
    BY <1>4 DEF Validate, Rework, Revalidate, At, Passed, Escalate, Goto, TypeOK
  <2>2. PICK to \in {"rework", "revalidate", "loop"} : pc' = [pc EXCEPT ![i] = to]
    BY <1>4 DEF Validate, Rework, Revalidate, Passed, Goto
  <2>3. to \in PC \ Updating /\ pc[i] \notin Filling
    BY <2>1 DEF PC, Updating, Filling
  <2> QED BY <2>1, <2>2, <2>3, ExactStays DEF TypeOK
<1>5. ASSUME NEW i \in Issue, BelowThreshold(i) PROVE ExactInv'
  <2> SUFFICES ASSUME ~damaged' PROVE ExactInv'
    BY DEF ExactInv
  <2>a. /\ pc[i] = "count" /\ pc' = [pc EXCEPT ![i] = "validate"]
        /\ UNCHANGED <<history, due, snap, via>>
    BY <1>5 DEF BelowThreshold, At, Goto
  <2>b. ~damaged /\ \A j \in Issue \ {i} : pc[j] \notin Filling
    BY <1>5 DEF BelowThreshold, Others
  <2>c. history[i] < THRESHOLD
    BY <1>5 DEF BelowThreshold, AtThreshold, TypeOK, THRESHOLD, Counts
  <2>1. /\ ~damaged /\ ~damaged' /\ pc[i] = "count" /\ history[i] < THRESHOLD
        /\ \A j \in Issue \ {i} : pc[j] \notin Filling
        /\ pc' = [pc EXCEPT ![i] = "validate"] /\ UNCHANGED <<history, due, snap, via>>
    BY <2>a, <2>b, <2>c
  <2>2. history = due
    BY <2>1 DEF ExactInv, Filling
  <2>3. ASSUME NEW k \in Issue
        PROVE  /\ pc'[k] \in Updating => Alone(k)' /\ snap'[k] = due'
               /\ pc'[k] \notin Filling
    BY <2>1 DEF ExactInv, TypeOK, Updating, Filling, Alone
  <2>4. ASSUME NEW k \in Issue,
               pc'[k] \in {"validate", "rework", "revalidate", "loop"}, due'[k] >= THRESHOLD
        PROVE  via'[k] # "none"
    BY <2>1, <2>2, <2>4 DEF ExactInv, TypeOK, Counts, THRESHOLD
  <2> QED BY <2>1, <2>2, <2>3, <2>4 DEF ExactInv
<1>6. ASSUME NEW i \in Issue, GapAnswered(i) PROVE ExactInv'
  <2>1. /\ UNCHANGED <<history, due, via>> /\ pc[i] = "gap" /\ via[i] = "gap"
        /\ pc[i] \notin Updating
    BY <1>6 DEF GapAnswered, GapInv, At, Updating, Filling
  <2>2. CASE Goto(i, "clear") /\ Read(i)
    BY <2>1, <2>2, ExactRead DEF Goto
  <2>3. CASE UNCHANGED file /\ \E to \in {"validate", "idle"} : pc' = [pc EXCEPT ![i] = to]
    <3>1. PICK to \in {"validate", "idle"} : pc' = [pc EXCEPT ![i] = to]
      BY <2>3
    <3>2. to \in PC \ Updating /\ pc[i] \notin Filling /\ via'[i] # "none"
      BY <2>1 DEF PC, Updating, Filling
    <3>3. via' \in [Issue -> {"none", "flag", "gap"}] /\ \A j \in Issue \ {i} : via'[j] = via[j]
      BY <2>1 DEF TypeOK
    <3>4. UNCHANGED <<history, damaged, due, snap>>
      BY <2>1, <2>3
    <3> QED BY <3>1, <3>2, <3>3, <3>4, ExactStays
  <2> QED BY <1>6, <2>2, <2>3 DEF GapAnswered, Goto, Return
<1>7. ASSUME NEW i \in Issue,
             (Revalidate(i) /\ ~Passed(i)) \/ GaveUp(i) \/ GapsExceeded(i)
      PROVE  ExactInv'
  <2>1. /\ Read(i) /\ UNCHANGED <<history, due, via>> /\ pc' = [pc EXCEPT ![i] = "record"]
        /\ pc[i] \in {"revalidate", "loop"}
    BY <1>7 DEF Revalidate, GaveUp, GapsExceeded, Escalate, At
  <2>2. pc[i] \notin Updating
    BY <2>1 DEF Updating, Filling
  <2> QED BY <2>1, <2>2, ExactRead
<1>8. ASSUME NEW i \in Issue, NothingToClear(i) PROVE ExactInv'
  <2> SUFFICES ASSUME ~damaged PROVE ExactInv'
    BY <1>8 DEF ExactInv, NothingToClear
  <2>1. /\ pc[i] = "clear" /\ via[i] = "gap" /\ snap[i] = due /\ snap[i][i] = 0
        /\ UNCHANGED <<history, damaged, via>> /\ pc' = [pc EXCEPT ![i] = "validate"]
        /\ snap' = [snap EXCEPT ![i] = Empty]
    BY <1>8 DEF NothingToClear, At, Goto, GapInv, ExactInv, Updating
  <2>2. due' = due
    BY <1>8, <2>1 DEF NothingToClear, TypeOK, Counts
  <2>3. /\ via' \in [Issue -> {"none", "flag", "gap"}] /\ via'[i] # "none"
        /\ \A j \in Issue \ {i} : via'[j] = via[j]
        /\ "validate" \in PC \ Updating /\ pc[i] \notin Filling
    BY <2>1 DEF TypeOK, PC, Updating, Filling
  <2> QED BY <2>1, <2>2, <2>3, ExactStays
<1>9. ASSUME NEW i \in Issue, Truncate(i) PROVE ExactInv'
  <2> SUFFICES ASSUME ~damaged PROVE ExactInv'
    BY <1>9 DEF ExactInv, Truncate
  <2>1. /\ pc[i] \in Updating /\ history' = Empty /\ UNCHANGED <<damaged, due, snap, via>>
    BY <1>9 DEF Truncate, At, Updating
  <2>2. PICK to \in Filling : pc' = [pc EXCEPT ![i] = to]
    BY <1>9 DEF Truncate, Goto, Filling
  <2>3. ASSUME NEW k \in Issue
        PROVE  /\ pc'[k] \in Updating => Alone(k)' /\ snap'[k] = due'
               /\ k # i => pc'[k] \notin Updating
    BY <2>1, <2>2 DEF ExactInv, TypeOK, Alone
  <2>4. pc'[i] \in Filling
    BY <2>2 DEF TypeOK
  <2>5. ASSUME NEW k \in Issue,
               pc'[k] \in {"validate", "rework", "revalidate", "loop"}, due'[k] >= THRESHOLD
        PROVE  via'[k] # "none"
    BY <2>1, <2>2, <2>5 DEF ExactInv, TypeOK, Filling
  <2> QED BY <2>1, <2>3, <2>4, <2>5 DEF ExactInv
<1>10. ASSUME NEW i \in Issue, ClearCount(i) \/ Record(i) PROVE ExactInv'
  <2> SUFFICES ASSUME ~damaged PROVE ExactInv'
    BY <1>10 DEF ExactInv, ClearCount, Record, Fill
  <2>1. /\ pc[i] \in Filling /\ snap[i] = due /\ UNCHANGED via
        /\ pc[i] = "clearing" => via[i] = "gap"
    BY <1>10 DEF ClearCount, Record, At, Filling, Updating, ExactInv, GapInv
  <2>2. CASE ClearCount(i)
    <3>1. Fill(i, due') /\ due' = [due EXCEPT ![i] = 0]
          /\ pc' = [pc EXCEPT ![i] = "validate"] /\ via[i] # "none"
      BY <2>1, <2>2 DEF ClearCount, At, Goto
    <3> QED BY <2>1, <3>1, ExactFilled DEF TypeOK, Counts
  <2>3. CASE Record(i)
    <3>1. Fill(i, due') /\ due' = [due EXCEPT ![i] = @ + 1]
          /\ pc' = [pc EXCEPT ![i] = "idle"]
      BY <2>1, <2>3 DEF Record, Goto
    <3> QED BY <2>1, <3>1, ExactFilled DEF TypeOK, Counts
  <2> QED BY <1>10, <2>2, <2>3
<1>11. ASSUME NEW i \in Issue, Crash(i) PROVE ExactInv'
  <2>1. CASE pc[i] \in Filling
    BY <1>11, <2>1 DEF Crash, ExactInv
  <2>2. CASE pc[i] \notin Filling
    <3>1. /\ UNCHANGED <<history, damaged, due, via>> /\ pc' = [pc EXCEPT ![i] = "idle"]
          /\ snap' = [snap EXCEPT ![i] = Empty]
      BY <1>11, <2>2 DEF Crash, Return, TypeOK
    <3>2. "idle" \in PC \ Updating
      BY DEF PC, Updating, Filling
    <3>3. via' \in [Issue -> {"none", "flag", "gap"}] /\ \A j \in Issue \ {i} : via'[j] = via[j]
      BY <3>1 DEF TypeOK
    <3> QED BY <2>2, <3>1, <3>2, <3>3, ExactStays
  <2> QED BY <2>1, <2>2
<1>14. ASSUME NEW i \in Issue, WriteFails(i) PROVE ExactInv'
  BY <1>14 DEF WriteFails, ExactInv
<1>12. ASSUME NEW i \in Issue, Start(i) \/ Step(i) \/ Crash(i) PROVE ExactInv'
  <2>1. CASE Revalidate(i)
    BY <2>1, <1>4, <1>7
  <2>2. CASE Start(i) \/ Crash(i)
    BY <2>2, <1>2, <1>11
  <2>3. CASE GaveUp(i) \/ GapsExceeded(i)
    BY <2>3, <1>7
  <2> QED BY <1>12, <2>1, <2>2, <2>3, <1>2, <1>3, <1>4, <1>5, <1>6, <1>7, <1>8, <1>9, <1>10, <1>14
         DEF Step
<1>13. ASSUME NEW i \in Issue, TaskSwitch(i) PROVE ExactInv'
  BY <1>13 DEF TaskSwitch, ExactInv, Alone
<1> QED BY <1>1, <1>12, <1>13 DEF Next

LEMMA ExactInit == Init => ExactInv /\ GapInv
BY DEF Init, ExactInv, GapInv, Updating, Filling

\* The history file counts every escalated run exactly once, whatever runs of
\* other issues do meanwhile, as long as no two updates overlap and none fails or
\* dies.
THEOREM HistoryIsExact == Spec => []HistoryExact
<1>1. ExactInv => HistoryExact
  BY DEF ExactInv, HistoryExact
<1> QED BY <1>1, InitType, NextType, GapNext, ExactInit, ExactNext, PTL DEF Spec

\* As long as the history is undamaged, a plan that escalated twice meets the
\* architect before its next attempt, unless the run came by the flag.
THEOREM ThresholdReached == Spec => []ThresholdForcesGap
<1>1. ExactInv => ThresholdForcesGap
  BY DEF ExactInv, ThresholdForcesGap
<1> QED BY <1>1, InitType, NextType, GapNext, ExactInit, ExactNext, PTL DEF Spec

-----------------------------------------------------------------------------
(* Every issue's runs use the loop as LoopContract has it.                 *)

\* What the contract of an issue makes of a step: the loop begins, it ends, or
\* its callers do something while it does not run.
LEMMA LoopBegins ==
  ASSUME NEW i \in Issue, pc[i] # "loop", result[i] # "running",
         pc'[i] = "loop", plan'[i] = TRUE
  PROVE  Loop(i)!Next
BY DEF Loop!Next, Loop!Begin

LEMMA LoopOutside ==
  ASSUME NEW i \in Issue, pc[i] # "loop", result[i] # "running",
         pc'[i] # "loop", result'[i] # "running"
  PROVE  Loop(i)!Next
BY DEF Loop!Next, Loop!Outside

LEMMA LoopEnding ==
  ASSUME NEW i \in Issue, pc[i] = "loop", pc'[i] # "loop",
         \/ result'[i] = "IMPLEMENTATION_ESCALATE" /\ plan'[i] \in BOOLEAN
         \/ /\ result'[i] \in {"HARNESS_DONE", "MERGE_CONFLICT_ESCALATE", "HARNESS_KILLED", "ERROR",
                              "exception"}
            /\ plan'[i] = plan[i]
  PROVE  Loop(i)!Next
BY DEF Loop!Next, Loop!End, Loop!Missing, Loop!Done, Loop!GiveUp, Loop!Stopped, Loop!Raised,
       Loop!Escalation, Loop!Stop

LEMMA LoopMeanwhile ==
  ASSUME NEW i \in Issue, TaskSwitch(i), TypeOK
  PROVE  Loop(i)!Next
<1>1. /\ pc'[i] = pc[i] /\ result'[i] = result[i] /\ result[i] # "running"
      /\ plan'[i] \in BOOLEAN
  BY DEF TaskSwitch, TypeOK, Result
<1>2. CASE pc[i] = "loop"
  BY <1>1, <1>2 DEF Loop!Next, Loop!Meanwhile
<1>3. CASE pc[i] # "loop"
  BY <1>1, <1>3, LoopOutside
<1> QED BY <1>2, <1>3

LEMMA OwnStep ==
  ASSUME TypeOK, TypeOK', NEW i \in Issue, Start(i) \/ Step(i) \/ TaskSwitch(i) \/ Crash(i)
  PROVE  Loop(i)!Next
<1>0. result[i] # "running" /\ result'[i] # "running" /\ plan'[i] \in BOOLEAN
  BY DEF TypeOK, Result
<1>1. CASE ReEnter(i)
  BY <1>0, <1>1, LoopBegins DEF ReEnter, Known, At, Goto, TypeOK
<1>2. CASE Passed(i) /\ (Validate(i) \/ Revalidate(i))
  BY <1>0, <1>2, LoopBegins DEF Validate, Revalidate, Passed, At, Goto, TypeOK
<1>3. CASE ~Passed(i) /\ (Validate(i) \/ Revalidate(i))
  <2>1. pc[i] # "loop" /\ pc'[i] \in {"rework", "record"}
    BY <1>3 DEF Validate, Revalidate, Escalate, At, Goto, TypeOK
  <2> QED BY <1>0, <2>1, LoopOutside
<1>4. CASE \/ Start(i) \/ DesignRequired(i) \/ KeepPlan(i) \/ CallArchitect(i)
           \/ EnsureDepth(i) \/ BelowThreshold(i) \/ AutoSpecGap(i) \/ GapAnswered(i)
           \/ NothingToClear(i) \/ Truncate(i) \/ ClearCount(i) \/ Record(i) \/ Rework(i)
           \/ Killed(i) \/ WriteFails(i)
  <2>1. pc[i] # "loop"
    BY <1>4 DEF Start, DesignRequired, KeepPlan, CallArchitect, EnsureDepth, BelowThreshold,
                AutoSpecGap, GapAnswered, NothingToClear, Truncate, ClearCount, Record, Rework,
                Killed, WriteFails, Known, Unknown, At, Filling
  <2>2. \E to \in PC \ {"loop"} : pc' = [pc EXCEPT ![i] = to]
    BY <1>4 DEF Start, DesignRequired, KeepPlan, CallArchitect, EnsureDepth, BelowThreshold,
                AutoSpecGap, GapAnswered, NothingToClear, Truncate, ClearCount, Record, Rework,
                Killed, WriteFails, Goto, Return, PC, Updating, Filling
  <2> QED BY <1>0, <2>1, <2>2, LoopOutside DEF TypeOK
<1>5. CASE GaveUp(i) \/ GapsExceeded(i)
  <2>1. pc[i] = "loop" /\ pc'[i] = "record" /\ result'[i] = "IMPLEMENTATION_ESCALATE"
    BY <1>5 DEF GaveUp, GapsExceeded, Escalate, At, TypeOK
  <2> QED BY <1>0, <2>1, LoopEnding
<1>6. CASE LoopEnds(i)
  <2>1. /\ pc[i] = "loop" /\ pc'[i] = "idle" /\ plan'[i] = plan[i]
        /\ result'[i] \in {"HARNESS_DONE", "MERGE_CONFLICT_ESCALATE", "HARNESS_KILLED", "ERROR"}
    BY <1>6 DEF LoopEnds, At, Return, TypeOK
  <2> QED BY <2>1, LoopEnding
<1>7. CASE Crash(i)
  <2>1. pc'[i] = "idle" /\ result'[i] = "exception" /\ plan'[i] = plan[i]
    BY <1>7 DEF Crash, Return, TypeOK
  <2>2. CASE pc[i] = "loop"
    BY <2>1, <2>2, LoopEnding
  <2>3. CASE pc[i] # "loop"
    BY <1>0, <2>1, <2>3, LoopOutside
  <2> QED BY <2>2, <2>3
<1>8. CASE Step(i)
  <2>1. CASE Validate(i) \/ Revalidate(i)
    BY <2>1, <1>2, <1>3
  <2> QED BY <1>8, <2>1, <1>1, <1>4, <1>5, <1>6 DEF Step
<1> QED BY <1>4, <1>7, <1>8, LoopMeanwhile

\* A step of another issue.
LEMMA OthersStep ==
  ASSUME TypeOK, NEW i \in Issue, NEW j \in Issue \ {i},
         Start(j) \/ Step(j) \/ TaskSwitch(j) \/ Crash(j)
  PROVE  UNCHANGED Loop(i)!vars
<1> SUFFICES pc'[i] = pc[i] /\ result'[i] = result[i] /\ plan'[i] = plan[i]
  BY DEF Loop!vars
<1> USE DEF Goto, Return, Escalate, Passed, TypeOK
<1>1. CASE \/ Start(j) \/ ReEnter(j) \/ DesignRequired(j) \/ KeepPlan(j) \/ CallArchitect(j)
           \/ EnsureDepth(j) \/ BelowThreshold(j) \/ AutoSpecGap(j) \/ GapAnswered(j)
  BY <1>1 DEF Start, ReEnter, DesignRequired, KeepPlan, CallArchitect, EnsureDepth,
              BelowThreshold, AutoSpecGap, GapAnswered
<1>2. CASE \/ NothingToClear(j) \/ Truncate(j) \/ ClearCount(j) \/ Record(j) \/ Rework(j)
           \/ Killed(j) \/ Crash(j) \/ WriteFails(j)
  BY <1>2 DEF NothingToClear, Truncate, ClearCount, Record, Rework, Killed, Crash, WriteFails
<1>3. CASE Validate(j) \/ Revalidate(j) \/ GaveUp(j) \/ GapsExceeded(j) \/ LoopEnds(j)
           \/ TaskSwitch(j)
  BY <1>3 DEF TaskSwitch, Validate, Revalidate, GaveUp, GapsExceeded, LoopEnds
<1> QED BY <1>1, <1>2, <1>3 DEF Step

\* Side by side and over any number of runs: every issue begins the loop with
\* its plan marked as validated and takes each end as the contract states it.
THEOREM KeepsToContract == Spec => UsesLoopContract
<1>1. ASSUME TypeOK, TypeOK', [Next]_vars
      PROVE  [\A i \in Issue : Loop(i)!Next \/ UNCHANGED Loop(i)!vars]_vars
  <2>1. CASE UNCHANGED vars
    BY <2>1
  <2>2. ASSUME NEW j \in Issue, Start(j) \/ Step(j) \/ TaskSwitch(j) \/ Crash(j),
               NEW i \in Issue
        PROVE  Loop(i)!Next \/ UNCHANGED Loop(i)!vars
    <3>1. CASE i = j
      BY <1>1, <2>2, <3>1, OwnStep
    <3>2. CASE i # j
      BY <1>1, <2>2, <3>2, OthersStep
    <3> QED BY <3>1, <3>2
  <2> QED BY <1>1, <2>1, <2>2 DEF Next
<1> QED BY <1>1, InitType, NextType, PTL DEF Spec, UsesLoopContract
=============================================================================
