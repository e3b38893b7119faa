----------------------------- MODULE PublishProofs -----------------------------
(***************************************************************************)
(* Theorems about Publish, for any branch names and any number of runs,    *)
(* commits and merges: type correctness, that no commit is lost, that a    *)
(* run that says it is done has landed its work, and that a refused issue  *)
(* stays out.                                                              *)
(***************************************************************************)
EXTENDS Publish, TLAPS

USE DEF run, repo, github, work, refusal

-----------------------------------------------------------------------------
(* Type correctness.                                                       *)

\* A run that is past its checkout stands on a branch.
OnBranch == pc \notin {"idle", "clean", "branch"} => head # "none"

TypeInv == TypeOK /\ OnBranch

LEMMA AbsentType == Absent \in Content
BY PublishAssumption DEF Absent, Content

LEMMA InitType == Init => TypeInv
<1> SUFFICES ASSUME Init PROVE TypeInv
  OBVIOUS
<1>1. [base |-> 0, work |-> {}] \in Content
  BY PublishAssumption DEF Content
<1>2. local \in [Branch -> Content] /\ remote \in [Name -> Content]
  BY <1>1, AbsentType DEF Init
<1>3. trunk \in 0 .. MaxTrunk /\ left \in 0 .. MaxRuns /\ made \in 0 .. MaxWork
  BY PublishAssumption DEF Init
<1> QED BY <1>2, <1>3 DEF Init, TypeInv, TypeOK, OnBranch, Branch

\* The parts of TypeOK that git and GitHub change, and the rest.
RepoOK == head \in Branch \cup {"none", "detached"} /\ local \in [Branch -> Content]
HubOK == /\ remote \in [Name -> Content]
         /\ pr \in [Name -> {"none", "open", "closed", "merged"}]
         /\ trunk \in 0 .. MaxTrunk /\ landed \subseteq Commits

\* A rebased branch is a branch.
LEMMA RebasedType ==
  ASSUME TypeOK, NEW b \in Branch
  PROVE  /\ Rebased(local[b]) \in Content
         /\ [local EXCEPT ![b] = Rebased(@)] \in [Branch -> Content]
<1>1. local[b] \in Content /\ trunk \in -1 .. MaxTrunk
  BY PublishAssumption DEF TypeOK
<1>2. Rebased(local[b]) \in Content
  BY <1>1 DEF Rebased, Content
<1> QED BY <1>2 DEF TypeOK

\* What a self-heal or a clean-up that stops half way leaves is a checkout.
LEMMA PartlyType ==
  ASSUME TypeInv, HealPartly \/ Cleaned
  PROVE  RepoOK'
<1>1. name \in Branch /\ "main" \in Branch
  BY DEF TypeInv, TypeOK, Branch
<1>2. /\ [local EXCEPT ![name] = Rebased(@)] \in [Branch -> Content]
      /\ [local EXCEPT !["main"] = Rebased(@)] \in [Branch -> Content]
  BY <1>1, RebasedType DEF TypeInv
<1>3. CASE HealPartly
  BY <1>1, <1>2, <1>3 DEF HealPartly, Standing, RepoOK, TypeInv, TypeOK
<1>4. CASE Cleaned
  BY <1>1, <1>2, <1>4 DEF Cleaned, Standing, RepoOK, TypeInv, TypeOK
<1> QED BY <1>3, <1>4

LEMMA RemoteType == ASSUME TypeOK, NEW b \in Name PROVE remote[b].work \subseteq Commits
BY DEF TypeOK, Content

LEMMA SquashType ==
  ASSUME TypeOK, Squash
  PROVE  /\ pr' \in [Name -> {"none", "open", "closed", "merged"}]
         /\ trunk' \in 0 .. MaxTrunk /\ landed' \subseteq Commits /\ stale' \in BOOLEAN
<1>1. remote[name].work \subseteq Commits
  BY RemoteType DEF TypeOK
<1>2. trunk' \in 0 .. MaxTrunk
  BY PublishAssumption DEF TypeOK, Squash
<1> QED BY <1>1, <1>2 DEF TypeOK, Squash

LEMMA CheckoutType == TypeInv /\ Checkout => TypeInv'
<1> SUFFICES ASSUME TypeInv, Checkout PROVE TypeInv'
  OBVIOUS
<1>1. name \in Branch /\ "main" \in Branch /\ name # "none"
  BY PublishAssumption DEF TypeInv, TypeOK, Branch
<1>2. CASE UNCHANGED repo /\ head # "none"
  BY <1>2 DEF Checkout, Goto, TypeInv, TypeOK, OnBranch
<1>3. CASE ~(UNCHANGED repo /\ head # "none")
  <2>1. RepoOK' /\ head' # "none"
    BY <1>1, <1>3 DEF Checkout, RepoOK, TypeInv, TypeOK
  <2> QED BY <2>1 DEF Checkout, Goto, RepoOK, TypeInv, TypeOK, OnBranch
<1> QED BY <1>2, <1>3

LEMMA CommitType == TypeInv /\ Commit => TypeInv'
<1> SUFFICES ASSUME TypeInv, Commit PROVE TypeInv'
  OBVIOUS
<1>1. made' \in 0 .. MaxWork /\ made' \in Commits
  BY PublishAssumption DEF Commit, TypeInv, TypeOK, Commits
<1>2. CASE head = "detached"
  BY <1>1, <1>2 DEF Commit, Goto, TypeInv, TypeOK, OnBranch
<1>3. CASE head # "detached"
  <2>1. head \in Branch /\ local[head] \in Content
    BY <1>3 DEF Commit, TypeInv, TypeOK, OnBranch
  <2>2. [local[head] EXCEPT !.work = @ \cup {made'}] \in Content
    BY <1>1, <2>1 DEF Content
  <2>3. local' \in [Branch -> Content]
    BY <1>3, <2>1, <2>2 DEF Commit, TypeInv, TypeOK
  <2> QED BY <1>1, <1>3, <2>3 DEF Commit, Goto, TypeInv, TypeOK, OnBranch
<1> QED BY <1>2, <1>3

LEMMA HealType == TypeInv /\ (Heal \/ HealFails) => TypeInv'
<1> SUFFICES ASSUME TypeInv, Heal \/ HealFails PROVE TypeInv'
  OBVIOUS
<1>1. name \in Branch /\ name # "none"
  BY PublishAssumption DEF TypeInv, TypeOK, Branch
<1>2. CASE Heal
  <2>1. RepoOK'
    BY <1>1, <1>2, RebasedType DEF Heal, Standing, RepoOK, TypeInv, TypeOK
  <2>2. head' # "none"
    BY <1>1, <1>2 DEF Heal, Standing, TypeInv, OnBranch
  <2>3. local'[name] \in Content
    BY <1>1, <2>1 DEF RepoOK
  <2>4. remote' \in [Name -> Content]
    BY <1>2, <2>3 DEF Heal, TypeInv, TypeOK
  <2> QED BY <1>2, <2>1, <2>2, <2>4 DEF Heal, Goto, RepoOK, TypeInv, TypeOK, OnBranch
<1>3. CASE HealFails
  <2>1. RepoOK'
    BY <1>3, PartlyType DEF HealFails
  <2>2. cooldown' \in BOOLEAN /\ unmarked' \in BOOLEAN
    BY <1>3 DEF HealFails, Refused, TypeInv, TypeOK
  <2> QED BY <1>3, <2>1, <2>2 DEF HealFails, Refused, Return, RepoOK, TypeInv, TypeOK, OnBranch
<1> QED BY <1>2, <1>3

LEMMA SyncType == TypeInv /\ Sync => TypeInv'
<1> SUFFICES ASSUME TypeInv, Sync PROVE TypeInv'
  OBVIOUS
<1>1. RepoOK'
  BY PartlyType DEF Sync
<1> QED BY <1>1 DEF Sync, Return, RepoOK, TypeInv, TypeOK, OnBranch

LEMMA CrashType == TypeInv /\ Crash => TypeInv'
<1> SUFFICES ASSUME TypeInv, Crash PROVE TypeInv'
  OBVIOUS
<1>1. RepoOK'
  BY PartlyType DEF Crash, RepoOK, TypeInv, TypeOK
<1>2. name \in Branch
  BY DEF TypeInv, TypeOK, Branch
<1>3. local[name] \in Content /\ local'[name] \in Content
  BY <1>1, <1>2 DEF RepoOK, TypeInv, TypeOK
<1>4. remote' \in [Name -> Content]
  BY <1>3 DEF Crash, Unanswered, TypeInv, TypeOK
<1>5. /\ pr' \in [Name -> {"none", "open", "closed", "merged"}]
      /\ trunk' \in 0 .. MaxTrunk /\ landed' \subseteq Commits /\ stale' \in BOOLEAN
  <2>1. CASE UNCHANGED <<pr, trunk, landed, stale>>
    BY <2>1 DEF TypeInv, TypeOK
  <2>2. CASE Squash
    BY <2>2, SquashType DEF TypeInv
  <2> QED BY <2>1, <2>2 DEF Crash
<1>6. unmarked' \in BOOLEAN
  BY DEF Crash, TypeInv, TypeOK
<1> QED BY <1>1, <1>4, <1>5, <1>6 DEF Crash, Return, RepoOK, TypeInv, TypeOK, OnBranch

LEMMA OthersType == TypeInv /\ (OthersMerge \/ \E b \in Name : Settle(b)) => TypeInv'
<1> SUFFICES ASSUME TypeInv, OthersMerge \/ \E b \in Name : Settle(b) PROVE TypeInv'
  OBVIOUS
<1>1. CASE OthersMerge
  BY <1>1, PublishAssumption DEF OthersMerge, TypeInv, TypeOK, OnBranch
<1>2. ASSUME NEW b \in Name, Settle(b) PROVE TypeInv'
  <2>1. remote[b].work \subseteq Commits
    BY RemoteType DEF TypeInv
  <2>2. trunk' \in 0 .. MaxTrunk
    BY <1>2, PublishAssumption DEF Settle, TypeInv, TypeOK
  <2>3. HubOK'
    BY <1>2, <2>1, <2>2 DEF Settle, HubOK, TypeInv, TypeOK
  <2> QED BY <1>2, <2>3 DEF Settle, HubOK, TypeInv, TypeOK, OnBranch
<1> QED BY <1>1, <1>2

LEMMA NextType == TypeInv /\ [Next]_vars => TypeInv'
<1> SUFFICES ASSUME TypeInv, [Next]_vars PROVE TypeInv'
  OBVIOUS
<1>1. CASE UNCHANGED vars
  BY <1>1 DEF vars, TypeInv, TypeOK, OnBranch
<1>2. CASE Start
  <2>1. left' \in 0 .. MaxRuns
    BY <1>2, PublishAssumption DEF Start, TypeInv, TypeOK
  <2>2. cooldown' \in BOOLEAN /\ barred' \in BOOLEAN /\ unmarked' \in BOOLEAN
    BY <1>2 DEF Start, TypeInv, TypeOK
  <2> QED BY <1>2, <2>1, <2>2 DEF Start, TypeInv, TypeOK, OnBranch
<1>3. CASE CleanOrphan
  BY <1>3, AbsentType DEF CleanOrphan, Goto, TypeInv, TypeOK, OnBranch
<1>4. CASE GiveUp
  BY <1>4 DEF GiveUp, Return, TypeInv, TypeOK, OnBranch
<1>8. CASE EnsurePr
  <2>1. pr' \in [Name -> {"none", "open", "closed", "merged"}]
    BY <1>8 DEF EnsurePr, TypeInv, TypeOK
  <2>2. pc' \in {"work", "merge"} /\ UNCHANGED <<name, result, left, isolated, inside>>
    BY <1>8 DEF EnsurePr, Goto
  <2>3. head' # "none"
    BY <1>8 DEF EnsurePr, TypeInv, OnBranch
  <2> QED BY <1>8, <2>1, <2>2, <2>3 DEF EnsurePr, TypeInv, TypeOK, OnBranch
<1>7. CASE BeginMerge
  <2>1. inside' \in BOOLEAN
    BY <1>7 DEF BeginMerge
  <2>2. head' # "none" /\ pc' = "last-push"
    BY <1>7 DEF BeginMerge, TypeInv, OnBranch
  <2> QED BY <1>7, <2>1, <2>2 DEF BeginMerge, TypeInv, TypeOK, OnBranch
<1>5. CASE Push
  <2>1. name \in Branch
    BY DEF TypeInv, TypeOK, Branch
  <2>2. remote' \in [Name -> Content] /\ missed' \in BOOLEAN
    BY <1>5, <2>1 DEF Push, Pushed, TypeInv, TypeOK
  <2> QED BY <1>5, <2>2 DEF Push, Goto, TypeInv, TypeOK, OnBranch
<1>6. CASE Merge \/ Retry
  <2>1. HubOK' /\ stale' \in BOOLEAN
    <3>1. Squash \/ UNCHANGED <<pr, trunk, landed, stale>>
      BY <1>6 DEF Merge, Retry
    <3>2. UNCHANGED remote
      BY <1>6 DEF Merge, Retry
    <3> QED BY <3>1, <3>2, SquashType DEF TypeInv, TypeOK, HubOK
  <2>2. /\ UNCHANGED <<name, left, isolated, head, local, made, mine, misplaced, missed, adrift>>
        /\ cooldown' \in BOOLEAN /\ barred' \in BOOLEAN /\ unmarked' \in BOOLEAN
        /\ inside' \in BOOLEAN
    BY <1>6 DEF Merge, Retry, Refused, Goto, Return, TypeInv, TypeOK
  <2>3. /\ pc' \in {"idle", "heal", "sync"}
        /\ pc \in {"merge", "retry"}
        /\ result' \in {result, "MERGE_CONFLICT_ESCALATE"}
    BY <1>6 DEF Merge, Retry, Refused, Goto, Return
  <2> QED BY <2>1, <2>2, <2>3 DEF HubOK, TypeInv, TypeOK, OnBranch
<1> QED BY <1>1, <1>2, <1>3, <1>4, <1>5, <1>6, <1>7, <1>8, CheckoutType, CommitType, HealType,
           SyncType, CrashType, OthersType DEF Next, Step

\* Branches hold commits only, and every run's place and result keep their types,
\* whatever pushes, merges, self-heals and crashes come between.
THEOREM TypeCorrect == Spec => []TypeOK
<1>1. TypeInv => TypeOK
  BY DEF TypeInv
<1> QED BY <1>1, InitType, NextType, PTL DEF Spec

-----------------------------------------------------------------------------
(* No commit is lost: the work of a local branch only grows.               *)

Grows == \A b \in Branch : local[b].work \subseteq local'[b].work

LEMMA WorkGrows == TypeInv /\ [Next]_vars => Grows
<1> SUFFICES ASSUME TypeInv, [Next]_vars PROVE Grows
  OBVIOUS
<1>1. CASE Checkout
  BY <1>1 DEF Checkout, Exists, Absent, Grows, TypeInv, TypeOK
<1>2. CASE Commit
  BY <1>2 DEF Commit, Grows, TypeInv, TypeOK, OnBranch, Content
<1>3. CASE Heal \/ HealFails \/ Sync \/ Crash
  <2>1. \/ UNCHANGED local
        \/ local' = [local EXCEPT ![name] = Rebased(@)]
        \/ local' = [local EXCEPT !["main"] = Rebased(@)]
    BY <1>3 DEF Heal, HealFails, Sync, Crash, HealPartly, Cleaned
  <2>2. ASSUME NEW b \in Branch, NEW a, local' = [local EXCEPT ![a] = Rebased(@)]
        PROVE  local[b].work \subseteq local'[b].work
    <3>1. local[b] \in Content
      BY DEF TypeInv, TypeOK
    <3>2. CASE b = a
      BY <2>2, <3>1, <3>2 DEF Rebased, TypeInv, TypeOK, Content
    <3>3. CASE b # a
      BY <2>2, <3>3 DEF TypeInv, TypeOK
    <3> QED BY <3>2, <3>3
  <2> QED BY <2>1, <2>2 DEF Grows
<1>4. CASE \/ UNCHANGED vars \/ Start \/ CleanOrphan \/ GiveUp \/ BeginMerge \/ Push \/ EnsurePr
           \/ Merge \/ Retry \/ OthersMerge \/ \E b \in Name : Settle(b)
  <2>1. UNCHANGED local
    BY <1>4 DEF vars, Start, CleanOrphan, GiveUp, BeginMerge, Push, EnsurePr, Merge, Retry,
                OthersMerge, Settle
  <2> QED BY <2>1 DEF Grows
<1> QED BY <1>1, <1>2, <1>3, <1>4 DEF Next, Step

\* What has landed stays, and only Commit makes commits, adrift or not.
LEMMA LandedGrows ==
  [Next]_vars => landed \subseteq landed' /\ (Commit \/ UNCHANGED <<made, adrift>>)
<1> SUFFICES ASSUME [Next]_vars
             PROVE  landed \subseteq landed' /\ (Commit \/ UNCHANGED <<made, adrift>>)
  OBVIOUS
<1>1. CASE Merge \/ Retry \/ Crash
  BY <1>1 DEF Merge, Retry, Crash, Squash
<1>2. CASE \E b \in Name : Settle(b)
  BY <1>2 DEF Settle
<1>3. CASE \/ UNCHANGED vars \/ Start \/ CleanOrphan \/ Checkout \/ Commit \/ GiveUp \/ BeginMerge
           \/ Push \/ EnsurePr \/ Heal \/ HealFails \/ Sync \/ OthersMerge
  BY <1>3 DEF vars, Start, CleanOrphan, Checkout, Commit, GiveUp, BeginMerge, Push, EnsurePr,
              Heal, HealFails, Sync, OthersMerge
<1> QED BY <1>1, <1>2, <1>3 DEF Next, Step

LEMMA LostNext == TypeInv /\ NothingLost /\ [Next]_vars => NothingLost'
<1> SUFFICES ASSUME TypeInv, NothingLost, [Next]_vars, NEW c \in 1 .. made'
             PROVE  \/ c \in landed' \/ c \in adrift'
                    \/ \E b \in Branch : c \in local'[b].work
  BY DEF NothingLost
<1>1. CASE c \in 1 .. made
  <2>1. c \in landed \/ c \in adrift \/ \E b \in Branch : c \in local[b].work
    BY <1>1 DEF NothingLost
  <2>2. adrift \subseteq adrift'
    BY LandedGrows DEF Commit
  <2> QED BY <2>1, <2>2, WorkGrows, LandedGrows DEF Grows
<1>2. CASE c \notin 1 .. made
  <2>1. Commit
    BY <1>2, LandedGrows
  <2>2. c = made'
    BY <1>2, <2>1 DEF Commit, TypeInv, TypeOK
  <2>3. CASE head = "detached"
    BY <2>1, <2>2, <2>3 DEF Commit
  <2>4. CASE head # "detached"
    <3>1. head \in Branch /\ local[head] \in Content
      BY <2>1, <2>4 DEF Commit, TypeInv, TypeOK, OnBranch
    <3>2. c \in local'[head].work
      BY <2>1, <2>2, <2>4, <3>1 DEF Commit, TypeInv, TypeOK, Content
    <3> QED BY <3>1, <3>2
  <2> QED BY <2>3, <2>4
<1> QED BY <1>1, <1>2

\* Whatever fails or is deleted, every commit ever made is on a local branch or
\* in the default branch, but for those a run makes in the middle of a rebase that
\* an earlier self-heal has left (core.py:1318-1323, 1424).
THEOREM NoCommitLost == Spec => []NothingLost
<1>1. Init => NothingLost
  BY DEF Init, NothingLost
<1> QED BY <1>1, InitType, NextType, LostNext, PTL DEF Spec

-----------------------------------------------------------------------------
(* HARNESS_DONE: the run's commits are followed from the local branch to   *)
(* origin's and from there into the default branch.                        *)

OnLocal  == mine \subseteq local[name].work \/ misplaced
OnRemote == mine \subseteq remote[name].work \/ missed \/ misplaced

LandInv ==
  /\ OnLocal
  /\ pc \in {"last-pr", "merge", "heal", "retry"} => OnRemote
  /\ DoneMeansLanded

\* A step of another kind than those that move commits.
LEMMA LandStays ==
  ASSUME TypeInv, LandInv, Grows, pc' # "sync", UNCHANGED <<name, mine, misplaced>>,
         pc' \notin {"last-pr", "merge", "heal", "retry"}
  PROVE  LandInv'
BY DEF LandInv, OnLocal, DoneMeansLanded, Grows, TypeInv, TypeOK, Branch

LEMMA SquashLands ==
  TypeInv /\ OnRemote /\ Squash => mine \subseteq landed' \/ missed \/ misplaced \/ stale'
BY DEF OnRemote, Squash, TypeInv, TypeOK

LEMMA LandNext == TypeInv /\ LandInv /\ [Next]_vars => LandInv'
<1> SUFFICES ASSUME TypeInv, LandInv, [Next]_vars PROVE LandInv'
  OBVIOUS
<1>0. Grows /\ name \in Branch /\ name \in Name /\ name \notin {"none", "detached"}
  BY WorkGrows, PublishAssumption DEF TypeInv, TypeOK, Branch
<1>1. CASE UNCHANGED vars
  BY <1>1 DEF vars, LandInv, OnLocal, OnRemote, DoneMeansLanded
<1>2. CASE Start
  BY <1>2 DEF Start, LandInv, OnLocal, DoneMeansLanded
<1>3. CASE CleanOrphan \/ Checkout \/ GiveUp \/ BeginMerge \/ Sync
  <2>1. /\ pc' \notin {"sync", "last-pr", "merge", "heal", "retry"}
        /\ UNCHANGED <<name, mine, misplaced>>
    BY <1>3 DEF CleanOrphan, Checkout, GiveUp, BeginMerge, Sync, Goto, Return
  <2> QED BY <1>0, <2>1, LandStays
<1>4. CASE HealFails \/ Crash
  <2>1. pc' = "idle" /\ UNCHANGED <<name, mine, misplaced>>
    BY <1>4 DEF HealFails, Crash, Refused, Return
  <2> QED BY <1>0, <2>1, LandStays
<1>5. CASE Commit
  <2>1. pc' = "push" /\ UNCHANGED name
    BY <1>5 DEF Commit, Goto
  <2>2. head = name => mine' \subseteq local'[name].work \/ misplaced
    BY <1>0, <1>5 DEF Commit, LandInv, OnLocal, TypeInv, TypeOK, Content
  <2>3. OnLocal'
    BY <1>5, <2>1, <2>2 DEF Commit, OnLocal
  <2> QED BY <2>1, <2>3 DEF LandInv, DoneMeansLanded
<1>6. CASE Push
  BY <1>0, <1>6 DEF Push, Pushed, Goto, LandInv, OnLocal, OnRemote, DoneMeansLanded, TypeInv,
                    TypeOK
<1>7. CASE EnsurePr
  BY <1>7 DEF EnsurePr, Goto, LandInv, OnLocal, OnRemote, DoneMeansLanded
<1>8. CASE Merge \/ Retry
  BY <1>8, SquashLands DEF Merge, Retry, Refused, Goto, Return, LandInv, OnLocal, OnRemote,
                           DoneMeansLanded
<1>9. CASE Heal
  <2>1. remote'[name] = local'[name] /\ UNCHANGED <<name, mine, misplaced>> /\ pc' = "retry"
    BY <1>0, <1>9 DEF Heal, Goto, TypeInv, TypeOK
  <2>2. OnLocal'
    BY <1>0, <2>1 DEF LandInv, OnLocal, Grows
  <2> QED BY <2>1, <2>2 DEF LandInv, OnLocal, OnRemote, DoneMeansLanded
<1>10. CASE OthersMerge
  BY <1>10 DEF OthersMerge, LandInv, OnLocal, OnRemote, DoneMeansLanded
<1>11. CASE \E b \in Name : Settle(b)
  <2>1. pc' = "idle" /\ UNCHANGED <<name, mine, misplaced>>
    BY <1>11 DEF Settle
  <2> QED BY <1>0, <2>1, LandStays
<1> QED BY <1>1, <1>2, <1>3, <1>4, <1>5, <1>6, <1>7, <1>8, <1>9, <1>10, <1>11 DEF Next, Step

\* HARNESS_DONE means that all the run committed is in the default branch, but
\* for the three ways the property names.
THEOREM DoneHasLanded == Spec => []DoneMeansLanded
<1>1. Init => LandInv
  BY DEF Init, LandInv, OnLocal, OnRemote, DoneMeansLanded
<1>2. LandInv => DoneMeansLanded
  BY DEF LandInv
<1> QED BY <1>1, <1>2, InitType, NextType, LandNext, PTL DEF Spec

-----------------------------------------------------------------------------
(* Between GitHub's refusal and the forced start the cooldown is there, as *)
(* soon as the run has ended.                                              *)

BarInv == barred /\ ~unmarked => (cooldown /\ pc = "idle") \/ pc \in {"heal", "retry"}

LEMMA BarNext == TypeInv /\ BarInv /\ [Next]_vars => BarInv'
<1> SUFFICES ASSUME TypeInv, BarInv, [Next]_vars PROVE BarInv'
  OBVIOUS
<1>1. CASE Start
  <2>1. pc = "idle"
    BY <1>1 DEF Start
  <2>2. CASE ~cooldown /\ UNCHANGED <<cooldown, refusal>>
    <3>1. ~(barred /\ ~unmarked)
      BY <2>1, <2>2 DEF BarInv
    <3> QED BY <2>2, <3>1 DEF BarInv
  <2>3. CASE barred' = FALSE
    BY <2>3 DEF BarInv
  <2> QED BY <1>1, <2>2, <2>3 DEF Start
<1>2. CASE Merge \/ Heal
  BY <1>2 DEF Merge, Heal, Goto, BarInv
<1>3. CASE HealFails \/ Retry
  BY <1>3 DEF HealFails, Retry, Refused, Goto, Return, BarInv, TypeInv, TypeOK
<1>4. CASE Crash \/ Sync
  BY <1>4 DEF Crash, Sync, Return, BarInv, TypeInv, TypeOK
<1>5. CASE \/ UNCHANGED vars \/ CleanOrphan \/ Checkout \/ Commit \/ GiveUp \/ BeginMerge
           \/ Push \/ EnsurePr \/ OthersMerge \/ \E b \in Name : Settle(b)
  BY <1>5 DEF vars, CleanOrphan, Checkout, Commit, GiveUp, BeginMerge, Push, EnsurePr,
              OthersMerge, Settle, Goto, Return, BarInv, TypeInv, TypeOK
<1> QED BY <1>1, <1>2, <1>3, <1>4, <1>5 DEF Next, Step

\* An issue whose merge GitHub has refused is not worked on until the user forces
\* it, unless the refusal left no cooldown that the next start sees: its self-heal
\* or retry timed out or died (core.py:1297-1331), or it ran in the worktree after
\* a depth upgrade (impl_loop.py:867).
THEOREM RefusedIssueWaits == Spec => []RefusedStaysOut
<1>1. Init => BarInv
  BY DEF Init, BarInv
<1>2. BarInv => RefusedStaysOut
  BY DEF BarInv, RefusedStaysOut
<1> QED BY <1>1, <1>2, InitType, NextType, BarNext, PTL DEF Spec
=============================================================================
