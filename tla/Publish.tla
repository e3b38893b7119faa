-------------------------------- MODULE Publish --------------------------------
(***************************************************************************)
(* How the work on one issue reaches GitHub: create_feature_branch,        *)
(* push_and_ensure_pr, merge_to_main with its self-heal, and the merge     *)
(* cooldown of harness/core.py, over several runs of the issue.  Git and   *)
(* GitHub are the environment: every command may fail, and a command that  *)
(* exceeds its timeout ends the run.  The loop between two pushes is one   *)
(* step that commits.                                                      *)
(***************************************************************************)
EXTENDS Integers, FiniteSets

CONSTANTS Name,      \* branch names the issue may get: milestone and title are
                     \* asked from GitHub anew by every run
          MaxRuns,   \* runs of the issue
          MaxWork,   \* commits of all its runs
          MaxTrunk   \* merges into the default branch

ASSUME PublishAssumption ==
  /\ Name \cap {"main", "none", "detached"} = {}
  /\ MaxRuns \in Nat /\ MaxWork \in Nat /\ MaxTrunk \in Nat

VARIABLES pc, name, result,  \* step and branch name of the run; what the last returned
          left,              \* runs to come
          isolated,          \* config.isolation = "worktree"
          inside,            \* after a depth upgrade: the merge runs in the worktree
          head,              \* branch checked out where the runs work
          local, remote,     \* the branches here and on origin
          pr,                \* state of the newest PR of a branch
          trunk, landed,     \* merges into origin's default branch; commits in it
          cooldown,          \* a start finds a cooldown of the issue it can read
          \* History: read by properties only.
          made, mine,        \* commits so far; those of this run
          missed,            \* the last push of this run failed
          misplaced,         \* this run committed to another branch than its own
          stale,             \* this run's PR was not open when it was merged
          adrift,            \* commits made in the middle of a rebase
          barred,            \* GitHub refused the last merge; no --force-retry since
          unmarked           \* that merge left no cooldown the next start sees

run     == <<pc, name, result, left, isolated, inside>>
repo    == <<head, local>>
github  == <<remote, pr, trunk, landed>>
work    == <<made, mine, misplaced, adrift>>
refusal == <<barred, unmarked>>
vars == <<run, repo, github, cooldown, work, missed, stale, refusal>>

Branch == Name \cup {"main"}
\* A branch is the merge it starts from and the commits it adds.
Absent == [base |-> -1, work |-> {}]
Exists(b) == b # Absent
\* A push from b to a without force is a fast-forward.
FastForward(a, b) == a = Absent \/ (a.base = b.base /\ a.work \subseteq b.work)

Init ==
  /\ pc = "idle" /\ name \in Name /\ result = "none" /\ left = MaxRuns
  /\ isolated \in BOOLEAN /\ inside = FALSE
  /\ head = IF isolated THEN "none" ELSE "main"
  /\ local = [b \in Branch |-> IF b = "main" THEN [base |-> 0, work |-> {}] ELSE Absent]
  /\ remote = [b \in Name |-> Absent] /\ pr = [b \in Name |-> "none"]
  /\ trunk = 0 /\ landed = {} /\ cooldown = FALSE
  /\ made = 0 /\ mine = {} /\ missed = FALSE /\ misplaced = FALSE /\ stale = FALSE
  /\ adrift = {} /\ barred = FALSE /\ unmarked = FALSE

Goto(step) == pc' = step /\ UNCHANGED <<name, result, left, isolated, inside>>
Return(r) ==
  /\ pc' = "idle" /\ result' = r /\ inside' = FALSE
  /\ UNCHANGED <<name, left, isolated>>

-----------------------------------------------------------------------------
(* Entry: the cooldown guard, the orphan branch, the checkout.             *)

\* A plain start is turned away by a cooldown; --force-retry removes it.
Start ==
  /\ pc = "idle" /\ left > 0
  /\ \/ ~cooldown /\ UNCHANGED <<cooldown, refusal>>
     \/ cooldown' = FALSE /\ barred' = FALSE /\ unmarked' = FALSE
  /\ pc' = "clean" /\ left' = left - 1 /\ name' \in Name
  /\ mine' = {} /\ missed' = FALSE /\ misplaced' = FALSE /\ stale' = FALSE
  /\ UNCHANGED <<result, isolated, inside, repo, github, made, adrift>>

\* A remote branch without an open PR is deleted; a `gh pr list` that fails
\* counts as no PR.  GitHub closes the PR of a branch that goes.
CleanOrphan ==
  /\ pc = "clean" /\ Goto("branch")
  /\ \/ UNCHANGED <<remote, pr>>
     \/ /\ Exists(remote[name])
        /\ remote' = [remote EXCEPT ![name] = Absent]
        /\ pr' = [pr EXCEPT ![name] = IF @ = "open" THEN "closed" ELSE @]
  /\ UNCHANGED <<repo, trunk, landed, cooldown, work, missed, stale, refusal>>

\* Mutant: the branch is created anew whenever it is asked for.
CheckoutAfresh ==
  /\ pc = "branch" /\ Goto("work")
  /\ ~isolated
  /\ local' = [local EXCEPT ![name] = local["main"]]
  /\ head' = name
  /\ UNCHANGED <<github, cooldown, work, missed, stale, refusal>>

\* An existing branch is taken up again.  A failed `git checkout`, as in the
\* middle of a rebase, is not noticed, and an existing worktree is taken whatever
\* it is on.
Checkout ==
  /\ pc = "branch" /\ Goto("work")
  /\ \/ isolated = (head = "none")
        /\ head' = name
        /\ local' = IF Exists(local[name]) THEN local ELSE [local EXCEPT ![name] = local["main"]]
     \/ head # "none" /\ UNCHANGED repo
  /\ UNCHANGED <<github, cooldown, work, missed, stale, refusal>>

-----------------------------------------------------------------------------
(* Commits, pushes and the PR.                                             *)

\* In the middle of a rebase a commit is on no branch.
Commit ==
  /\ pc = "work" /\ made < MaxWork
  /\ Goto("push")
  /\ made' = made + 1 /\ mine' = mine \cup {made'}
  /\ IF head = "detached"
     THEN adrift' = adrift \cup {made'} /\ UNCHANGED local
     ELSE local' = [local EXCEPT ![head].work = @ \cup {made'}] /\ UNCHANGED adrift
  /\ misplaced' = (misplaced \/ head # name)
  /\ UNCHANGED <<head, github, cooldown, missed, stale, refusal>>

\* The loop escalates, is killed, or was refused by the merge's own gate.
GiveUp ==
  /\ pc = "work"
  /\ Return("escalated")
  /\ UNCHANGED <<repo, github, cooldown, work, missed, stale, refusal>>

\* merge_to_main pushes once more.  The loop has gone back to the main checkout,
\* except after a depth upgrade: what it goes back to is then the worktree.
BeginMerge ==
  /\ pc = "work"
  /\ pc' = "last-push" /\ UNCHANGED <<name, result, left, isolated>>
  /\ inside' \in IF isolated THEN BOOLEAN ELSE {FALSE}
  /\ UNCHANGED <<repo, github, cooldown, work, missed, stale, refusal>>

Pushed == remote' = [remote EXCEPT ![name] = local[name]] /\ missed' = FALSE

\* A push that fails is printed; the PR is not looked for then.
Push ==
  /\ pc \in {"push", "last-push"}
  /\ \/ /\ Exists(local[name]) /\ FastForward(remote[name], local[name])
        /\ Pushed
        /\ Goto(IF pc = "push" THEN "pr" ELSE "last-pr")
     \/ /\ missed' = TRUE /\ UNCHANGED remote
        /\ Goto(IF pc = "push" THEN "work" ELSE "merge")
  /\ UNCHANGED <<repo, pr, trunk, landed, cooldown, work, stale, refusal>>

\* `gh pr view` is content with a PR of any state.
EnsurePr ==
  /\ pc \in {"pr", "last-pr"}
  /\ Goto(IF pc = "pr" THEN "work" ELSE "merge")
  /\ \/ UNCHANGED pr
     \/ pr[name] # "open" /\ pr' = [pr EXCEPT ![name] = "open"]
  /\ UNCHANGED <<repo, remote, trunk, landed, cooldown, work, missed, stale, refusal>>

-----------------------------------------------------------------------------
(* merge_to_main.                                                          *)

\* GitHub squashes what the remote branch holds.  For a PR merged before, gh
\* reports success and does nothing.
Squash ==
  \/ /\ pr[name] = "open" /\ Exists(remote[name]) /\ trunk < MaxTrunk
     /\ trunk' = trunk + 1 /\ landed' = landed \cup remote[name].work
     /\ pr' = [pr EXCEPT ![name] = "merged"]
     /\ UNCHANGED stale
  \/ /\ pr[name] = "merged"
     /\ stale' = TRUE
     /\ UNCHANGED <<trunk, landed, pr>>

\* Mutant: gh pr merge --squash --delete-branch.
MergeDeleting ==
  /\ pc = "merge"
  /\ Squash
  /\ Goto("sync")
  /\ remote' = [remote EXCEPT ![name] = Absent]
  /\ local' = [local EXCEPT ![name] = Absent]
  /\ UNCHANGED <<head, cooldown, work, missed, refusal>>

\* gh pr merge says no, and the self-heal begins; or it says yes.
Merge ==
  /\ pc = "merge"
  /\ \/ Squash /\ Goto("sync") /\ barred' = FALSE
     \/ Goto("heal") /\ barred' = TRUE /\ UNCHANGED <<pr, trunk, landed, stale>>
  /\ unmarked' = FALSE
  /\ UNCHANGED <<repo, remote, cooldown, work, missed>>

\* Mutant: no cooldown is left when it was the self-heal that failed.
RefusedQuietly ==
  /\ Return("MERGE_CONFLICT_ESCALATE")
  /\ cooldown' = (cooldown \/ pc = "retry")
  /\ unmarked' = inside
  /\ UNCHANGED barred

\* The cooldown is left, under the directory the merge runs in, and the run
\* ends.  The next start looks for it in the main checkout.
Refused ==
  /\ Return("MERGE_CONFLICT_ESCALATE")
  /\ cooldown' = (cooldown \/ ~inside)
  /\ unmarked' = inside
  /\ UNCHANGED barred

Rebased(b) == [b EXCEPT !.base = trunk]

\* Where the self-heal checks the branch out: a checkout that a worktree run
\* does not work in is not followed.
Standing(b) == IF isolated /\ ~inside THEN head ELSE b
\* A branch that a worktree holds cannot be checked out next to it.
Reachable == Exists(local[name]) /\ (isolated /\ ~inside => head # name)

\* Mutant: the branch is first reset to what origin has.
HealFromOrigin ==
  /\ pc = "heal" /\ ~isolated
  /\ Exists(remote[name])
  /\ local' = [local EXCEPT ![name] = Rebased(remote[name])]
  /\ remote' = [remote EXCEPT ![name] = local'[name]]
  /\ head' = name /\ missed' = FALSE
  /\ Goto("retry")
  /\ UNCHANGED <<pr, trunk, landed, cooldown, work, stale, refusal>>

\* _attempt_merge_selfheal: fetch, checkout, rebase, push --force-with-lease.
Heal ==
  /\ pc = "heal"
  /\ Reachable
  /\ head' = Standing(name)
  /\ local' = [local EXCEPT ![name] = Rebased(@)]
  /\ remote' = [remote EXCEPT ![name] = local'[name]] /\ missed' = FALSE
  /\ Goto("retry")
  /\ UNCHANGED <<pr, trunk, landed, cooldown, work, stale, refusal>>

\* Each of its commands may fail or time out, and the code of `rebase --abort`
\* is ignored: nothing is done, the branch is checked out, it stands in the
\* middle of its rebase, or it is rebased and not pushed.
HealPartly ==
  \/ UNCHANGED repo
  \/ /\ Reachable
     /\ \/ head' \in {Standing(name), Standing("detached")} /\ UNCHANGED local
        \/ head' = Standing(name) /\ local' = [local EXCEPT ![name] = Rebased(@)]

HealFails ==
  /\ pc = "heal"
  /\ HealPartly
  /\ Refused
  /\ UNCHANGED <<github, work, missed, stale>>

Retry ==
  /\ pc = "retry"
  /\ \/ Squash /\ Goto("sync") /\ barred' = FALSE /\ UNCHANGED <<cooldown, unmarked>>
     \/ Refused /\ UNCHANGED <<pr, trunk, landed, stale>>
  /\ UNCHANGED <<repo, remote, work, missed>>

\* The worktree is removed, the default branch checked out, then git pull.
\* Nobody asks whether any of it succeeds.
Cleaned ==
  /\ head' \in {head} \cup (IF isolated THEN {"none"} ELSE {}) \cup {Standing("main")}
  /\ local' \in {local, [local EXCEPT !["main"] = Rebased(@)]}

Sync ==
  /\ pc = "sync"
  /\ Return("HARNESS_DONE")
  /\ cooldown' = FALSE
  /\ Cleaned
  /\ UNCHANGED <<github, work, missed, stale, refusal>>

\* A push that gets no answer may have arrived.
Unanswered ==
  \/ UNCHANGED remote
  \/ /\ pc \in {"push", "last-push"} /\ FastForward(remote[name], local[name])
     /\ remote' = [remote EXCEPT ![name] = local[name]]
  \/ /\ pc = "heal" /\ local' # local
     /\ remote' = [remote EXCEPT ![name] = local'[name]]

\* A command exceeds its timeout, or the process dies, the cooldown half
\* written; GitHub may have merged.
Crash ==
  /\ pc # "idle"
  /\ Return("exception")
  /\ \/ UNCHANGED <<pr, trunk, landed, stale>>
     \/ pc \in {"merge", "retry"} /\ Squash
  /\ \/ UNCHANGED repo
     \/ pc = "heal" /\ HealPartly
     \/ pc = "sync" /\ Cleaned
  /\ Unanswered
  /\ unmarked' = (unmarked \/ pc \in {"heal", "retry"})
  /\ UNCHANGED <<cooldown, work, missed, barred>>

-----------------------------------------------------------------------------
(* Others: merges of other issues; the user, who settles a PR by hand.     *)

OthersMerge ==
  /\ trunk < MaxTrunk /\ trunk' = trunk + 1
  /\ UNCHANGED <<run, repo, remote, pr, landed, cooldown, work, missed, stale, refusal>>

Settle(b) ==
  /\ pc = "idle" /\ pr[b] = "open"
  /\ \/ /\ Exists(remote[b]) /\ trunk < MaxTrunk
        /\ trunk' = trunk + 1 /\ landed' = landed \cup remote[b].work
        /\ pr' = [pr EXCEPT ![b] = "merged"]
     \/ pr' = [pr EXCEPT ![b] = "closed"] /\ UNCHANGED <<trunk, landed>>
  /\ UNCHANGED <<run, repo, remote, cooldown, work, missed, stale, refusal>>

-----------------------------------------------------------------------------
Step ==
  \/ CleanOrphan \/ Checkout \/ Commit \/ GiveUp \/ BeginMerge \/ Push \/ EnsurePr
  \/ Merge \/ Heal \/ HealFails \/ Retry \/ Sync

Next == Start \/ Step \/ Crash \/ OthersMerge \/ \E b \in Name : Settle(b)

\* Nobody has to start a run; the safety properties need no fairness.
Spec == Init /\ [][Next]_vars

-----------------------------------------------------------------------------
Commits == 1 .. MaxWork
Content == [base : -1 .. MaxTrunk, work : SUBSET Commits]

\* Every variable keeps its shape.
TypeOK ==
  /\ pc \in {"idle", "clean", "branch", "work", "push", "pr", "last-push", "last-pr",
             "merge", "heal", "retry", "sync"}
  /\ name \in Name /\ left \in 0 .. MaxRuns /\ isolated \in BOOLEAN
  /\ result \in {"none", "escalated", "MERGE_CONFLICT_ESCALATE", "HARNESS_DONE", "exception"}
  /\ inside \in BOOLEAN
  /\ head \in Branch \cup {"none", "detached"}
  /\ local \in [Branch -> Content] /\ remote \in [Name -> Content]
  /\ pr \in [Name -> {"none", "open", "closed", "merged"}]
  /\ trunk \in 0 .. MaxTrunk /\ landed \subseteq Commits
  /\ cooldown \in BOOLEAN
  /\ made \in 0 .. MaxWork /\ mine \subseteq Commits
  /\ missed \in BOOLEAN /\ misplaced \in BOOLEAN /\ stale \in BOOLEAN
  /\ adrift \subseteq Commits
  /\ barred \in BOOLEAN /\ unmarked \in BOOLEAN

\* Whatever fails, whatever is named, deleted, rebased or merged in between: no
\* commit of the issue disappears before it is in the default branch
\* (core.py:1422-1427, 1566: the local branch is taken up again and kept).  Only
\* what a run commits in the middle of a rebase that an earlier self-heal has
\* left is on no branch.
NothingLost ==
  \A c \in 1 .. made : c \in landed \/ c \in adrift \/ \E b \in Branch : c \in local[b].work

\* A run that reports HARNESS_DONE has brought every commit it made into the
\* default branch, unless its last push failed (core.py:1450), its checkout did
\* (core.py:1424, 1221) or it was content with an old PR (core.py:1460).
DoneMeansLanded ==
  pc = "sync" => mine \subseteq landed \/ missed \/ misplaced \/ stale

\* After GitHub has refused the issue's merge no run of it works again, under
\* whatever branch name, until the user forces it (executor.py:75-101,
\* core.py:1544-1559).  Two refusals leave no cooldown that the next start sees:
\* one whose self-heal or whose retry times out or dies, and one in the worktree
\* of a run whose depth was upgraded.
RefusedStaysOut == barred => pc \in {"idle", "heal", "retry"} \/ unmarked
=============================================================================
