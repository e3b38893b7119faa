------------------------------ MODULE ImplLoop ------------------------------
(***************************************************************************)
(* The implementation loop of harness/impl_loop.py: run_simple and         *)
(* _run_std_deep as one machine, run_simple being the chain with fewer     *)
(* workers.  One action is one worker of the chain: its kill_check, the    *)
(* agent call, its budget_check and the branch on the agent's answer.      *)
(* Agents are the environment: their answers and edits are arbitrary, and  *)
(* a kill may fall between the check and the start of the agent.           *)
(***************************************************************************)
EXTENDS Integers, FiniteSets

CONSTANTS Worktree,     \* config.isolation = "worktree"
          TestCommand,  \* config.test_command is set
          CallCap,      \* --max-budget-usd of every agent call
          Costs,        \* what an agent call may cost (0 when no cost file)
          MaxCost,      \* config.max_total_cost
          Changes       \* what agents may leave in the working tree

ChangeKind == {"edit", "new", "gone"}  \* tracked file, new file, removed file
Missed == "missed"                     \* a change that a git command failed to take

ASSUME ImplLoopAssumption ==
  /\ Worktree \in BOOLEAN /\ TestCommand \in BOOLEAN
  /\ CallCap \in Nat /\ Costs \subseteq 0 .. CallCap /\ MaxCost \in Nat
  /\ Changes \subseteq ChangeKind

MAX == 3
MAX_SPEC_GAP == 2

Depth == {"simple", "std", "deep"}
Rank(d) == CASE d = "simple" -> 0 [] d = "std" -> 1 [] d = "deep" -> 2
FailType == {"autocheck_fail", "test_fail", "validator_fail", "pr_fail", "security_fail"}
Flag == {"active", "plan", "test", "validator", "lgtm", "security"}
Gate == {"checks", "tests", "validator", "review", "security"}

VARIABLES pc, result,      \* the worker about to run; what the run returned
          depth,
          attempt, gaps,   \* attempt, spec_gap_count
          failType,        \* fail_type, "none" when empty
          recent,          \* types with a timestamp in the breaker's window
          flags,           \* the flag files of the session and issue
          dirty,           \* kinds of uncommitted change in the working tree
          total,           \* total_cost
          kill,            \* harness_kill in .global.json
          cwd, origCwd,    \* the process's directory; _orig_cwd
          cooldown,        \* where a merge cooldown file lies, or "none"
          merged,          \* the PR is merged on the remote
          \* History: read by properties only.
          refused,         \* GitHub refused the merge
          gates,           \* gates passed since the last implementation round
          fails,           \* failures of each type inside the window, which a
                           \* depth upgrade starts afresh
          rounds,          \* engineer rounds of the whole run
          spent,           \* what all agent calls have cost
          late             \* agent calls begun with the kill signal set

control  == <<pc, result>>
counters == <<depth, attempt, gaps, failType>>
breaker  == <<recent, fails>>
money    == <<total, spent>>
place    == <<cwd, origCwd, cooldown, merged, refused>>
signal   == <<kill, late>>
vars == <<control, counters, breaker, flags, dirty, money, place, signal, gates, rounds>>

Workers == {"top", "tdd", "engineer", "gap", "checks", "fallback", "green", "validator",
            "missing", "review", "polish", "security", "merge", "gh", "heal"}

\* Mutant: the security review is started like POLISH, without kill_check.
CheckedButSecurity ==
  Workers \ {"gap", "checks", "missing", "polish", "merge", "gh", "heal", "security"}

\* Workers whose first step is kill_check.
Checked == Workers \ {"gap", "checks", "missing", "polish", "merge", "gh", "heal"}
Unkilled == pc \in Checked => ~kill

-----------------------------------------------------------------------------
(* Steps shared by the workers.                                            *)

Goto(to) == pc' = to /\ UNCHANGED result
Return(r) == pc' = "end" /\ result' = r

\* Mutants: the attempt is counted by the worker and by rollback_attempt; every
\* failure gives the SPEC_GAP budget back.
FailTwice(t) ==
  /\ Goto("top")
  /\ attempt' = attempt + 2
  /\ failType' = t
  /\ fails' = [fails EXCEPT ![t] = @ + 1]
  /\ UNCHANGED <<depth, gaps, recent>>

FailForgetsGaps(t) ==
  /\ Goto("top")
  /\ attempt' = attempt + 1
  /\ gaps' = 0
  /\ failType' = t
  /\ fails' = [fails EXCEPT ![t] = @ + 1]
  /\ UNCHANGED <<depth, recent>>

\* append_failure, rollback_attempt (which keeps the changes), attempt += 1.
Fail(t) ==
  /\ Goto("top")
  /\ attempt' = attempt + 1
  /\ failType' = t
  /\ fails' = [fails EXCEPT ![t] = @ + 1]
  /\ UNCHANGED <<depth, gaps, recent>>

Pass(g, to) ==
  /\ Goto(to)
  /\ gates' = gates \cup g
  /\ UNCHANGED <<counters, breaker>>

\* An agent call: what it costs, and whether a kill is pending when the agent
\* starts.  A kill may still come after the worker's kill_check: the context,
\* the prompt and the handoff are put together in between.
Call(c) ==
  /\ spent' = spent + c
  /\ kill' \in {kill, TRUE}
  /\ late' = IF kill' THEN late + 1 ELSE late

\* budget_check with a starting sum: above the cap it clears HARNESS_ACTIVE
\* and exits; its value becomes total_cost only where the caller assigns it.
Over(sum) == sum > MaxCost

\* Mutant: over the cap the run takes the plan's validation back.
ExceededForgetsPlan ==
  /\ Return("HARNESS_BUDGET_EXCEEDED")
  /\ flags' = flags \ {"active", "plan"}
  /\ UNCHANGED <<counters, breaker, gates>>

Exceeded ==
  /\ Return("HARNESS_BUDGET_EXCEEDED")
  /\ flags' = flags \ {"active"}
  /\ UNCHANGED <<counters, breaker, gates>>

\* What an agent leaves in the working tree.
Touch(kinds) == \E made \in SUBSET (kinds \cap Changes) : dirty' = dirty \cup made

\* What is left of the changes d after git add + commit of what
\* collect_changed_files lists: removed files, whose `git status` lines match
\* none of its patterns; and whatever git fails on, for a git status, add or
\* commit that fails is not noticed, and AM and MM lines are not listed.
Committed(d) ==
  LET removed == d \cap {"gone"} IN
  IF d = removed THEN {removed} ELSE {removed, removed \cup {Missed}}

-----------------------------------------------------------------------------
(* Entry and loop head.                                                    *)

Init ==
  /\ pc = "enter" /\ result = "none"
  /\ depth \in Depth
  /\ attempt = 0 /\ gaps = 0 /\ failType = "none" /\ recent = {}
  /\ flags \in SUBSET {"lgtm", "security"}   \* left by an earlier run
  /\ dirty = {}
  /\ total = 0 /\ kill = FALSE
  /\ cwd = "main" /\ origCwd = "main" /\ cooldown = "none" /\ merged = FALSE
  /\ refused = FALSE
  /\ gates = {} /\ fails = [t \in FailType |-> 0]
  /\ rounds = 0 /\ spent = 0 /\ late = 0

\* Every entry, the one of a depth upgrade too, starts with fresh counters and
\* remembers the directory it was entered from.
Enter ==
  /\ pc = "enter"
  /\ \/ Return("ERROR")   \* the impl file is not where cwd makes it
        /\ UNCHANGED <<counters, breaker, flags, total, cwd, origCwd>>
     \/ /\ Goto("top")
        /\ attempt' = 0 /\ gaps' = 0 /\ failType' = "none"
        /\ recent' = {} /\ fails' = [t \in FailType |-> 0]
        /\ total' = 0
        /\ flags' = flags \cup {"active", "plan"}
        /\ origCwd' = cwd
        /\ cwd' = IF Worktree THEN "worktree" ELSE cwd
        /\ UNCHANGED depth
  /\ UNCHANGED <<dirty, spent, cooldown, merged, refused, signal, gates, rounds>>

\* kill_check: consume the signal, clear HARNESS_ACTIVE, exit.
KillCheck ==
  /\ pc \in Checked /\ kill
  /\ ~(pc = "top" /\ attempt = MAX)
  /\ Return("HARNESS_KILLED")
  /\ kill' = FALSE
  /\ flags' = flags \ {"active"}
  /\ UNCHANGED <<counters, breaker, dirty, money, place, late, gates, rounds>>

\* Mutant: the loop condition and the escalation disagree by one.
ExhaustedLate ==
  /\ pc = "top" /\ attempt > MAX
  /\ Return("IMPLEMENTATION_ESCALATE")
  /\ flags' = flags \ {"plan"}
  /\ UNCHANGED <<counters, breaker, dirty, money, place, signal, gates, rounds>>

\* The loop condition fails: the attempts are used up.
Exhausted ==
  /\ pc = "top" /\ attempt = MAX
  /\ Return("IMPLEMENTATION_ESCALATE")
  /\ flags' = flags \ {"plan"}
  /\ UNCHANGED <<counters, breaker, dirty, money, place, signal, gates, rounds>>

\* _circuit_breaker_check: the last failure's type already has a timestamp
\* inside the window.
Tripped == failType \in recent

\* Mutant: a SPEC_GAP that clears fail_type clears the window too.
RecordedAfresh == IF failType = "none" THEN {} ELSE recent \cup {failType}

Recorded == IF failType = "none" THEN recent ELSE recent \cup {failType}

BreakerTrips ==
  /\ pc = "top" /\ attempt < MAX /\ Unkilled
  /\ Tripped
  /\ Return("IMPLEMENTATION_ESCALATE")
  /\ flags' = flags \ {"plan"}
  /\ UNCHANGED <<counters, breaker, dirty, money, place, signal, gates, rounds>>

TddActive == attempt = 0 /\ TestCommand /\ depth # "simple"

NextRound ==
  /\ pc = "top" /\ attempt < MAX /\ Unkilled
  /\ ~Tripped
  /\ recent' = Recorded
  /\ Goto(IF TddActive THEN "tdd" ELSE "engineer")
  /\ UNCHANGED <<counters, fails, flags, dirty, money, place, signal, gates, rounds>>

\* 1800 s have passed since the recorded failures of type t; one that has just
\* happened and is not yet recorded is younger than that.
WindowPasses(t) ==
  /\ pc # "end" /\ t \in recent
  /\ recent' = recent \ {t}
  /\ fails' = [fails EXCEPT ![t] = IF pc = "top" /\ failType = t THEN 1 ELSE 0]
  /\ UNCHANGED <<control, counters, flags, dirty, money, place, signal, gates, rounds>>

-----------------------------------------------------------------------------
(* The chain.                                                              *)

\* test-engineer, TDD mode: a missing TESTS_WRITTEN is only logged.
TestsFirst ==
  /\ pc = "tdd" /\ Unkilled
  /\ \E c \in Costs :
       /\ Call(c)
       /\ total' = total + c
       /\ \/ Over(total + c) /\ Exceeded
          \/ ~Over(total + c) /\ Goto("engineer") /\ UNCHANGED <<counters, breaker, flags, gates>>
  /\ Touch({"new"})
  /\ UNCHANGED <<place, rounds>>

\* The sum restarts from 0: budget_check("engineer", ..., 0, ...).
Engineer ==
  /\ pc = "engineer" /\ Unkilled
  /\ rounds' = rounds + 1
  /\ \E c \in Costs :
       /\ Call(c)
       /\ total' = c
       /\ \/ Over(c) /\ Exceeded
          \/ /\ ~Over(c)
             /\ gates' = {}
             /\ UNCHANGED flags
             /\ \/ Fail("autocheck_fail")             \* no output
                \/ /\ gaps' = gaps + 1                \* SPEC_GAP_FOUND
                   /\ IF gaps' > MAX_SPEC_GAP
                        THEN Return("IMPLEMENTATION_ESCALATE")
                        ELSE Goto("gap")
                   /\ UNCHANGED <<depth, attempt, failType, breaker>>
                \/ Goto("checks") /\ UNCHANGED <<counters, breaker>>
  /\ Touch(ChangeKind)
  /\ UNCHANGED place

\* architect, SPEC_GAP: no kill_check, and its cost is not kept.  Whatever it
\* answers, the attempt is frozen; a re-declared depth only goes up.
SpecGap ==
  /\ pc = "gap"
  /\ \E c \in Costs :
       /\ Call(c)
       /\ \/ Over(total + c) /\ Exceeded
          \/ /\ ~Over(total + c)
             /\ UNCHANGED <<attempt, gaps, breaker, flags, gates>>
             /\ \/ /\ \E d \in Depth : Rank(d) > Rank(depth) /\ depth' = d
                   /\ Goto("enter")
                   /\ UNCHANGED failType
                \/ Goto("top") /\ failType' = "none" /\ UNCHANGED depth
                \/ /\ \E r \in {"PRODUCT_PLANNER_ESCALATION_NEEDED", "TECH_CONSTRAINT_CONFLICT"} :
                        Return(r)
                   /\ UNCHANGED <<depth, failType>>
  /\ Touch({"edit"})
  /\ UNCHANGED <<total, place, rounds>>

\* run_automated_checks, then the early commit and push.
ChecksAndCommit ==
  /\ pc = "checks"
  /\ \/ Fail("autocheck_fail") /\ UNCHANGED <<dirty, gates>>
     \/ /\ Pass({"checks"}, CASE depth = "simple"                -> "review"
                              [] depth # "simple" /\ TestCommand -> "green"
                              [] OTHER -> IF attempt = 0 THEN "fallback" ELSE "validator")
        /\ dirty' \in Committed(dirty)
  /\ UNCHANGED <<flags, money, place, signal, rounds>>

\* test-engineer after the commit, when there is no test_command: at attempt 0
\* only, so a later attempt goes on without it even if it failed here.
TestsFallback ==
  /\ pc = "fallback" /\ Unkilled
  /\ \E c \in Costs :
       /\ Call(c)
       /\ total' = total + c
       /\ \/ Over(total + c) /\ Exceeded
          \/ ~Over(total + c) /\ Fail("test_fail") /\ UNCHANGED <<flags, gates>>
          \/ /\ ~Over(total + c)
             /\ Pass({"tests"}, "validator")
             /\ flags' = flags \cup {"test"}
  /\ Touch({"new"})
  /\ UNCHANGED <<place, rounds>>

Green ==
  /\ pc = "green" /\ Unkilled
  /\ \/ Fail("test_fail") /\ UNCHANGED <<flags, gates>>
     \/ Pass({"tests"}, "validator") /\ flags' = flags \cup {"test"}
  /\ UNCHANGED <<dirty, money, place, signal, rounds>>

Validator ==
  /\ pc = "validator" /\ Unkilled
  /\ \E c \in Costs :
       /\ Call(c)
       /\ total' = total + c
       /\ \/ Over(total + c) /\ Exceeded
          \/ ~Over(total + c) /\ Fail("validator_fail") /\ UNCHANGED <<flags, gates>>
          \/ ~Over(total + c) /\ Pass({}, "missing") /\ UNCHANGED flags   \* SPEC_MISSING
          \/ /\ ~Over(total + c)
             /\ Pass({"validator"}, "review")
             /\ flags' = flags \cup {"validator"}
  /\ UNCHANGED <<dirty, place, rounds>>

\* architect, MODULE_PLAN: no kill_check; a validator failure in any case.
SpecMissing ==
  /\ pc = "missing"
  /\ \E c \in Costs :
       /\ Call(c)
       /\ \/ Over(total + c) /\ Exceeded
          \/ ~Over(total + c) /\ Fail("validator_fail") /\ UNCHANGED <<flags, gates>>
  /\ Touch({"edit"})
  /\ UNCHANGED <<total, place, rounds>>

\* Mutant: security_review_passed is trusted, whoever left it.
AfterReviewTrusting ==
  IF depth = "deep" /\ "security" \notin flags THEN "security" ELSE "merge"

AfterReview == IF depth = "deep" THEN "security" ELSE "merge"

\* Mutant: the reviewer's cost is not put before budget_check, as POLISH's is not.
ReviewUnpaid ==
  /\ pc = "review" /\ Unkilled
  /\ \E c \in Costs :
       /\ Call(c)
       /\ \/ Fail("pr_fail") /\ UNCHANGED <<flags, gates>>
          \/ /\ \E to \in {"polish", AfterReview} : Pass({"review"}, to)
             /\ flags' = flags \cup {"lgtm"}
  /\ UNCHANGED <<dirty, place, rounds, total>>

\* pr-reviewer, with or without items to polish (its own or the second
\* reviewer's).
Review ==
  /\ pc = "review" /\ Unkilled
  /\ \E c \in Costs :
       /\ Call(c)
       /\ total' = total + c
       /\ \/ Over(total + c) /\ Exceeded
          \/ ~Over(total + c) /\ Fail("pr_fail") /\ UNCHANGED <<flags, gates>>
          \/ /\ ~Over(total + c)
             /\ \E to \in {"polish", AfterReview} : Pass({"review"}, to)
             /\ flags' = flags \cup {"lgtm"}
  /\ UNCHANGED <<dirty, place, rounds>>

\* Mutant: polish that passes its checks is not committed.
PolishUncommitted ==
  /\ pc = "polish"
  /\ \E c \in Costs : Call(c)
  /\ Goto(AfterReview)
  /\ Touch(ChangeKind)
  /\ UNCHANGED <<total, counters, breaker, flags, gates, place, rounds>>

\* engineer, POLISH: no kill_check, no budget_check.  When lint, build or tests
\* fail, the changed files are checked out from the commit before it, in ONE
\* git checkout that does nothing if any of them is new to git; what is in the
\* tree is committed either way.
Polish ==
  /\ pc = "polish"
  /\ \E c \in Costs : Call(c)
  /\ Goto(AfterReview)
  /\ \E made \in SUBSET Changes : dirty' \in Committed(dirty \cup made)
  /\ UNCHANGED <<total, counters, breaker, flags, gates, place, rounds>>

Security ==
  /\ pc = "security" /\ Unkilled
  /\ \E c \in Costs :
       /\ Call(c)
       /\ total' = total + c
       /\ \/ Over(total + c) /\ Exceeded
          \/ ~Over(total + c) /\ Fail("security_fail") /\ UNCHANGED <<flags, gates>>
          \/ /\ ~Over(total + c)
             /\ Pass({"security"}, "merge")
             /\ flags' = flags \cup {"security"}
  /\ UNCHANGED <<dirty, place, rounds>>

\* A git command, lint, build or test run exceeds its timeout: nobody catches
\* the exception, which ends the process wherever the loop is.
CommandTimesOut ==
  /\ pc \in {"checks", "fallback", "green", "review", "polish", "security", "merge"}
  /\ pc # "fallback" => Unkilled   \* there the command runs before kill_check
  /\ Return("exception")
  /\ UNCHANGED <<counters, breaker, flags, dirty, money, place, signal, gates, rounds>>

-----------------------------------------------------------------------------
(* The last commit, the flags of the skipped workers, and merge_to_main.   *)

SkippedFlags == CASE depth = "simple" -> {"test", "validator", "security"}
                  [] depth = "std"    -> {"security"}
                  [] depth = "deep"   -> {}

\* merge_to_main's own gate.
MergeAllowed(f) == "lgtm" \in f /\ (depth = "deep" => "security" \in f)

\* The commit of the last changes, the flags of the workers the depth skips, the
\* way back out of the worktree, and the gate.
Merge ==
  /\ pc = "merge"
  /\ flags' = flags \cup SkippedFlags
  /\ dirty' \in IF depth = "simple" THEN {dirty} ELSE Committed(dirty)
  /\ cwd' = IF Worktree THEN origCwd ELSE cwd
  /\ IF MergeAllowed(flags') THEN Goto("gh") ELSE Return("MERGE_CONFLICT_ESCALATE")
  /\ UNCHANGED <<counters, breaker, money, origCwd, cooldown, merged, refused, signal,
                 gates, rounds>>

\* The worktree is removed: Path.cwd() raises for a process inside it, unless
\* the removal failed, which is not noticed.
Accepted ==
  /\ merged' = TRUE
  /\ \/ cwd = "worktree" /\ Return("exception") /\ UNCHANGED cooldown
     \/ Return("HARNESS_DONE") /\ cooldown' = IF cooldown = cwd THEN "none" ELSE cooldown

\* A gh or git command times out, before or after GitHub merged.
MergeTimesOut == Return("exception") /\ merged' \in BOOLEAN /\ UNCHANGED cooldown

\* push_and_ensure_pr and gh pr merge.
GhMerge ==
  /\ pc = "gh"
  /\ \/ (Accepted \/ MergeTimesOut) /\ UNCHANGED refused
     \/ Goto("heal") /\ refused' = TRUE /\ UNCHANGED <<cooldown, merged>>
  /\ UNCHANGED <<counters, breaker, flags, dirty, money, cwd, origCwd, signal, gates, rounds>>

\* Mutant: the refusal after a failed self-heal does not set the cooldown.
RefusedSilently ==
  /\ Return("MERGE_CONFLICT_ESCALATE")
  /\ cooldown' \in {cooldown, cwd}
  /\ UNCHANGED merged

\* The self-heal fails, or GitHub refuses the retry too.
Refused ==
  /\ Return("MERGE_CONFLICT_ESCALATE")
  /\ cooldown' = cwd
  /\ UNCHANGED merged

\* _attempt_merge_selfheal and the second gh pr merge.  None of the timeouts of
\* their commands is caught, and they leave no cooldown.
SelfHeal ==
  /\ pc = "heal"
  /\ Accepted \/ Refused \/ MergeTimesOut
  /\ UNCHANGED <<counters, breaker, flags, dirty, money, cwd, origCwd, refused, signal,
                 gates, rounds>>

\* /harness-kill, from any session, at any time of the run (once).
Kill ==
  /\ pc # "end" /\ ~kill
  /\ kill' = TRUE
  /\ UNCHANGED <<control, counters, breaker, flags, dirty, money, place, late, gates, rounds>>

\* A prompt that names this issue, after prompts about another one: the router
\* hook takes the flags back, whether or not a run of the issue is under way.
TaskSwitch ==
  /\ pc # "end"
  /\ flags' = flags \ {"plan", "test", "validator", "lgtm"}
  /\ UNCHANGED <<control, counters, breaker, dirty, money, place, signal, gates, rounds>>

-----------------------------------------------------------------------------
Step ==
  \/ Enter \/ KillCheck \/ Exhausted \/ BreakerTrips \/ NextRound
  \/ TestsFirst \/ Engineer \/ SpecGap \/ ChecksAndCommit \/ TestsFallback \/ Green
  \/ Validator \/ SpecMissing \/ Review \/ Polish \/ Security
  \/ CommandTimesOut \/ Merge \/ GhMerge \/ SelfHeal

Next == Step \/ Kill \/ TaskSwitch \/ \E t \in FailType : WindowPasses(t)

\* The fairness takes every command and agent call to return.  Commands have
\* timeouts; an agent call returns (CallReturns of AgentCall) unless a process
\* that outlives the killed agent keeps its output pipe open for good.  Nobody
\* has to kill the loop or to prompt, and the clock has no say.
Spec == Init /\ [][Next]_vars /\ WF_vars(Step)

-----------------------------------------------------------------------------
Result == {"none", "ERROR", "exception", "HARNESS_DONE", "HARNESS_KILLED",
           "HARNESS_BUDGET_EXCEEDED", "IMPLEMENTATION_ESCALATE",
           "MERGE_CONFLICT_ESCALATE", "PRODUCT_PLANNER_ESCALATION_NEEDED",
           "TECH_CONSTRAINT_CONFLICT"}
Place == {"main", "worktree"}

\* Every variable of the loop keeps its type.
TypeOK ==
  /\ pc \in Workers \cup {"enter", "end"} /\ result \in Result
  /\ depth \in Depth
  /\ attempt \in 0 .. MAX /\ gaps \in 0 .. MAX_SPEC_GAP + 1
  /\ failType \in FailType \cup {"none"} /\ recent \subseteq FailType
  /\ flags \subseteq Flag
  /\ dirty \subseteq Changes \cup {Missed}
  /\ total \in Nat /\ spent \in Nat
  /\ kill \in BOOLEAN /\ late \in Nat
  /\ cwd \in Place /\ origCwd \in Place
  /\ cooldown \in Place \cup {"none"}
  /\ merged \in BOOLEAN /\ refused \in BOOLEAN
  /\ gates \subseteq Gate
  /\ fails \in [FailType -> Nat]
  /\ rounds \in Nat

\* The workers, test-engineer aside, that a depth may not skip.
Required(d) ==
  {"checks", "review"}
    \cup (IF d = "simple" THEN {} ELSE {"validator"})
    \cup (IF d = "deep" THEN {"security"} ELSE {})

\* The tests passed, or the test writer did; without a test_command the code
\* does without them from the second attempt on.
Tested == depth = "simple" \/ "tests" \in gates \/ (~TestCommand /\ attempt > 0)

\* Nothing is merged unless automated checks, validator, reviewer and security
\* reviewer, as the FINAL depth wants them, passed on the code of the LAST
\* engineer round: neither flag files of an earlier run or attempt, nor gates
\* passed before a depth upgrade (impl_loop.py:456, 1147), nor a prompt that
\* removes flags in between let a branch through merge_to_main.  The tests
\* passed as well, with one exception: without a test_command the test writer
\* runs at attempt 0 only (impl_loop.py:1203-1206), and when it failed there the
\* next attempt is merged without any, although DEPTH_CHAINS lists it.
NothingMergesUnchecked == merged => Required(depth) \subseteq gates /\ Tested

\* However failures, SPEC_GAPs and depth upgrades alternate, the engineer is
\* called at most five times for a depth and four times for each lower one
\* (the counters of impl_loop.py:251-257 and 876-882 restart on an upgrade).
RoundsBounded == rounds <= 5 + 4 * Rank(depth)

\* What the loop spends.  budget_check adds up the calls of one engineer round
\* only: the engineer's restarts the sum, which drops what the test writer before
\* it has cost (impl_loop.py:383, 1072), and POLISH is never added (667, 1493).  So
\* max_total_cost (helpers.py:473) is no cap of the loop but of a round, beside
\* those two calls; the call that exceeds it is the last one.
RoundCap == MaxCost + (IF TestCommand THEN 2 ELSE 1) * CallCap
SpendingBounded == spent <= rounds * RoundCap + CallCap

\* After a kill at most two more agents start, wherever the signal meets the
\* loop: the one whose kill_check has just been passed, and then one that has no
\* kill_check (impl_loop.py:437, 667, 1137, 1358, 1493).
KillStopsWithinTwoCalls == late <= 2

\* The circuit breaker (impl_loop.py:68-100): no worker runs again once one
\* type of failure happened twice within the window, even when a SPEC_GAP in
\* between cleared fail_type.  Failures before a depth upgrade do not count:
\* the new entry starts an empty window (impl_loop.py:882), so the same failure
\* just before and just after an upgrade stops nothing.
BreakerHolds ==
  pc \in Workers \ {"top"} => \A t \in FailType : fails[t] <= 1

\* Only a merge that GitHub refused leaves a cooldown (core.py:1263-1289,
\* 1540-1557), in the main directory unless worktrees are used.  And a run that
\* GitHub refused leaves one, unless the retry merged or a command of the
\* self-heal timed out, which nobody catches (core.py:1297-1331).  A refusal by
\* merge_to_main's own gate, which a prompt causes that takes the LGTM back,
\* leaves none; one that comes after the gate changes nothing.
RefusedMergeCoolsDown ==
  /\ cooldown # "none" => /\ refused /\ result = "MERGE_CONFLICT_ESCALATE"
                          /\ Worktree \/ cooldown = "main"
  /\ refused /\ pc = "end" => merged \/ result = "exception" \/ cooldown # "none"

\* The loop keeps what its callers rely on: how it may end, and that no end but
\* an escalation takes plan_validation_passed back (impl_router.py:226).
Contract == INSTANCE LoopContract
  WITH state <- IF pc = "end" THEN result
                ELSE IF "active" \in flags THEN "running" ELSE "ready",
       plan  <- "plan" \in flags
KeepsContract == Contract!Spec

\* The loop ends, with a result, whatever the agents answer.
Termination == <>(pc = "end" /\ result # "none")

\* What is merged is the tree that was checked, reviewed and polished, up to
\* files that were removed in it (core.py:1605 never lists those) and to what a
\* git command failed on, whose exit code nobody reads (impl_loop.py:1190-1195,
\* 1614-1618, core.py:1600): every other change has been committed.
MergedUpToGitFailures == merged => dirty \subseteq {"gone", Missed}
=============================================================================
