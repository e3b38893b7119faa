# TLA+ models of the agent harness

TLA+ modules, TLC runs and TLAPS proofs for the harness of this repository: the
Python program under `src/harness/` that drives Claude Code agents through
planning, implementation and merge, and the hooks under `src/hooks/` that share
state with it.

## The system

| Part | State it keeps | Operations | Hard behaviour | Module |
|---|---|---|---|---|
| `harness/executor.py` | run lease file, heartbeat thread, exit handlers | boot, heartbeat, cleanup | two processes boot together; SIGTERM runs cleanup twice; a daemon thread beside cleanup; SIGKILL | Executor |
| `hooks/session_state.py`, issue lock | `.issues/<prefix>_<issue>/lock` | claim, heartbeat, release, sweep | every operation reads, then writes; re-entry, takeover of dead or stale locks | Executor |
| `hooks/session_state.py`, global signal | `.global.json` `harness_kill` | set, read, consume | one file for all runs | KillSwitch |
| `hooks/session_state.py`, live state | `live.json`: agent, skill | update, clear, bump | read-modify-write by parallel hooks and the executor | LiveState |
| `harness/impl_router.py` | flags, escalate history, the plan file | re-enter, plan, close gaps, validate, dispatch | runs of several issues share one history file; flags of earlier runs | ImplRouter |
| `harness/impl_loop.py` | counters, circuit breaker, flag files, working tree, directory | run_simple, run_std, run_deep | retries, frozen attempts, depth upgrades, kill, budget, uncaught timeouts, prompts that remove flags | ImplLoop |
| `harness/core.py`, git side | branch, PR, worktree, cooldown | branch, commit, push, merge, self-heal | every command may fail or time out; old branches and PRs | Publish |
| `harness/core.py`, `agent_call` | child process, watchdog thread, output file | stream, time out, end | watchdog against a late answer; orphans that hold the pipe | AgentCall |
| `harness/plan_loop.py` | plan files, checkpoint, override flag | plan, review, UX flow, validate | re-entry after kills, crashes, lost files and the user's choices | PlanLoop |
| skill hooks, Stop hooks | active skill, ralph's state file | set, block the stop, release, claim | bounded blocking; all sessions stop into one file | LiveState, RalphClaim |
| `hooks/harness-router.py` | current issue, flags | flags removed at a switch of issues | acts while an executor is in its loop | ImplLoop, ImplRouter |
| `harness/helpers.py` | failure memory, costs | append_failure, budget_check, checks | sums that restart | ImplLoop |
| gates among the hooks | flag files, log | allow or deny a tool call | flags of another session or issue | (live.json part) |
| `harness/core.py`, bookkeeping | flags, escalate history, run log | touch, record, rotate | history file shared by runs | ImplRouter (history) |

How they interact: the executor boots behind two guards (the issue lock of the
*session*, the run lease of the *process*), starts a heartbeat thread and calls
`run_impl` (ImplRouter), which plans, validates and calls the loop of the plan's
depth (ImplLoop); the loop talks to agents through `agent_call` (AgentCall), to
the hooks through flag files and `live.json` (LiveState), to GitHub through the
git side of `core.py` (Publish) and to the user through `.global.json`
(KillSwitch). `PROJECT.json` lists every component with its status, and the
hazards with the properties that cover them.

What makes each part correct, in a sentence each: two runs of one issue exclude
each other and nobody is locked out by the dead; a kill is neither lost nor late;
no update of `live.json` may keep a session from stopping or Claude from its own
identity; a plan that failed is judged again, and escalations are counted once;
the loop ends, and what it merges passed every worker of the final depth; no
commit disappears, and DONE means landed; exit code 0 means a whole answer; what
nobody reviewed passes only on the user's word, once.  Where the code swallows an
error or leaves a window open, the property names the exception, and a history
variable records it, so that TLC and the proofs show that there is no other.

## The modules

In all of them agents, git, GitHub, the plugin, Claude Code and the user are the
environment: their answers are arbitrary. Variables under the comment "History"
are recorded for the properties; no guard reads them. Definitions that begin
"Mutant" in their comment are wrong versions of the code that the properties must
catch; no specification uses them.

### Executor (harness/executor.py:50-249, hooks/session_state.py:382-479, 569-597)

One element of `Exec` is one executor process of the same prefix and issue;
`SessionOf` gives its session. Every file access that another process can
interleave with is a step: looking at a file and writing it are two steps
(`Start`/`ClaimWrite`, `CheckLease`/`UnlinkStale`/`OpenLease`), `write_text` is
two steps as well (`TruncateLease`, `FillLease`: the lease can be read torn, and
a writer whose file was unlinked writes into nothing, which `writing` records),
`atomic_write_json` is one.

| TLA+ | Code |
|---|---|
| `pc` | where the main thread is: `claim`, `check`, `unlink`, `open`, `fill` (boot), `run`, `release`, `unlock`, `off` (cleanup) |
| `passes` | cleanup runs still owed: a signal handler runs `cleanup()` and its `sys.exit` runs it again from `atexit` |
| `hb`, `hbStop`, `hbSeen` | the heartbeat thread, its event, the lock record it read and writes back |
| `lock` | `session_id`, `pid` and whether the heartbeat is younger than 1800 s |
| `lease` | absent, torn, or the pid in it |
| `sweeping` | a SessionStart hook judged the lock stale and has not yet unlinked it |
| `exposed` | history: the layers a running executor was without at some time |

Assumed: the session is resolved and an issue number is given (otherwise
`claim_issue_lock` is skipped and only the lease guards); pids are not reused;
at most one catchable signal per executor; the existence test of a file and the
read right after it are one step. `SerialStarts` is an assumption about the user
(one start at a time), `MayMissBeats` about the machine: when it is TRUE, 1800 s
may pass without the 15 s beat of a living executor (a suspended machine) and its
lock grows stale. `MayFailWrites` lets any write or unlink of the two files fail
(`Fails`): the code swallows that and goes on without the file
(executor.py:115, 150, 170, session_state.py:476). The runs say which they take;
the theorems hold for all. Left FALSE in `ExecutorExclusion` only, so that its
trace shows the race and not a disk that is full.

### KillSwitch (core.py:2083-2107, commands/harness-kill.md)

Several runs of one project, each on its own issue, and the one signal they
share: reading it (`SeeSignal`) and removing it (`ConsumeSignal`) are two steps,
kills repeat, runs crash. (Its `KillInit`, `KillNext`, `KillSpec` and `at` have
names of their own because `StopProofs` extends it together with RalphClaim.)

### ImplRouter (harness/impl_router.py, core.py:85-150)

`run_impl` for every issue of `Issue`. Runs of one issue follow each other; runs
of different issues interleave and share the file
`<prefix>_escalate_history.json`. An update of it is three steps: `Read` (with
`Escalate` or `GapAnswered`), `Truncate`, and `Record` or `ClearCount`, because
`Path.write_text` truncates first and two writers may leave text that no longer
parses (`Fill`). A write that fails is swallowed (`WriteFails`, core.py:99).

| TLA+ | Code |
|---|---|
| `ReEnter` | flag and plan file are there: straight to the engineer |
| `DesignRequired`, `KeepPlan`, `CallArchitect`, `EnsureDepth` | the ways to a plan file with a depth |
| `BelowThreshold`, `AutoSpecGap`, `GapAnswered`, `NothingToClear`, `ClearCount` | `_maybe_auto_spec_gap` |
| `Validate`, `Rework`, `Revalidate`, `Killed` | `run_plan_validation` with `max_rework = 1` |
| `GaveUp`, `GapsExceeded`, `LoopEnds` | `_dispatch_depth` and what follows it, the loop taken by LoopContract |
| `TaskSwitch` | harness-router.py's removal of the flags |
| `Crash` | exception, signal, SIGKILL anywhere |

Assumed: runs of one issue are of one session, so they share one flags
directory.

### LoopContract, and its two sides

The abstract specification of a depth loop, three variables: whether it runs or
what it returned, the flag `plan_validation_passed`, and whether it has merged.
It says what `impl_router.py` and the executor rely on: DONE goes with a merge,
only IMPLEMENTATION_ESCALATE may take the flag back, a stop or an escalation
leaves it, an exception may leave a merge behind. `Meanwhile` lets the flag change
while the loop runs: a prompt takes it back, a depth upgrade sets it again.

* `ImplLoop!KeepsContract`: the detailed loop implements it
  (`INSTANCE LoopContract WITH state <- ..., plan <- "plan" \in flags, ...`).
* `ImplRouter!UsesLoopContract`: what the router takes the loop to do is what the
  contract allows, for every issue at once.

### ImplLoop (harness/impl_loop.py, with core.py and helpers.py where it calls them)

`run_simple` and `_run_std_deep` are the same chain with more or fewer workers,
so they are one machine with `depth` as a variable. One action is one worker:
its `kill_check`, its agent call, its `budget_check` and every branch on the
answer. Answer, cost and edits of agents are arbitrary. Between `kill_check` and
the call the code puts prompt and handoff together, so a kill may come there
(`Call` sets it). `merge_to_main` is three steps: the gate (`Merge`), push and
`gh pr merge` (`GhMerge`), self-heal and retry (`SelfHeal`); a prompt may remove
flags between them.

| TLA+ | Code |
|---|---|
| `pc` | the next worker; `top` is the loop head, `enter` the prologue of a (re-)entry |
| `attempt`, `gaps`, `failType` | `attempt`, `spec_gap_count`, `fail_type` (`"none"` for the empty string) |
| `recent` | failure types with a timestamp inside the breaker's window; `WindowPasses` lets 1800 s pass |
| `flags` | the flag files; lgtm and security may be left from an earlier run |
| `dirty` | kinds of uncommitted change: edited, new or removed file, and `Missed`, what a git command failed to take (no exit code of status, add or commit is read; `Committed`) |
| `total` | `total_cost`; in `run_simple` the sum has no other name before the engineer's call |
| `kill` | `.global.json.harness_kill` |
| `cwd`, `origCwd` | the process's directory and `_orig_cwd` |
| `cooldown`, `merged` | where a merge cooldown lies; the PR is merged on the remote |
| `TaskSwitch` | a prompt that names this issue after another one: the router hook removes flags in mid-run |
| `gates`, `fails`, `rounds`, `spent`, `late`, `refused` | history; `fails` counts what the breaker's window holds, which a depth upgrade empties |

Assumed: agents do not commit themselves; the kill command is given when no kill
is pending; an unreadable cost file costs 0; the router hook's removals are one
step; a call costs at most its own `--max-budget-usd` (`CallCap`, core.py:911).
Left out: prompts, contexts, handoffs, HUD, log events, the token budget's
warning, the content of the remote (which Publish has).

### Publish (core.py:1221-1590, executor.py:75-101)

The work on one issue on its way to the default branch, over several runs. A
branch is a base and a set of commits; a push is a fast-forward or fails; every
command may fail, and one that times out ends the run (`Crash`, after which
GitHub may still have merged and the push have arrived, `Unanswered`). The
self-heal may stop behind any of its commands, also in the middle of its rebase
(`HealPartly`: `head` is `"detached"`, and the next run's checkout fails unnoticed,
so what it commits is `adrift`); worktree removal, checkout and pull after a merge
may fail one by one (`Cleaned`). `inside` says that the merge runs in the worktree,
as after a depth upgrade; its cooldown then lies there, where no start looks. `Name` is the set of branch names a run may
compute: milestone and title are asked from GitHub each time. `OthersMerge` moves
the default branch, `Settle` is a person who merges or closes a PR by hand.
`missed`, `misplaced` and `stale` record the three failures the code does not
notice; `DoneMeansLanded` shows that there is no fourth. `barred` says that GitHub
refused the merge (set before the self-heal, not with the cooldown), `unmarked`
that the cooldown was lost or lies elsewhere. Assumed: while a run works in a
worktree, what the self-heal does to the main checkout's HEAD is not followed.

### PlanLoop (harness/plan_loop.py, core.py `run_ux_validation`)

Several runs of the plan loop and the user between them. Carried from run to run:
the PRD and UX flow files with the last word of their reviewers, the checkpoint
file's keys (`meta`, read at the start into `prev`), the flag
`plan_review_override`. Between two runs the user overrides, resets, asks for
changes, or files go. A crash in the middle of `write_text` leaves an unreadable
checkpoint. The flag may also fail to go (plan_loop.py:174 swallows that): the run
skips its review and the flag waives the next one, which `stuck` counts.

### LiveState (hooks/session_state.py:283-340, 600-813; skill-gate, post-skill-flags, agent-gate, post-agent-flags, session-agent-cleanup, skill-stop-protect; executor and agent_call)

The one file `live.json` of a session, fields `agent` and `skill`. `job[p]` is the
update process `p` is in: tool calls in `Slots` (Claude Code runs several at a
time), the hooks of the turn (`main`), the executor (`exec`). `Looked` is the
extra look the `clear_` and `bump_` helpers take before they update; `Read` and
`Write` are the two halves of `update_live`. `Fails` ends an update that raises or
finds nothing to change; every hook swallows that, and the Stop hook blocks all the
same (skill-stop-protect.py:116). `CallDies` ends a tool call without its
PostToolUse hook while the turn goes on, the case session-agent-cleanup.py:4
names. `Tick` ages the skill. Assumed: skill-stop-protect's two looks at the file
are one step, and at any Stop a kill may be pending; a level's time to live is
counted in ticks.

### RalphClaim (hooks/ralph-session-stop.py)

The plugin's state file of a ralph loop and the Stop hook that writes the owner's
session id into it, `Look` and `Write` in two steps, in every session. The plugin
itself (setup, its Stop hook, cancel) is external. `marked` is the skill in each
session's `live.json`, which outlives the loop. A call of the skill is two steps:
skill-gate.py marks its session (`Mark`), then the plugin makes the file, over
another loop's too (`StartLoop`), or none (`NoLoop`: refused, failed). `tainted`
records that another session was marked or about to write before the loop had its
owner, `raced` a Stop that was under way then or could not write (`WriteFails`).

### AgentCall (core.py:777-1110)

Three actors: the reader (`agent_call`), the watchdog thread, the agent. The pipe
is a sequence of kinds of line (`progress`, `result`, `bytes` that do not decode);
`open` says who holds its other end, the agent or a command it left behind.
`Grace` and `DogGrace` are terminate, five seconds, kill. `SpawnFails` raises
again in the `finally` clause, as in the code; `StartFails` is an error before the
files are emptied; `SpawnUnwatched` is a log that cannot be opened, after the agent
has started and before its watchdog has. `swallowed` records the two errors that
hide behind exit code 0: a result line that does not parse and an answer that could
not be written; `strayed` an error of the reader's own.

## Runs

| Run | Instance | Question |
|---|---|---|
| `ExecutorSerial` | 3 executors, 2 sessions, boots one after the other, beats on time, writes may fail, symmetric | `OverlapNeedsBothLayers`: an overlap takes the loss of both layers |
| `ExecutorFree` | 2 executors of 2 sessions, free interleaving, beats may be missed, writes may fail | no collective refusal, no refusal owed to the dead, boots end |
| `ExecutorExclusion` | the same, no write fails | *violated:* two executors run one issue |
| `KillSwitchKept` | 4 symmetric runs | a kill is not lost |
| `ImplLoopTests` | test command, no worktree, free agents, edits | rounds, breaker, cooldown, termination |
| `ImplLoopWorktree` | worktree, no test command, every call under or over the cap, edits and removals | merge gates, reach of a kill (two calls), what is merged, what is spent, the contract |
| `ImplRouter` | 4 runs of one issue beside 1 of another | counting, threshold, revalidation, the contract's other side |
| `Publish` | 2 branch names, 3 runs, 3 commits, 2 merges to the default branch, with and without worktrees | nothing lost, DONE means landed, a refused issue waits |
| `PlanLoop` | 4 runs | one-shot override, skipped planner, earned UX pass |
| `LiveState` | 2 parallel calls, 2 skills (medium, heavy), 1 agent | bounded blocks, identity, a session that calls no new skill stops in the end |
| `RalphClaim` | 3 sessions | who owns the loop, who is kept, the starter claims |
| `AgentCall` | up to 4 lines | who may block the call, exit code, agent left behind, old answers, the call returns |

What the properties say is in the comment above each; what they show, in short:

* **Exclusion.** Two guards that each read and then write do not exclude
  executors that boot together (`ExecutorExclusion`; the finding in
  `PROJECT.json` quotes executor.py:103). With boots one after the other an
  overlap needs a running executor that had lost its lease and, across sessions,
  its lock too.
* **Retries.** The loop ends whatever agents answer; five rounds at its last
  depth and four at each lower one; the same failure twice in the window of one
  depth stops it. A depth upgrade empties the window, so a failure just before and
  one just after it do not.
* **Kill.** A kill is not lost among runs; within one run at most two more agents
  start (`KillStopsWithinTwoCalls`): one whose check has just been passed and one of
  the five that have none.
* **Merge.** Nothing merges without the checks, the validator and the reviewers of
  the final depth, also when the flags are those of an earlier run or a prompt
  removes them in the middle; the tests passed too, except without a test command
  from the second attempt on (`Tested`). What is merged is what the checks ran on,
  except for removed files and what a git command failed on. A merge that GitHub
  refused leaves its cooldown unless the self-heal or the retry timed out.
* **Publishing.** No commit disappears, except what is committed in the middle of
  a rebase that an earlier self-heal left; a refused issue is not worked on again
  unless its cooldown was lost or lies in a worktree.
* **Shared history.** A plan is never charged with an escalation it did not have;
  the count is exact as long as no two updates overlap and none fails; with an
  intact file two escalations bring the architect in.
* **Agent calls.** Exit code 0 means the whole answer is in the file, but for the
  two errors the code swallows; a call blocks for good only on an orphan.
* **Spending.** `max_total_cost` caps a round, less one test writer and one POLISH
  it does not see; a run may spend it once for every round (`SpendingBounded`; no
  smaller bound of that form holds).
* **Stops.** Lost or failed updates may prolong a skill's blocking but not beyond its
  time, as long as the session calls no new skill: each call starts the time
  afresh. Claude keeps no ended agent's name but in a turn in which an agent's call
  died or an update of the name was lost.

### Bounds

Three executors in two sessions are the least that shows re-entry and competition
at once; every further one repeats a role. Two suffice for the liveness run, whose
graph must stay small and which may not use symmetry; it lets beats be missed,
which three executors could not afford (8 million states and more). The loop's
counters are bounded by its own code (`MAX`, `MAX_SPEC_GAP`), so its models are
complete for a cost of 0 or 1 and a cap of 0 or 1: the code only compares the sum
with the cap, so one call below and one above are all cases. Sums that grow over
several calls matter to `SpendingBounded` only; larger caps are beyond the time of
a run (28 million states and more for a cap of 1), so the run shows what goes past the sum
and the theorem covers what it restarts from. `Changes` is a set of
kinds, not of files; new files are collected as edited ones are. Four runs share
the kill switch: a consumer, a second consumer and two bystanders. Four runs of
one issue (`Runs`) are the least in which a plan escalates twice, has its gap
closed and is tried again; one run of a second issue is enough to overlap, tear or
lose an update. In `Publish` three runs under two names let one branch be
abandoned, one be merged and one be taken up again, with a foreign merge in
between; three commits give every run its own. Four plan runs (`MaxRuns`) fit
refusal, override, failed validation and re-entry. In `LiveState` every update can
overlap every other with two slots, the turn and the executor; skills may be called
any number of times, and two let one replace another; a skill of
`SELF_MANAGED_LIFECYCLE` never blocks and is left to the theorems; one tick and one
block are the smallest limits above 0. Three sessions are a starter, a placeholder
and a stale mark. Four lines
(`MaxLines`) hold a result with progress or bytes on both sides of it.

`CHECK_DEADLOCK FALSE` stands where the system may really stop: executors, loop
and call are over (Executor, ImplLoop, AgentCall), the user starts no more runs
(ImplRouter, PlanLoop, Publish).

The largest runs explore 12.7 million distinct states (`Publish`), 1.5 million
(`ExecutorSerial`) and 0.9 million (`LiveState`), and none takes more than three
minutes with two workers.

### Fairness

* Executor: weak fairness of every executor's main thread. The kernel schedules
  a live thread and none of its steps waits for another process. Starts, signals,
  crashes, ageing, hooks and the heartbeat thread are not forced. It is stated on
  `system`, the variables without the history.
* ImplLoop: weak fairness of the loop's steps. Every agent call ends by the
  watchdog and every command by its timeout. Kills, prompts and the clock are not
  forced. This takes agent calls to return, which AgentCall shows with one
  exception: an orphan of the agent that holds its output pipe for good also holds
  the loop.
* AgentCall: weak fairness of the two threads and of the clock; nothing is
  expected of the agent, which may be silent, ignore SIGTERM or print for ever.
* LiveState: an update that has begun ends, made or failed, and time passes. That
  the session goes on trying to stop and, from some time on, calls no new skill
  (`NoMoreSkills`) is the premise of `StopsInTheEnd`, not fairness.
* RalphClaim: a Stop runs its hooks to the end; that the starter goes on stopping
  and can write from some time on is the premise of `StarterClaims`.
* KillSwitch, ImplRouter, PlanLoop, Publish, LoopContract: safety only.

## Proofs

Eight modules of proofs hold for every value of the constants that satisfies the
module's named assumption; `PROJECT.json` lists the results.

* **Executor.** `TypeOK` needs that a heartbeat thread about to write holds a
  record (`SystemType`). `NoCollectiveRefusal` and `RefusedOnlyByTheLiving` rest
  on `GuardInv`: a heartbeat thread belongs to an executor past its boot
  (`HeartInv`), and a pid in the lease is past the point where it opened it
  (`LeaseInv`), so whoever is refused is refused by another one that got further.
  `EachLifeRunsDown` rests on `Owing` (who leaves owes one or two runs of
  cleanup) and counts the steps of the main thread that are left.
  `OverlapNeedsBothLayers` rests on `OverlapInv`: what `RecordExposure` recorded
  is at least what is uncovered now; with serialised boots, an executor between a
  check and its run found the layer of every running executor down at that time,
  and this is remembered in `exposed`.
* **KillSwitch.** `KillNotLost` is inductive as it stands: only `ConsumeSignal`
  takes the signal away, and it adds its run to `heeded`. It shares the module
  StopProofs with RalphClaim.
* **ImplLoop.** `TypeOK` needs that a worker past the head has an attempt and a
  gap left (`AttemptInv`). `NothingMergesUnchecked` rests on `GateInv`: at each
  worker the gates of the workers before it are passed (`Earned`), the tests as far as the code wants
  them, and a merged run is at its end. `RoundsBounded` rests on `RoundInv`, which charges each round to an
  attempt, a gap or a lower depth. `SpendingBounded` rests on `SpendInv`: a round
  in progress has spent no more than its share less what its sum still leaves it,
  and the price of a POLISH is kept apart until it has run; together with the
  bound on rounds it gives `RunSpendsBounded`. `LoopRunsDown` has the measure
  `Fuel`: what is left of the chain, of attempts and gaps, and of depths; every
  step of the loop lowers it and nothing else raises it: at most 340 steps.
  `KillStopsWithinTwoCalls` rests on `LateInv`: a call that began late leaves the
  signal set, so only a worker without a check can follow it, and behind that one
  stands a worker that checks. `BreakerHolds` rests
  on `WindowInv`: the failures counted are the recorded one plus the one not yet
  recorded. `RefusedMergeCoolsDown` rests on `CoolInv` (before its end a run has
  neither a result nor a cooldown, and GitHub's refusal is what leads to the
  self-heal), `MergedUpToGitFailures` on `TreeInv` (behind the commit of a simple
  run nothing but removed files and git's failures is uncommitted; the other depths
  commit right before the merge). The refinement `ImplementsContract` maps every action to a step of
  LoopContract or a stutter under `RunInv` (a worker runs with the active flag,
  and only a run at its end has merged).
* **ImplRouter.** `ExhaustedPlanIsRevalidated` rests on `FlagInv`: an exhausted
  plan has no flag and is not in the loop. `NeverOvercounted` rests on `CountInv`,
  which bounds what every reader has in hand as well as the file. `HistoryExact`
  and `ThresholdForcesGap` rest on `ExactInv` and `GapInv`: as long as `damaged` is
  FALSE at most one run is in an update, and the file or that run's copy is exact.
  `KeepsToContract` proves the contract's side of the router.
* **PlanLoop.** `OverrideInv` adds the run that has taken the override and not
  ended to the balance, and every flag that stuck to its other side; `PrdInv` and `UxInv` relate checkpoint, file and verdict,
  and say that a run's copy of the checkpoint is still the checkpoint (`Began`).
* **Publish.** `NothingLost` rests on `Grows`: no step, no half self-heal and no
  crash takes a commit off a local branch, and whatever is committed goes on a
  branch or, in the middle of a rebase, into `adrift`. Types need that a run past its checkout
  stands on a branch (`OnBranch`). `DoneMeansLanded` rests on
  `LandInv`: what the run committed is on its branch and, after a push that did
  not fail, on the remote. `RefusedStaysOut` rests on `BarInv`: a barred issue
  whose cooldown is not lost is in its self-heal, or has the cooldown and no run.
* **LiveState.** `BlocksBounded` rests on `CountInv`: what the file, or the bump on
  its way to it, counts is no less than the blocks since the skill was set or an
  update was lost or failed. `IdentityEndsWithItsAgent` rests on `AgentInv`: only an agent's own
  process writes its name (`NameInv`), and a name in the file has an agent that
  runs, or a clearing that is on its way, behind it (`HolderInv`).
* **AgentCall.** `WholeInv`: a printed result is in the pipe until the reader has taken
  it, or swallowed an error, and only the wait behind an empty pipe gives exit code 0. `EndInv`: whoever
  stops waiting for the agent has seen it end. `FreshInv`: whoever gets past the start has
  emptied the file. `NoDeadlock` rests on `PipeInv` (who has ended holds no
  pipe, and a watchdog that is over has seen the agent end): unless an orphan holds
  the pipe, reader, watchdog or deadline can go on. `CallRunsDown` bounds a call by
  `2 * MaxLines + 20` steps.
* **RalphClaim.** `OwnerInv`: as long as no other session was marked or writing too
  early, only the starter is marked and only its id is written (`Alone`), or the
  loop has its owner (`Settled`). `RaceInv`: a Stop that began after the file was
  made has put its claim, or a placeholder, into it before the plugin's hook looks,
  unless it could not write.

Every invariant and action property of the runs is proved, and so are the two
refinements. Only model-checked are the five liveness properties (`BootResolves`,
`Termination`, `CallReturns`, `StarterClaims`, `StopsInTheEnd`): the prover has no
ENABLED and no fairness. For the first three the safety half of the argument is
proved, a measure that every step of the process lowers and no step of another one
raises (`EachLifeRunsDown`, `LoopRunsDown`, `CallRunsDown`), and for executor and
call that some step is left (`NeverHeld`, `NoDeadlock`); what TLC adds is that fair steps do happen, and
for the call what an orphan does. `StarterClaims` and `StopsInTheEnd` take
their progress from repeated stops and from time, which no measure of the state
shows. Conversely `TypeOK` of PlanLoop, Publish, RalphClaim and AgentCall is proved
and not run. The measures rest on the costs and answers of no agent; the bound on
spending rests on `CallCap`, the limit the code gives to every call.

## Where code and documents part

One disagreement is shown by a run, `ExecutorExclusion`. Others were met while
modelling; the modules have what the code does, and the properties that hold are
stated with these exceptions.

* `commands/harness-kill.md:14` says the loop stops *before* the next agent call.
  Between every `kill_check` and its call the prompt is put together, and five calls
  (impl_loop.py:437, 667, 1137, 1358, 1493) have no `kill_check`, so two more may
  start (`KillStopsWithinTwoCalls`). A kill reaches the first run that sees
  it, no other (core.py:2096).
* `orchestration/policies.md:99-102` says five rounds and that counters are never
  reset; a depth upgrade restarts them and the breaker's window (impl_loop.py:456,
  882, 1147; `RoundsBounded`, `BreakerHolds`).
* `DEPTH_CHAINS` (impl_loop.py:1724-1728) lists test-engineer for std and deep.
  Without a test command it runs at attempt 0 only (impl_loop.py:1203-1206): when it
  failed there, the next attempt skips it and may merge without any test (`Tested`).
* The cost sum restarts with every engineer round (impl_loop.py:383, 1072), and
  POLISH and the architects are not added to it: the cap that
  `orchestration/impl.md:135` gives to the whole loop is one of a round
  (`SpendingBounded`, `RunSpendsBounded`).
* An executor refused by the lease leaves the issue lock in its name
  (executor.py:132).
* After a depth upgrade the loop takes the worktree for its starting directory
  (impl_loop.py:867), and merges from there. A POLISH that fails its checks is
  reverted with one `git checkout` that fails as a whole (impl_loop.py:1519).
  Removed and renamed files are never collected (core.py:1605), and no exit code of
  git status, add or commit is read (core.py:1600, impl_loop.py:1190-1195,
  1614-1618; `MergedUpToGitFailures`).
* The cooldown after a refused merge is written under `Path.cwd()`
  (core.py:1545-1555), after a depth upgrade the worktree, and read in the main root
  (executor.py:81); a self-heal or retry that times out leaves none
  (core.py:1297-1331), and a torn one counts as none (core.py:1283). In these cases
  the next start works on the issue (`unmarked` in `RefusedStaysOut`).
* A rebase of the self-heal that times out, or whose `--abort` fails unread
  (core.py:1318-1323), leaves a detached HEAD; the next run's checkout fails
  unnoticed and its commits are on no branch (`adrift` in `NothingLost`).
* The one-shot override of the plan review is taken as used although its file could
  not be removed (plan_loop.py:172-175; `stuck`).
* The Stop hook blocks although it could not count the block
  (skill-stop-protect.py:116); with the count lost only the skill's time bounds the
  blocks.
* An agent call that ends without its PostToolUse hook leaves its name in
  `live.json` for the rest of the turn (session-agent-cleanup.py:4).
* Exit code 0 hides a result line that does not parse (core.py:1039) and an answer
  that could not be written (core.py:1078; `swallowed`). A log that cannot be opened
  leaves the agent running without a watchdog (core.py:953; `strayed`).
* A prompt that removes the LGTM in mid-run (harness-router.py:303) makes
  `merge_to_main` refuse: MERGE_CONFLICT_ESCALATE without a conflict and without a
  cooldown (core.py:1513; `RefusedMergeCoolsDown` has the exact condition).
* Too many SPEC_GAPs escalate without removing `plan_validation_passed`
  (impl_loop.py:1094), against docs/harness-state.md:105; and an earlier run's flag
  is not taken back when the plan fails its validation, so the next start enters
  the loop on it (impl_router.py:226).
* A UX flow that the checkpoint names while its file is missing passes in a later
  run, once the file is there, even if its validation has failed meanwhile
  (plan_loop.py:370-385; the exception in `UxPassIsEarned`).
* Timed-out calls end with -15 or 1 instead of 124 when the watchdog, not the
  reader, ends the agent (core.py:801, 1062). A call that cannot spawn raises a
  second error in its `finally` clause (core.py:1067).
* `gh pr list` failing counts as no PR, so the clean-up of orphans may delete a
  branch with an open PR, against the docstring at core.py:1342. `gh pr view` is
  content with a closed or merged PR (core.py:1460); a failed checkout and a
  worktree on another branch go unnoticed (core.py:1424, 1221). The self-heal
  cannot work beside a worktree, and one that rebased but could not push leaves a
  branch whose later plain pushes are refused (core.py:1327).
* A nested skill call clears the record of a heavy skill that its own replaced
  (post-skill-flags.py:66); of two parallel calls of one agent the first to end
  clears the name for both (post-agent-flags.py:117). A session whose `live.json`
  still names a ralph loop, an old one or one that a refused call never made, may
  take over another session's (`OwnerIsStarter`'s exception).

## Not modelled

* The flags that the gates test and set for direct calls of Claude (agent-gate,
  commit-gate, post-agent-flags, post-commit-cleanup): chains of tests of one file
  each; what they share with the harness is `live.json`, which is modelled. In
  particular post-commit-cleanup.py:40 looks for its flags in the state directory
  while they lie in the flags directory, so it removes none.
* RunLogger and its rotation, session directories, the migration of old flags, the
  session pointer: files nobody decides on, or that one writer owns.
* Text: prompts, contexts, handoffs, HUD, PR bodies, markers and front matter;
  what the code reads from them is a nondeterministic choice.
* Stateless hooks that match a path or a text (boundary, issue, plugin, drift and
  settings checks), the review hooks, providers, the second reviewer,
  notifications, and `scripts/`: reports over finished logs, or external programs.
* The router hook's text, its rate file and its removal of a stale
  `designer_ran`.

## What could come next

1. The flags of direct calls: agent gate, commit gate and clean-up over session
   and issue directories, with the question which flag opens which gate.
2. RunLogger's rotation beside a second run, and `write_run_end` on every way out
   of `run_impl`.
3. One composition of ImplLoop with Publish, in which the loop's commit and merge
   steps are Publish's.
