------------------------------ MODULE LiveState ------------------------------
(***************************************************************************)
(* live.json of one session (hooks/session_state.py): who is acting in it  *)
(* (agent) and which skill protects it from stopping (skill).  The file is *)
(* read, merged and rewritten whole by the hooks of the session's tool     *)
(* calls, which may run in parallel, by its Stop and UserPromptSubmit      *)
(* hooks, and by an executor started from the session.  Claude Code itself *)
(* (turns, tool calls) is the environment.                                 *)
(***************************************************************************)
EXTENDS Integers

CONSTANTS Agents,     \* CUSTOM_AGENTS
          Skills,     \* names of skills
          Level,      \* SKILL_LEVELS; "light" stands for "none" too
          SelfManaged,\* SELF_MANAGED_LIFECYCLE: skills with a Stop hook of their own
          Ttl,        \* ttl_sec of a level, in ticks
          MaxReinf,   \* max_reinforcements of a level
          Slots       \* tool calls that can run at a time

Levels == {"light", "medium", "heavy"}

ASSUME LiveStateAssumption ==
  /\ Agents \cap (Skills \cup {"none", "off", "loop"}) = {} /\ "none" \notin Skills
  /\ Level \in [Skills -> Levels] /\ SelfManaged \subseteq Skills
  /\ Ttl \in [Levels -> Nat \ {0}] /\ MaxReinf \in [Levels -> Nat]
  /\ \A l \in Levels : Ttl[l] <= Ttl["heavy"] /\ MaxReinf[l] <= MaxReinf["heavy"]
  /\ Slots \cap {"main", "exec"} = {}

VARIABLES live,      \* [agent, skill]: the file
          job,       \* process -> the update of live.json it is in
          tool,      \* slot -> the agent or skill of the call running there
          turn,      \* "work" while Claude answers a prompt, "idle" after
          exec,      \* the executor: "off", "loop", or the agent it has called
          \* History: read by properties only.
          since,     \* Stops blocked since the skill was set or an update lost
          lostAgent  \* in this turn an update of agent was overwritten or
                     \* failed, or an agent's call had no PostToolUse

vars == <<live, job, tool, turn, exec, since, lostAgent>>

Process == Slots \cup {"main", "exec"}

NoSkill == [name |-> "none", age |-> 0, reinf |-> 0]
Skill == [name : Skills, age : 0..Ttl["heavy"], reinf : 0..MaxReinf["heavy"]]
Live == [agent : Agents \cup {"none"}, skill : Skill \cup {NoSkill}]

Nothing == [agent |-> "none", skill |-> NoSkill]

\* An update: what its process does next, the field it changes, what it writes.
Job == [step : {"none", "read", "write"}, own : {"agent", "skill", "neither"}, value : Live]
NoJob == [step |-> "none", own |-> "neither", value |-> Nothing]

Init ==
  /\ live = Nothing
  /\ job = [p \in Process |-> NoJob]
  /\ tool = [p \in Slots |-> "none"]
  /\ turn = "idle" /\ exec = "off"
  /\ since = 0 /\ lostAgent = FALSE

-----------------------------------------------------------------------------
(* update_live in two steps, and the clear_ and bump_ functions that look  *)
(* at the file once more before they call it.                              *)

Free(p) == job[p].step = "none"

\* What is written: the changed field, and the other one as it was read.
Merged(own, value) ==
  [agent |-> IF own = "agent" THEN value.agent ELSE live.agent,
   skill |-> IF own = "skill" THEN value.skill ELSE live.skill]

Update(p, own, value) ==
  job' = [job EXCEPT ![p] = [step |-> "write", own |-> own, value |-> Merged(own, value)]]

Looked(p, own, value) ==
  job' = [job EXCEPT ![p] = [step |-> "read", own |-> own, value |-> value]]

Read(p) ==
  /\ job[p].step = "read"
  /\ Update(p, job[p].own, job[p].value)
  /\ UNCHANGED <<live, tool, turn, exec, since, lostAgent>>

Write(p) ==
  LET own == job[p].own
      value == job[p].value
      begun == own = "skill" /\ p \in Slots
      lost == own # "skill" /\ value.skill # live.skill
  IN
  /\ job[p].step = "write"
  /\ live' = value
  /\ job' = [job EXCEPT ![p] = NoJob]
  /\ since' = IF begun \/ lost THEN 0 ELSE since
  /\ lostAgent' = (lostAgent \/ (own # "agent" /\ value.agent # live.agent))
  /\ UNCHANGED <<tool, turn, exec>>

\* An update raises, or finds nothing to change: every hook, and the executor,
\* swallows that and goes on as if it had been made.
Fails(p) ==
  /\ ~Free(p)
  /\ job' = [job EXCEPT ![p] = NoJob]
  /\ since' = IF p = "main" /\ job[p].own = "skill" THEN 0 ELSE since
  /\ lostAgent' = (lostAgent \/ job[p].own = "agent")
  /\ UNCHANGED <<live, tool, turn, exec>>

-----------------------------------------------------------------------------
(* Tool calls: PreToolUse, the call, PostToolUse.                          *)

Working == turn = "work" /\ Free("main")
Begins(p, t) ==
  /\ Working /\ Free(p) /\ tool[p] = "none"
  /\ tool' = [tool EXCEPT ![p] = t]
Ends(p, t) ==
  /\ Free(p) /\ tool[p] = t
  /\ tool' = [tool EXCEPT ![p] = "none"]

\* The two fields an update may change.
As(a) == [Nothing EXCEPT !.agent = a]
With(s) == [Nothing EXCEPT !.skill = s]

Fresh(n) == [name |-> n, age |-> 0, reinf |-> 0]

\* skill-gate.py
PreSkill(p, n) ==
  /\ Begins(p, n)
  /\ Update(p, "skill", With(Fresh(n)))
  /\ UNCHANGED <<live, turn, exec, since, lostAgent>>

\* post-skill-flags.py: heavy skills are left to the Stop hook.
PostSkill(p, n) ==
  /\ Ends(p, n)
  /\ IF Level[n] # "heavy" /\ live.skill.name = n
     THEN Looked(p, "skill", With(NoSkill))
     ELSE UNCHANGED job
  /\ UNCHANGED <<live, turn, exec, since, lostAgent>>

\* agent-gate.py, once it lets the call through.
PreAgent(p, a) ==
  /\ Begins(p, a)
  /\ Update(p, "agent", As(a))
  /\ UNCHANGED <<live, turn, exec, since, lostAgent>>

\* post-agent-flags.py
PostAgent(p, a) ==
  /\ Ends(p, a)
  /\ IF live.agent = a THEN Looked(p, "agent", As("none")) ELSE UNCHANGED job
  /\ UNCHANGED <<live, turn, exec, since, lostAgent>>

\* A call that a later hook denies, or that ends with an error, has no
\* PostToolUse: the turn goes on, and what PreToolUse wrote stays.
CallDies(p) ==
  /\ Free(p) /\ tool[p] # "none"
  /\ tool' = [tool EXCEPT ![p] = "none"]
  /\ lostAgent' = (lostAgent \/ tool[p] \in Agents)
  /\ UNCHANGED <<live, job, turn, exec, since>>

\* The user refuses a call: it never runs, no PostToolUse, the turn is over.
Reject ==
  /\ Working /\ \A p \in Slots : Free(p)
  /\ \E p \in Slots : tool[p] # "none"
  /\ tool' = [p \in Slots |-> "none"]
  /\ turn' = "idle"
  /\ UNCHANGED <<live, job, exec, since, lostAgent>>

-----------------------------------------------------------------------------
(* The turn: UserPromptSubmit and Stop.                                    *)

\* Mutant: the cleanup of orphans is not there.
PromptKeepsOrphan ==
  /\ turn = "idle" /\ Free("main")
  /\ turn' = "work"
  /\ lostAgent' = FALSE
  /\ UNCHANGED <<live, job, tool, exec, since>>

\* session-agent-cleanup.py: whatever agent is in the file is an orphan.
Prompt ==
  /\ turn = "idle" /\ Free("main")
  /\ turn' = "work"
  /\ IF live.agent # "none" THEN Looked("main", "agent", As("none")) ELSE UNCHANGED job
  /\ lostAgent' = FALSE
  /\ UNCHANGED <<live, tool, exec, since>>

Stopping == Working /\ \A p \in Slots : Free(p) /\ tool[p] = "none"

\* should_block_stop
Blocks(s) ==
  s # NoSkill /\ s.name \notin SelfManaged /\ Level[s.name] \in {"medium", "heavy"}
\* Mutants: a release on blocks only, and on time only.
SpentByCount(s) == s.reinf >= MaxReinf[Level[s.name]]
SpentByAge(s) == s.age >= Ttl[Level[s.name]]
Spent(s) == s.age >= Ttl[Level[s.name]] \/ s.reinf >= MaxReinf[Level[s.name]]

\* skill-stop-protect.py (its two looks at live.json are one step here) lets the
\* session stop.  It clears the skill when a kill is pending, which it may be at
\* any Stop, or the skill's time or blocks are used up.
StopPasses ==
  /\ Stopping
  /\ turn' = "idle"
  /\ \E kill \in BOOLEAN :
       \/ /\ IF kill THEN live.skill # NoSkill ELSE Blocks(live.skill) /\ Spent(live.skill)
          /\ Looked("main", "skill", With(NoSkill))
       \/ /\ IF kill THEN live.skill = NoSkill ELSE ~Blocks(live.skill)
          /\ UNCHANGED job
  /\ UNCHANGED <<live, tool, exec, since, lostAgent>>

\* Mutant: the count is rewritten as it was.
StopNotCounted ==
  /\ Stopping
  /\ Blocks(live.skill) /\ ~Spent(live.skill)
  /\ since' = since + 1
  /\ Looked("main", "skill", With(live.skill))
  /\ UNCHANGED <<live, tool, turn, exec, lostAgent>>

\* It blocks the Stop, whether or not its update of the count then succeeds.
StopBlocked ==
  /\ Stopping
  /\ Blocks(live.skill) /\ ~Spent(live.skill)
  /\ since' = since + 1
  /\ Looked("main", "skill", With([live.skill EXCEPT !.reinf = @ + 1]))
  /\ UNCHANGED <<live, tool, turn, exec, lostAgent>>

Stop == StopPasses \/ StopBlocked

-----------------------------------------------------------------------------
(* The executor and its agent_call, at any time.                           *)

ExecStart ==
  /\ exec = "off" /\ Free("exec")
  /\ exec' = "loop"
  /\ Update("exec", "neither", Nothing)
  /\ UNCHANGED <<live, tool, turn, since, lostAgent>>

CallStart(a) ==
  /\ exec = "loop" /\ Free("exec")
  /\ exec' = a
  /\ Update("exec", "agent", As(a))
  /\ UNCHANGED <<live, tool, turn, since, lostAgent>>

CallEnd ==
  /\ exec \in Agents /\ Free("exec")
  /\ exec' = "loop"
  /\ IF live.agent = exec THEN Looked("exec", "agent", As("none")) ELSE UNCHANGED job
  /\ UNCHANGED <<live, tool, turn, since, lostAgent>>

ExecFinish ==
  /\ exec = "loop" /\ Free("exec")
  /\ exec' = "off"
  /\ Update("exec", "agent", As("none"))
  /\ UNCHANGED <<live, tool, turn, since, lostAgent>>

Older(s) ==
  IF s = NoSkill \/ s.age = Ttl["heavy"] THEN s ELSE [s EXCEPT !.age = @ + 1]
Tick ==
  /\ live' = [live EXCEPT !.skill = Older(@)]
  /\ job' = [p \in Process |-> [job[p] EXCEPT !.value.skill = Older(@)]]
  /\ UNCHANGED <<tool, turn, exec, since, lostAgent>>

Next ==
  \/ \E p \in Process : Read(p) \/ Write(p) \/ Fails(p)
  \/ \E p \in Slots, n \in Skills : PreSkill(p, n) \/ PostSkill(p, n)
  \/ \E p \in Slots, a \in Agents : PreAgent(p, a) \/ PostAgent(p, a)
  \/ \E p \in Slots : CallDies(p)
  \/ Reject \/ Prompt \/ Stop
  \/ ExecStart \/ (\E a \in Agents : CallStart(a)) \/ CallEnd \/ ExecFinish
  \/ Tick

\* A hook that runs comes to its end, and time passes.
Fairness == WF_vars(Tick) /\ \A p \in Process : WF_vars(Read(p) \/ Write(p) \/ Fails(p))

Spec == Init /\ [][Next]_vars /\ Fairness

-----------------------------------------------------------------------------
\* Every variable keeps its shape.
TypeOK ==
  /\ live \in Live
  /\ job \in [Process -> Job]
  /\ tool \in [Slots -> Agents \cup Skills \cup {"none"}]
  /\ turn \in {"idle", "work"}
  /\ exec \in Agents \cup {"off", "loop"}
  /\ since \in Nat
  /\ lostAgent \in BOOLEAN

\* A skill blocks the Stop at most max_reinforcements times, as long as the
\* count's own update does not fail (skill-stop-protect.py:116 swallows that)
\* and no other update overwrites it.
BlocksBounded ==
  Blocks(live.skill) => since <= MaxReinf[Level[live.skill.name]]

\* When Claude works and neither an agent nor a hook is running, the file
\* names no agent: agent-boundary.py does not take Claude for an agent that
\* has ended, or that the user refused, or that an earlier turn left behind.
\* In one case it does, until the next prompt: when an agent's call of this
\* very turn had no PostToolUse, or an update of agent was lost.
IdentityEndsWithItsAgent ==
  /\ turn = "work" /\ ~lostAgent /\ exec \notin Agents
  /\ \A p \in Process : Free(p)
  /\ \A p \in Slots : tool[p] \notin Agents
  => live.agent = "none"

\* Claude calls no further skill: a call sets a fresh time and a fresh count,
\* so a session that calls a skill again in every turn may be held for ever.
NoMoreSkills == <>[][\A p \in Slots, n \in Skills : ~PreSkill(p, n)]_vars

\* However often updates of live.json are lost or fail, a session that keeps
\* trying to stop and calls no new skill is let go in the end: the time of the
\* skill that holds it runs out.
StopsInTheEnd == []<><<Stop>>_vars /\ NoMoreSkills => []<>(turn = "idle")
=============================================================================
