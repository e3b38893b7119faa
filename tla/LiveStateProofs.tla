--------------------------- MODULE LiveStateProofs ---------------------------
(***************************************************************************)
(* Theorems about LiveState, for any agents, skills, limits and number of  *)
(* parallel tool calls: type correctness, how often a skill blocks a Stop, *)
(* and that the file names nobody who has gone.                            *)
(***************************************************************************)
EXTENDS LiveState, TLAPS

AnySkill == Skill \cup {NoSkill}
Owner == {"agent", "skill", "neither"}
JobStep == {"none", "read", "write"}

-----------------------------------------------------------------------------
(* Types.                                                                  *)

\* Growing older changes neither the name nor the count of a skill.
LEMMA OlderSkill ==
  ASSUME NEW s \in AnySkill
  PROVE  /\ Older(s) \in AnySkill
         /\ Older(s).name = s.name /\ Older(s).reinf = s.reinf
         /\ Older(s) = NoSkill <=> s = NoSkill
<1>1. Ttl["heavy"] \in Nat \ {0} /\ MaxReinf["heavy"] \in Nat
  BY LiveStateAssumption DEF Levels
<1>2. CASE s = NoSkill
  BY <1>2 DEF Older
<1>3. CASE s \in Skill
  <2>1. s.name \in Skills /\ s.age \in 0..Ttl["heavy"] /\ s.reinf \in 0..MaxReinf["heavy"]
    BY <1>3 DEF Skill
  <2>2. s # NoSkill
    BY <2>1, LiveStateAssumption DEF NoSkill
  <2>3. CASE s.age = Ttl["heavy"]
    BY <1>3, <2>2, <2>3 DEF Older, AnySkill
  <2>4. CASE s.age # Ttl["heavy"]
    <3>1. Older(s) = [s EXCEPT !.age = @ + 1]
      BY <2>2, <2>4 DEF Older
    <3>2. s.age + 1 \in 0..Ttl["heavy"]
      BY <1>1, <2>1, <2>4
    <3>3. Older(s) \in Skill /\ Older(s).name = s.name /\ Older(s).reinf = s.reinf
      BY <1>3, <3>1, <3>2 DEF Skill
    <3> QED BY <2>1, <2>2, <3>3, LiveStateAssumption DEF AnySkill, NoSkill
  <2> QED BY <2>3, <2>4
<1> QED BY <1>2, <1>3 DEF AnySkill

\* What the hooks write into the file.
LEMMA FieldTypes ==
  /\ NoSkill \in AnySkill /\ NoSkill \notin Skill
  /\ Nothing \in Live
  /\ \A s \in AnySkill : With(s) \in Live /\ With(s).skill = s
  /\ \A a \in Agents \cup {"none"} : As(a) \in Live /\ As(a).agent = a
  /\ \A n \in Skills : Fresh(n) \in Skill
  /\ NoJob \in Job
<1>1. \A l \in Levels : Ttl[l] \in Nat /\ MaxReinf[l] \in Nat
  BY LiveStateAssumption
<1>2. NoSkill \in AnySkill /\ NoSkill \notin Skill
  BY LiveStateAssumption DEF AnySkill, Skill, NoSkill
<1>3. Nothing \in Live
  BY DEF Nothing, Live
<1>4. \A n \in Skills : Fresh(n) \in Skill
  BY <1>1 DEF Fresh, Skill, Levels
<1>5. \A s \in AnySkill : With(s) \in Live /\ With(s).skill = s
  BY DEF With, Nothing, Live, AnySkill
<1>6. \A a \in Agents \cup {"none"} : As(a) \in Live /\ As(a).agent = a
  BY DEF As, Nothing, Live
<1> QED BY <1>2, <1>3, <1>4, <1>5, <1>6 DEF NoJob, Job

\* An update takes its field from what it writes and the other one from the file.
LEMMA MergedType ==
  ASSUME live \in Live, NEW own, NEW value \in Live
  PROVE  /\ Merged(own, value) \in Live
         /\ Merged(own, value).agent = IF own = "agent" THEN value.agent ELSE live.agent
         /\ Merged(own, value).skill = IF own = "skill" THEN value.skill ELSE live.skill
BY DEF Merged, Live

\* A job begins with a look at the file, or with the update's own read.
LEMMA JobTypes ==
  ASSUME TypeOK, NEW p \in Process, NEW own \in Owner, NEW value \in Live,
         Update(p, own, value) \/ Looked(p, own, value)
  PROVE  /\ job' \in [Process -> Job]
         /\ job'[p].own = own /\ job'[p].step \in {"read", "write"}
         /\ own = "skill" => job'[p].value.skill = value.skill
         /\ own = "agent" => job'[p].value.agent = value.agent
         /\ \A q \in Process \ {p} : job'[q] = job[q]
<1>1. Merged(own, value) \in Live
  BY MergedType DEF TypeOK
<1>2. \A step \in JobStep, v \in Live : [step |-> step, own |-> own, value |-> v] \in Job
  BY DEF Job, JobStep, Owner
<1>3. CASE Update(p, own, value)
  BY <1>1, <1>2, <1>3, MergedType DEF Update, TypeOK, JobStep
<1>4. CASE Looked(p, own, value)
  BY <1>2, <1>4 DEF Looked, TypeOK, JobStep
<1> QED BY <1>3, <1>4

\* Time passes for the file and for every copy of it, and changes nothing else.
LEMMA TickTypes ==
  ASSUME TypeOK, Tick
  PROVE  /\ live' \in Live
         /\ live'.agent = live.agent /\ live'.skill = Older(live.skill)
         /\ job' \in [Process -> Job]
         /\ \A p \in Process :
              /\ job'[p].step = job[p].step /\ job'[p].own = job[p].own
              /\ job'[p].value.agent = job[p].value.agent
              /\ job'[p].value.skill = Older(job[p].value.skill)
<1>1. \A v \in Live : /\ [v EXCEPT !.skill = Older(@)] \in Live
                      /\ [v EXCEPT !.skill = Older(@)].agent = v.agent
                      /\ [v EXCEPT !.skill = Older(@)].skill = Older(v.skill)
  <2> TAKE v \in Live
  <2>1. v.skill \in AnySkill
    BY DEF Live, AnySkill
  <2>2. Older(v.skill) \in Skill \cup {NoSkill}
    BY <2>1, OlderSkill DEF AnySkill
  <2> QED BY <2>2 DEF Live
<1>2. \A j \in Job : /\ [j EXCEPT !.value.skill = Older(@)] \in Job
                     /\ [j EXCEPT !.value.skill = Older(@)].step = j.step
                     /\ [j EXCEPT !.value.skill = Older(@)].own = j.own
                     /\ [j EXCEPT !.value.skill = Older(@)].value = [j.value EXCEPT !.skill = Older(@)]
  BY <1>1 DEF Job
<1>3. live' \in Live /\ live'.agent = live.agent /\ live'.skill = Older(live.skill)
  BY <1>1 DEF Tick, TypeOK
<1>4. ASSUME NEW p \in Process
      PROVE  /\ job'[p] \in Job
             /\ job'[p].step = job[p].step /\ job'[p].own = job[p].own
             /\ job'[p].value = [job[p].value EXCEPT !.skill = Older(@)]
  BY <1>2 DEF Tick, TypeOK
<1>5. \A p \in Process : job[p].value \in Live
  BY DEF TypeOK, Job
<1>6. job' \in [Process -> Job]
  BY <1>4 DEF Tick
<1> QED BY <1>1, <1>3, <1>4, <1>5, <1>6

LEMMA InitType == Init => TypeOK
<1> SUFFICES ASSUME Init PROVE TypeOK
  OBVIOUS
<1> QED BY FieldTypes DEF Init, TypeOK

\* A blocked Stop counts one more, which is still within the limit.
LEMMA BumpType ==
  ASSUME TypeOK, Blocks(live.skill), ~Spent(live.skill)
  PROVE  LET bumped == [live.skill EXCEPT !.reinf = @ + 1]
         IN  /\ bumped \in Skill
             /\ bumped.name = live.skill.name
             /\ bumped.reinf = live.skill.reinf + 1
             /\ bumped.reinf <= MaxReinf[Level[bumped.name]]
<1> DEFINE s == live.skill
<1>1. s \in Skill
  BY DEF TypeOK, Live, Blocks
<1>2. s.name \in Skills /\ s.reinf \in Nat
  BY <1>1 DEF Skill
<1>3. Level[s.name] \in Levels
  BY <1>2, LiveStateAssumption
<1>4. MaxReinf[Level[s.name]] \in Nat /\ MaxReinf["heavy"] \in Nat
      /\ MaxReinf[Level[s.name]] <= MaxReinf["heavy"]
  BY <1>3, LiveStateAssumption DEF Levels
<1>5. s.reinf < MaxReinf[Level[s.name]]
  BY <1>2, <1>4 DEF Spent
<1>6. s.reinf + 1 \in 0..MaxReinf["heavy"]
  BY <1>2, <1>4, <1>5
<1>7. [s EXCEPT !.reinf = @ + 1] \in Skill
  BY <1>1, <1>6 DEF Skill
<1>8. [s EXCEPT !.reinf = @ + 1].name = s.name /\ [s EXCEPT !.reinf = @ + 1].reinf = s.reinf + 1
  BY <1>1 DEF Skill
<1>9. s.reinf + 1 <= MaxReinf[Level[s.name]]
  BY <1>2, <1>4, <1>5
<1> QED BY <1>7, <1>8, <1>9

LEMMA NextType == TypeOK /\ [Next]_vars => TypeOK'
<1> SUFFICES ASSUME TypeOK, [Next]_vars PROVE TypeOK'
  OBVIOUS
<1>1. CASE UNCHANGED vars
  BY <1>1 DEF vars, TypeOK
<1>2. ASSUME NEW p \in Process, Read(p) PROVE TypeOK'
  <2>1. job[p].own \in Owner /\ job[p].value \in Live
    BY DEF TypeOK, Job, Owner
  <2>2. job' \in [Process -> Job]
    BY <1>2, <2>1, JobTypes DEF Read
  <2> QED BY <1>2, <2>2 DEF Read, TypeOK
<1>3. ASSUME NEW p \in Process, Write(p) PROVE TypeOK'
  <2>1. job[p].value \in Live
    BY DEF TypeOK, Job
  <2>2. job' \in [Process -> Job]
    BY <1>3, FieldTypes DEF Write, TypeOK
  <2>3. since' \in Nat /\ lostAgent' \in BOOLEAN
    BY <1>3 DEF Write, TypeOK
  <2> QED BY <1>3, <2>1, <2>2, <2>3 DEF Write, TypeOK
<1>4. ASSUME NEW p \in Slots, NEW n \in Skills, PreSkill(p, n) \/ PostSkill(p, n) PROVE TypeOK'
  <2>1. p \in Process /\ With(Fresh(n)) \in Live /\ With(NoSkill) \in Live
    BY FieldTypes DEF Process, AnySkill
  <2>2. job' \in [Process -> Job]
    BY <1>4, <2>1, JobTypes DEF PreSkill, PostSkill, TypeOK, Owner
  <2>3. tool' \in [Slots -> Agents \cup Skills \cup {"none"}]
    BY <1>4 DEF PreSkill, PostSkill, Begins, Ends, TypeOK
  <2> QED BY <1>4, <2>2, <2>3 DEF PreSkill, PostSkill, TypeOK
<1>5. ASSUME NEW p \in Slots, NEW a \in Agents, PreAgent(p, a) \/ PostAgent(p, a) PROVE TypeOK'
  <2>1. p \in Process /\ As(a) \in Live /\ As("none") \in Live
    BY FieldTypes DEF Process
  <2>2. job' \in [Process -> Job]
    BY <1>5, <2>1, JobTypes DEF PreAgent, PostAgent, TypeOK, Owner
  <2>3. tool' \in [Slots -> Agents \cup Skills \cup {"none"}]
    BY <1>5 DEF PreAgent, PostAgent, Begins, Ends, TypeOK
  <2> QED BY <1>5, <2>2, <2>3 DEF PreAgent, PostAgent, TypeOK
<1>6. CASE Reject \/ \E p \in Slots : CallDies(p)
  BY <1>6 DEF Reject, CallDies, TypeOK
<1>7. CASE Prompt \/ StopPasses
  <2>1. As("none") \in Live /\ With(NoSkill) \in Live
    BY FieldTypes DEF AnySkill
  <2>2. job' \in [Process -> Job]
    BY <1>7, <2>1, JobTypes DEF Prompt, StopPasses, TypeOK, Owner, Process
  <2> QED BY <1>7, <2>2 DEF Prompt, StopPasses, TypeOK
<1>8. CASE StopBlocked
  <2>1. With([live.skill EXCEPT !.reinf = @ + 1]) \in Live
    BY <1>8, BumpType, FieldTypes DEF StopBlocked, AnySkill
  <2>2. job' \in [Process -> Job]
    BY <1>8, <2>1, JobTypes DEF StopBlocked, Owner, Process
  <2> QED BY <1>8, <2>2 DEF StopBlocked, TypeOK
<1>9. CASE ExecStart \/ (\E a \in Agents : CallStart(a)) \/ CallEnd \/ ExecFinish
  <2>1. Nothing \in Live /\ \A a \in Agents \cup {"none"} : As(a) \in Live
    BY FieldTypes
  <2>2. job' \in [Process -> Job]
    BY <1>9, <2>1, JobTypes DEF ExecStart, CallStart, CallEnd, ExecFinish, TypeOK, Owner, Process
  <2> QED BY <1>9, <2>2 DEF ExecStart, CallStart, CallEnd, ExecFinish, TypeOK
<1>10. CASE Tick
  BY <1>10, TickTypes DEF Tick, TypeOK
<1>11. ASSUME NEW p \in Process, Fails(p) PROVE TypeOK'
  <2>1. job' \in [Process -> Job]
    BY <1>11, FieldTypes DEF Fails, TypeOK
  <2>2. since' \in Nat /\ lostAgent' \in BOOLEAN
    BY <1>11 DEF Fails, TypeOK
  <2> QED BY <1>11, <2>1, <2>2 DEF Fails, TypeOK
<1> QED BY <1>1, <1>2, <1>3, <1>4, <1>5, <1>6, <1>7, <1>8, <1>9, <1>10, <1>11 DEF Next, Stop

\* Every variable keeps its type, however updates of the file overlap.
THEOREM TypeCorrect == Spec => []TypeOK
BY InitType, NextType, PTL DEF Spec

-----------------------------------------------------------------------------
(* How long a skill blocks.  Its count in the file, or in the update that  *)
(* will raise it, is at least the number of Stops it has blocked.          *)

Bumped == job["main"].value.skill
Bumping == ~Free("main") /\ job["main"].own = "skill" /\ Bumped # NoSkill

Counted(n, s) == n <= s.reinf /\ (Blocks(s) => n <= MaxReinf[Level[s.name]])

CountInv ==
  /\ job["exec"].own # "skill"
  /\ Bumping => Counted(since, Bumped)
  /\ ~Bumping /\ live.skill # NoSkill => Counted(since, live.skill)
  /\ BlocksBounded

LEMMA ProcessNames ==
  "main" \in Process /\ "exec" \in Process /\ "main" \notin Slots /\ "exec" \notin Slots
BY LiveStateAssumption DEF Process

LEMMA NothingCounted == \A s \in Skill : Counted(0, s)
<1> TAKE s \in Skill
<1>1. s.name \in Skills /\ s.reinf \in Nat
  BY DEF Skill
<1>2. MaxReinf[Level[s.name]] \in Nat
  BY <1>1, LiveStateAssumption
<1> QED BY <1>1, <1>2 DEF Counted

\* An update of another field leaves the skill alone, or restarts the count.
LEMMA SkillWritten ==
  ASSUME TypeOK, CountInv, NEW p \in Process, Write(p)
  PROVE  \/ since' = 0
         \/ since' = since /\ live'.skill = live.skill /\ job[p].own # "skill"
         \/ since' = since /\ p = "main" /\ job[p].own = "skill"
BY ProcessNames DEF Write, CountInv, Process

LEMMA CountNext == TypeOK /\ TypeOK' /\ CountInv /\ [Next]_vars => CountInv'
<1> SUFFICES ASSUME TypeOK, TypeOK', CountInv, [Next]_vars PROVE CountInv'
  OBVIOUS
<1>0. /\ live.skill \in AnySkill /\ live'.skill \in AnySkill
      /\ Bumped \in AnySkill /\ Bumped' \in AnySkill
  BY ProcessNames DEF TypeOK, Live, Job, Bumped, AnySkill
\* Most steps change neither the file nor the turn's own job.
<1>A. ASSUME job'["main"] = job["main"], job'["exec"].own # "skill", UNCHANGED <<live, since>>
      PROVE  CountInv'
  BY <1>A DEF CountInv, Bumping, Bumped, Free, BlocksBounded
\* A job of the turn that writes no skill.
<1>B. ASSUME Free("main"), job'["exec"].own # "skill", UNCHANGED <<live, since>>, ~Bumping'
      PROVE  CountInv'
  BY <1>B DEF CountInv, Bumping, Free, BlocksBounded
<1>1. CASE UNCHANGED vars
  BY <1>1, <1>A DEF vars, CountInv
<1>2. ASSUME NEW p \in Process, Read(p) PROVE CountInv'
  <2>1. job[p].own \in Owner /\ job[p].value \in Live
    BY DEF TypeOK, Job, Owner
  <2>2. /\ job'[p].own = job[p].own /\ job'[p].step \in {"read", "write"}
        /\ job[p].own = "skill" => job'[p].value.skill = job[p].value.skill
        /\ \A q \in Process \ {p} : job'[q] = job[q]
    BY <1>2, <2>1, JobTypes DEF Read
  <2>3. job'["exec"].own # "skill"
    BY <2>2, ProcessNames DEF CountInv
  <2>4. (Bumping' <=> Bumping) /\ (Bumping => Bumped' = Bumped)
    BY <1>2, <2>2, ProcessNames DEF Bumping, Bumped, Free, Read
  <2> QED BY <1>2, <2>3, <2>4 DEF Read, CountInv, BlocksBounded
<1>3. ASSUME NEW p \in Process, Write(p) PROVE CountInv'
  <2>1. job'[p] = NoJob /\ \A q \in Process \ {p} : job'[q] = job[q]
    BY <1>3 DEF Write, TypeOK
  <2>2. job'["exec"].own # "skill"
    BY <2>1, ProcessNames DEF CountInv, NoJob
  <2>3. CASE since' = 0
    BY <1>0, <2>2, <2>3, NothingCounted DEF CountInv, Counted, BlocksBounded, AnySkill, Blocks, Bumping
  <2>4. CASE since' = since /\ live'.skill = live.skill /\ job[p].own # "skill"
    BY <2>1, <2>2, <2>4, ProcessNames DEF CountInv, Bumping, Bumped, Free, NoJob, BlocksBounded
  <2>5. CASE since' = since /\ p = "main" /\ job[p].own = "skill"
    <3>1. ~Bumping' /\ live'.skill = Bumped
      BY <1>3, <2>1, <2>5 DEF Bumping, Bumped, Free, NoJob, Write
    <3>2. live'.skill # NoSkill => Bumping
      BY <1>3, <2>5, <3>1 DEF Write, Bumping, Free
    <3>3. live'.skill # NoSkill => Counted(since, Bumped)
      BY <3>2 DEF CountInv
    <3> QED BY <2>2, <2>5, <3>1, <3>3 DEF CountInv, BlocksBounded, Counted, Blocks
  <2> QED BY <1>3, <2>3, <2>4, <2>5, SkillWritten
<1>4. ASSUME NEW p \in Slots, UNCHANGED <<live, since>>,
             \A q \in Process \ {p} : job'[q] = job[q]
      PROVE  CountInv'
  BY <1>4, <1>A, ProcessNames DEF CountInv
<1>5. ASSUME NEW p \in Slots, NEW n \in Skills, PreSkill(p, n) \/ PostSkill(p, n) PROVE CountInv'
  <2>1. p \in Process /\ With(Fresh(n)) \in Live /\ With(NoSkill) \in Live
    BY FieldTypes DEF Process, AnySkill
  <2>2. \A q \in Process \ {p} : job'[q] = job[q]
    BY <1>5, <2>1, JobTypes DEF PreSkill, PostSkill, Owner
  <2> QED BY <1>4, <1>5, <2>2 DEF PreSkill, PostSkill
<1>6. ASSUME NEW p \in Slots, NEW a \in Agents, PreAgent(p, a) \/ PostAgent(p, a) PROVE CountInv'
  <2>1. p \in Process /\ As(a) \in Live /\ As("none") \in Live
    BY FieldTypes DEF Process
  <2>2. \A q \in Process \ {p} : job'[q] = job[q]
    BY <1>6, <2>1, JobTypes DEF PreAgent, PostAgent, Owner
  <2> QED BY <1>4, <1>6, <2>2 DEF PreAgent, PostAgent
<1>7. CASE Reject \/ \E p \in Slots : CallDies(p)
  BY <1>7, <1>A DEF Reject, CallDies, CountInv
<1>8. CASE Prompt \/ StopPasses
  <2>1. As("none") \in Live /\ With(NoSkill) \in Live /\ With(NoSkill).skill = NoSkill
    BY FieldTypes
  <2>2. /\ job'["exec"] = job["exec"]
        /\ \/ job' = job
           \/ job'["main"].own = "agent"
           \/ job'["main"].value.skill = NoSkill
    BY <1>8, <2>1, JobTypes, ProcessNames DEF Prompt, StopPasses, Owner
  <2>3. Free("main") /\ UNCHANGED <<live, since>>
    BY <1>8 DEF Prompt, StopPasses, Stopping, Working
  <2>4. ~Bumping'
    BY <2>2, <2>3 DEF Bumping, Bumped, Free
  <2> QED BY <1>B, <2>2, <2>3, <2>4 DEF CountInv
<1>9. CASE StopBlocked
  <2> DEFINE bumped == [live.skill EXCEPT !.reinf = @ + 1]
  <2>1. /\ bumped \in Skill /\ bumped.name = live.skill.name /\ bumped.reinf = live.skill.reinf + 1
        /\ bumped.reinf <= MaxReinf[Level[bumped.name]]
    BY <1>9, BumpType DEF StopBlocked
  <2>2. With(bumped) \in Live /\ With(bumped).skill = bumped
    BY <2>1, FieldTypes DEF AnySkill
  <2>3. /\ job'["main"].own = "skill" /\ job'["main"].step = "read"
        /\ job'["main"].value.skill = bumped /\ job'["exec"] = job["exec"]
    BY <1>9, <2>2, ProcessNames DEF StopBlocked, Looked, TypeOK
  <2>4. live.skill # NoSkill /\ ~Bumping
    BY <1>9 DEF StopBlocked, Stopping, Working, Bumping, Blocks
  <2>5. since <= live.skill.reinf /\ live.skill.reinf \in Nat /\ since \in Nat
    BY <1>0, <2>4 DEF CountInv, Counted, AnySkill, Skill, TypeOK
  <2>6. since' = since + 1 /\ live' = live
    BY <1>9 DEF StopBlocked
  <2>7. MaxReinf[Level[live.skill.name]] \in Nat
    BY <1>0, <2>4, LiveStateAssumption DEF AnySkill, Skill
  <2>8. Counted(since', bumped)
    BY <2>1, <2>5, <2>6, <2>7 DEF Counted
  <2>9. BlocksBounded'
    BY <2>1, <2>5, <2>6, <2>7 DEF BlocksBounded
  <2>10. Bumping' /\ Bumped' = bumped
    BY <2>1, <2>3, FieldTypes DEF Bumping, Bumped, Free
  <2> QED BY <2>3, <2>8, <2>9, <2>10 DEF CountInv
<1>10. CASE ExecStart \/ (\E a \in Agents : CallStart(a)) \/ CallEnd \/ ExecFinish
  <2>1. Nothing \in Live /\ \A a \in Agents \cup {"none"} : As(a) \in Live
    BY FieldTypes
  <2>2. job'["main"] = job["main"] /\ job'["exec"].own # "skill"
    BY <1>10, <2>1, JobTypes, ProcessNames
    DEF ExecStart, CallStart, CallEnd, ExecFinish, CountInv, Owner
  <2> QED BY <1>10, <1>A, <2>2 DEF ExecStart, CallStart, CallEnd, ExecFinish
<1>11. CASE Tick
  <2>1. /\ live'.skill = Older(live.skill) /\ since' = since
        /\ job'["main"].step = job["main"].step /\ job'["main"].own = job["main"].own
        /\ job'["exec"].own = job["exec"].own
        /\ Bumped' = Older(Bumped)
    BY <1>11, TickTypes, ProcessNames DEF Tick, Bumped
  <2>2. Bumping' <=> Bumping
    BY <1>0, <2>1, OlderSkill DEF Bumping, Free
  <2>3. /\ live'.skill.name = live.skill.name /\ live'.skill.reinf = live.skill.reinf
        /\ live'.skill = NoSkill <=> live.skill = NoSkill
        /\ Bumped'.name = Bumped.name /\ Bumped'.reinf = Bumped.reinf
        /\ Bumped' = NoSkill <=> Bumped = NoSkill
    BY <1>0, <2>1, OlderSkill
  <2> QED BY <2>1, <2>2, <2>3 DEF CountInv, Counted, Blocks, BlocksBounded
<1>12. ASSUME NEW p \in Process, Fails(p) PROVE CountInv'
  <2>1. job'[p] = NoJob /\ (\A q \in Process \ {p} : job'[q] = job[q]) /\ live' = live
    BY <1>12 DEF Fails, TypeOK
  <2>2. job'["exec"].own # "skill"
    BY <2>1, ProcessNames DEF CountInv, NoJob
  <2>3. CASE p = "main" /\ job[p].own = "skill"
    <3>1. since' = 0
      BY <1>12, <2>3 DEF Fails
    <3> QED BY <1>0, <2>2, <3>1, NothingCounted
        DEF CountInv, Counted, BlocksBounded, AnySkill, Blocks, Bumping
  <2>4. CASE ~(p = "main" /\ job[p].own = "skill")
    <3>1. since' = since
      BY <1>12, <2>4 DEF Fails
    <3> QED BY <2>1, <2>2, <2>4, <3>1, ProcessNames
        DEF CountInv, Bumping, Bumped, Free, NoJob, BlocksBounded
  <2> QED BY <2>3, <2>4
<1> QED BY <1>1, <1>2, <1>3, <1>5, <1>6, <1>7, <1>8, <1>9, <1>10, <1>11, <1>12 DEF Next, Stop

\* A skill blocks the Stop at most max_reinforcements times between two updates
\* of its count that were lost or failed, whatever hooks and executor write
\* meanwhile.
THEOREM BlocksAreBounded == Spec => []BlocksBounded
<1>1. Init => CountInv
  BY ProcessNames DEF Init, CountInv, NoJob, Nothing, BlocksBounded, Blocks, Bumping, Free
<1>2. CountInv => BlocksBounded
  BY DEF CountInv
<1> QED BY <1>1, <1>2, InitType, NextType, CountNext, PTL DEF Spec

-----------------------------------------------------------------------------
(* Who is named in the file: an agent that runs, or one whose name somebody *)
(* is about to take out.                                                    *)

Clears(p) == ~Free(p) /\ job[p].own = "agent" /\ job[p].value.agent = "none"
Runs(p, a) == (p \in Slots /\ tool[p] = a) \/ (p = "exec" /\ exec = a)
Named(p) == live.agent # "none" /\ Runs(p, live.agent)

\* Only an agent's own process writes its name.
NameInv ==
  \A p \in Process :
    ~Free(p) /\ job[p].own = "agent" => Clears(p) \/ Runs(p, job[p].value.agent)

HolderInv ==
  turn = "work" /\ ~lostAgent /\ live.agent # "none" =>
    \E p \in Process : Clears(p) \/ Named(p)

AgentInv == NameInv /\ HolderInv

\* A process that begins an update, the others going on as they were.
LEMMA AgentBegins ==
  ASSUME TypeOK, AgentInv, NEW p \in Process, Free(p),
         UNCHANGED <<live, turn, lostAgent>>,
         \A q \in Process \ {p} : job'[q] = job[q],
         \A q \in Process \ {p}, a \in Agents : Runs(q, a) => Runs(q, a)',
         \/ Clears(p)'
         \/ ~Named(p) /\ (Free(p)' \/ job'[p].own # "agent" \/ Runs(p, job[p].value.agent)')
  PROVE  AgentInv'
<1>1. \A q \in Process \ {p} : Clears(q)' <=> Clears(q)
  BY DEF Clears, Free
<1>2. \A q \in Process \ {p} : ~Free(q) /\ job[q].own = "agent" =>
        job[q].value.agent \in Agents \cup {"none"}
  BY DEF TypeOK, Job, Live
<1>3. NameInv'
  <2> SUFFICES ASSUME NEW q \in Process, ~Free(q)', job'[q].own = "agent"
               PROVE  (Clears(q) \/ Runs(q, job[q].value.agent))'
    BY DEF NameInv
  <2>1. CASE q = p
    BY <2>1
  <2>2. CASE q # p
    <3>1. ~Free(q) /\ job[q].own = "agent" /\ job'[q] = job[q]
      BY <2>2 DEF Free
    <3>2. Clears(q) \/ Runs(q, job[q].value.agent)
      BY <3>1 DEF AgentInv, NameInv
    <3>3. job[q].value.agent \in Agents \/ Clears(q)
      BY <1>2, <3>1 DEF Clears
    <3> QED BY <1>1, <2>2, <3>1, <3>2, <3>3
  <2> QED BY <2>1, <2>2
<1>4. HolderInv'
  <2> SUFFICES ASSUME turn = "work", ~lostAgent, live.agent # "none"
               PROVE  \E q \in Process : (Clears(q) \/ Named(q))'
    BY DEF HolderInv
  <2>1. PICK q \in Process : Clears(q) \/ Named(q)
    BY DEF AgentInv, HolderInv
  <2>2. live.agent \in Agents
    BY DEF TypeOK, Live
  <2>3. CASE q # p
    BY <1>1, <2>1, <2>2, <2>3 DEF Named
  <2>4. CASE q = p
    BY <2>1, <2>4 DEF Clears
  <2> QED BY <2>3, <2>4
<1> QED BY <1>3, <1>4 DEF AgentInv

LEMMA AgentNext == TypeOK /\ AgentInv /\ [Next]_vars => AgentInv'
<1> SUFFICES ASSUME TypeOK, AgentInv, [Next]_vars PROVE AgentInv'
  OBVIOUS
<1>1. CASE UNCHANGED vars
  BY <1>1 DEF vars, AgentInv, NameInv, HolderInv, Clears, Named, Runs, Free
<1>2. ASSUME NEW p \in Process, Read(p) PROVE AgentInv'
  <2>1. job[p].own \in Owner /\ job[p].value \in Live
    BY DEF TypeOK, Job, Owner
  <2>2. /\ job'[p].own = job[p].own /\ job'[p].step \in {"read", "write"}
        /\ job[p].own = "agent" => job'[p].value.agent = job[p].value.agent
        /\ \A q \in Process \ {p} : job'[q] = job[q]
    BY <1>2, <2>1, JobTypes DEF Read
  <2>3. \A q \in Process : Clears(q)' <=> Clears(q)
    BY <1>2, <2>2 DEF Clears, Free, Read
  <2> QED BY <1>2, <2>2, <2>3 DEF Read, AgentInv, NameInv, HolderInv, Named, Runs, Free
<1>3. ASSUME NEW p \in Process, Write(p) PROVE AgentInv'
  <2>1. job'[p] = NoJob /\ \A q \in Process \ {p} : job'[q] = job[q]
    BY <1>3 DEF Write, TypeOK
  <2>2. \A q \in Process \ {p} : Clears(q)' <=> Clears(q)
    BY <2>1 DEF Clears, Free
  <2>3. NameInv'
    BY <1>3, <2>1, <2>2 DEF Write, AgentInv, NameInv, Runs, Free, NoJob
  <2>4. CASE job[p].own = "agent"
    <3>1. live'.agent = job[p].value.agent
      BY <1>3 DEF Write
    <3>2. live'.agent # "none" => Runs(p, live'.agent)
      BY <1>3, <2>4, <3>1 DEF Write, AgentInv, NameInv, Clears, Free
    <3> QED BY <1>3, <2>3, <3>2 DEF Write, AgentInv, HolderInv, Named, Runs
  <2>5. CASE job[p].own # "agent"
    <3>1. ~lostAgent' => live'.agent = live.agent /\ ~lostAgent
      BY <1>3, <2>5 DEF Write
    <3>2. ~Clears(p)
      BY <2>5 DEF Clears
    <3> QED BY <1>3, <2>2, <2>3, <3>1, <3>2 DEF Write, AgentInv, HolderInv, Named, Runs
  <2> QED BY <2>4, <2>5
<1>4. ASSUME NEW p \in Slots, NEW n \in Skills, PreSkill(p, n) \/ PostSkill(p, n) PROVE AgentInv'
  <2>1. p \in Process /\ With(Fresh(n)) \in Live /\ With(NoSkill) \in Live
    BY FieldTypes DEF Process, AnySkill
  <2>2. /\ \A q \in Process \ {p} : job'[q] = job[q]
        /\ Free(p)' \/ job'[p].own = "skill"
    BY <1>4, <2>1, JobTypes DEF PreSkill, PostSkill, Owner, Ends, Free
  <2>3. ~Named(p)
    BY <1>4, LiveStateAssumption, ProcessNames
    DEF PreSkill, PostSkill, Begins, Ends, Named, Runs, TypeOK, Live
  <2>4. \A q \in Process \ {p}, a \in Agents : Runs(q, a) => Runs(q, a)'
    BY <1>4 DEF PreSkill, PostSkill, Begins, Ends, Runs, TypeOK
  <2> QED BY <1>4, <2>1, <2>2, <2>3, <2>4, AgentBegins
      DEF PreSkill, PostSkill, Begins, Ends
<1>5. ASSUME NEW p \in Slots, NEW a \in Agents, PreAgent(p, a) \/ PostAgent(p, a) PROVE AgentInv'
  <2>1. p \in Process /\ As(a) \in Live /\ As(a).agent = a
        /\ As("none") \in Live /\ As("none").agent = "none"
    BY FieldTypes DEF Process
  <2>2. \A q \in Process \ {p}, b \in Agents : Runs(q, b) => Runs(q, b)'
    BY <1>5 DEF PreAgent, PostAgent, Begins, Ends, Runs, TypeOK
  <2>3. CASE PreAgent(p, a)
    <3>1. job'[p].own = "agent" /\ job'[p].value.agent = a
          /\ \A q \in Process \ {p} : job'[q] = job[q]
      BY <2>1, <2>3, JobTypes DEF PreAgent, Owner
    <3>2. Runs(p, a)'
      BY <1>5, <2>3 DEF PreAgent, Begins, Runs, TypeOK
    <3>3. ~Named(p)
      BY <1>5, <2>3, ProcessNames DEF PreAgent, Begins, Named, Runs
    <3> QED BY <2>1, <2>2, <2>3, <3>1, <3>2, <3>3, AgentBegins DEF PreAgent, Begins
  <2>4. CASE PostAgent(p, a) /\ live.agent = a
    <3>1. Clears(p)' /\ \A q \in Process \ {p} : job'[q] = job[q]
      BY <2>1, <2>4, JobTypes DEF PostAgent, Owner, Clears, Free
    <3> QED BY <2>1, <2>2, <2>4, <3>1, AgentBegins DEF PostAgent, Ends
  <2>5. CASE PostAgent(p, a) /\ live.agent # a
    <3>1. job' = job /\ Free(p) /\ Free(p)'
      BY <2>5 DEF PostAgent, Ends, Free
    <3>2. ~Named(p)
      BY <1>5, <2>5, ProcessNames DEF PostAgent, Ends, Named, Runs
    <3> QED BY <2>1, <2>2, <2>5, <3>1, <3>2, AgentBegins DEF PostAgent
  <2> QED BY <1>5, <2>3, <2>4, <2>5
<1>6. CASE Reject
  <2>1. HolderInv'
    BY <1>6 DEF Reject, HolderInv
  <2>2. NameInv'
    BY <1>6, ProcessNames DEF Reject, AgentInv, NameInv, Clears, Runs, Process, Free
  <2> QED BY <2>1, <2>2 DEF AgentInv
<1>7. ASSUME NEW p \in Slots, CallDies(p) PROVE AgentInv'
  <2>1. \A q \in Process, a \in Agents : Runs(q, a) => Runs(q, a)' \/ (q = p /\ tool[p] = a)
    BY <1>7 DEF CallDies, Runs, TypeOK
  <2>2. \A q \in Process : Clears(q)' <=> Clears(q)
    BY <1>7 DEF CallDies, Clears, Free
  <2>3. NameInv'
    BY <1>7, ProcessNames DEF CallDies, AgentInv, NameInv, Clears, Runs, Free, TypeOK
  <2>4. HolderInv'
    BY <1>7, <2>1, <2>2 DEF CallDies, AgentInv, HolderInv, Named, TypeOK, Live
  <2> QED BY <2>3, <2>4 DEF AgentInv
<1>8. CASE Prompt
  <2>1. As("none") \in Live /\ As("none").agent = "none"
    BY FieldTypes
  <2>2. /\ live.agent # "none" => Clears("main")'
        /\ live.agent = "none" => job' = job
        /\ \A q \in Process \ {"main"} : job'[q] = job[q]
    BY <1>8, <2>1, JobTypes, ProcessNames DEF Prompt, Owner, Clears, Free
  <2>3. NameInv'
    BY <1>8, <2>2, ProcessNames DEF Prompt, AgentInv, NameInv, Clears, Runs, Free
  <2>4. HolderInv'
    BY <1>8, <2>2, ProcessNames DEF Prompt, HolderInv
  <2> QED BY <2>3, <2>4 DEF AgentInv
<1>9. CASE Stop
  <2>1. /\ Free("main") /\ UNCHANGED <<live, tool, exec, lostAgent>>
        /\ turn' = turn \/ turn' = "idle"
    BY <1>9 DEF Stop, StopPasses, StopBlocked, Stopping, Working
  <2>2. job' = job \/ \E value : job' = [job EXCEPT !["main"] =
                                          [step |-> "read", own |-> "skill", value |-> value]]
    BY <1>9 DEF Stop, StopPasses, StopBlocked, Looked
  <2>3. /\ job'["main"] = job["main"] \/ job'["main"].own = "skill"
        /\ \A q \in Process \ {"main"} : job'[q] = job[q]
    BY <2>2, ProcessNames DEF TypeOK
  <2>4. \A q \in Process : /\ Clears(q)' <=> Clears(q)
                           /\ \A a : Runs(q, a)' <=> Runs(q, a)
    BY <2>1, <2>3 DEF Clears, Free, Runs
  <2>5. NameInv'
    BY <2>1, <2>3, <2>4 DEF AgentInv, NameInv, Free
  <2>6. HolderInv'
    BY <2>1, <2>4 DEF AgentInv, HolderInv, Named
  <2> QED BY <2>5, <2>6 DEF AgentInv
<1>10. CASE ExecStart \/ (\E a \in Agents : CallStart(a)) \/ CallEnd \/ ExecFinish
  <2>1. Nothing \in Live /\ \A a \in Agents \cup {"none"} : As(a) \in Live /\ As(a).agent = a
    BY FieldTypes
  <2>2. /\ Free("exec") /\ UNCHANGED <<live, turn, lostAgent, tool>>
        /\ \A q \in Process \ {"exec"} : job'[q] = job[q]
    BY <1>10, <2>1, JobTypes, ProcessNames DEF ExecStart, CallStart, CallEnd, ExecFinish, Owner
  <2>3. \A q \in Process \ {"exec"}, a \in Agents : Runs(q, a) => Runs(q, a)'
    BY <2>2 DEF Runs
  <2>4. live.agent \in Agents \cup {"none"} /\ \A a \in Agents : a # "off" /\ a # "loop" /\ a # "none"
    BY LiveStateAssumption DEF TypeOK, Live
  <2>5. \/ Clears("exec")'
        \/ ~Named("exec") /\ \/ Free("exec")' \/ job'["exec"].own # "agent"
                             \/ Runs("exec", job["exec"].value.agent)'
    <3>1. CASE ExecStart
      BY <2>1, <2>4, <3>1, JobTypes, ProcessNames DEF ExecStart, Owner, Named, Runs
    <3>2. ASSUME NEW a \in Agents, CallStart(a)
          PROVE  ~Named("exec") /\ Runs("exec", job["exec"].value.agent)'
      <4>1. ~Named("exec")
        BY <2>4, <3>2, ProcessNames DEF CallStart, Named, Runs
      <4>2. job'["exec"].value.agent = a
        BY <2>1, <3>2, JobTypes, ProcessNames DEF CallStart, Owner
      <4> QED BY <3>2, <4>1, <4>2 DEF CallStart, Runs
    <3>3. CASE CallEnd
      BY <2>1, <2>2, <3>3, JobTypes, ProcessNames DEF CallEnd, Owner, Named, Runs, Clears, Free
    <3>4. CASE ExecFinish
      BY <2>1, <3>4, JobTypes, ProcessNames DEF ExecFinish, Owner, Clears, Free
    <3> QED BY <1>10, <3>1, <3>2, <3>3, <3>4
  <2> QED BY <2>2, <2>3, <2>5, AgentBegins, ProcessNames
<1>11. CASE Tick
  <2>1. \A q \in Process : Clears(q)' <=> Clears(q)
    BY <1>11, TickTypes DEF Clears, Free
  <2>2. \A q \in Process : ~Free(q)' /\ job'[q].own = "agent" =>
          ~Free(q) /\ job[q].own = "agent" /\ job'[q].value.agent = job[q].value.agent
    BY <1>11, TickTypes DEF Free
  <2>3. \A q \in Process, a \in Agents \cup {"none"} : Runs(q, a)' <=> Runs(q, a)
    BY <1>11 DEF Tick, Runs
  <2>4. NameInv'
    BY <2>1, <2>2, <2>3 DEF AgentInv, NameInv, Free, TypeOK, Job, Live
  <2>5. live'.agent = live.agent /\ UNCHANGED <<turn, lostAgent>>
    BY <1>11, TickTypes DEF Tick
  <2>6. HolderInv'
    BY <2>1, <2>3, <2>5 DEF AgentInv, HolderInv, Named, TypeOK, Live
  <2> QED BY <2>4, <2>6 DEF AgentInv
<1>12. ASSUME NEW p \in Process, Fails(p) PROVE AgentInv'
  <2>1. job'[p] = NoJob /\ \A q \in Process \ {p} : job'[q] = job[q]
    BY <1>12 DEF Fails, TypeOK
  <2>2. \A q \in Process \ {p} : Clears(q)' <=> Clears(q)
    BY <2>1 DEF Clears, Free
  <2>3. NameInv'
    BY <1>12, <2>1, <2>2 DEF Fails, AgentInv, NameInv, Runs, Free, NoJob
  <2>4. ~lostAgent' => ~lostAgent /\ ~Clears(p)
    BY <1>12 DEF Fails, Clears
  <2>5. HolderInv'
    BY <1>12, <2>2, <2>4 DEF Fails, AgentInv, HolderInv, Named, Runs
  <2> QED BY <2>3, <2>5 DEF AgentInv
<1> QED BY <1>1, <1>2, <1>3, <1>4, <1>5, <1>6, <1>7, <1>8, <1>9, <1>10, <1>11, <1>12 DEF Next

\* When no agent runs and no update is under way the file names nobody, unless
\* in this turn an update of agent was lost or an agent's call ended without
\* its PostToolUse hook.
THEOREM IdentityEnds == Spec => []IdentityEndsWithItsAgent
<1>1. Init => AgentInv
  BY DEF Init, AgentInv, NameInv, HolderInv, Nothing, Free, NoJob
<1>2. TypeOK /\ AgentInv => IdentityEndsWithItsAgent
  BY DEF AgentInv, HolderInv, IdentityEndsWithItsAgent, Clears, Named, Runs, TypeOK, Live
<1> QED BY <1>1, <1>2, InitType, NextType, AgentNext, PTL DEF Spec
=============================================================================
