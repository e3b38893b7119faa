--------------------------- MODULE ImplLoopProofs ---------------------------
(***************************************************************************)
(* Theorems about ImplLoop, for every configuration, every cost of agents  *)
(* and every change they make: type correctness, the gates of a merge, the *)
(* bound on engineer rounds, what a run spends and why it ends, the reach  *)
(* of a kill, the circuit breaker, the contract the loop implements, the   *)
(* merge cooldown and the merged tree.                                     *)
(***************************************************************************)
EXTENDS ImplLoop, TLAPS

USE DEF MAX, MAX_SPEC_GAP, counters, breaker, money, place, signal

-----------------------------------------------------------------------------
(* Type correctness.                                                       *)

LEMMA InitType == Init => TypeOK
<1> SUFFICES ASSUME Init PROVE TypeOK
  OBVIOUS
<1>1. /\ pc \in Workers \cup {"enter", "end"} /\ result \in Result
      /\ depth \in Depth
      /\ failType \in FailType \cup {"none"} /\ recent \subseteq FailType
  BY DEF Init, Workers, Result, Depth, FailType
<1>2. flags \subseteq Flag
  BY DEF Init, Flag
<1>3. attempt \in 0 .. MAX /\ gaps \in 0 .. MAX_SPEC_GAP + 1 /\ fails \in [FailType -> Nat]
  BY DEF Init
<1>4. /\ dirty \subseteq Changes \cup {Missed}
      /\ total \in Nat /\ spent \in Nat /\ rounds \in Nat
      /\ kill \in BOOLEAN /\ late \in Nat /\ gates \subseteq Gate
  BY DEF Init
<1>5. /\ cwd \in Place /\ origCwd \in Place
      /\ cooldown \in Place \cup {"none"} /\ merged \in BOOLEAN /\ refused \in BOOLEAN
  BY DEF Init, Place
<1> QED BY <1>1, <1>2, <1>3, <1>4, <1>5 DEF TypeOK

\* A worker that fails leaves an attempt in range, if it had one left.
LEMMA FailEffect ==
  ASSUME TypeOK, attempt < MAX, NEW t \in FailType, Fail(t)
  PROVE  /\ pc' = "top" /\ result' = result
         /\ attempt' = attempt + 1 /\ attempt' \in 0 .. MAX
         /\ gaps' = gaps /\ depth' = depth /\ recent' = recent
         /\ failType' = t /\ failType' \in FailType
         /\ fails' \in [FailType -> Nat]
BY DEF Fail, Goto, TypeOK

\* Only the loop head may find the attempts used up; the SPEC_GAP that exceeds
\* its budget ends the run.
Busy == pc \in Workers \ {"top"}
AttemptInv == /\ pc \in Workers \ {"top"} => attempt < MAX
              /\ pc \in Workers => gaps <= MAX_SPEC_GAP

TypeInv == TypeOK /\ AttemptInv

LEMMA EnterType == TypeInv /\ Enter => TypeInv'
<1> SUFFICES ASSUME TypeInv, Enter PROVE TypeInv'
  OBVIOUS
<1>1. pc' \in {"top", "end"} /\ result' \in Result
  BY DEF TypeInv, TypeOK, Enter, Return, Goto, Result
<1>a. pc' = "top" => attempt' = 0 /\ gaps' = 0
  BY DEF Enter, Return
<1>2. /\ depth' \in Depth /\ attempt' \in 0 .. MAX /\ gaps' \in 0 .. MAX_SPEC_GAP + 1
      /\ failType' \in FailType \cup {"none"}
  BY DEF TypeInv, TypeOK, Enter
<1>3. recent' \subseteq FailType /\ fails' \in [FailType -> Nat] /\ total' \in Nat
  BY DEF TypeInv, TypeOK, Enter
<1>4. flags' \subseteq Flag /\ cwd' \in Place /\ origCwd' \in Place
  BY DEF TypeInv, TypeOK, Enter, Flag, Place
<1>5. UNCHANGED <<dirty, spent, kill, late, cooldown, merged, refused, gates, rounds>>
  BY DEF Enter
<1> QED BY <1>1, <1>a, <1>2, <1>3, <1>4, <1>5 DEF TypeInv, TypeOK, AttemptInv, Workers

LEMMA HeadType ==
  TypeInv /\ (KillCheck \/ Exhausted \/ BreakerTrips \/ NextRound \/ CommandTimesOut) => TypeInv'
<1> SUFFICES ASSUME TypeInv,
                    KillCheck \/ Exhausted \/ BreakerTrips \/ NextRound \/ CommandTimesOut
             PROVE  TypeInv'
  OBVIOUS
<1>1. CASE NextRound
  BY <1>1 DEF TypeInv, AttemptInv, TypeOK, NextRound, Recorded, TddActive, Goto, Workers, Result
<1>2. CASE KillCheck
  BY <1>2 DEF TypeInv, AttemptInv, TypeOK, KillCheck, Return, Workers, Result
<1>3. CASE Exhausted \/ BreakerTrips \/ CommandTimesOut
  BY <1>3 DEF TypeInv, AttemptInv, TypeOK, Exhausted, BreakerTrips, CommandTimesOut, Return, Workers, Result
<1> QED BY <1>1, <1>2, <1>3

\* The parts of the types that one worker's step may touch.
Tree == dirty \subseteq Changes \cup {Missed}
Bill == total \in Nat /\ spent \in Nat /\ kill \in BOOLEAN /\ late \in Nat
Site == /\ cwd \in Place /\ origCwd \in Place /\ cooldown \in Place \cup {"none"}
        /\ merged \in BOOLEAN /\ refused \in BOOLEAN
Head == /\ pc \in Workers \cup {"enter", "end"} /\ result \in Result
        /\ depth \in Depth
        /\ attempt \in 0 .. MAX /\ gaps \in 0 .. MAX_SPEC_GAP + 1
        /\ failType \in FailType \cup {"none"} /\ recent \subseteq FailType
        /\ fails \in [FailType -> Nat]
        /\ AttemptInv
Marks == flags \subseteq Flag /\ gates \subseteq Gate /\ rounds \in Nat

LEMMA TypeParts ==
  /\ TypeInv => Head /\ Tree /\ Bill /\ Site /\ Marks
  /\ Head' /\ Tree' /\ Bill' /\ Site' /\ Marks' => TypeInv'
BY DEF TypeInv, TypeOK, Head, Tree, Bill, Site, Marks

LEMMA TouchType == ASSUME TypeInv, NEW K, Touch(K) PROVE dirty' \subseteq Changes \cup {Missed}
BY DEF Touch, TypeInv, TypeOK

\* A call counts as late exactly if the kill is pending when the agent starts.
LEMMA CallSignal ==
  ASSUME NEW c, Call(c)
  PROVE  /\ kill \in BOOLEAN => kill' \in BOOLEAN
         /\ kill = TRUE => kill' = TRUE
         /\ late' = late \/ (late' = late + 1 /\ kill')
<1>1. kill' = kill \/ kill' = TRUE
  BY DEF Call
<1>2. late' = late \/ (late' = late + 1 /\ kill')
  BY DEF Call
<1> QED BY <1>1, <1>2

LEMMA CallType ==
  ASSUME TypeInv, NEW c \in Costs, Call(c)
  PROVE  spent' \in Nat /\ kill' \in BOOLEAN /\ late' \in Nat /\ c \in Nat
<1>1. c \in Nat /\ spent' \in Nat
  BY ImplLoopAssumption DEF Call, TypeInv, TypeOK
<1>2. late' \in Nat
  <2>1. late' = late \/ late' = late + 1
    BY CallSignal, Zenon
  <2> QED BY <2>1 DEF TypeInv, TypeOK
<1>3. kill' \in BOOLEAN
  <2>1. kill \in BOOLEAN
    BY DEF TypeInv, TypeOK
  <2> QED BY <2>1, CallSignal
<1> QED BY <1>1, <1>2, <1>3

LEMMA ExceededHead ==
  ASSUME TypeInv, Exceeded
  PROVE  Head' /\ flags' \subseteq Flag /\ gates' \subseteq Gate
BY DEF Exceeded, Return, TypeInv, TypeOK, AttemptInv, Head, Workers, Result

LEMMA FailHead ==
  ASSUME TypeInv, Busy, NEW t \in FailType, Fail(t)
  PROVE  Head'
BY FailEffect DEF Busy, TypeInv, TypeOK, Head, AttemptInv, Workers

LEMMA PassHead ==
  ASSUME TypeInv, Busy, NEW g \in SUBSET Gate, NEW to \in Workers, Pass(g, to)
  PROVE  Head' /\ gates' \subseteq Gate
BY DEF Pass, Goto, Busy, TypeInv, TypeOK, Head, AttemptInv, Workers

LEMMA GotoHead ==
  ASSUME TypeInv, Busy, NEW to \in Workers, Goto(to), UNCHANGED <<counters, breaker>>
  PROVE  Head'
BY DEF Goto, Busy, TypeInv, TypeOK, Head, AttemptInv, Workers

LEMMA ReturnHead ==
  ASSUME TypeInv, NEW r \in Result, Return(r), UNCHANGED <<counters, breaker>>
  PROVE  Head'
BY DEF Return, TypeInv, TypeOK, Head, AttemptInv, Workers

\* A budget that is exceeded, a failure, or what else the worker does: a
\* worker's type follows from that of its branches.
LEMMA TestersType == TypeInv /\ (TestsFirst \/ TestsFallback) => TypeInv'
<1> SUFFICES ASSUME TypeInv, TestsFirst \/ TestsFallback PROVE TypeInv'
  OBVIOUS
<1>1. Busy
  BY DEF TestsFirst, TestsFallback, Busy, Workers
<1>2. PICK c \in Costs : Call(c) /\ total' = total + c
  BY DEF TestsFirst, TestsFallback
<1>3. Bill'
  BY <1>2, CallType DEF Bill, TypeInv, TypeOK
<1>4. Tree'
  BY TouchType DEF TestsFirst, TestsFallback, Tree, TypeInv, TypeOK
<1>5. Site' /\ rounds' \in Nat
  BY DEF TestsFirst, TestsFallback, Site, TypeInv, TypeOK
<1>6. CASE Exceeded
  BY <1>3, <1>4, <1>5, <1>6, ExceededHead, TypeParts DEF Marks
<1>7. CASE TestsFirst /\ ~Exceeded
  <2>1. Goto("engineer") /\ UNCHANGED <<counters, breaker>> /\ UNCHANGED <<flags, gates>>
    BY <1>7 DEF TestsFirst
  <2> QED BY <1>1, <1>3, <1>4, <1>5, <2>1, GotoHead, TypeParts DEF Marks, Workers
<1>8. CASE TestsFallback /\ ~Exceeded
  <2>1. \/ Fail("test_fail") /\ UNCHANGED <<flags, gates>>
        \/ Pass({"tests"}, "validator") /\ flags' = flags \cup {"test"}
    BY <1>8 DEF TestsFallback
  <2>2. Head' /\ gates' \subseteq Gate
    BY <1>1, <2>1, FailHead, PassHead, TypeParts DEF FailType, Workers, Marks, Gate
  <2>3. flags' \subseteq Flag
    BY <2>1, TypeParts DEF Marks, Flag
  <2> QED BY <1>3, <1>4, <1>5, <2>2, <2>3, TypeParts DEF Marks
<1> QED BY <1>6, <1>7, <1>8

LEMMA EngineerType == TypeInv /\ Engineer => TypeInv'
<1> SUFFICES ASSUME TypeInv, Engineer PROVE TypeInv'
  OBVIOUS
<1>1. Busy /\ rounds' \in Nat
  BY DEF Engineer, TypeInv, TypeOK, Busy, Workers
<1>2. PICK c \in Costs :
        /\ Call(c) /\ total' = c
        /\ \/ Exceeded
           \/ /\ gates' = {} /\ UNCHANGED flags
              /\ \/ Fail("autocheck_fail")
                 \/ /\ gaps' = gaps + 1
                    /\ IF gaps' > MAX_SPEC_GAP
                         THEN Return("IMPLEMENTATION_ESCALATE") ELSE Goto("gap")
                    /\ UNCHANGED <<depth, attempt, failType, breaker>>
                 \/ Goto("checks") /\ UNCHANGED <<counters, breaker>>
  BY DEF Engineer
<1>3. Bill'
  BY <1>2, CallType DEF Bill
<1>4. Tree' /\ Site'
  BY TouchType, TypeParts DEF Engineer, Tree, Site
<1>5. CASE Exceeded
  BY <1>1, <1>3, <1>4, <1>5, ExceededHead, TypeParts DEF Marks
<1>6. ASSUME gaps' = gaps + 1,
             IF gaps' > MAX_SPEC_GAP
               THEN Return("IMPLEMENTATION_ESCALATE") ELSE Goto("gap"),
             UNCHANGED <<depth, attempt, failType, breaker>>
      PROVE  Head'
  BY <1>1, <1>6 DEF Busy, Head, TypeInv, TypeOK, AttemptInv, Return, Goto, Workers, Result
<1>7. CASE ~Exceeded
  <2>1. Marks'
    BY <1>1, <1>2, <1>7, TypeParts DEF Marks
  <2>2. Head'
    BY <1>1, <1>2, <1>6, <1>7, FailHead, GotoHead DEF FailType, Workers
  <2> QED BY <1>3, <1>4, <2>1, <2>2, TypeParts
<1> QED BY <1>5, <1>7

LEMMA ArchitectType == TypeInv /\ (SpecGap \/ SpecMissing) => TypeInv'
<1> SUFFICES ASSUME TypeInv, SpecGap \/ SpecMissing PROVE TypeInv'
  OBVIOUS
<1>1. Busy
  BY DEF SpecGap, SpecMissing, Busy, Workers
<1>2. Bill'
  BY CallType, TypeParts DEF SpecGap, SpecMissing, Bill
<1>3. Tree' /\ Site' /\ rounds' \in Nat
  BY TouchType, TypeParts DEF SpecGap, SpecMissing, Tree, Site, Marks
<1>4. CASE Exceeded
  BY <1>2, <1>3, <1>4, ExceededHead, TypeParts DEF Marks
<1>5. CASE SpecMissing /\ ~Exceeded
  <2>1. Fail("validator_fail") /\ UNCHANGED <<flags, gates>>
    BY <1>5 DEF SpecMissing
  <2> QED BY <1>1, <1>2, <1>3, <2>1, FailHead, TypeParts DEF FailType, Marks
<1>6. CASE SpecGap /\ ~Exceeded
  <2>1. UNCHANGED <<attempt, gaps, breaker, flags, gates>>
    BY <1>6 DEF SpecGap
  <2>2. /\ depth' \in Depth /\ failType' \in FailType \cup {"none"}
        /\ pc' \in {"enter", "top", "end"} /\ result' \in Result
    BY <1>6 DEF SpecGap, TypeInv, TypeOK, Goto, Return, Result
  <2>3. Head'
    BY <1>1, <2>1, <2>2 DEF Busy, Head, TypeInv, TypeOK, AttemptInv, Workers
  <2> QED BY <1>2, <1>3, <2>1, <2>3, TypeParts DEF Marks
<1> QED BY <1>4, <1>5, <1>6

LEMMA JudgeType == TypeInv /\ (Validator \/ Review \/ Security) => TypeInv'
<1> SUFFICES ASSUME TypeInv, Validator \/ Review \/ Security PROVE TypeInv'
  OBVIOUS
<1>1. Busy
  BY DEF Validator, Review, Security, Busy, Workers
<1>2. Bill'
  BY CallType, TypeParts DEF Validator, Review, Security, Bill
<1>3. Tree' /\ Site' /\ rounds' \in Nat
  BY TypeParts DEF Validator, Review, Security, Tree, Site, Marks
<1>4. CASE Exceeded
  BY <1>2, <1>3, <1>4, ExceededHead, TypeParts DEF Marks
<1>5. CASE ~Exceeded
  <2>1. \/ \E t \in FailType : Fail(t) /\ UNCHANGED <<flags, gates>>
        \/ \E g \in SUBSET Gate, to \in Workers : Pass(g, to)
    BY <1>5 DEF Validator, Review, Security, FailType, Gate, Workers, AfterReview
  <2>2. flags' \subseteq Flag
    BY <1>5, TypeParts DEF Validator, Review, Security, Marks, Flag
  <2>3. Head' /\ gates' \subseteq Gate
    BY <1>1, <2>1, FailHead, PassHead, TypeParts DEF Marks
  <2> QED BY <1>2, <1>3, <2>2, <2>3, TypeParts DEF Marks
<1> QED BY <1>4, <1>5

LEMMA CheckType == TypeInv /\ (ChecksAndCommit \/ Green) => TypeInv'
<1> SUFFICES ASSUME TypeInv, ChecksAndCommit \/ Green PROVE TypeInv'
  OBVIOUS
<1>1. Busy
  BY DEF ChecksAndCommit, Green, Busy, Workers
<1>2. Bill' /\ Site' /\ rounds' \in Nat
  BY TypeParts DEF ChecksAndCommit, Green, Bill, Site, Marks
<1>3. Tree'
  BY TypeParts DEF ChecksAndCommit, Green, Tree, Committed
<1>4. \/ \E t \in FailType : Fail(t) /\ UNCHANGED gates
      \/ \E g \in SUBSET Gate, to \in Workers : Pass(g, to)
  <2>1. CASE Green
    BY <2>1 DEF Green, FailType, Gate, Workers
  <2>2. CASE ChecksAndCommit
    BY <2>2 DEF ChecksAndCommit, FailType, Gate, Workers
  <2> QED BY <2>1, <2>2
<1>5. flags' \subseteq Flag
  BY TypeParts DEF ChecksAndCommit, Green, Marks, Flag
<1>6. Head' /\ gates' \subseteq Gate
  BY <1>1, <1>4, FailHead, PassHead, TypeParts DEF Marks
<1> QED BY <1>2, <1>3, <1>5, <1>6, TypeParts DEF Marks

LEMMA PolishType == TypeInv /\ Polish => TypeInv'
<1> SUFFICES ASSUME TypeInv, Polish PROVE TypeInv'
  OBVIOUS
<1>1. Busy
  BY DEF Polish, Busy, Workers
<1>2. Bill'
  BY CallType, TypeParts DEF Polish, Bill
<1>3. Tree'
  BY TypeParts DEF Polish, Tree, Committed
<1>4. Site' /\ Marks'
  BY TypeParts DEF Polish, Site, Marks
<1>5. Head'
  <2>1. UNCHANGED <<counters, breaker>> /\ Goto(AfterReview)
    BY DEF Polish
  <2> QED BY <1>1, <2>1, GotoHead DEF AfterReview, Workers
<1> QED BY <1>2, <1>3, <1>4, <1>5, TypeParts

LEMMA MergeType == TypeInv /\ (Merge \/ GhMerge \/ SelfHeal) => TypeInv'
<1> SUFFICES ASSUME TypeInv, Merge \/ GhMerge \/ SelfHeal PROVE TypeInv'
  OBVIOUS
<1>1. Busy
  BY DEF Merge, GhMerge, SelfHeal, Busy, Workers
<1>2. Bill' /\ gates' \subseteq Gate /\ rounds' \in Nat
  BY TypeParts DEF Merge, GhMerge, SelfHeal, Bill, Marks
<1>3. flags' \subseteq Flag
  BY TypeParts DEF Merge, GhMerge, SelfHeal, SkippedFlags, Depth, Head, Marks, Flag
<1>4. Tree'
  BY TypeParts DEF Merge, GhMerge, SelfHeal, Tree, Committed
<1>5. Site'
  BY TypeParts DEF Merge, GhMerge, SelfHeal, Refused, Accepted, MergeTimesOut, Site, Place
<1>6. Head'
  <2>1. /\ UNCHANGED <<counters, breaker>>
        /\ (\E r \in Result : Return(r)) \/ (\E to \in {"gh", "heal"} : Goto(to))
    BY DEF Merge, GhMerge, SelfHeal, Refused, Accepted, MergeTimesOut, Result
  <2> QED BY <1>1, <2>1, ReturnHead, GotoHead DEF Workers
<1> QED BY <1>2, <1>3, <1>4, <1>5, <1>6, TypeParts DEF Marks

LEMMA OutsideType ==
  TypeInv /\ (Kill \/ TaskSwitch \/ \E t \in FailType : WindowPasses(t)) => TypeInv'
<1> SUFFICES ASSUME TypeInv, Kill \/ TaskSwitch \/ \E t \in FailType : WindowPasses(t) PROVE TypeInv'
  OBVIOUS
<1>1. CASE Kill
  BY <1>1 DEF Kill, control, TypeInv, TypeOK, AttemptInv
<1>2. CASE \E t \in FailType : WindowPasses(t)
  BY <1>2 DEF WindowPasses, control, TypeInv, TypeOK, AttemptInv
<1>3. CASE TaskSwitch
  BY <1>3 DEF TaskSwitch, control, TypeInv, TypeOK, AttemptInv
<1> QED BY <1>1, <1>2, <1>3

LEMMA NextType == TypeInv /\ [Next]_vars => TypeInv'
<1>1. TypeInv /\ Next => TypeInv'
  BY EnterType, HeadType, TestersType, EngineerType, ArchitectType, JudgeType, CheckType,
     PolishType, MergeType, OutsideType DEF Next, Step
<1>2. TypeInv /\ UNCHANGED vars => TypeInv'
  BY DEF vars, control, TypeInv, TypeOK, AttemptInv
<1> QED BY <1>1, <1>2

\* Every variable keeps its type, for every cost and change of the agents; in
\* particular no counter of the loop passes its maximum.
THEOREM TypeCorrect == Spec => []TypeOK
<1>1. Init => TypeInv
  BY InitType DEF Init, TypeInv, AttemptInv, Workers
<1>2. TypeInv => TypeOK
  BY DEF TypeInv
<1> QED BY <1>1, <1>2, NextType, PTL DEF Spec

-----------------------------------------------------------------------------
(* The gates of a merge.  Along the chain, a worker finds the gates of the *)
(* workers before it passed since the last engineer round; a depth changes *)
(* only before such a round.                                               *)

Earned ==
  CASE pc \in {"fallback", "green", "validator", "missing"} -> {"checks"}
    [] pc = "review"                                       -> Required(depth) \ {"review", "security"}
    [] pc \in {"polish", "security"}                       -> Required(depth) \ {"security"}
    [] pc \in {"merge", "gh", "heal"}                      -> Required(depth)
    [] OTHER                                               -> {}

AfterTests == {"validator", "missing", "review", "polish", "security", "merge", "gh", "heal"}

GateInv ==
  /\ Earned \subseteq gates
  /\ pc \in AfterTests => Tested
  /\ pc \in {"fallback", "green", "validator", "missing"} => depth # "simple"
  /\ pc = "fallback" => ~TestCommand
  /\ pc = "security" => depth = "deep"
  /\ merged => pc = "end" /\ Required(depth) \subseteq gates /\ Tested

\* A step back to the head of the loop, or out of it, keeps nothing to earn.
LEMMA GateFree ==
  ASSUME GateInv, pc' \in {"enter", "top", "tdd", "engineer", "gap", "checks", "end"},
         ~merged'
  PROVE  GateInv'
BY DEF GateInv, Earned, AfterTests

LEMMA GateNext == TypeInv /\ GateInv /\ [Next]_vars => GateInv'
<1> SUFFICES ASSUME TypeInv, GateInv, [Next]_vars PROVE GateInv'
  OBVIOUS
<1> USE DEF Earned, AfterTests, Tested, Required
<1>1. CASE UNCHANGED vars \/ TaskSwitch \/ Kill \/ \E t \in FailType : WindowPasses(t)
  <2>1. UNCHANGED <<pc, depth, attempt, gates, merged>>
    BY <1>1 DEF vars, control, Kill, WindowPasses, TaskSwitch
  <2> QED BY <2>1 DEF GateInv
<1>2. CASE Enter \/ KillCheck \/ Exhausted \/ BreakerTrips \/ NextRound \/ CommandTimesOut
  <2>1. ~merged
    BY <1>2 DEF GateInv, Enter, KillCheck, Exhausted, BreakerTrips, NextRound,
                CommandTimesOut, Checked, Workers
  <2>2. UNCHANGED merged
    BY <1>2 DEF Enter, KillCheck, Exhausted, BreakerTrips, NextRound, CommandTimesOut
  <2>3. pc' \in {"top", "tdd", "engineer", "end"}
    BY <1>2 DEF Enter, KillCheck, Exhausted, BreakerTrips, NextRound, CommandTimesOut,
                Goto, Return
  <2> QED BY <2>1, <2>2, <2>3, GateFree
<1>3. CASE TestsFirst \/ Engineer \/ SpecGap \/ SpecMissing
  <2>1. ~merged /\ UNCHANGED merged
    BY <1>3 DEF GateInv, TestsFirst, Engineer, SpecGap, SpecMissing
  <2>2. pc' \in {"enter", "top", "engineer", "gap", "checks", "end"}
    BY <1>3 DEF TestsFirst, Engineer, SpecGap, SpecMissing, Exceeded, Fail, Goto, Return
  <2> QED BY <2>1, <2>2, GateFree
<1>4. CASE ChecksAndCommit
  BY <1>4 DEF GateInv, ChecksAndCommit, Fail, Pass, Goto, TypeInv, TypeOK, Depth
<1>5. CASE TestsFallback
  BY <1>5 DEF GateInv, TestsFallback, Exceeded, Fail, Pass, Goto, Return
<1>6. CASE Green
  BY <1>6 DEF GateInv, Green, Fail, Pass, Goto
<1>7. CASE Validator
  BY <1>7 DEF GateInv, Validator, Exceeded, Fail, Pass, Goto, Return
<1>8. CASE Review
  BY <1>8 DEF GateInv, Review, AfterReview, Exceeded, Fail, Pass, Goto, Return
<1>9. CASE Polish
  BY <1>9 DEF GateInv, Polish, AfterReview, Goto
<1>10. CASE Security
  BY <1>10 DEF GateInv, Security, Exceeded, Fail, Pass, Goto, Return
<1>11. CASE Merge \/ GhMerge \/ SelfHeal
  BY <1>11 DEF GateInv, Merge, GhMerge, SelfHeal, Refused, Accepted, MergeTimesOut, Goto, Return
<1> QED BY <1>1, <1>2, <1>3, <1>4, <1>5, <1>6, <1>7, <1>8, <1>9, <1>10, <1>11 DEF Next, Step

\* Whatever flag files earlier runs left, however depths and attempts changed:
\* a branch is merged only after automated checks, validator, reviewer and
\* security reviewer, as its final depth wants them, passed on the code of the
\* last engineer round, and the tests too, unless there is no test_command and
\* the test writer was skipped after attempt 0.
THEOREM MergeIsChecked == Spec => []NothingMergesUnchecked
<1>1. Init => TypeInv /\ GateInv
  BY InitType DEF Init, TypeInv, AttemptInv, Workers, GateInv, Earned, AfterTests
<1>2. TypeInv /\ GateInv /\ [Next]_vars => TypeInv' /\ GateInv'
  BY NextType, GateNext
<1>3. GateInv => NothingMergesUnchecked
  BY DEF GateInv, NothingMergesUnchecked
<1> QED BY <1>1, <1>2, <1>3, PTL DEF Spec

-----------------------------------------------------------------------------
(* The bound on engineer rounds.  Every round before the current one was a *)
(* failure, a SPEC_GAP, or belongs to a lower depth.                       *)

Base(d) == 4 * Rank(d)
Later == {"checks", "fallback", "green", "validator", "missing", "review",
          "polish", "security", "merge", "gh", "heal"}

RoundInv ==
  /\ pc = "enter" => rounds <= Base(depth)
  /\ pc \in {"top", "tdd", "engineer", "gap"} => rounds <= Base(depth) + attempt + gaps
  /\ pc \in Later => rounds <= Base(depth) + attempt + gaps + 1
  /\ pc = "end" => RoundsBounded

LEMMA RankFacts ==
  /\ \A d \in Depth : Rank(d) \in Nat
  /\ \A d, e \in Depth : Rank(d) > Rank(e) => Base(e) + 4 <= Base(d)
BY DEF Depth, Rank, Base

LEMMA RoundEnds ==
  ASSUME TypeInv, RoundInv, pc # "end", pc' = "end", UNCHANGED <<depth, rounds>>
  PROVE  RoundInv'
BY RankFacts DEF RoundInv, RoundsBounded, Base, Later, TypeInv, TypeOK, AttemptInv, Workers

LEMMA RoundFails ==
  ASSUME TypeInv, RoundInv, Busy, pc # "engineer", NEW t \in FailType, Fail(t), UNCHANGED rounds
  PROVE  RoundInv'
BY RankFacts DEF RoundInv, Base, Busy, Later, Fail, Goto, TypeInv, TypeOK, Workers

\* A step along the chain after the engineer.
LEMMA RoundGoesOn ==
  ASSUME TypeInv, RoundInv, pc \in Later, pc' \in Later,
         UNCHANGED <<depth, attempt, gaps, rounds>>
  PROVE  RoundInv'
BY DEF RoundInv, Later

LEMMA RoundEngineer == TypeInv /\ RoundInv /\ Engineer => RoundInv'
<1> SUFFICES ASSUME TypeInv, RoundInv, Engineer PROVE RoundInv'
  OBVIOUS
<1>1. /\ attempt \in 0 .. 2 /\ gaps \in 0 .. 2 /\ rounds \in Nat /\ depth \in Depth
      /\ rounds' = rounds + 1 /\ rounds <= Base(depth) + attempt + gaps
  BY DEF Engineer, RoundInv, TypeInv, TypeOK, AttemptInv, Workers
<1>2. Base(depth) \in Nat /\ Rank(depth) \in Nat /\ UNCHANGED depth
  BY <1>1, RankFacts DEF Base, Engineer, Exceeded, Fail
<1>3. \/ pc' = "end"
      \/ pc' = "top" /\ attempt' = attempt + 1 /\ gaps' = gaps
      \/ pc' = "gap" /\ attempt' = attempt /\ gaps' = gaps + 1
      \/ pc' = "checks" /\ attempt' = attempt /\ gaps' = gaps
  BY DEF Engineer, Exceeded, Fail, Goto, Return
<1> QED BY <1>1, <1>2, <1>3 DEF RoundInv, RoundsBounded, Base, Later

LEMMA RoundGap == TypeInv /\ RoundInv /\ SpecGap => RoundInv'
<1> SUFFICES ASSUME TypeInv, RoundInv, SpecGap PROVE RoundInv'
  OBVIOUS
<1>1. /\ attempt \in 0 .. 2 /\ gaps \in 0 .. 2 /\ rounds \in Nat /\ depth \in Depth
      /\ rounds' = rounds /\ rounds <= Base(depth) + attempt + gaps
  BY DEF SpecGap, RoundInv, TypeInv, TypeOK, AttemptInv, Workers
<1>2. Base(depth) \in Nat
  BY <1>1, RankFacts DEF Base
<1>3. /\ UNCHANGED <<attempt, gaps>>
      /\ \/ pc' = "end" /\ UNCHANGED depth
         \/ pc' = "top" /\ UNCHANGED depth
         \/ pc' = "enter" /\ depth' \in Depth /\ Rank(depth') > Rank(depth)
  BY DEF SpecGap, Exceeded, Goto, Return
<1>4. CASE pc' = "enter"
  <2>1. Base(depth) + 4 <= Base(depth') /\ Base(depth') \in Nat
    BY <1>1, <1>3, <1>4, RankFacts DEF Base
  <2> QED BY <1>1, <1>2, <1>4, <2>1 DEF RoundInv, Later
<1>5. CASE pc' # "enter"
  BY <1>1, <1>2, <1>3, <1>5 DEF RoundInv, RoundsBounded, Base, Later
<1> QED BY <1>4, <1>5

LEMMA RoundNext == TypeInv /\ RoundInv /\ [Next]_vars => RoundInv'
<1> SUFFICES ASSUME TypeInv, RoundInv, [Next]_vars PROVE RoundInv'
  OBVIOUS
<1>1. CASE UNCHANGED vars \/ TaskSwitch \/ Kill \/ \E t \in FailType : WindowPasses(t)
  <2>1. UNCHANGED <<pc, depth, attempt, gaps, rounds>>
    BY <1>1 DEF vars, control, Kill, WindowPasses, TaskSwitch
  <2> QED BY <2>1 DEF RoundInv, RoundsBounded
<1>2. CASE Enter
  BY <1>2, RankFacts DEF Enter, Goto, Return, RoundInv, RoundsBounded, Base, Later,
                         TypeInv, TypeOK
<1>3. CASE KillCheck \/ Exhausted \/ BreakerTrips \/ CommandTimesOut
  <2>1. pc # "end" /\ pc' = "end" /\ UNCHANGED <<depth, rounds>>
    BY <1>3 DEF KillCheck, Exhausted, BreakerTrips, CommandTimesOut, Return, Checked, Workers
  <2> QED BY <2>1, RoundEnds
<1>9. CASE Merge \/ GhMerge \/ SelfHeal
  <2>1. /\ pc \in Later /\ pc # "end" /\ pc' \in Later \cup {"end"}
        /\ UNCHANGED <<depth, attempt, gaps, rounds>>
    BY <1>9 DEF Merge, GhMerge, SelfHeal, Refused, Accepted, MergeTimesOut, Return, Goto, Later
  <2> QED BY <2>1, RoundEnds, RoundGoesOn
<1>4. CASE NextRound
  BY <1>4 DEF NextRound, Goto, RoundInv, Later
<1>5. CASE TestsFirst
  <2>1. pc = "tdd" /\ UNCHANGED <<depth, attempt, gaps, rounds>> /\ pc' \in {"engineer", "end"}
    BY <1>5 DEF TestsFirst, Exceeded, Goto, Return
  <2>2. CASE pc' = "end"
    BY <2>1, <2>2, RoundEnds
  <2>3. CASE pc' = "engineer"
    BY <2>1, <2>3 DEF RoundInv, Later
  <2> QED BY <2>1, <2>2, <2>3
<1>6. CASE Engineer
  BY <1>6, RoundEngineer
<1>7. CASE SpecGap
  BY <1>7, RoundGap
<1>8. CASE ChecksAndCommit \/ TestsFallback \/ Green \/ Validator \/ SpecMissing
             \/ Review \/ Polish \/ Security
  <2>1. UNCHANGED rounds /\ pc \in Later /\ Busy /\ pc \notin {"engineer", "end"}
    BY <1>8 DEF ChecksAndCommit, TestsFallback, Green, Validator, SpecMissing, Review,
                Polish, Security, Later, Busy, Workers
  <2>2. \/ Exceeded
        \/ \E t \in FailType : Fail(t)
        \/ pc' \in Later /\ UNCHANGED <<counters, breaker>>
    BY <1>8 DEF ChecksAndCommit, TestsFallback, Green, Validator, SpecMissing, Review,
                Polish, Security, Pass, Goto, AfterReview, Later, FailType
  <2>3. CASE Exceeded
    BY <2>1, <2>3, RoundEnds DEF Exceeded, Return
  <2>4. CASE \E t \in FailType : Fail(t)
    BY <2>1, <2>4, RoundFails
  <2>5. CASE pc' \in Later /\ UNCHANGED <<counters, breaker>>
    BY <2>1, <2>5, RoundGoesOn
  <2> QED BY <2>2, <2>3, <2>4, <2>5
<1> QED BY <1>1, <1>2, <1>3, <1>4, <1>5, <1>6, <1>7, <1>8, <1>9 DEF Next, Step

\* Failures, SPEC_GAPs and depth upgrades in any order: five engineer rounds
\* for the depth the run ends at, at most four for each depth below it.
THEOREM RoundsAreBounded == Spec => []RoundsBounded
<1>1. Init => TypeInv /\ RoundInv
  BY InitType, RankFacts
  DEF Init, TypeInv, TypeOK, AttemptInv, Workers, RoundInv, Later, Base
<1>2. TypeInv /\ RoundInv /\ [Next]_vars => TypeInv' /\ RoundInv'
  BY NextType, RoundNext
<1>3. TypeInv /\ RoundInv => RoundsBounded
  BY RankFacts
  DEF TypeInv, TypeOK, AttemptInv, Workers, RoundInv, RoundsBounded, Later, Base
<1> QED BY <1>1, <1>2, <1>3, PTL DEF Spec

-----------------------------------------------------------------------------
(* What the loop spends.  The rounds so far have their caps; a round in    *)
(* progress still owes the rest of its own, and keeps the price of one     *)
(* call apart until POLISH has run.                                        *)

Paid == rounds * RoundCap
Unpolished == {"gap", "checks", "fallback", "green", "validator", "missing", "review", "polish"}
Polished == {"security", "merge", "gh", "heal"}

SpendInv ==
  /\ pc \in {"enter", "top", "tdd"} => spent <= Paid
  /\ pc = "tdd" => TestCommand
  /\ pc = "engineer" => spent <= Paid + (IF TestCommand THEN CallCap ELSE 0)
  /\ pc \in Unpolished => total <= MaxCost /\ spent + MaxCost + CallCap <= Paid + total
  /\ pc \in Polished => total <= MaxCost /\ spent + MaxCost <= Paid + total
  /\ pc = "end" => SpendingBounded

LEMMA PaidFacts ==
  ASSUME TypeInv
  PROVE  /\ CallCap \in Nat /\ MaxCost \in Nat /\ Paid \in Nat
         /\ spent \in Nat /\ total \in Nat
         /\ RoundCap = MaxCost + CallCap + (IF TestCommand THEN CallCap ELSE 0)
         /\ rounds' = rounds => Paid' = Paid
         /\ rounds' = rounds + 1 => Paid' = Paid + RoundCap
         /\ SpendingBounded <=> spent <= Paid + CallCap
<1>1. CallCap \in Nat /\ MaxCost \in Nat /\ rounds \in Nat /\ spent \in Nat /\ total \in Nat
  BY ImplLoopAssumption DEF TypeInv, TypeOK
<1>2. /\ RoundCap = MaxCost + CallCap + (IF TestCommand THEN CallCap ELSE 0)
      /\ RoundCap \in Nat
  BY <1>1 DEF RoundCap
<1>3. \A r, k \in Nat : r * k \in Nat /\ (r + 1) * k = r * k + k
  OBVIOUS
<1>4. RoundCap' = RoundCap
  BY DEF RoundCap
<1> QED BY <1>1, <1>2, <1>3, <1>4 DEF Paid, SpendingBounded

LEMMA SpendCall ==
  ASSUME TypeInv, NEW c \in Costs, Call(c)
  PROVE  c \in Nat /\ c <= CallCap /\ spent' = spent + c
BY ImplLoopAssumption DEF Call

\* A step that costs nothing and ends the run.
LEMMA SpendEnds ==
  ASSUME TypeInv, SpendInv, pc \in Workers \cup {"enter"}, pc' = "end",
         UNCHANGED <<spent, rounds>>
  PROVE  SpendInv'
<1>1. spent' <= Paid' + CallCap
  BY PaidFacts DEF SpendInv, Workers, Unpolished, Polished
<1>2. SpendingBounded'
  BY <1>1, PaidFacts, RoundCap' = RoundCap DEF SpendingBounded, Paid, RoundCap
<1> QED BY <1>2 DEF SpendInv, Unpolished, Polished

\* The call that exceeds the cap of its round.
LEMMA SpendExceeds ==
  ASSUME TypeInv, SpendInv, pc \in Workers, pc # "engineer", NEW c \in Costs, Call(c), Exceeded,
         UNCHANGED rounds
  PROVE  SpendInv'
<1>1. spent' <= Paid' + CallCap
  BY PaidFacts, SpendCall DEF SpendInv, Workers, Unpolished, Polished
<1>2. SpendingBounded'
  BY <1>1 DEF SpendingBounded, Paid, RoundCap
<1> QED BY <1>2 DEF SpendInv, Exceeded, Return, Unpolished, Polished

LEMMA SpendEngineer == TypeInv /\ SpendInv /\ Engineer => SpendInv'
<1> SUFFICES ASSUME TypeInv, SpendInv, Engineer PROVE SpendInv'
  OBVIOUS
<1>1. PICK c \in Costs :
        /\ Call(c) /\ total' = c
        /\ \/ pc' = "end"
           \/ c <= MaxCost /\ pc' \in {"top", "end", "gap", "checks"}
  BY ImplLoopAssumption DEF Engineer, Over, Exceeded, Fail, Return, Goto
<1>2. spent' + MaxCost + CallCap <= Paid' + total'
  BY <1>1, PaidFacts, SpendCall DEF Engineer, SpendInv
<1>3. CASE pc' = "end"
  <2>1. spent' <= Paid' + CallCap
    BY <1>1, <1>2, PaidFacts, SpendCall DEF Engineer
  <2>2. SpendingBounded'
    BY <2>1 DEF SpendingBounded, Paid, RoundCap
  <2> QED BY <1>3, <2>2 DEF SpendInv, Unpolished, Polished
<1>4. CASE c <= MaxCost /\ pc' \in {"top", "gap", "checks"}
  <2>1. spent' <= Paid'
    BY <1>1, <1>2, <1>4, PaidFacts, SpendCall DEF Engineer
  <2> QED BY <1>1, <1>2, <1>4, <2>1 DEF SpendInv, Unpolished, Polished
<1> QED BY <1>1, <1>3, <1>4

LEMMA SpendNext == TypeInv /\ SpendInv /\ [Next]_vars => SpendInv'
<1> SUFFICES ASSUME TypeInv, SpendInv, [Next]_vars PROVE SpendInv'
  OBVIOUS
<1>1. CASE UNCHANGED vars \/ TaskSwitch \/ Kill \/ \E t \in FailType : WindowPasses(t)
  <2>1. UNCHANGED <<pc, total, spent, rounds>>
    BY <1>1 DEF vars, control, Kill, WindowPasses, TaskSwitch
  <2> QED BY <2>1 DEF SpendInv, SpendingBounded, Paid, RoundCap, Unpolished, Polished
<1>2. CASE KillCheck \/ Exhausted \/ BreakerTrips \/ CommandTimesOut
  <2>1. pc \in Workers /\ pc' = "end" /\ UNCHANGED <<spent, rounds>>
    BY <1>2 DEF KillCheck, Exhausted, BreakerTrips, CommandTimesOut, Return, Checked, Workers
  <2> QED BY <2>1, SpendEnds
<1>11. CASE Merge \/ GhMerge \/ SelfHeal
  <2>1. /\ pc \in {"merge", "gh", "heal"} /\ pc' \in {"gh", "heal", "end"}
        /\ UNCHANGED <<total, spent, rounds>>
    BY <1>11 DEF Merge, GhMerge, SelfHeal, Refused, Accepted, MergeTimesOut, Return, Goto
  <2>2. CASE pc' = "end"
    BY <2>1, <2>2, SpendEnds DEF Workers
  <2>3. CASE pc' \in {"gh", "heal"}
    BY <2>1, <2>3 DEF SpendInv, Paid, RoundCap, Unpolished, Polished
  <2> QED BY <2>1, <2>2, <2>3
<1>3. CASE Enter
  <2>1. pc = "enter" /\ pc' \in {"top", "end"} /\ UNCHANGED <<spent, rounds>>
    BY <1>3 DEF Enter, Return, Goto
  <2>2. CASE pc' = "end"
    BY <2>1, <2>2, SpendEnds
  <2>3. CASE pc' = "top"
    BY <2>1, <2>3 DEF SpendInv, Paid, RoundCap, Unpolished, Polished
  <2> QED BY <2>1, <2>2, <2>3
<1>4. CASE NextRound
  <2>1. /\ pc = "top" /\ pc' \in {"tdd", "engineer"} /\ (pc' = "tdd" => TestCommand)
        /\ UNCHANGED <<spent, rounds>>
    BY <1>4 DEF NextRound, Goto, TddActive
  <2>2. Paid' = Paid /\ spent' <= Paid' + (IF TestCommand THEN CallCap ELSE 0) /\ spent' <= Paid'
    BY <2>1, PaidFacts DEF SpendInv
  <2> QED BY <2>1, <2>2 DEF SpendInv, Unpolished, Polished
<1>5. CASE TestsFirst
  <2>1. PICK c \in Costs : /\ Call(c)
                           /\ Exceeded \/ pc' = "engineer"
    BY <1>5 DEF TestsFirst, Goto
  <2>2. pc = "tdd" /\ pc \in Workers /\ pc # "engineer" /\ UNCHANGED rounds
    BY <1>5 DEF TestsFirst, Workers
  <2>3. CASE Exceeded
    BY <2>1, <2>2, <2>3, SpendExceeds
  <2>4. CASE pc' = "engineer"
    <3>1. spent' <= Paid' + (IF TestCommand THEN CallCap ELSE 0)
      BY <2>1, <2>2, PaidFacts, SpendCall DEF SpendInv
    <3> QED BY <2>4, <3>1 DEF SpendInv, Unpolished, Polished
  <2> QED BY <2>1, <2>3, <2>4
<1>6. CASE Engineer
  BY <1>6, SpendEngineer
<1>7. CASE ChecksAndCommit \/ Green
  <2>1. /\ pc \in Unpolished /\ pc' \in {"top"} \cup Unpolished
        /\ UNCHANGED <<total, spent, rounds>>
    BY <1>7 DEF ChecksAndCommit, Green, Fail, Pass, Goto, Unpolished
  <2>2. /\ spent' <= Paid' /\ total' <= MaxCost
        /\ spent' + MaxCost + CallCap <= Paid' + total'
    BY <2>1, PaidFacts DEF SpendInv
  <2> QED BY <2>1, <2>2 DEF SpendInv, Unpolished, Polished
<1>8. CASE SpecGap \/ SpecMissing \/ TestsFallback \/ Validator \/ Review
  <2>1. PICK c \in Costs :
          /\ Call(c)
          /\ \/ Exceeded
             \/ ~Over(total + c) /\ total' \in {total, total + c}
                /\ (pc' \in Workers => total' = total + c \/ pc' = "top")
    BY <1>8 DEF SpecGap, SpecMissing, TestsFallback, Validator, Review, Fail, Goto, Return,
                Workers
  <2>2. pc \in Unpolished /\ pc \in Workers /\ pc # "engineer" /\ UNCHANGED rounds
    BY <1>8 DEF SpecGap, SpecMissing, TestsFallback, Validator, Review, Unpolished, Workers
  <2>3. CASE Exceeded
    BY <2>1, <2>2, <2>3, SpendExceeds
  <2>4. CASE ~Exceeded
    <3>1. total + c <= MaxCost /\ spent' = spent + c /\ c \in Nat /\ c <= CallCap
      BY <2>1, <2>4, PaidFacts, SpendCall DEF Over
    <3>2. spent' <= Paid' /\ total' <= MaxCost
      BY <2>1, <2>2, <2>4, <3>1, PaidFacts DEF SpendInv
    <3>3. pc' \in Workers /\ pc' # "top" => spent' + MaxCost + CallCap <= Paid' + total'
      BY <2>1, <2>2, <2>4, <3>1, PaidFacts DEF SpendInv
    <3>4. SpendingBounded'
      BY <2>2, <3>1, <3>2, PaidFacts, RoundCap' = RoundCap DEF SpendingBounded, Paid, RoundCap
    <3>5. pc' \in Polished => spent' + MaxCost <= Paid' + total'
      BY <2>1, <2>2, <2>4, <3>1, <3>3, PaidFacts DEF Polished, Workers
    <3>6. pc' \notin {"engineer", "tdd"}
      BY <1>8, <2>4 DEF SpecGap, SpecMissing, TestsFallback, Validator, Review, AfterReview,
                        Fail, Pass, Goto, Return
    <3> QED BY <3>2, <3>3, <3>4, <3>5, <3>6 DEF SpendInv, Unpolished, Polished, Workers
  <2> QED BY <2>3, <2>4
<1>9. CASE Polish
  <2>1. PICK c \in Costs : Call(c)
    BY <1>9 DEF Polish
  <2>2. pc = "polish" /\ pc' \in Polished /\ UNCHANGED <<total, rounds>>
    BY <1>9 DEF Polish, Goto, AfterReview, Polished
  <2>3. total' <= MaxCost /\ spent' + MaxCost <= Paid' + total'
    BY <2>1, <2>2, PaidFacts, SpendCall DEF SpendInv, Unpolished
  <2> QED BY <2>2, <2>3 DEF SpendInv, Unpolished, Polished
<1>10. CASE Security
  <2>1. PICK c \in Costs :
          /\ Call(c)
          /\ \/ Exceeded
             \/ ~Over(total + c) /\ total' = total + c /\ pc' \in {"top", "merge"}
    BY <1>10 DEF Security, Fail, Pass, Goto
  <2>2. pc = "security" /\ pc \in Workers /\ pc # "engineer" /\ UNCHANGED rounds
    BY <1>10 DEF Security, Workers
  <2>3. CASE Exceeded
    BY <2>1, <2>2, <2>3, SpendExceeds
  <2>4. CASE ~Exceeded
    <3>1. spent' <= Paid' /\ total' <= MaxCost /\ spent' + MaxCost <= Paid' + total'
      BY <2>1, <2>2, <2>4, PaidFacts, SpendCall DEF SpendInv, Polished, Over
    <3> QED BY <2>1, <2>4, <3>1 DEF SpendInv, Unpolished, Polished
  <2> QED BY <2>3, <2>4
<1> QED BY <1>1, <1>2, <1>3, <1>4, <1>5, <1>6, <1>7, <1>8, <1>9, <1>10, <1>11
    DEF Next, Step

\* For every cap and whatever agents cost: each round costs at most
\* max_total_cost, its POLISH and its test writer, and only the call that ends
\* the run comes on top.
THEOREM SpendingIsBounded == Spec => []SpendingBounded
<1>1. Init => TypeInv /\ SpendInv
  <2> SUFFICES ASSUME Init PROVE TypeInv /\ SpendInv
    OBVIOUS
  <2>1. TypeInv
    BY InitType DEF Init, TypeInv, AttemptInv, Workers
  <2>2. spent <= Paid
    BY <2>1, PaidFacts DEF Init
  <2> QED BY <2>1, <2>2 DEF Init, SpendInv, Unpolished, Polished
<1>2. TypeInv /\ SpendInv /\ [Next]_vars => TypeInv' /\ SpendInv'
  BY NextType, SpendNext
<1>3. TypeInv /\ SpendInv => SpendingBounded
  BY PaidFacts DEF TypeInv, TypeOK, SpendInv, Unpolished, Polished, Workers
<1> QED BY <1>1, <1>2, <1>3, PTL DEF Spec

LEMMA MoreRoundsCostMore ==
  ASSUME NEW a \in Nat, NEW b \in Nat, NEW k \in Nat, a <= b
  PROVE  a * k <= b * k
<1>1. PICK d \in Nat : b = a + d
  BY b - a \in Nat /\ b = a + (b - a)
<1>2. d * k \in Nat /\ b * k = a * k + d * k
  BY <1>1
<1> QED BY <1>2

RunSpends == spent <= (5 + 4 * Rank(depth)) * RoundCap + CallCap

\* What one run can spend in all.  max_total_cost is the cap of a round, not of
\* the loop (helpers.py:473): with the bound on rounds it is spent up to 5, 9 or
\* 13 times over, by the depth the run ends with.
THEOREM RunSpendsBounded == Spec => []RunSpends
<1>1. TypeOK /\ SpendingBounded /\ RoundsBounded => RunSpends
  <2> SUFFICES ASSUME TypeOK, SpendingBounded, RoundsBounded PROVE RunSpends
    OBVIOUS
  <2>1. 5 + 4 * Rank(depth) \in Nat /\ rounds \in Nat
    BY RankFacts DEF TypeOK
  <2>2. RoundCap \in Nat /\ CallCap \in Nat /\ spent \in Nat
    BY PaidFacts, ImplLoopAssumption DEF TypeOK, RoundCap
  <2>3. rounds * RoundCap <= (5 + 4 * Rank(depth)) * RoundCap
    BY <2>1, <2>2, MoreRoundsCostMore DEF RoundsBounded
  <2>4. rounds * RoundCap \in Nat /\ (5 + 4 * Rank(depth)) * RoundCap \in Nat
    BY <2>1, <2>2
  <2> QED BY <2>2, <2>3, <2>4 DEF SpendingBounded, RunSpends
<1> QED BY TypeCorrect, SpendingIsBounded, RoundsAreBounded, <1>1, PTL

-----------------------------------------------------------------------------
(* Why the loop ends.  Every step uses up something that is not given      *)
(* back: a place in the chain; back at its head an attempt or a SPEC_GAP;  *)
(* where the counters restart, a depth.                                    *)

Ahead == CASE pc = "gap" -> 15       [] pc = "top" -> 14
           [] pc = "tdd" -> 13       [] pc = "engineer" -> 12
           [] pc = "checks" -> 11    [] pc \in {"fallback", "green"} -> 10
           [] pc = "validator" -> 9  [] pc = "missing" -> 8
           [] pc = "review" -> 7     [] pc = "polish" -> 6
           [] pc = "security" -> 5   [] pc = "merge" -> 4
           [] pc = "gh" -> 3         [] pc = "heal" -> 2
           [] OTHER -> 1

\* At an entry the counters count as fresh.
Chances == 16 * (MAX + MAX_SPEC_GAP + 1 - attempt - gaps) + Ahead
Fuel == IF pc = "end" THEN 0
        ELSE 114 * (2 - Rank(depth)) + (IF pc = "enter" THEN 112 ELSE Chances)

LEMMA AheadFacts == Ahead \in 1 .. 15 /\ Ahead' \in 1 .. 15
BY DEF Ahead

\* The bounds of the measure, in this state and in the next.
FuelBounds ==
  /\ Rank(depth) \in 0 .. 2 /\ attempt \in 0 .. 3 /\ gaps \in 0 .. 3
  /\ Chances \in 1 .. 111
  /\ Fuel \in 0 .. 340 /\ (pc # "end" => Fuel > 0)

LEMMA FuelFacts == (TypeInv => FuelBounds) /\ (TypeInv' => FuelBounds')
<1>1. TypeInv => FuelBounds
  <2> SUFFICES ASSUME TypeInv PROVE FuelBounds
    OBVIOUS
  <2>1. Rank(depth) \in 0 .. 2 /\ attempt \in 0 .. 3 /\ gaps \in 0 .. 3
    BY DEF TypeInv, TypeOK, Depth, Rank
  <2>2. Chances \in 1 .. 111
    BY <2>1, AheadFacts DEF Chances
  <2> QED BY <2>1, <2>2 DEF FuelBounds, Fuel
<1> QED BY <1>1, PTL

\* The steps that end the run; those along the chain; and those back to its head.
LEMMA FuelEnds == ASSUME TypeInv, pc # "end", pc' = "end" PROVE Fuel' < Fuel
BY FuelFacts DEF Fuel, FuelBounds

LEMMA FuelChain ==
  ASSUME TypeInv, TypeInv', pc \in Workers, pc' \in Workers, Ahead' < Ahead,
         UNCHANGED <<depth, attempt, gaps>>
  PROVE  Fuel' < Fuel
<1>1. Chances' < Chances /\ Rank(depth') = Rank(depth)
  BY FuelFacts, AheadFacts DEF Chances, FuelBounds
<1> QED BY <1>1, FuelFacts DEF Fuel, FuelBounds, Workers

LEMMA FuelBack ==
  ASSUME TypeInv, TypeInv', pc \in Workers, pc' \in Workers, UNCHANGED depth,
         \/ attempt' = attempt + 1 /\ gaps' = gaps
         \/ attempt' = attempt /\ gaps' = gaps + 1
  PROVE  Fuel' < Fuel
<1>1. Chances' < Chances /\ Rank(depth') = Rank(depth)
  BY FuelFacts, AheadFacts DEF Chances, FuelBounds
<1> QED BY <1>1, FuelFacts DEF Fuel, FuelBounds, Workers

LEMMA FuelStep == TypeInv /\ TypeInv' /\ Step => Fuel' < Fuel
<1> SUFFICES ASSUME TypeInv, TypeInv', Step PROVE Fuel' < Fuel
  OBVIOUS
<1>1. CASE KillCheck \/ Exhausted \/ BreakerTrips \/ CommandTimesOut
  <2>1. pc # "end" /\ pc' = "end"
    BY <1>1 DEF KillCheck, Exhausted, BreakerTrips, CommandTimesOut, Return, Checked, Workers
  <2> QED BY <2>1, FuelEnds
<1>5. CASE Merge \/ GhMerge \/ SelfHeal
  <2>1. /\ pc \in Workers /\ UNCHANGED <<depth, attempt, gaps>>
        /\ pc' = "end" \/ (pc' \in Workers /\ Ahead' < Ahead)
    BY <1>5 DEF Merge, GhMerge, SelfHeal, Refused, Accepted, MergeTimesOut, Return, Goto, Ahead,
                Workers
  <2> QED BY <2>1, FuelEnds, FuelChain DEF Workers
<1>2. CASE Enter
  <2>1. pc = "enter" /\ (pc' = "end" \/ (pc' = "top" /\ UNCHANGED depth))
    BY <1>2 DEF Enter, Return, Goto
  <2>2. CASE pc' = "end"
    BY <2>1, <2>2, FuelEnds
  <2>3. CASE pc' = "top" /\ UNCHANGED depth
    BY <2>1, <2>3, FuelFacts DEF Fuel, FuelBounds
  <2> QED BY <2>1, <2>2, <2>3
<1>3. CASE SpecGap
  <2>1. /\ pc = "gap" /\ UNCHANGED <<attempt, gaps>>
        /\ \/ pc' = "end"
           \/ pc' = "top" /\ UNCHANGED depth
           \/ pc' = "enter" /\ depth' \in Depth /\ Rank(depth') > Rank(depth)
    BY <1>3 DEF SpecGap, Exceeded, Goto, Return
  <2>2. CASE pc' = "end"
    BY <2>1, <2>2, FuelEnds
  <2>3. CASE pc' = "top" /\ UNCHANGED depth
    <3>1. Ahead' < Ahead
      BY <2>1, <2>3 DEF Ahead
    <3> QED BY <2>1, <2>3, <3>1, FuelChain DEF Workers
  <2>4. CASE pc' = "enter" /\ depth' \in Depth /\ Rank(depth') > Rank(depth)
    <3>1. Rank(depth') \in 0 .. 2
      BY <2>4 DEF Depth, Rank
    <3> QED BY <2>1, <2>4, <3>1, FuelFacts DEF Fuel, FuelBounds
  <2> QED BY <2>1, <2>2, <2>3, <2>4
<1>4. CASE NextRound \/ TestsFirst \/ Engineer \/ ChecksAndCommit \/ TestsFallback \/ Green
             \/ Validator \/ SpecMissing \/ Review \/ Polish \/ Security
  <2>1. pc \in Workers
    BY <1>4 DEF NextRound, TestsFirst, Engineer, ChecksAndCommit, TestsFallback, Green,
                Validator, SpecMissing, Review, Polish, Security, Workers
  <2>2. \/ pc' = "end"
        \/ /\ pc' \in Workers /\ UNCHANGED depth
           /\ \/ attempt' = attempt + 1 /\ gaps' = gaps
              \/ attempt' = attempt /\ gaps' = gaps + 1
        \/ pc' \in Workers /\ Ahead' < Ahead /\ UNCHANGED <<depth, attempt, gaps>>
    <3>1. CASE NextRound \/ TestsFirst \/ Engineer
      BY <3>1 DEF NextRound, TestsFirst, Engineer, Exceeded, Fail, Goto, Return, Ahead, Workers
    <3>2. CASE ChecksAndCommit
      BY <3>2 DEF ChecksAndCommit, Fail, Pass, Goto, Ahead, Workers, TypeInv, TypeOK, Depth
    <3>3. CASE TestsFallback \/ Green \/ Validator
      BY <3>3 DEF TestsFallback, Green, Validator, Exceeded, Fail, Pass, Goto, Return, Ahead,
                  Workers
    <3>4. CASE SpecMissing \/ Security
      BY <3>4 DEF SpecMissing, Security, Exceeded, Fail, Pass, Goto, Return, Ahead, Workers
    <3>5. CASE Review
      BY <3>5 DEF Review, AfterReview, Exceeded, Fail, Pass, Goto, Return, Ahead, Workers
    <3>6. CASE Polish
      BY <3>6 DEF Polish, AfterReview, Goto, Ahead, Workers
    <3> QED BY <1>4, <3>1, <3>2, <3>3, <3>4, <3>5, <3>6
  <2> QED BY <2>1, <2>2, FuelEnds, FuelBack, FuelChain DEF Workers
<1> QED BY <1>1, <1>2, <1>3, <1>4, <1>5 DEF Step

\* The loop takes at most 340 steps of its own, whatever the agents answer, and
\* kills, prompts and the clock give none of them back.  With the fairness of
\* Spec, and as long as some step is possible, this is why it ends.
THEOREM LoopRunsDown ==
  Spec => [](Fuel \in 0 .. 340) /\ [][Fuel' <= Fuel /\ (Step => Fuel' < Fuel)]_vars
<1>1. Init => TypeInv
  BY InitType DEF Init, TypeInv, AttemptInv, Workers
<1>2. TypeInv => Fuel \in 0 .. 340
  BY FuelFacts DEF FuelBounds
<1>3. TypeInv /\ TypeInv' /\ [Next]_vars => [Fuel' <= Fuel /\ (Step => Fuel' < Fuel)]_vars
  <2> SUFFICES ASSUME TypeInv, TypeInv', Next PROVE Fuel' <= Fuel /\ (Step => Fuel' < Fuel)
    OBVIOUS
  <2>1. Fuel \in Nat /\ Fuel' \in Nat
    BY FuelFacts DEF FuelBounds
  <2>2. CASE Step
    BY <2>1, <2>2, FuelStep
  <2>3. CASE ~Step
    <3>1. UNCHANGED <<pc, depth, attempt, gaps>>
      BY <2>3 DEF Next, Kill, TaskSwitch, WindowPasses, control
    <3>2. Fuel' = Fuel
      BY <3>1 DEF Fuel, Chances, Ahead
    <3> QED BY <2>1, <2>3, <3>2
  <2> QED BY <2>2, <2>3
<1> QED BY <1>1, <1>2, <1>3, NextType, PTL DEF Spec

-----------------------------------------------------------------------------
(* The reach of a kill.  The agent whose kill_check is just passed is the  *)
(* first; the three calls without kill_check are never next to each other: *)
(* each is followed by the loop head, by the security review, which        *)
(* checks, or by the merge.                                                *)

LateInv ==
  /\ late \in 0 .. 2
  /\ late > 0 /\ pc # "end" => kill
  /\ pc \in {"gap", "missing", "polish"} => late <= 1

LEMMA LateNext == TypeInv /\ LateInv /\ [Next]_vars => LateInv'
<1> SUFFICES ASSUME TypeInv, LateInv, [Next]_vars PROVE LateInv'
  OBVIOUS
<1>1. CASE UNCHANGED vars \/ TaskSwitch \/ \E t \in FailType : WindowPasses(t)
  <2>1. UNCHANGED <<pc, kill, late>>
    BY <1>1 DEF vars, control, WindowPasses, TaskSwitch
  <2> QED BY <2>1 DEF LateInv
<1>2. CASE Kill
  BY <1>2 DEF LateInv, Kill, control
<1>3. CASE Enter
  BY <1>3 DEF LateInv, Enter, Goto, Return
<1>4. CASE KillCheck \/ Exhausted \/ BreakerTrips \/ CommandTimesOut
  <2>1. late' = late /\ pc' = "end"
    BY <1>4 DEF KillCheck, Exhausted, BreakerTrips, CommandTimesOut, Return
  <2> QED BY <2>1 DEF LateInv
<1>9. CASE Merge \/ GhMerge \/ SelfHeal
  <2>1. UNCHANGED <<kill, late>> /\ pc # "end" /\ pc' \in {"gh", "heal", "end"}
    BY <1>9 DEF Merge, GhMerge, SelfHeal, Refused, Accepted, MergeTimesOut, Return, Goto
  <2> QED BY <2>1 DEF LateInv
<1>5. CASE NextRound
  <2>1. late' = late /\ pc = "top" /\ ~kill
    BY <1>5 DEF NextRound, Unkilled, Checked, Workers
  <2> QED BY <2>1 DEF LateInv
<1>6. CASE ChecksAndCommit \/ Green
  <2>1. UNCHANGED <<kill, late>> /\ pc # "end" /\ pc' \notin {"gap", "missing", "polish"}
    BY <1>6 DEF ChecksAndCommit, Green, Fail, Pass, Goto
  <2> QED BY <2>1 DEF LateInv
<1>7. CASE TestsFirst \/ Engineer \/ TestsFallback \/ Validator \/ Review \/ Security
  <2>1. ~kill /\ pc \notin {"end"} /\ \E c \in Costs : Call(c)
    BY <1>7 DEF TestsFirst, Engineer, TestsFallback, Validator, Review, Security,
                Unkilled, Checked, Workers
  <2> QED BY <2>1 DEF LateInv, Call
<1>8. CASE SpecGap \/ SpecMissing \/ Polish
  <2>1. late \in 0 .. 1
    BY <1>8 DEF LateInv, SpecGap, SpecMissing, Polish
  <2>2. /\ kill = TRUE => kill' = TRUE
        /\ late' = late \/ (late' = late + 1 /\ kill')
    BY <1>8, CallSignal DEF SpecGap, SpecMissing, Polish
  <2>4. kill \in BOOLEAN /\ kill' \in BOOLEAN
    BY <1>8, CallType DEF SpecGap, SpecMissing, Polish, TypeInv, TypeOK
  <2>3. pc # "end" /\ pc' \in {"enter", "top", "security", "merge", "end"}
    BY <1>8 DEF SpecGap, SpecMissing, Polish, AfterReview, Exceeded, Fail, Goto, Return
  <2> QED BY <2>1, <2>2, <2>3, <2>4 DEF LateInv
<1> QED BY <1>1, <1>2, <1>3, <1>4, <1>5, <1>6, <1>7, <1>8, <1>9 DEF Next, Step

\* Wherever in the chain the kill meets the loop, at most two more agents start:
\* one whose kill_check is just passed, and one that has none.
THEOREM KillReach == Spec => []KillStopsWithinTwoCalls
<1>1. Init => TypeInv /\ LateInv
  BY InitType DEF Init, TypeInv, AttemptInv, Workers, LateInv
<1>2. TypeInv /\ LateInv /\ [Next]_vars => TypeInv' /\ LateInv'
  BY NextType, LateNext
<1>3. LateInv => KillStopsWithinTwoCalls
  BY DEF LateInv, KillStopsWithinTwoCalls
<1> QED BY <1>1, <1>2, <1>3, PTL DEF Spec

-----------------------------------------------------------------------------
(* The circuit breaker.  A failure inside the window either has its type   *)
(* recorded, or is the last one and about to be.                           *)

Pending(t) == pc = "top" /\ failType = t
WindowInv ==
  pc # "end" =>
    \A t \in FailType :
      fails[t] <= (IF t \in recent THEN 1 ELSE 0) + (IF Pending(t) THEN 1 ELSE 0)

LEMMA WindowFail ==
  ASSUME TypeInv, WindowInv, Busy, NEW t \in FailType, Fail(t)
  PROVE  WindowInv'
BY DEF WindowInv, Pending, Busy, Fail, Goto, TypeInv, TypeOK, Workers

LEMMA WindowNext == TypeInv /\ WindowInv /\ [Next]_vars => WindowInv'
<1> SUFFICES ASSUME TypeInv, WindowInv, [Next]_vars PROVE WindowInv'
  OBVIOUS
<1>1. CASE UNCHANGED vars \/ TaskSwitch \/ Kill
  <2>1. UNCHANGED <<pc, failType, recent, fails>>
    BY <1>1 DEF vars, control, Kill, TaskSwitch
  <2> QED BY <2>1 DEF WindowInv, Pending
<1>2. CASE \E t \in FailType : WindowPasses(t)
  BY <1>2 DEF WindowPasses, control, WindowInv, Pending, TypeInv, TypeOK
<1>3. CASE Enter
  BY <1>3 DEF Enter, Goto, Return, WindowInv, Pending
<1>4. CASE KillCheck \/ Exhausted \/ BreakerTrips \/ CommandTimesOut
  <2>1. pc' = "end"
    BY <1>4 DEF KillCheck, Exhausted, BreakerTrips, CommandTimesOut, Return
  <2> QED BY <2>1 DEF WindowInv
<1>8. CASE Merge \/ GhMerge \/ SelfHeal
  <2>1. pc \notin {"top", "end"} /\ pc' # "top" /\ UNCHANGED <<failType, recent, fails>>
    BY <1>8 DEF Merge, GhMerge, SelfHeal, Refused, Accepted, MergeTimesOut, Return, Goto
  <2> QED BY <2>1 DEF WindowInv, Pending
<1>5. CASE NextRound
  <2>1. /\ failType \notin recent /\ pc = "top" /\ pc' \in {"tdd", "engineer"}
        /\ recent' = IF failType = "none" THEN recent ELSE recent \cup {failType}
        /\ UNCHANGED <<failType, fails>>
    BY <1>5 DEF NextRound, Tripped, Recorded, Goto
  <2> QED BY <2>1 DEF WindowInv, Pending, TypeInv, TypeOK, FailType
<1>6. CASE SpecGap
  <2>1. UNCHANGED <<recent, fails>> /\ pc = "gap"
    BY <1>6 DEF SpecGap, Exceeded
  <2>2. pc' = "top" => failType' = "none"
    BY <1>6 DEF SpecGap, Exceeded, Goto, Return
  <2> QED BY <2>1, <2>2 DEF WindowInv, Pending, TypeInv, TypeOK, FailType
<1>7. CASE TestsFirst \/ Engineer \/ ChecksAndCommit \/ TestsFallback \/ Green \/ Validator
             \/ SpecMissing \/ Review \/ Polish \/ Security
  <2>1. Busy
    BY <1>7 DEF TestsFirst, Engineer, ChecksAndCommit, TestsFallback, Green, Validator,
                SpecMissing, Review, Polish, Security, Busy, Workers
  <2>2. \/ \E t \in FailType : Fail(t)
        \/ pc' # "top" /\ UNCHANGED breaker
    BY <1>7 DEF TestsFirst, Engineer, ChecksAndCommit, TestsFallback, Green, Validator,
                SpecMissing, Review, Polish, Security, Pass, Goto, Return, Exceeded,
                AfterReview, FailType
  <2>3. CASE pc' # "top" /\ UNCHANGED breaker
    BY <2>1, <2>3 DEF WindowInv, Pending, Busy, Workers
  <2> QED BY <2>1, <2>2, <2>3, WindowFail
<1> QED BY <1>1, <1>2, <1>3, <1>4, <1>5, <1>6, <1>7, <1>8 DEF Next, Step

\* Since the run started or its depth was last upgraded: no worker runs again
\* after one type of failure happened twice inside the window, whatever
\* SPEC_GAPs in between did to fail_type.
THEOREM BreakerStops == Spec => []BreakerHolds
<1>1. Init => TypeInv /\ WindowInv
  BY InitType DEF Init, TypeInv, AttemptInv, Workers, WindowInv, Pending
<1>2. TypeInv /\ WindowInv /\ [Next]_vars => TypeInv' /\ WindowInv'
  BY NextType, WindowNext
<1>3. TypeInv /\ WindowInv => BreakerHolds
  BY DEF WindowInv, Pending, BreakerHolds, TypeInv, TypeOK, Workers
<1> QED BY <1>1, <1>2, <1>3, PTL DEF Spec

-----------------------------------------------------------------------------
(* The loop implements LoopContract.  While it runs, its flag files say so *)
(* and nothing is merged.                                                  *)

RunInv ==
  /\ pc \in Workers => "active" \in flags
  /\ pc # "end" => ~merged
  /\ flags \subseteq Flag

\* A worker's step that does not end the run.
GoesOn == /\ pc' \in Workers \cup {"enter"}
          /\ flags \subseteq flags' /\ flags' \subseteq Flag
          /\ merged' = merged

\* A step that ends the run, and what the contract says of it.
Ends(r) == pc' = "end" /\ result' = r /\ flags' \subseteq Flag
KeepsPlan == "plan" \in flags' <=> "plan" \in flags
Unmerged == merged' = merged
EndsWell ==
  \/ Ends("ERROR") /\ KeepsPlan /\ Unmerged
  \/ Ends("HARNESS_DONE") /\ KeepsPlan /\ merged' = TRUE
  \/ Ends("IMPLEMENTATION_ESCALATE") /\ Unmerged
  \/ Ends("exception") /\ KeepsPlan /\ merged' \in BOOLEAN
  \/ /\ \E r \in {"HARNESS_KILLED", "HARNESS_BUDGET_EXCEEDED", "MERGE_CONFLICT_ESCALATE",
                   "PRODUCT_PLANNER_ESCALATION_NEEDED", "TECH_CONSTRAINT_CONFLICT"} : Ends(r)
     /\ KeepsPlan /\ Unmerged

LEMMA HeadStep ==
  TypeInv /\ RunInv /\ (KillCheck \/ Exhausted \/ BreakerTrips \/ NextRound \/ CommandTimesOut)
    => pc \in Workers /\ (GoesOn \/ EndsWell)
<1> SUFFICES ASSUME TypeInv, RunInv,
                    KillCheck \/ Exhausted \/ BreakerTrips \/ NextRound \/ CommandTimesOut
             PROVE  pc \in Workers /\ (GoesOn \/ EndsWell)
  OBVIOUS
<1> USE DEF RunInv, Workers, Checked, Return, Goto, GoesOn, EndsWell, Ends, KeepsPlan, Unmerged
<1>1. CASE KillCheck
  BY <1>1 DEF KillCheck
<1>2. CASE Exhausted \/ BreakerTrips
  BY <1>2 DEF Exhausted, BreakerTrips
<1>3. CASE NextRound
  BY <1>3 DEF NextRound
<1>4. CASE CommandTimesOut
  BY <1>4 DEF CommandTimesOut, TypeInv, TypeOK
<1> QED BY <1>1, <1>2, <1>3, <1>4

LEMMA ChainStep ==
  TypeInv /\ RunInv /\ (TestsFirst \/ Engineer \/ SpecGap \/ ChecksAndCommit \/ TestsFallback
                       \/ Green \/ Validator \/ SpecMissing \/ Review \/ Polish \/ Security)
    => pc \in Workers /\ (GoesOn \/ EndsWell)
<1> SUFFICES ASSUME TypeInv, RunInv,
                    TestsFirst \/ Engineer \/ SpecGap \/ ChecksAndCommit \/ TestsFallback
                      \/ Green \/ Validator \/ SpecMissing \/ Review \/ Polish \/ Security
             PROVE  pc \in Workers /\ (GoesOn \/ EndsWell)
  OBVIOUS
<1> USE DEF RunInv, Workers, Return, Goto, Pass, Fail, Exceeded, GoesOn, EndsWell, Ends,
            KeepsPlan, Unmerged, Flag
<1>1. CASE TestsFirst
  BY <1>1 DEF TestsFirst
<1>2. CASE Engineer
  BY <1>2 DEF Engineer
<1>3. CASE SpecGap
  BY <1>3 DEF SpecGap
<1>4. CASE ChecksAndCommit
  BY <1>4 DEF ChecksAndCommit
<1>5. CASE TestsFallback
  BY <1>5 DEF TestsFallback
<1>6. CASE Green
  BY <1>6 DEF Green
<1>7. CASE Validator
  BY <1>7 DEF Validator
<1>8. CASE SpecMissing
  BY <1>8 DEF SpecMissing
<1>9. CASE Review
  BY <1>9 DEF Review, AfterReview
<1>10. CASE Polish
  BY <1>10 DEF Polish, AfterReview
<1>11. CASE Security
  BY <1>11 DEF Security
<1> QED BY <1>1, <1>2, <1>3, <1>4, <1>5, <1>6, <1>7, <1>8, <1>9, <1>10, <1>11

LEMMA MergeStep ==
  TypeInv /\ RunInv /\ (Merge \/ GhMerge \/ SelfHeal) => pc \in Workers /\ (GoesOn \/ EndsWell)
<1> SUFFICES ASSUME TypeInv, RunInv, Merge \/ GhMerge \/ SelfHeal
             PROVE  pc \in Workers /\ (GoesOn \/ EndsWell)
  OBVIOUS
<1> USE DEF RunInv, Workers, Return, Goto, GoesOn, EndsWell, Ends, KeepsPlan, Unmerged, Flag
<1>1. CASE Merge
  BY <1>1 DEF Merge, SkippedFlags, TypeInv, TypeOK, Depth
<1>2. CASE GhMerge
  BY <1>2 DEF GhMerge, Accepted, MergeTimesOut
<1>3. CASE SelfHeal
  BY <1>3 DEF SelfHeal, Accepted, Refused, MergeTimesOut
<1> QED BY <1>1, <1>2, <1>3

\* What the refinement mapping makes of a step of the three kinds.
LEMMA GoesOnMaps ==
  RunInv /\ pc \in Workers /\ GoesOn => RunInv' /\ Contract!Next
BY DEF RunInv, GoesOn, Workers, Contract!Next, Contract!Meanwhile

LEMMA EndMaps ==
  RunInv /\ pc \in Workers \cup {"enter"} /\ "active" \in flags /\ EndsWell
    => RunInv' /\ Contract!Next
BY DEF RunInv, EndsWell, Ends, KeepsPlan, Unmerged, Workers, Contract!Next, Contract!End,
       Contract!Missing, Contract!Done, Contract!GiveUp, Contract!Stopped, Contract!Raised,
       Contract!Escalation, Contract!Stop

LEMMA EnterMaps ==
  TypeInv /\ RunInv /\ Enter => RunInv' /\ (Contract!Next \/ UNCHANGED Contract!vars)
<1> SUFFICES ASSUME TypeInv, RunInv, Enter
             PROVE  RunInv' /\ (Contract!Next \/ UNCHANGED Contract!vars)
  OBVIOUS
<1>1. CASE Return("ERROR") /\ UNCHANGED flags
  <2>1. CASE "active" \in flags
    BY <1>1, <2>1, EndMaps DEF Enter, Return, EndsWell, Ends, KeepsPlan, Unmerged, RunInv
  <2>2. CASE "active" \notin flags
    BY <1>1, <2>2 DEF Enter, Return, RunInv, Workers, Contract!Next, Contract!Outside
  <2> QED BY <2>1, <2>2
<1>2. CASE Goto("top") /\ flags' = flags \cup {"active", "plan"}
  <2>1. RunInv' /\ merged' = merged /\ pc = "enter" /\ pc' = "top"
    BY <1>2 DEF Enter, Goto, RunInv, Workers, Flag
  <2>2. CASE "active" \in flags
    BY <1>2, <2>1, <2>2 DEF RunInv, Workers, Contract!Next, Contract!Meanwhile
  <2>3. CASE "active" \notin flags
    BY <1>2, <2>1, <2>3 DEF RunInv, Contract!Next, Contract!Begin
  <2> QED BY <2>1, <2>2, <2>3
<1> QED BY <1>1, <1>2 DEF Enter

LEMMA StepMaps ==
  TypeInv /\ RunInv /\ [Next]_vars => RunInv' /\ [Contract!Next]_(Contract!vars)
<1> SUFFICES ASSUME TypeInv, RunInv, [Next]_vars
             PROVE  RunInv' /\ (Contract!Next \/ UNCHANGED Contract!vars)
  OBVIOUS
<1>1. CASE UNCHANGED vars \/ Kill \/ \E t \in FailType : WindowPasses(t)
  <2>1. UNCHANGED <<pc, result, flags, merged>>
    BY <1>1 DEF vars, control, Kill, WindowPasses
  <2> QED BY <2>1 DEF RunInv, Contract!vars
<1>2. CASE Enter
  BY <1>2, EnterMaps
<1>3. CASE KillCheck \/ Exhausted \/ BreakerTrips \/ NextRound \/ CommandTimesOut
  BY <1>3, HeadStep, GoesOnMaps, EndMaps DEF RunInv
<1>4. CASE TestsFirst \/ Engineer \/ SpecGap \/ ChecksAndCommit \/ TestsFallback
             \/ Green \/ Validator \/ SpecMissing \/ Review \/ Polish \/ Security
  BY <1>4, ChainStep, GoesOnMaps, EndMaps DEF RunInv
<1>5. CASE Merge \/ GhMerge \/ SelfHeal
  BY <1>5, MergeStep, GoesOnMaps, EndMaps DEF RunInv
<1>6. CASE TaskSwitch
  <2>1. /\ UNCHANGED <<pc, result, merged>> /\ pc # "end" /\ flags' \subseteq flags
        /\ "active" \in flags' <=> "active" \in flags
    BY <1>6 DEF TaskSwitch, control
  <2>2. RunInv'
    BY <2>1 DEF RunInv
  <2>3. CASE "active" \in flags
    BY <2>1, <2>3 DEF RunInv, Contract!Next, Contract!Meanwhile
  <2>4. CASE "active" \notin flags
    BY <2>1, <2>4 DEF RunInv, Contract!Next, Contract!Outside
  <2> QED BY <2>2, <2>3, <2>4
<1> QED BY <1>1, <1>2, <1>3, <1>4, <1>5, <1>6 DEF Next, Step

\* For every configuration and every cost: the loop keeps what impl_router.py
\* and the executor rely on.
THEOREM ImplementsContract == Spec => KeepsContract
<1>1. Init => TypeInv /\ RunInv /\ Contract!Init
  BY InitType DEF Init, TypeInv, AttemptInv, RunInv, Workers, Flag, Contract!Init
<1>2. TypeInv /\ RunInv /\ [Next]_vars => TypeInv' /\ RunInv' /\ [Contract!Next]_(Contract!vars)
  BY NextType, StepMaps
<1> QED BY <1>1, <1>2, PTL DEF Spec, KeepsContract, Contract!Spec

-----------------------------------------------------------------------------
(* The merge: its cooldown, and what it merges.                            *)

Left == {"gone", Missed}

CoolInv ==
  /\ pc # "end" => result = "none" /\ cooldown = "none"
  /\ pc \notin {"heal", "end"} => ~refused
  /\ pc = "heal" => refused
  /\ ~Worktree => cwd = "main"
  /\ RefusedMergeCoolsDown

TreeInv ==
  /\ pc \in {"review", "polish", "merge"} /\ depth = "simple" => dirty \subseteq Left
  /\ pc \in {"gh", "heal"} => dirty \subseteq Left
  /\ MergedUpToGitFailures

\* A step that GitHub has no part in.
LEMMA CoolFree ==
  ASSUME CoolInv, pc \notin {"heal", "end"}, pc' # "heal", UNCHANGED <<cooldown, refused>>,
         ~Worktree => cwd' = "main", pc' # "end" => UNCHANGED result
  PROVE  CoolInv'
BY DEF CoolInv, RefusedMergeCoolsDown

LEMMA CoolNext == TypeInv /\ CoolInv /\ [Next]_vars => CoolInv'
<1> SUFFICES ASSUME TypeInv, CoolInv, [Next]_vars PROVE CoolInv'
  OBVIOUS
<1>1. CASE UNCHANGED vars \/ Kill \/ TaskSwitch \/ \E t \in FailType : WindowPasses(t)
  <2>1. UNCHANGED <<pc, result, cwd, cooldown, merged, refused>>
    BY <1>1 DEF vars, control, Kill, TaskSwitch, WindowPasses
  <2> QED BY <2>1 DEF CoolInv, RefusedMergeCoolsDown
<1>2. CASE Enter
  <2>1. /\ pc = "enter" /\ pc' \in {"top", "end"} /\ (pc' # "end" => UNCHANGED result)
        /\ UNCHANGED <<cooldown, refused>> /\ (~Worktree => cwd' = cwd)
    BY <1>2 DEF Enter, Goto, Return
  <2> QED BY <2>1, CoolFree DEF CoolInv
<1>3. CASE KillCheck \/ Exhausted \/ BreakerTrips \/ NextRound \/ CommandTimesOut
  <2>1. pc \notin {"heal", "end"} /\ UNCHANGED <<cwd, cooldown, refused>>
    BY <1>3 DEF KillCheck, Exhausted, BreakerTrips, NextRound, CommandTimesOut, Checked, Workers
  <2>2. pc' # "heal" /\ (pc' # "end" => UNCHANGED result)
    BY <1>3 DEF KillCheck, Exhausted, BreakerTrips, NextRound, CommandTimesOut, Goto, Return
  <2> QED BY <2>1, <2>2, CoolFree DEF CoolInv
<1>4. CASE TestsFirst \/ Engineer \/ SpecGap \/ ChecksAndCommit \/ TestsFallback \/ Green
             \/ Validator \/ SpecMissing \/ Review \/ Polish \/ Security
  <2>1. pc \notin {"heal", "end"} /\ UNCHANGED <<cwd, cooldown, refused>>
    BY <1>4 DEF TestsFirst, Engineer, SpecGap, ChecksAndCommit, TestsFallback, Green,
                Validator, SpecMissing, Review, Polish, Security
  <2>2. pc' # "heal" /\ (pc' # "end" => UNCHANGED result)
    <3>1. CASE TestsFirst \/ Engineer \/ SpecGap
      BY <3>1 DEF TestsFirst, Engineer, SpecGap, Exceeded, Fail, Goto, Return
    <3>2. CASE ChecksAndCommit \/ Green \/ Polish
      BY <3>2 DEF ChecksAndCommit, Green, Polish, AfterReview, Fail, Pass, Goto
    <3>3. CASE TestsFallback \/ Validator \/ SpecMissing \/ Review \/ Security
      BY <3>3 DEF TestsFallback, Validator, SpecMissing, Review, AfterReview, Security, Exceeded,
                  Fail, Pass, Goto, Return
    <3> QED BY <1>4, <3>1, <3>2, <3>3
  <2> QED BY <2>1, <2>2, CoolFree DEF CoolInv
<1>5. CASE Merge
  <2>1. /\ pc = "merge" /\ pc' \in {"gh", "end"} /\ (pc' # "end" => UNCHANGED result)
        /\ UNCHANGED <<cooldown, refused>> /\ (~Worktree => cwd' = cwd)
    BY <1>5 DEF Merge, Goto, Return
  <2> QED BY <2>1, CoolFree DEF CoolInv
<1>6. CASE GhMerge
  BY <1>6 DEF GhMerge, Accepted, MergeTimesOut, Goto, Return, CoolInv, RefusedMergeCoolsDown
<1>7. CASE SelfHeal
  BY <1>7 DEF SelfHeal, Accepted, Refused, MergeTimesOut, Return, CoolInv, RefusedMergeCoolsDown,
              TypeInv, TypeOK, Place
<1> QED BY <1>1, <1>2, <1>3, <1>4, <1>5, <1>6, <1>7 DEF Next, Step

\* Only GitHub's refusal leaves a cooldown, whenever a prompt takes the LGTM
\* back; and it always does, unless the retry merges or a command of the
\* self-heal times out.
THEOREM CooldownMarksRefusal == Spec => []RefusedMergeCoolsDown
<1>1. Init => TypeInv /\ CoolInv
  BY InitType DEF Init, TypeInv, AttemptInv, Workers, CoolInv, RefusedMergeCoolsDown
<1>2. TypeInv /\ CoolInv /\ [Next]_vars => TypeInv' /\ CoolInv'
  BY NextType, CoolNext
<1>3. CoolInv => RefusedMergeCoolsDown
  BY DEF CoolInv
<1> QED BY <1>1, <1>2, <1>3, PTL DEF Spec

LEMMA CommitLeaves == \A d : \A e \in Committed(d) : e \subseteq Left
BY DEF Committed, Left

LEMMA TreeNext == TypeInv /\ GateInv /\ TreeInv /\ [Next]_vars => TreeInv'
<1> SUFFICES ASSUME TypeInv, GateInv, TreeInv, [Next]_vars PROVE TreeInv'
  OBVIOUS
<1> USE DEF TreeInv, MergedUpToGitFailures, Left
<1>1. CASE UNCHANGED vars \/ TaskSwitch \/ Kill \/ \E t \in FailType : WindowPasses(t)
  <2>1. UNCHANGED <<pc, depth, dirty, merged>>
    BY <1>1 DEF vars, control, Kill, WindowPasses, TaskSwitch
  <2> QED BY <2>1
<1>2. CASE Enter \/ KillCheck \/ Exhausted \/ BreakerTrips \/ NextRound \/ CommandTimesOut
  <2>1. ~merged /\ UNCHANGED merged
    BY <1>2 DEF GateInv, Enter, KillCheck, Exhausted, BreakerTrips, NextRound,
                CommandTimesOut, Checked, Workers
  <2>2. pc' \in {"top", "tdd", "engineer", "end"}
    BY <1>2 DEF Enter, KillCheck, Exhausted, BreakerTrips, NextRound, CommandTimesOut,
                Goto, Return
  <2> QED BY <2>1, <2>2
<1>3. CASE TestsFirst \/ Engineer \/ SpecGap \/ SpecMissing \/ TestsFallback \/ Green
  <2>1. ~merged /\ UNCHANGED merged
    BY <1>3 DEF GateInv, TestsFirst, Engineer, SpecGap, SpecMissing, TestsFallback, Green
  <2>2. pc' \notin {"review", "polish", "merge", "gh", "heal"}
    BY <1>3 DEF TestsFirst, Engineer, SpecGap, SpecMissing, TestsFallback, Green,
                Exceeded, Fail, Pass, Goto, Return
  <2> QED BY <2>1, <2>2
<1>4. CASE ChecksAndCommit
  <2>1. ~merged /\ UNCHANGED merged /\ pc' \notin {"polish", "merge", "gh", "heal"}
    BY <1>4 DEF ChecksAndCommit, Fail, Pass, Goto, GateInv
  <2>2. pc' = "review" => dirty' \subseteq Left
    BY <1>4, CommitLeaves DEF ChecksAndCommit, Fail, Pass, Goto
  <2> QED BY <2>1, <2>2
<1>5. CASE Validator
  BY <1>5 DEF Validator, Exceeded, Fail, Pass, Goto, Return, GateInv
<1>6. CASE Review
  BY <1>6 DEF Review, AfterReview, Exceeded, Fail, Pass, Goto, Return, GateInv
<1>7. CASE Polish
  <2>1. /\ ~merged /\ UNCHANGED merged /\ pc' \in {"security", "merge"}
        /\ dirty' \subseteq Left
    BY <1>7, CommitLeaves DEF Polish, AfterReview, Goto, GateInv
  <2> QED BY <2>1
<1>8. CASE Security
  <2>1. depth' = "deep" /\ ~merged' /\ pc' \notin {"gh", "heal"}
    BY <1>8 DEF Security, Exceeded, Fail, Pass, Goto, Return, GateInv
  <2> QED BY <2>1
<1>9. CASE Merge
  <2>1. ~merged /\ UNCHANGED merged /\ pc' \in {"gh", "end"} /\ dirty' \subseteq Left
    BY <1>9, CommitLeaves DEF Merge, Goto, Return, GateInv
  <2> QED BY <2>1
<1>10. CASE GhMerge \/ SelfHeal
  <2>1. dirty' \subseteq Left /\ pc' \in {"heal", "end"}
    BY <1>10 DEF GhMerge, SelfHeal, Refused, Accepted, MergeTimesOut, Goto, Return
  <2> QED BY <2>1
<1> QED BY <1>1, <1>2, <1>3, <1>4, <1>5, <1>6, <1>7, <1>8, <1>9, <1>10 DEF Next, Step

\* Whatever agents do to the tree, wherever POLISH failed and whatever git
\* failed on unnoticed: at the merge every change has been committed but
\* removals and those that a git command failed on.
THEOREM MergesTheTree == Spec => []MergedUpToGitFailures
<1>1. Init => TypeInv /\ GateInv /\ TreeInv
  BY InitType DEF Init, TypeInv, AttemptInv, Workers, GateInv, Earned, AfterTests, TreeInv,
                  MergedUpToGitFailures
<1>2. TypeInv /\ GateInv /\ TreeInv /\ [Next]_vars => TypeInv' /\ GateInv' /\ TreeInv'
  BY NextType, GateNext, TreeNext
<1>3. TreeInv => MergedUpToGitFailures
  BY DEF TreeInv
<1> QED BY <1>1, <1>2, <1>3, PTL DEF Spec
=============================================================================
