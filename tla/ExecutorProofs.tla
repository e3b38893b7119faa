--------------------------- MODULE ExecutorProofs ---------------------------
(***************************************************************************)
(* Theorems about Executor, for every number of executors and sessions:    *)
(* type correctness, the absence of a collective refusal, the defence in   *)
(* depth of the two guards, and that nobody's main thread is held up.      *)
(***************************************************************************)
EXTENDS Executor, TLAPS

-----------------------------------------------------------------------------
(* Type correctness.                                                       *)

USE DEF Booting, Running, Leaving, Alive

\* The types of the variables other than the history; a heartbeat thread about
\* to write holds a record to write.
SystemType ==
  /\ pc \in [Exec -> PC]
  /\ passes \in [Exec -> 0 .. 2]
  /\ hb \in [Exec -> HbPC]
  /\ hbStop \in [Exec -> BOOLEAN]
  /\ hbSeen \in [Exec -> LockData \cup {NoLock}]
  /\ lock \in LockData \cup {NoLock}
  /\ lease \in Exec \cup {NoLease, Torn}
  /\ writing \subseteq Exec
  /\ sweeping \in BOOLEAN
  /\ \A e \in Exec : hb[e] = "write" => hbSeen[e] \in LockData

TypeInv == SystemType /\ exposed \in [Exec -> SUBSET Layer]

LEMMA InitType == Init => TypeInv
<1> SUFFICES ASSUME Init PROVE TypeInv
  OBVIOUS
<1>1. pc \in [Exec -> PC] /\ hb \in [Exec -> HbPC] /\ hbStop \in [Exec -> BOOLEAN]
  BY DEF Init, PC, HbPC
<1>2. passes \in [Exec -> 0 .. 2] /\ exposed \in [Exec -> SUBSET Layer]
  BY DEF Init
<1>3. hbSeen \in [Exec -> LockData \cup {NoLock}] /\ lock \in LockData \cup {NoLock}
  BY DEF Init
<1>4. lease \in Exec \cup {NoLease, Torn} /\ writing \subseteq Exec
  BY DEF Init
<1>5. sweeping \in BOOLEAN /\ \A e \in Exec : hb[e] = "write" => hbSeen[e] \in LockData
  BY DEF Init
<1> QED BY <1>1, <1>2, <1>3, <1>4, <1>5 DEF TypeInv, SystemType

LEMMA EndType ==
  ASSUME SystemType, NEW e \in Exec, End(e)
  PROVE  SystemType'
BY DEF SystemType, End, Goto, locks, PC, HbPC

LEMMA BootType ==
  ASSUME SystemType, NEW e \in Exec,
         Start(e) \/ ClaimWrite(e) \/ CheckLease(e) \/ UnlinkStale(e)
           \/ OpenLease(e) \/ BeginRun(e)
  PROVE  SystemType'
<1>1. CASE Start(e)
  BY <1>1 DEF SystemType, Start, Goto, locks, leases, threads, PC
<1>2. CASE ClaimWrite(e)
  <2>1. [sid |-> SessionOf[e], pid |-> e, fresh |-> TRUE] \in LockData
    BY ExecutorAssumption DEF LockData
  <2>2. lock' \in LockData \cup {NoLock}
    BY <1>2, <2>1 DEF SystemType, ClaimWrite, Fails
  <2> QED BY <1>2, <2>2 DEF SystemType, ClaimWrite, Goto, leases, threads, PC
<1>3. CASE CheckLease(e)
  BY <1>3 DEF SystemType, CheckLease, Goto, locks, leases, threads, PC
<1>4. CASE UnlinkStale(e)
  BY <1>4 DEF SystemType, UnlinkStale, DropLease, Goto, locks, threads, PC
<1>5. CASE OpenLease(e)
  BY <1>5 DEF SystemType, OpenLease, TruncateLease, Fails, Goto, locks, leases, threads, PC
<1>6. CASE BeginRun(e)
  BY <1>6 DEF SystemType, BeginRun, FillLease, Fails, Goto, locks, PC, HbPC
<1> QED BY <1>1, <1>2, <1>3, <1>4, <1>5, <1>6

LEMMA HbType ==
  ASSUME SystemType, NEW e \in Exec, HbStep(e)
  PROVE  SystemType'
<1>1. CASE HbWake(e)
  BY <1>1 DEF SystemType, HbWake, HbMove, locks, leases, HbPC
<1>2. CASE HbOpen(e)
  BY <1>2 DEF SystemType, HbOpen, HbMove, TruncateLease, Fails, locks, leases, HbPC
<1>3. CASE HbFill(e)
  BY <1>3 DEF SystemType, HbFill, HbMove, FillLease, Fails, locks, HbPC
<1>4. CASE HbRead(e)
  <2>1. CASE OwnLock(e)
    <3>1. hbSeen' = [hbSeen EXCEPT ![e] = [lock EXCEPT !.fresh = TRUE]]
      BY <1>4, <2>1 DEF HbRead
    <3>2. [lock EXCEPT !.fresh = TRUE] \in LockData
      BY <2>1 DEF SystemType, OwnLock, LockData
    <3>3. hb' = [hb EXCEPT ![e] = "write"]
      BY <1>4, <2>1 DEF HbRead, HbMove
    <3> QED BY <1>4, <3>1, <3>2, <3>3 DEF SystemType, HbRead, locks, leases, HbPC
  <2>2. CASE ~OwnLock(e)
    <3>1. hbSeen' = [hbSeen EXCEPT ![e] = NoLock] /\ hb' = [hb EXCEPT ![e] = "sleep"]
      BY <1>4, <2>2 DEF HbRead, HbMove
    <3> QED BY <1>4, <3>1 DEF SystemType, HbRead, locks, leases, HbPC
  <2> QED BY <2>1, <2>2
<1>5. CASE HbWrite(e)
  <2>2. lock' \in LockData \cup {NoLock}
    BY <1>5 DEF SystemType, HbWrite, Fails, HbMove
  <2>3. hb' = [hb EXCEPT ![e] = "sleep"] /\ hbSeen' = [hbSeen EXCEPT ![e] = NoLock]
    BY <1>5 DEF HbWrite, HbMove
  <2> QED BY <1>5, <2>2, <2>3 DEF SystemType, HbWrite, leases, HbPC
<1> QED BY <1>1, <1>2, <1>3, <1>4, <1>5 DEF HbStep

\* One run of cleanup() up to the release of the issue lock.
LEMMA StopType ==
  ASSUME SystemType, NEW e \in Exec, NEW owed \in 1 .. 2, StopAndUnlink(e, owed)
  PROVE  SystemType'
BY DEF SystemType, StopAndUnlink, DropLease, Goto, locks, PC

LEMMA LeaveType ==
  ASSUME SystemType, NEW e \in Exec,
         Finish(e) \/ Signal(e) \/ ReleaseRead(e) \/ ReleaseUnlink(e)
           \/ NextPass(e) \/ Exit(e) \/ Crash(e)
  PROVE  SystemType'
<1>1. CASE Finish(e) \/ Signal(e)
  BY <1>1, StopType DEF Finish, Signal
<1>2. CASE NextPass(e)
  <2>1. passes[e] - 1 \in 1 .. 2
    BY <1>2 DEF SystemType, NextPass
  <2> QED BY <1>2, <2>1, StopType DEF NextPass
<1>3. CASE ReleaseRead(e)
  BY <1>3 DEF SystemType, ReleaseRead, Goto, locks, leases, threads, PC
<1>4. CASE ReleaseUnlink(e)
  BY <1>4 DEF SystemType, ReleaseUnlink, Goto, Fails, leases, threads, PC
<1>5. CASE Exit(e) \/ Crash(e)
  BY <1>5, EndType DEF Exit, Crash
<1> QED BY <1>1, <1>2, <1>3, <1>4, <1>5

LEMMA HookType ==
  ASSUME SystemType, LockAges \/ SweepRead \/ SweepUnlink
  PROVE  SystemType'
BY DEF SystemType, LockAges, SweepRead, SweepUnlink, leases, threads, LockData

LEMMA StepType == SystemType /\ Step => SystemType'
BY BootType, HbType, LeaveType, HookType DEF Step, MainStep

LEMMA NextType == TypeInv /\ [Next]_vars => TypeInv'
<1> SUFFICES ASSUME TypeInv, [Next]_vars PROVE TypeInv'
  OBVIOUS
<1>1. CASE UNCHANGED vars
  BY <1>1 DEF TypeInv, SystemType, vars, system, threads, locks, leases
<1>2. CASE Next
  <2>1. SystemType'
    BY <1>2, StepType DEF Next, TypeInv
  <2>2. \A e \in Exec : Uncovered(e)' \subseteq Layer
    BY DEF Uncovered
  <2>3. exposed' \in [Exec -> SUBSET Layer]
    BY <1>2, <2>2 DEF Next, RecordExposure, TypeInv
  <2> QED BY <2>1, <2>3 DEF TypeInv
<1> QED BY <1>1, <1>2

\* The variables of the executors, of the lock files and of the hook keep their
\* types in every reachable state: in particular the issue lock is always a
\* whole record, even when a heartbeat writes back data it read long before.
THEOREM TypeCorrect == Spec => []TypeOK
<1>1. TypeInv => TypeOK
  BY DEF TypeInv, SystemType, TypeOK
<1> QED BY InitType, NextType, <1>1, PTL DEF Spec

-----------------------------------------------------------------------------
(* How the main threads move.  Everything below is about pc, lease and     *)
(* exposed: the moves of pc, with what each move's guard established.      *)

Early == {"idle", "refused", "claim", "check", "unlink", "open"}

Move(e, to) ==
  /\ pc' = [pc EXCEPT ![e] = to]
  /\ \/ /\ pc[e] = "idle" /\ to = "claim" /\ MayClaim(e)
        /\ SerialStarts => \A f \in Exec : pc[f] \notin Booting
     \/ pc[e] = "idle" /\ to = "refused" /\ ~MayClaim(e)
     \/ pc[e] = "claim" /\ to = "check"
     \/ pc[e] = "check" /\ to = "refused" /\ LeaseProtects
     \/ pc[e] = "check" /\ to \in {"open", "unlink"} /\ ~LeaseProtects
     \/ pc[e] = "unlink" /\ to = "open"
     \/ pc[e] = "open" /\ to = "fill"
     \/ pc[e] = "fill" /\ to = "run"
     \/ Alive(e) /\ to \in Leaving \cup {"ended"}

LEMMA MainMoves ==
  ASSUME NEW e \in Exec, Start(e) \/ MainStep(e) \/ Signal(e) \/ Crash(e)
  PROVE  \E to \in PC : Move(e, to)
<1>1. CASE Start(e)
  BY <1>1 DEF Start, Goto, Move, PC
<1>2. CASE ClaimWrite(e) \/ UnlinkStale(e) \/ OpenLease(e) \/ BeginRun(e)
  BY <1>2 DEF ClaimWrite, UnlinkStale, OpenLease, BeginRun, Goto, Move, PC
<1>3. CASE CheckLease(e)
  <2>1. CASE LeaseProtects
    <3>1. pc[e] = "check" /\ pc' = [pc EXCEPT ![e] = "refused"]
      BY <1>3, <2>1, ExecutorAssumption DEF CheckLease, Goto, LeaseProtects
    <3> QED BY <2>1, <3>1 DEF Move, PC
  <2>2. CASE ~LeaseProtects
    <3>1. \E to \in {"open", "unlink"} :
            pc[e] = "check" /\ pc' = [pc EXCEPT ![e] = to]
      BY <1>3, <2>2 DEF CheckLease, Goto
    <3> QED BY <2>2, <3>1 DEF Move, PC
  <2> QED BY <2>1, <2>2
<1>4. CASE Finish(e) \/ Signal(e) \/ ReleaseRead(e) \/ ReleaseUnlink(e) \/ NextPass(e)
  BY <1>4 DEF Finish, Signal, StopAndUnlink, ReleaseRead, ReleaseUnlink,
              NextPass, Goto, Move, PC
<1>5. CASE Exit(e) \/ Crash(e)
  BY <1>5 DEF Exit, Crash, End, Goto, Move, PC
<1> QED BY <1>1, <1>2, <1>3, <1>4, <1>5 DEF MainStep

LEMMA StepMoves ==
  Step => pc' = pc \/ \E e \in Exec : \E to \in PC : Move(e, to)
<1> SUFFICES ASSUME Step
             PROVE  pc' = pc \/ \E e \in Exec : \E to \in PC : Move(e, to)
  OBVIOUS
<1>1. CASE \E e \in Exec : Start(e) \/ MainStep(e) \/ Signal(e) \/ Crash(e)
  BY <1>1, MainMoves
<1>2. CASE \E e \in Exec : HbStep(e)
  BY <1>2 DEF HbStep, HbWake, HbOpen, HbFill, HbRead, HbWrite
<1>3. CASE LockAges \/ SweepRead \/ SweepUnlink
  BY <1>3 DEF LockAges, SweepRead, SweepUnlink
<1> QED BY <1>1, <1>2, <1>3 DEF Step

-----------------------------------------------------------------------------
(* Refusals.  A lease in the name of e is only ever written by e itself    *)
(* when it runs or leaves, so an early e is refused by somebody else.      *)

HeartInv == \A e \in Exec : hb[e] # "none" => pc[e] \in Running \cup Leaving
LeaseInv == \A e \in Exec : lease = e => pc[e] \notin Early
GuardInv == TypeInv /\ HeartInv /\ LeaseInv

LEMMA InitGuard == Init => GuardInv
<1>1. Init => HeartInv
  BY DEF Init, HeartInv
<1>2. Init => LeaseInv
  BY ExecutorAssumption DEF Init, LeaseInv
<1> QED BY InitType, <1>1, <1>2 DEF GuardInv

LEMMA HeartStep ==
  ASSUME TypeInv, HeartInv, Step
  PROVE  HeartInv'
<1>1. CASE \E e \in Exec : Start(e) \/ ClaimWrite(e) \/ CheckLease(e) \/ UnlinkStale(e)
                            \/ OpenLease(e) \/ ReleaseRead(e) \/ ReleaseUnlink(e)
  BY <1>1 DEF TypeInv, SystemType, HeartInv, Start, ClaimWrite, CheckLease, UnlinkStale,
              OpenLease, ReleaseRead, ReleaseUnlink, Goto, threads
<1>2. CASE \E e \in Exec : BeginRun(e) \/ Finish(e) \/ Signal(e) \/ NextPass(e)
  BY <1>2 DEF TypeInv, SystemType, HeartInv, BeginRun, Finish, Signal, NextPass,
              StopAndUnlink, Goto
<1>3. CASE \E e \in Exec : Exit(e) \/ Crash(e)
  BY <1>3 DEF TypeInv, SystemType, HeartInv, Exit, Crash, End, Goto
<1>4. CASE \E e \in Exec : HbStep(e)
  BY <1>4 DEF TypeInv, SystemType, HeartInv, HbStep, HbWake, HbOpen, HbFill, HbRead,
              HbWrite, HbMove
<1>5. CASE LockAges \/ SweepRead \/ SweepUnlink
  BY <1>5 DEF HeartInv, LockAges, SweepRead, SweepUnlink, threads
<1> QED BY <1>1, <1>2, <1>3, <1>4, <1>5 DEF Step, MainStep

\* Nobody becomes early again, except along the early part of the boot.
LEMMA EarlyStep ==
  ASSUME TypeInv, Step, NEW e \in Exec, pc[e] \notin Early
  PROVE  pc'[e] \notin Early
BY StepMoves DEF Move, TypeInv, SystemType, Early

LEMMA LeaseStep ==
  ASSUME TypeInv, HeartInv, LeaseInv, Step
  PROVE  LeaseInv'
<1> SUFFICES ASSUME NEW e \in Exec, lease' = e
             PROVE  pc'[e] \notin Early
  BY DEF LeaseInv
<1>1. CASE lease = e
  BY <1>1, EarlyStep DEF LeaseInv
<1>2. CASE lease # e
  <2>1. BeginRun(e) \/ HbFill(e)
    <3>1. \A f \in Exec : ~DropLease /\ ~TruncateLease(f)
      BY <1>2, ExecutorAssumption DEF DropLease, TruncateLease, Fails, leases
    <3>2. \A f \in Exec : FillLease(f) => f = e
      BY <1>2 DEF FillLease, Fails
    <3>3. UNCHANGED lease => FALSE
      BY <1>2
    <3>4. ASSUME NEW f \in Exec, Start(f) \/ MainStep(f) \/ Signal(f) \/ Crash(f)
          PROVE  BeginRun(f) /\ FillLease(f)
      BY <3>1, <3>3, <3>4
      DEF Start, MainStep, Signal, Crash, ClaimWrite, CheckLease, UnlinkStale,
          OpenLease, BeginRun, Finish, StopAndUnlink, ReleaseRead, ReleaseUnlink,
          NextPass, Exit, End, leases
    <3>5. ASSUME NEW f \in Exec, HbStep(f)
          PROVE  HbFill(f) /\ FillLease(f)
      BY <3>1, <3>3, <3>5 DEF HbStep, HbWake, HbOpen, HbFill, HbRead, HbWrite, leases
    <3>6. ~(LockAges \/ SweepRead \/ SweepUnlink)
      BY <3>3 DEF LockAges, SweepRead, SweepUnlink, leases
    <3> QED BY <3>2, <3>4, <3>5, <3>6 DEF Step
  <2>2. CASE BeginRun(e)
    BY <2>2 DEF BeginRun, Goto, TypeInv, SystemType, Early
  <2>3. CASE HbFill(e)
    BY <2>3 DEF HbFill, HbMove, HeartInv, Early
  <2> QED BY <2>1, <2>2, <2>3
<1> QED BY <1>1, <1>2

LEMMA NextGuard == GuardInv /\ [Next]_vars => GuardInv'
<1> SUFFICES ASSUME GuardInv, [Next]_vars PROVE GuardInv'
  OBVIOUS
<1>1. TypeInv'
  BY NextType DEF GuardInv
<1>2. CASE UNCHANGED vars
  BY <1>1, <1>2 DEF GuardInv, HeartInv, LeaseInv, vars, system, threads, leases
<1>3. CASE Next
  BY <1>1, <1>3, HeartStep, LeaseStep DEF GuardInv, Next
<1> QED BY <1>2, <1>3

LEMMA RefusedByAnother ==
  ASSUME GuardInv, Step, NEW e \in Exec, pc[e] # "refused", pc'[e] = "refused"
  PROVE  \E f \in Exec \ {e} : Alive(f) /\ pc'[f] = pc[f]
<1>1. Move(e, "refused")
  BY StepMoves DEF Move, GuardInv, TypeInv, SystemType
<1>2. CASE pc[e] = "idle" /\ ~MayClaim(e)
  <2>1. lock # NoLock /\ Alive(lock.pid)
    BY <1>2 DEF MayClaim
  <2>2. lock.pid \in Exec \ {e}
    BY <1>2, <2>1 DEF GuardInv, TypeInv, SystemType, LockData
  <2> QED BY <1>1, <2>1, <2>2 DEF Move, GuardInv, TypeInv, SystemType
<1>3. CASE pc[e] = "check" /\ LeaseProtects
  <2>1. lease \in Exec \ {e} /\ Alive(lease)
    BY <1>3 DEF GuardInv, LeaseInv, LeaseProtects, Early
  <2> QED BY <1>1, <2>1 DEF Move, GuardInv, TypeInv, SystemType
<1> QED BY <1>1, <1>2, <1>3 DEF Move

\* However many executors boot together, whatever crashes, ageing, hooks and
\* late heartbeats do to the two files: they are never all turned away.
THEOREM SomeoneGetsIn == Spec => []NoCollectiveRefusal
<1>1. Init => NoCollectiveRefusal
  BY DEF Init, NoCollectiveRefusal
<1>2. GuardInv /\ NoCollectiveRefusal /\ [Next]_vars => NoCollectiveRefusal'
  <2> SUFFICES ASSUME GuardInv, NoCollectiveRefusal, [Next]_vars,
                      NEW e \in Exec, pc'[e] = "refused"
               PROVE  \E f \in Exec : pc'[f] \notin {"idle", "refused"}
    BY DEF NoCollectiveRefusal
  <2>1. CASE UNCHANGED vars
    BY <2>1 DEF NoCollectiveRefusal, vars, system
  <2>2. CASE Next /\ pc[e] # "refused"
    BY <2>2, RefusedByAnother DEF Next
  <2>3. CASE Next /\ pc[e] = "refused"
    <3>1. PICK f \in Exec : pc[f] \notin {"idle", "refused"}
      BY <2>3 DEF NoCollectiveRefusal
    <3>2. pc'[f] # "idle"
      BY <2>3, <3>1, StepMoves DEF Next, Move, GuardInv, TypeInv, SystemType
    <3>3. CASE pc'[f] = "refused"
      BY <2>3, <3>1, <3>3, RefusedByAnother DEF Next
    <3> QED BY <3>2, <3>3
  <2> QED BY <2>1, <2>2, <2>3
<1> QED BY InitGuard, NextGuard, <1>1, <1>2, PTL DEF Spec

\* Nothing a dead executor left behind costs a new one its run: every refusal
\* is owed to another executor that is alive at that moment.
THEOREM TheLivingRefuse == Spec => RefusedOnlyByTheLiving
<1>1. GuardInv /\ [Next]_vars =>
        [\A e \in Exec : pc[e] # "refused" /\ pc'[e] = "refused" =>
           \E f \in Exec \ {e} : Alive(f)]_vars
  BY RefusedByAnother DEF Next
<1> QED BY InitGuard, NextGuard, <1>1, PTL DEF Spec, RefusedOnlyByTheLiving

-----------------------------------------------------------------------------
(* Defence in depth.  A boot that passed a guard while e was running found *)
(* that layer down, and the history of e says so from then on; serialised  *)
(* boots leave nobody the chance to become a runner in the meantime.       *)

Recorded == \A e \in Exec : pc[e] = "run" => Uncovered(e) \subseteq exposed[e]

Serial == \A e, f \in Exec : pc[e] \in Booting /\ pc[f] \in Booting => e = f

PassedLock ==
  \A e, f \in Exec :
    pc[e] = "run" /\ pc[f] \in Booting /\ SessionOf[e] # SessionOf[f] =>
      "lock" \in exposed[e]

PassedLease ==
  \A e, f \in Exec :
    pc[e] = "run" /\ pc[f] \in {"unlink", "open", "fill"} => "lease" \in exposed[e]

BothLayers ==
  \A e, f \in Exec :
    e # f /\ pc[e] = "run" /\ pc[f] = "run" =>
      \E g \in {e, f} :
        /\ "lease" \in exposed[g]
        /\ SessionOf[e] # SessionOf[f] => "lock" \in exposed[g]

OverlapInv ==
  /\ GuardInv
  /\ Recorded
  /\ SerialStarts => Serial /\ PassedLock /\ PassedLease /\ BothLayers

LEMMA RecordedStep == TypeInv /\ Next => Recorded'
BY DEF Next, RecordExposure, Recorded, TypeInv

LEMMA ExposureGrows ==
  ASSUME TypeInv, Next, NEW e \in Exec, pc'[e] = "run"
  PROVE  exposed[e] \subseteq exposed'[e]
BY DEF Next, RecordExposure, TypeInv

LEMMA MoveOthers ==
  ASSUME TypeInv, NEW e \in Exec, NEW to \in PC, Move(e, to)
  PROVE  pc'[e] = to /\ \A f \in Exec \ {e} : pc'[f] = pc[f]
BY DEF Move, TypeInv, SystemType

\* Each layer that lets a boot through is down for every runner at that time.
LEMMA ClaimFindsLockDown ==
  ASSUME TypeInv, Recorded, NEW e \in Exec, NEW f \in Exec, pc[e] = "run",
         MayClaim(f), SessionOf[e] # SessionOf[f]
  PROVE  "lock" \in exposed[e]
<1>1. ~LockProtects(e)
  BY DEF MayClaim, LockProtects
<1> QED BY <1>1 DEF Recorded, Uncovered, Layer

LEMMA CheckFindsLeaseDown ==
  ASSUME Recorded, NEW e \in Exec, pc[e] = "run", ~LeaseProtects
  PROVE  "lease" \in exposed[e]
BY DEF Recorded, Uncovered, Layer

LEMMA SerialStep ==
  ASSUME TypeInv, SerialStarts, Serial, Step
  PROVE  Serial'
<1>1. CASE pc' = pc
  BY <1>1 DEF Serial
<1>2. ASSUME NEW e \in Exec, NEW to \in PC, Move(e, to)
      PROVE  Serial'
  <2>1. to \in Booting => pc[e] \in Booting \/ \A f \in Exec : pc[f] \notin Booting
    BY <1>2 DEF Move
  <2> QED BY <1>2, <2>1, MoveOthers DEF Serial
<1> QED BY <1>1, <1>2, StepMoves

LEMMA PassedLockStep ==
  ASSUME TypeInv, Recorded, SerialStarts, Serial, PassedLock, Next
  PROVE  PassedLock'
<1> SUFFICES ASSUME NEW e \in Exec, NEW f \in Exec, pc'[e] = "run",
                    pc'[f] \in Booting, SessionOf[e] # SessionOf[f]
             PROVE  "lock" \in exposed[e]
  BY ExposureGrows DEF PassedLock
<1>1. CASE pc' = pc
  BY <1>1 DEF PassedLock
<1>2. ASSUME NEW d \in Exec, NEW to \in PC, Move(d, to)
      PROVE  "lock" \in exposed[e]
  <2>1. CASE d = e
    <3>1. pc[e] = "fill" /\ pc[f] \in Booting
      BY <1>2, <2>1, MoveOthers DEF Move
    <3> QED BY <3>1 DEF Serial
  <2>2. CASE d = f /\ pc[f] \in Booting
    BY <1>2, <2>2, MoveOthers DEF PassedLock
  <2>3. CASE d = f /\ pc[f] \notin Booting
    <3>1. MayClaim(f) /\ pc[e] = "run"
      BY <1>2, <2>3, MoveOthers DEF Move
    <3> QED BY <3>1, ClaimFindsLockDown
  <2>4. CASE d \notin {e, f}
    BY <1>2, <2>4, MoveOthers DEF PassedLock
  <2> QED BY <2>1, <2>2, <2>3, <2>4
<1> QED BY <1>1, <1>2, StepMoves DEF Next

LEMMA PassedLeaseStep ==
  ASSUME TypeInv, Recorded, SerialStarts, Serial, PassedLease, Next
  PROVE  PassedLease'
<1> SUFFICES ASSUME NEW e \in Exec, NEW f \in Exec, pc'[e] = "run",
                    pc'[f] \in {"unlink", "open", "fill"}
             PROVE  "lease" \in exposed[e]
  BY ExposureGrows DEF PassedLease
<1>1. CASE pc' = pc
  BY <1>1 DEF PassedLease
<1>2. ASSUME NEW d \in Exec, NEW to \in PC, Move(d, to)
      PROVE  "lease" \in exposed[e]
  <2>1. CASE d = e
    <3>1. pc[e] = "fill" /\ pc[f] \in Booting
      BY <1>2, <2>1, MoveOthers DEF Move
    <3> QED BY <3>1 DEF Serial
  <2>2. CASE d = f /\ pc[f] \in {"unlink", "open"}
    BY <1>2, <2>2, MoveOthers DEF PassedLease
  <2>3. CASE d = f /\ pc[f] \notin {"unlink", "open"}
    <3>1. ~LeaseProtects /\ pc[e] = "run"
      BY <1>2, <2>3, MoveOthers DEF Move
    <3> QED BY <3>1, CheckFindsLeaseDown
  <2>4. CASE d \notin {e, f}
    BY <1>2, <2>4, MoveOthers DEF PassedLease
  <2> QED BY <2>1, <2>2, <2>3, <2>4
<1> QED BY <1>1, <1>2, StepMoves DEF Next

LEMMA BothLayersStep ==
  ASSUME TypeInv, PassedLock, PassedLease, BothLayers, Next
  PROVE  BothLayers'
<1> SUFFICES ASSUME NEW e \in Exec, NEW f \in Exec, e # f,
                    pc'[e] = "run", pc'[f] = "run"
             PROVE  \E g \in {e, f} :
                      /\ "lease" \in exposed'[g]
                      /\ SessionOf[e] # SessionOf[f] => "lock" \in exposed'[g]
  BY DEF BothLayers
<1>1. exposed[e] \subseteq exposed'[e] /\ exposed[f] \subseteq exposed'[f]
  BY ExposureGrows
<1>2. CASE pc[e] = "run" /\ pc[f] = "run"
  BY <1>1, <1>2 DEF BothLayers
<1>3. CASE pc[e] = "run" /\ pc[f] = "fill"
  BY <1>1, <1>3 DEF PassedLock, PassedLease
<1>4. CASE pc[e] = "fill" /\ pc[f] = "run"
  BY <1>1, <1>4 DEF PassedLock, PassedLease
<1>5. \/ pc[e] = "run" /\ pc[f] = "run"
      \/ pc[e] = "run" /\ pc[f] = "fill"
      \/ pc[e] = "fill" /\ pc[f] = "run"
  <2>1. CASE pc' = pc
    BY <2>1
  <2>2. ASSUME NEW d \in Exec, NEW to \in PC, Move(d, to)
        PROVE  to = "run" => pc[d] = "fill"
    BY <2>2 DEF Move, Leaving
  <2> QED BY <2>1, <2>2, StepMoves, MoveOthers DEF Next
<1> QED BY <1>2, <1>3, <1>4, <1>5

\* When boots are serialised, two executors run the issue together only after
\* one of them lost both guards that should have kept the other out.
THEOREM DefenceInDepth == Spec => []OverlapNeedsBothLayers
<1>1. Init => OverlapInv
  BY InitGuard DEF Init, OverlapInv, Recorded, Serial, PassedLock, PassedLease, BothLayers
<1>2. OverlapInv /\ [Next]_vars => OverlapInv'
  <2> SUFFICES ASSUME OverlapInv, [Next]_vars PROVE OverlapInv'
    OBVIOUS
  <2>1. GuardInv'
    BY NextGuard DEF OverlapInv
  <2>2. CASE UNCHANGED vars
    BY <2>1, <2>2 DEF OverlapInv, vars, system, locks, leases, Recorded, Serial,
      PassedLock, PassedLease, BothLayers, Uncovered, LockProtects, LeaseProtects
  <2>3. CASE Next
    <3>1. Recorded'
      BY <2>3, RecordedStep DEF OverlapInv, GuardInv
    <3>2. ASSUME SerialStarts
          PROVE  Serial' /\ PassedLock' /\ PassedLease' /\ BothLayers'
      BY <2>3, <3>2, SerialStep, PassedLockStep, PassedLeaseStep, BothLayersStep
      DEF OverlapInv, GuardInv, Next
    <3> QED BY <2>1, <3>1, <3>2 DEF OverlapInv
  <2> QED BY <2>2, <2>3
<1>3. OverlapInv => OverlapNeedsBothLayers
  BY DEF OverlapInv, BothLayers, OverlapNeedsBothLayers
<1> QED BY <1>1, <1>2, <1>3, PTL DEF Spec
-----------------------------------------------------------------------------
(* How far every executor still has to go.  Liveness is TLC's (the run     *)
(* ExecutorSerial checks BootResolves under fairness); what it rests on    *)
(* besides the fairness is proved here, for every number of executors: no  *)
(* other process ever holds a living main thread up or sets it back.       *)

\* The steps of its main thread an executor has left, at most.
Left(e) ==
  CASE pc[e] = "idle"    -> 13
    [] pc[e] = "claim"   -> 12
    [] pc[e] = "check"   -> 11
    [] pc[e] = "unlink"  -> 10
    [] pc[e] = "open"    -> 9
    [] pc[e] = "fill"    -> 8
    [] pc[e] = "run"     -> 7
    [] pc[e] = "release" -> 3 * passes[e]
    [] pc[e] = "unlock"  -> 3 * passes[e] - 1
    [] pc[e] = "off"     -> 3 * passes[e] - 2
    [] OTHER             -> 0

\* The guards of MainStep(e), in the order of its disjuncts.
MainCan(e) ==
  \/ pc[e] = "claim"  \/ pc[e] = "check"   \/ pc[e] = "unlink"
  \/ pc[e] = "open"   \/ pc[e] = "fill"    \/ pc[e] = "run"
  \/ pc[e] = "release" \/ pc[e] = "unlock"
  \/ pc[e] = "off" /\ passes[e] > 1
  \/ pc[e] = "off" /\ passes[e] = 1

\* An executor that leaves owes one or two runs of cleanup().
Owing == \A e \in Exec : pc[e] \in Leaving => passes[e] \in 1 .. 2
OwingInv == TypeInv /\ Owing

NeverHeld == \A e \in Exec : Left(e) \in 0 .. 13 /\ (Alive(e) => MainCan(e))

\* The one executor whose main thread moves gets nearer to its end.
Nearer(e) ==
  /\ Left(e)' < Left(e)
  /\ \A f \in Exec \ {e} : pc'[f] = pc[f] /\ passes'[f] = passes[f]

NobodySetBack ==
  /\ \A e \in Exec : Left(e)' <= Left(e)
  /\ \A e \in Exec : Start(e) \/ MainStep(e) \/ Signal(e) \/ Crash(e) => Left(e)' < Left(e)

LEMMA MainNearer ==
  ASSUME OwingInv, NEW e \in Exec, Start(e) \/ MainStep(e) \/ Signal(e) \/ Crash(e)
  PROVE  Nearer(e) /\ Owing'
<1> USE DEF OwingInv, TypeInv, SystemType
<1>1. CASE Start(e)
  BY <1>1 DEF Start, Goto, Nearer, Left, Owing
<1>2. CASE ClaimWrite(e) \/ UnlinkStale(e) \/ OpenLease(e) \/ BeginRun(e)
  BY <1>2 DEF ClaimWrite, UnlinkStale, OpenLease, BeginRun, Goto, Nearer, Left, Owing
<1>3. CASE CheckLease(e)
  <2>1. CASE LeaseProtects
    <3>1. pc' = [pc EXCEPT ![e] = "refused"]
      BY <1>3, <2>1, ExecutorAssumption DEF CheckLease, Goto, LeaseProtects
    <3> QED BY <1>3, <3>1 DEF CheckLease, Nearer, Left, Owing
  <2>2. CASE ~LeaseProtects
    <3>1. \E to \in {"open", "unlink"} : pc' = [pc EXCEPT ![e] = to]
      BY <1>3, <2>2 DEF CheckLease, Goto
    <3> QED BY <1>3, <3>1 DEF CheckLease, Nearer, Left, Owing
  <2> QED BY <2>1, <2>2
<1>4. CASE Finish(e) \/ Signal(e) \/ NextPass(e)
  <2>1. PICK owed \in 1 .. 2 :
          /\ StopAndUnlink(e, owed)
          /\ pc[e] = "run" \/ (pc[e] = "off" /\ passes[e] = owed + 1)
    BY <1>4 DEF Finish, Signal, NextPass, Owing
  <2> QED BY <2>1 DEF StopAndUnlink, Goto, Nearer, Left, Owing
<1>5. CASE ReleaseRead(e) \/ ReleaseUnlink(e)
  BY <1>5 DEF ReleaseRead, ReleaseUnlink, Goto, Nearer, Left, Owing
<1>6. CASE Exit(e) \/ Crash(e)
  <2>1. Left(e) > 0
    BY <1>6 DEF Exit, Crash, Left, Owing
  <2> QED BY <1>6, <2>1 DEF Exit, Crash, End, Goto, Nearer, Left, Owing
<1> QED BY <1>1, <1>2, <1>3, <1>4, <1>5, <1>6 DEF MainStep

\* The heartbeat threads, the age of a lock and the hooks move no main thread.
LEMMA OthersStay ==
  ASSUME (\E e \in Exec : HbStep(e)) \/ LockAges \/ SweepRead \/ SweepUnlink
  PROVE  pc' = pc /\ passes' = passes
BY DEF HbStep, HbWake, HbOpen, HbFill, HbRead, HbWrite, LockAges, SweepRead, SweepUnlink

LEMMA LeftBounded == OwingInv => NeverHeld
BY DEF OwingInv, TypeInv, SystemType, Owing, Left, NeverHeld, MainCan, PC

LEMMA NobodyElseMoves ==
  ASSUME OwingInv, pc' = pc, passes' = passes
  PROVE  Owing' /\ \A e \in Exec : Left(e)' = Left(e)
BY DEF Owing, OwingInv, Left

LEMMA NextNearer == OwingInv /\ [Next]_vars => Owing' /\ [NobodySetBack]_vars
<1> SUFFICES ASSUME OwingInv, [Next]_vars PROVE Owing' /\ [NobodySetBack]_vars
  OBVIOUS
<1>1. CASE UNCHANGED vars
  BY <1>1, NobodyElseMoves DEF vars, system
<1>2. CASE Next
  <2>0. \A e \in Exec : Left(e) \in Int
    BY LeftBounded DEF NeverHeld
  <2>1. ASSUME NEW e \in Exec, Start(e) \/ MainStep(e) \/ Signal(e) \/ Crash(e)
        PROVE  Nearer(e) /\ Owing'
    BY <2>1, MainNearer
  <2>2. \A e \in Exec :
          Start(e) \/ MainStep(e) \/ Signal(e) \/ Crash(e) => Left(e)' < Left(e)
    BY <2>1 DEF Nearer
  <2>3. CASE \E e \in Exec : Start(e) \/ MainStep(e) \/ Signal(e) \/ Crash(e)
    <3>1. PICK e \in Exec : Start(e) \/ MainStep(e) \/ Signal(e) \/ Crash(e)
      BY <2>3
    <3>2. Nearer(e) /\ Owing'
      BY <2>1, <3>1
    <3>3. \A f \in Exec \ {e} : Left(f)' = Left(f)
      BY <3>2 DEF Nearer, Left
    <3>4. Left(e)' \in Int
      <4>1. OwingInv'
        BY <1>2, <3>2, NextType DEF OwingInv
      <4>2. NeverHeld'
        BY <4>1, LeftBounded, PTL
      <4> QED BY <4>2 DEF NeverHeld
    <3>5. \A f \in Exec : Left(f)' <= Left(f)
      BY <2>0, <3>2, <3>3, <3>4 DEF Nearer
    <3> QED BY <2>2, <3>2, <3>5 DEF NobodySetBack
  <2>4. CASE (\E e \in Exec : HbStep(e)) \/ LockAges \/ SweepRead \/ SweepUnlink
    <3>1. Owing' /\ \A e \in Exec : Left(e)' = Left(e)
      BY <2>4, OthersStay, NobodyElseMoves
    <3>2. \A f \in Exec : Left(f)' <= Left(f)
      BY <2>0, <3>1
    <3> QED BY <2>2, <3>1, <3>2 DEF NobodySetBack
  <2> QED BY <1>2, <2>3, <2>4 DEF Next, Step
<1> QED BY <1>1, <1>2

\* No step of another process, of the own heartbeat or of a hook ever sets an
\* executor's main thread back or takes its next step from it, and each of its
\* own steps brings it nearer to its end: at most thirteen of them lead from
\* the start through a refusal or a run and up to two runs of cleanup().  With
\* the fairness of MainStep this is why BootResolves holds; the safety part of
\* the argument is proved, the temporal conclusion is TLC's.
THEOREM EachLifeRunsDown == Spec => []NeverHeld /\ [][NobodySetBack]_vars
<1>1. Init => OwingInv
  BY InitType DEF Init, OwingInv, Owing
<1>2. OwingInv /\ [Next]_vars => OwingInv'
  BY NextType, NextNearer DEF OwingInv
<1> QED BY <1>1, <1>2, LeftBounded, NextNearer, PTL DEF Spec
=============================================================================
