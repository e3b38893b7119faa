------------------------------ MODULE Executor ------------------------------
(***************************************************************************)
(* The start, the heartbeat and the exit of harness/executor.py, with the  *)
(* issue lock of hooks/session_state.py.  Every element of Exec is one     *)
(* executor PROCESS (one pid) started for the SAME prefix and issue; a     *)
(* session may start several of them (`.session-id` is last-writer-wins).  *)
(*                                                                         *)
(* Two layers keep executors apart:                                        *)
(*   - the issue lock (.issues/<prefix>_<issue>/lock), owned by a session; *)
(*   - the run lease (<prefix>_<issue>_harness_active), owned by a pid.    *)
(* Both are files that are read first and written in a later step.         *)
(***************************************************************************)
EXTENDS Integers, FiniteSets

CONSTANTS Exec,         \* executor processes, one pid each (no pid is reused)
          Session,      \* Claude Code sessions
          SessionOf,    \* the session an executor resolves at its boot
          NoLock,       \* the issue lock file is absent
          NoLease,      \* the run lease file is absent
          Torn,         \* the run lease file is truncated and not yet filled
          SerialStarts, \* TRUE: nobody starts an executor while another boots
          MayMissBeats, \* TRUE: a live executor's lock may grow stale
          MayFailWrites \* TRUE: a write of the two files may fail, unnoticed

ASSUME ExecutorAssumption ==
  /\ SessionOf \in [Exec -> Session]
  /\ NoLease \notin Exec /\ Torn \notin Exec /\ Torn # NoLease
  /\ NoLock \notin [sid : Session, pid : Exec, fresh : BOOLEAN]
  /\ SerialStarts \in BOOLEAN /\ MayMissBeats \in BOOLEAN /\ MayFailWrites \in BOOLEAN

VARIABLES pc,       \* main thread of each executor
          passes,   \* runs of cleanup() an exiting executor still owes
          hb,       \* heartbeat thread of each executor
          hbStop,   \* the threading.Event hb_stop
          hbSeen,   \* lock data the heartbeat thread read and will write back
          lock,     \* the issue lock file
          lease,    \* the run lease file
          writing,  \* executors holding an open handle on the current lease file
          sweeping, \* a SessionStart hook decided to unlink the issue lock
          exposed   \* layers each runner was without at some time of its run

locks   == <<lock, sweeping>>
leases  == <<lease, writing>>
threads == <<hb, hbStop, hbSeen>>
system  == <<pc, passes, threads, locks, leases>>
vars == <<system, exposed>>

Layer == {"lock", "lease"}
LockData == [sid : Session, pid : Exec, fresh : BOOLEAN]

Booting  == {"claim", "check", "unlink", "open", "fill"}
Leaving  == {"release", "unlock", "off"}
Running  == {"run"}
Alive(e) == pc[e] \in Booting \cup Running \cup Leaving

\* What keeps executors of other sessions out of e's issue: claim_issue_lock
\* refuses only a lock whose pid lives and whose heartbeat is recent.
LockProtects(e) ==
  /\ lock # NoLock
  /\ lock.sid = SessionOf[e]
  /\ Alive(lock.pid)
  /\ lock.fresh

\* What the parallel-run guard refuses: a readable lease of a living pid.
LeaseProtects == lease \in Exec /\ Alive(lease)

-----------------------------------------------------------------------------

Init ==
  /\ pc       = [e \in Exec |-> "idle"]
  /\ passes   = [e \in Exec |-> 0]
  /\ hb       = [e \in Exec |-> "none"]
  /\ hbStop   = [e \in Exec |-> FALSE]
  /\ hbSeen   = [e \in Exec |-> NoLock]
  /\ lock     = NoLock
  /\ lease    = NoLease
  /\ writing  = {}
  /\ sweeping = FALSE
  /\ exposed  = [e \in Exec |-> {}]

Goto(e, to) == pc' = [pc EXCEPT ![e] = to]

\* The executor swallows the errors of its writes to the two files.
Fails(file) == MayFailWrites /\ UNCHANGED file

(***************************************************************************)
(* Boot, first layer.  claim_issue_lock reads the lock file and decides;   *)
(* its own session's lock is re-entered, another session's is taken over   *)
(* when its pid is dead or its heartbeat is stale.                         *)
(***************************************************************************)
\* Mutant: a lock of another session is respected forever.
MayClaimOwn(e) == lock = NoLock \/ lock.sid = SessionOf[e]

MayClaim(e) == \/ lock = NoLock
               \/ lock.sid = SessionOf[e]
               \/ ~Alive(lock.pid)
               \/ ~lock.fresh

\* Mutant: the refusal is printed, the boot goes on.
StartRegardless(e) ==
  /\ pc[e] = "idle"
  /\ SerialStarts => \A f \in Exec : pc[f] \notin Booting
  /\ Goto(e, IF MayClaim(e) THEN "claim" ELSE "check")
  /\ UNCHANGED <<passes, threads, locks, leases>>

Start(e) ==
  /\ pc[e] = "idle"
  /\ SerialStarts => \A f \in Exec : pc[f] \notin Booting
  /\ Goto(e, IF MayClaim(e) THEN "claim" ELSE "refused")
  /\ UNCHANGED <<passes, threads, locks, leases>>

\* Mutants: session and pid are passed in the wrong order; the lease is written
\* with the claim, before the check for another run.
ClaimSwapped(e) ==
  /\ pc[e] = "claim"
  /\ lock' = [sid |-> e, pid |-> SessionOf[e], fresh |-> TRUE]
  /\ Goto(e, "check")
  /\ UNCHANGED <<passes, threads, sweeping, leases>>

ClaimWithLease(e) ==
  /\ pc[e] = "claim"
  /\ lock' = [sid |-> SessionOf[e], pid |-> e, fresh |-> TRUE]
  /\ lease' = e
  /\ Goto(e, "check")
  /\ UNCHANGED <<passes, threads, sweeping, writing>>

\* The boot goes on without the lock when the write fails.  (The fields it also
\* puts into live.json are read by no guard of the boot.)
ClaimWrite(e) ==
  /\ pc[e] = "claim"
  /\ lock' = [sid |-> SessionOf[e], pid |-> e, fresh |-> TRUE] \/ Fails(lock)
  /\ Goto(e, "check")
  /\ UNCHANGED <<passes, threads, sweeping, leases>>

\* Mutant: a stale lease is waited for instead of unlinked.
CheckLeaseWaiting(e) ==
  /\ pc[e] = "check"
  /\ Goto(e, CASE LeaseProtects   -> "refused"
               [] lease = NoLease -> "open"
               [] OTHER           -> "check")
  /\ UNCHANGED <<passes, threads, locks, leases>>

(***************************************************************************)
(* Boot, second layer.  A lease of a living pid ends the boot at once,     *)
(* before cleanup is registered: the claim just made stays behind.  A dead *)
(* pid's lease, or one that does not parse, is unlinked in a later step.   *)
(***************************************************************************)
CheckLease(e) ==
  /\ pc[e] = "check"
  /\ Goto(e, CASE LeaseProtects   -> "refused"
               [] lease = NoLease -> "open"
               [] OTHER           -> "unlink")
  /\ UNCHANGED <<passes, threads, locks, leases>>

\* Unlinking drops the file under every handle that is open on it.
DropLease == lease' = NoLease /\ writing' = {}

UnlinkStale(e) ==
  /\ pc[e] = "unlink"
  /\ DropLease
  /\ Goto(e, "open")
  /\ UNCHANGED <<passes, threads, locks>>

\* Path.write_text: open with truncation, then fill; either may fail unnoticed.
\* The text of a writer whose file was unlinked in between goes nowhere.
TruncateLease(e) ==
  \/ lease' = Torn /\ writing' = writing \cup {e}
  \/ Fails(leases)
FillLease(e) ==
  /\ lease' = (IF e \in writing THEN e ELSE lease) \/ Fails(lease)
  /\ writing' = writing \ {e}

OpenLease(e) ==
  /\ pc[e] = "open"
  /\ TruncateLease(e)
  /\ Goto(e, "fill")
  /\ UNCHANGED <<passes, threads, locks>>

\* The lease is on disk, the heartbeat thread starts, cleanup is registered.
BeginRun(e) ==
  /\ pc[e] = "fill"
  /\ FillLease(e)
  /\ hb' = [hb EXCEPT ![e] = "sleep"]
  /\ Goto(e, "run")
  /\ UNCHANGED <<passes, hbStop, hbSeen, locks>>

-----------------------------------------------------------------------------
(***************************************************************************)
(* The heartbeat thread: every 15 s, unless hb_stop was set BEFORE the     *)
(* check, it rewrites the lease and refreshes the issue lock.  It is a     *)
(* daemon thread: it goes on beside cleanup() until the process ends.      *)
(***************************************************************************)
HbMove(e, from, to) == Alive(e) /\ hb[e] = from /\ hb' = [hb EXCEPT ![e] = to]

HbWake(e) ==
  /\ HbMove(e, "sleep", IF hbStop[e] THEN "none" ELSE "open")
  /\ UNCHANGED <<pc, passes, hbStop, hbSeen, locks, leases>>

HbOpen(e) ==
  /\ HbMove(e, "open", "fill")
  /\ TruncateLease(e)
  /\ UNCHANGED <<pc, passes, hbStop, hbSeen, locks>>

HbFill(e) ==
  /\ HbMove(e, "fill", "read")
  /\ FillLease(e)
  /\ UNCHANGED <<pc, passes, hbStop, hbSeen, locks>>

\* heartbeat_issue_lock leaves an absent or a foreign lock alone ...
OwnLock(e) == lock # NoLock /\ lock.sid = SessionOf[e]

HbRead(e) ==
  /\ HbMove(e, "read", IF OwnLock(e) THEN "write" ELSE "sleep")
  /\ hbSeen' = [hbSeen EXCEPT ![e] = IF OwnLock(e) THEN [lock EXCEPT !.fresh = TRUE]
                                                    ELSE NoLock]
  /\ UNCHANGED <<pc, passes, hbStop, locks, leases>>

\* ... and replaces the file by what it read, with the time of now, whatever the
\* file is by then, if the write succeeds.
HbWrite(e) ==
  /\ HbMove(e, "write", "sleep")
  /\ lock' = hbSeen[e] \/ Fails(lock)
  /\ hbSeen' = [hbSeen EXCEPT ![e] = NoLock]
  /\ UNCHANGED <<pc, passes, hbStop, sweeping, leases>>

-----------------------------------------------------------------------------
(***************************************************************************)
(* Exit.  The mode's loop returns, raises or is killed: cleanup() runs     *)
(* once from atexit.  A signal runs it in the handler, whose sys.exit runs *)
(* it again from atexit.  (At most one signal per executor.)               *)
(***************************************************************************)
\* hb_stop.set() and the unlink of the lease, whoever wrote it.
StopAndUnlink(e, owed) ==
  /\ passes' = [passes EXCEPT ![e] = owed]
  /\ hbStop' = [hbStop EXCEPT ![e] = TRUE]
  /\ DropLease
  /\ Goto(e, "release")
  /\ UNCHANGED <<hb, hbSeen, locks>>

Finish(e) == pc[e] = "run" /\ StopAndUnlink(e, 1)

Signal(e) == pc[e] = "run" /\ StopAndUnlink(e, 2)

\* release_issue_lock reads the owner ...
ReleaseRead(e) ==
  /\ pc[e] = "release"
  /\ Goto(e, IF OwnLock(e) THEN "unlock" ELSE "off")
  /\ UNCHANGED <<passes, threads, locks, leases>>

\* ... and unlinks in a step of its own, if it can.
ReleaseUnlink(e) ==
  /\ pc[e] = "unlock"
  /\ lock' = NoLock \/ Fails(lock)
  /\ Goto(e, "off")
  /\ UNCHANGED <<passes, threads, sweeping, leases>>

\* The handler's sys.exit runs cleanup() from the start.
NextPass(e) == pc[e] = "off" /\ passes[e] > 1 /\ StopAndUnlink(e, passes[e] - 1)

\* The process ends; its memory and its open handles go, its files stay.
End(e) ==
  /\ Goto(e, "ended")
  /\ passes'  = [passes EXCEPT ![e] = 0]
  /\ hb'      = [hb EXCEPT ![e] = "none"]
  /\ hbStop'  = [hbStop EXCEPT ![e] = FALSE]
  /\ hbSeen'  = [hbSeen EXCEPT ![e] = NoLock]
  /\ writing' = writing \ {e}
  /\ UNCHANGED <<locks, lease>>

Exit(e) == pc[e] = "off" /\ passes[e] = 1 /\ End(e)

\* SIGKILL, power loss, or a signal before the handlers are installed.
Crash(e) ==
  /\ Alive(e)
  /\ End(e)

-----------------------------------------------------------------------------
\* 1800 s pass without a heartbeat: the machine was suspended, or the beats
\* failed.  (Of a dead process's lock the age decides nothing.)
LockAges ==
  /\ MayMissBeats
  /\ lock # NoLock
  /\ lock.fresh
  /\ Alive(lock.pid)
  /\ lock' = [lock EXCEPT !.fresh = FALSE]
  /\ UNCHANGED <<pc, passes, threads, sweeping, leases>>

\* cleanup_stale_issue_locks, run by the SessionStart hook of any session:
\* it reads the lock, judges it stale, and unlinks in a later step.
SweepRead ==
  /\ ~sweeping
  /\ lock # NoLock
  /\ ~(Alive(lock.pid) /\ lock.fresh)
  /\ sweeping' = TRUE
  /\ UNCHANGED <<pc, passes, threads, lock, leases>>

SweepUnlink ==
  /\ sweeping
  /\ lock' = NoLock
  /\ sweeping' = FALSE
  /\ UNCHANGED <<pc, passes, threads, leases>>

-----------------------------------------------------------------------------
MainStep(e) ==
  \/ ClaimWrite(e) \/ CheckLease(e) \/ UnlinkStale(e)
  \/ OpenLease(e) \/ BeginRun(e) \/ Finish(e)
  \/ ReleaseRead(e) \/ ReleaseUnlink(e) \/ NextPass(e) \/ Exit(e)

HbStep(e) == HbWake(e) \/ HbOpen(e) \/ HbFill(e) \/ HbRead(e) \/ HbWrite(e)

Step ==
  \/ \E e \in Exec : Start(e) \/ MainStep(e) \/ HbStep(e) \/ Signal(e) \/ Crash(e)
  \/ LockAges \/ SweepRead \/ SweepUnlink

\* History, not a guard: the layers a runner is without in the new state.
Uncovered(e) == {l \in Layer : \/ l = "lock"  /\ ~LockProtects(e)
                               \/ l = "lease" /\ ~LeaseProtects}

RecordExposure ==
  exposed' = [e \in Exec |-> IF pc'[e] = "run"
                             THEN exposed[e] \cup Uncovered(e)'
                             ELSE {}]

Next == Step /\ RecordExposure

\* The kernel runs every live main thread; nothing forces starts, signals,
\* crashes, ageing or hooks.  (exposed is history: it is left out of the fairness.)
Fairness == \A e \in Exec : WF_system(MainStep(e))

Spec == Init /\ [][Next]_vars /\ Fairness

-----------------------------------------------------------------------------
PC == {"idle", "refused", "ended"} \cup Booting \cup Running \cup Leaving
HbPC == {"none", "sleep", "open", "fill", "read", "write"}

\* Every variable keeps its shape; the lock file always holds a whole record
\* (atomic_write_json), the lease file may be torn (write_text).
TypeOK ==
  /\ pc \in [Exec -> PC]
  /\ passes \in [Exec -> 0 .. 2]
  /\ hb \in [Exec -> HbPC]
  /\ hbStop \in [Exec -> BOOLEAN]
  /\ hbSeen \in [Exec -> LockData \cup {NoLock}]
  /\ lock \in LockData \cup {NoLock}
  /\ lease \in Exec \cup {NoLease, Torn}
  /\ writing \subseteq Exec
  /\ sweeping \in BOOLEAN
  /\ exposed \in [Exec -> SUBSET Layer]

\* What executor.py:103 and :131 promise: no two executors run one issue.
MutualExclusion ==
  \A e, f \in Exec : pc[e] = "run" /\ pc[f] = "run" => e = f

\* Defence in depth of the two guards (executor.py:103-137): when boots are
\* serialised, two executors run together only if one of them went without
\* its lease at some time of its run and, if they are of different sessions,
\* without its issue lock too.  No single lost, stale or overwritten file is
\* enough to let a second session in.
OverlapNeedsBothLayers ==
  SerialStarts =>
    \A e, f \in Exec :
      e # f /\ pc[e] = "run" /\ pc[f] = "run" =>
        \E g \in {e, f} :
          /\ "lease" \in exposed[g]
          /\ SessionOf[e] # SessionOf[f] => "lock" \in exposed[g]

\* The guards never turn everybody away: executors that start together do not
\* refuse each other (a refusal at executor.py:111 or :132 is always owed to
\* an executor that got further).
NoCollectiveRefusal ==
  (\E e \in Exec : pc[e] = "refused") =>
    \E f \in Exec : pc[f] \notin {"idle", "refused"}

\* Locks, leases and hooks left behind by dead executors never cost a new one
\* its run (session_state.py:429-434, executor.py:133-137): a boot is refused
\* only while another executor is alive.
RefusedOnlyByTheLiving ==
  [][\A e \in Exec : pc[e] # "refused" /\ pc'[e] = "refused" =>
       \E f \in Exec \ {e} : Alive(f)]_vars

\* A boot always ends, in a run or in a refusal, whatever was left on disk.
BootResolves ==
  \A e \in Exec : pc[e] \in Booting ~> pc[e] \in {"run", "refused", "ended"}
=============================================================================
