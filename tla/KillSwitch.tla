----------------------------- MODULE KillSwitch -----------------------------
(***************************************************************************)
(* The one kill signal of a project (`.global.json`.harness_kill) and the  *)
(* runs that watch it: several executors may run at once, each on an issue *)
(* of its own.  /harness-kill sets the signal; kill_check reads it in one  *)
(* step and takes it away in a later one.                                  *)
(***************************************************************************)
CONSTANT Run

VARIABLES signal,  \* harness_kill is set
          at,      \* where each run is
          asked,   \* history: runs that were live when a kill was issued
          heeded   \* history: runs stopped since the last kill was issued

killVars == <<signal, at, asked, heeded>>

Live == {"loop", "seen", "agent"}

KillInit ==
  /\ signal = FALSE
  /\ at = [r \in Run |-> "idle"]
  /\ asked = {} /\ heeded = {}

Move(r, from, to) == at[r] = from /\ at' = [at EXCEPT ![r] = to]

Begin(r) == Move(r, "idle", "loop") /\ UNCHANGED <<signal, asked, heeded>>

\* kill_check without a signal: the next agent starts.
StartAgent(r) == ~signal /\ Move(r, "loop", "agent") /\ UNCHANGED <<signal, asked, heeded>>

\* Mutant: the signal is taken away as soon as it is seen.
SeeSignalConsuming(r) ==
  /\ signal /\ Move(r, "loop", "seen")
  /\ signal' = FALSE
  /\ UNCHANGED <<asked, heeded>>

SeeSignal(r) == signal /\ Move(r, "loop", "seen") /\ UNCHANGED <<signal, asked, heeded>>

\* The signal is removed for everybody, and the process exits.
ConsumeSignal(r) ==
  /\ Move(r, "seen", "killed")
  /\ signal' = FALSE
  /\ heeded' = heeded \cup {r}
  /\ UNCHANGED asked

\* After an agent: the next check, another agent without one, or the end.
AgentEnds(r) ==
  /\ \E to \in {"loop", "agent", "done"} : Move(r, "agent", to)
  /\ UNCHANGED <<signal, asked, heeded>>

Crash(r) ==
  /\ \E from \in Live : Move(r, from, "done")
  /\ UNCHANGED <<signal, asked, heeded>>

\* /harness-kill.  (set_global_signal merges into the file; the file has no
\* other field.)
Kill ==
  /\ signal' = TRUE
  /\ asked' = asked \cup {r \in Run : at[r] \in Live}
  /\ heeded' = {}
  /\ UNCHANGED at

KillNext ==
  \/ \E r \in Run : \/ Begin(r) \/ StartAgent(r) \/ SeeSignal(r) \/ ConsumeSignal(r)
                    \/ AgentEnds(r) \/ Crash(r)
  \/ Kill

KillSpec == KillInit /\ [][KillNext]_killVars

\* A kill is never lost: it stays in the file until a run that saw one has
\* stopped, however reads, removals, crashes and further kills interleave
\* (core.py:2094-2105).
KillNotLost == asked # {} /\ ~signal => heeded # {}
=============================================================================
