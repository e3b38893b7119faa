------------------------------ MODULE AgentCall ------------------------------
(***************************************************************************)
(* agent_call of harness/core.py: one call of an agent.  Three actors: the *)
(* reader (agent_call itself), which takes the agent's lines from the pipe;*)
(* the watchdog thread, which ends an agent that is silent at the deadline;*)
(* and the agent, a claude process whose output is arbitrary.              *)
(***************************************************************************)
EXTENDS Integers, Sequences

CONSTANT MaxLines   \* bound: lines the agent prints

ASSUME AgentCallAssumption == MaxLines \in Nat

TIMEOUT == 124
KILLED == -15

VARIABLES reader,   \* where agent_call is
          dog,      \* where its watchdog is
          agent,    \* "none", "up", "term" (told to end), "down"
          code,     \* the agent's exit status
          pipe,     \* lines printed and not read
          open,     \* who holds the pipe's other end: the agent, an orphan of it
          closed,   \* the watchdog has closed our end
          late,     \* the deadline has passed
          answer,   \* result_text is set
          out,      \* out_file: the last call's answer, empty, this call's
                    \* or a part of it
          exit,     \* call_exit
          lines,
          \* History: read by properties only.
          printed,  \* the agent has printed its result
          forced,   \* we have told the agent to end
          strayed,  \* the reader gave up on an error while the agent was up
          swallowed \* an error was ignored: a result that does not parse, a
                    \* file that cannot be written

world == <<agent, code, pipe, open, lines, printed>>
call  == <<answer, out, exit>>
history == <<forced, strayed, swallowed>>
vars == <<reader, dog, world, closed, late, call, history>>

Init ==
  /\ reader = "start" /\ dog = "none" /\ agent = "none" /\ code = 0
  /\ pipe = <<>> /\ open = {} /\ closed = FALSE /\ late = FALSE
  /\ answer = FALSE /\ out \in {"old", "empty"} /\ exit = 0 /\ lines = 0
  /\ printed = FALSE /\ forced = FALSE /\ strayed = FALSE /\ swallowed = FALSE

-----------------------------------------------------------------------------
(* The agent and the clock.                                                *)

\* A line of its stream: its result, anything else, or bytes that are no text.
Emit(l) ==
  /\ "agent" \in open /\ lines < MaxLines
  /\ l = "result" => ~printed
  /\ pipe' = Append(pipe, l)
  /\ lines' = lines + 1
  /\ printed' = (printed \/ l = "result")
  /\ UNCHANGED <<reader, dog, agent, code, open, closed, late, call, history>>

\* Who can hold the pipe when the agent ends: a command it had started.
Left == {{}} \cup IF "agent" \in open THEN {{"orphan"}} ELSE {}

\* It ends by itself or because it was told to.
Quit ==
  /\ agent \in {"up", "term"}
  /\ agent' = "down"
  /\ code' \in IF agent = "up" THEN {0, 1} ELSE {0, 1, KILLED}
  /\ open' \in Left
  /\ UNCHANGED <<reader, dog, pipe, lines, printed, closed, late, call, history>>

\* It goes on without its output, or its orphan ends.
HangUp ==
  /\ open # {} /\ open' = {}
  /\ UNCHANGED <<reader, dog, agent, code, pipe, lines, printed, closed, late, call, history>>

Deadline ==
  /\ dog # "none" /\ ~late /\ late' = TRUE
  /\ UNCHANGED <<reader, dog, world, closed, call, history>>

-----------------------------------------------------------------------------
(* agent_call.                                                             *)

\* Mutant: the files of the last call are left until there is an answer.
StartKeepingFiles ==
  /\ reader = "start"
  /\ reader' = "spawn"
  /\ UNCHANGED <<dog, world, closed, late, call, history>>

\* The output files are emptied before anything can fail.
Start ==
  /\ reader = "start"
  /\ reader' = "spawn"
  /\ out' = "empty"
  /\ UNCHANGED <<dog, world, closed, late, answer, exit, history>>

\* A write before the agent is started fails, in front of that or behind it:
\* the error goes to the caller.
StartFails ==
  /\ reader = "start"
  /\ reader' = "raised" /\ exit' = 1
  /\ out' \in {out, "empty"}
  /\ UNCHANGED <<dog, world, closed, late, answer, history>>

Spawn ==
  /\ reader = "spawn"
  /\ reader' = "loop" /\ dog' = "sleep" /\ agent' = "up" /\ open' = {"agent"}
  /\ UNCHANGED <<code, pipe, lines, printed, closed, late, call, history>>

\* Popen raises (no claude, no cwd): the finally clause reads log_fh, which is
\* not assigned yet, and raises again.
SpawnFails ==
  /\ reader = "spawn"
  /\ reader' = "raised" /\ exit' = 1
  /\ UNCHANGED <<dog, world, closed, late, answer, out, history>>

\* The run's log cannot be opened: the agent is up, and nobody watches it.
SpawnUnwatched ==
  /\ reader = "spawn"
  /\ reader' = "record" /\ exit' = 1
  /\ agent' = "up" /\ open' = {"agent"}
  /\ strayed' = TRUE
  /\ UNCHANGED <<dog, code, pipe, lines, printed, closed, late, answer, out, forced, swallowed>>

\* proc.terminate
Terminate ==
  /\ agent' = IF agent = "up" THEN "term" ELSE agent
  /\ forced' = TRUE

\* proc.wait(timeout=5), and proc.kill when the agent takes longer.
EndAgent ==
  IF agent = "down" THEN UNCHANGED <<agent, code, open>>
  ELSE agent' = "down" /\ code' = KILLED /\ open' \in Left

\* A line is read, and passed over if it does not parse: stderr shares the pipe.
\* The clock is looked at after every line that is not blank.
ReadLine ==
  /\ reader = "loop" /\ ~closed /\ pipe # <<>> /\ Head(pipe) # "bytes"
  /\ pipe' = Tail(pipe)
  /\ \/ answer' = (answer \/ Head(pipe) = "result") /\ UNCHANGED swallowed
     \/ Head(pipe) = "result" /\ swallowed' = TRUE /\ UNCHANGED answer
  /\ \/ late /\ reader' = "grace" /\ Terminate
     \/ (~late \/ Head(pipe) = "progress") /\ UNCHANGED <<reader, agent, forced>>
  /\ UNCHANGED <<dog, code, open, lines, printed, closed, late, out, exit, strayed>>

\* What ends the loop: a line that cannot be decoded, or be written to the log,
\* and a pipe that the watchdog has closed.
ReadRaises ==
  /\ reader = "loop" /\ (closed \/ pipe # <<>>)
  /\ reader' = "record" /\ exit' = 1
  /\ strayed' = (strayed \/ ~closed)
  /\ UNCHANGED <<dog, world, closed, late, answer, out, forced, swallowed>>

Drained == pipe = <<>> /\ open = {}

EndOfFile ==
  /\ reader = "loop" /\ ~closed /\ Drained
  /\ reader' = "wait"
  /\ UNCHANGED <<dog, world, closed, late, call, history>>

\* Mutant: the reader gives up without marking the call as timed out.
GraceUnmarked ==
  /\ reader = "grace"
  /\ EndAgent
  /\ reader' = "wait"
  /\ UNCHANGED <<dog, pipe, lines, printed, closed, late, call, history>>

Grace ==
  /\ reader = "grace"
  /\ EndAgent
  /\ reader' = "record" /\ exit' = TIMEOUT
  /\ UNCHANGED <<dog, pipe, lines, printed, closed, late, answer, out, history>>

\* Mutant: the exit status is taken without waiting for it.
WaitNotWaited ==
  /\ reader = "wait"
  /\ reader' = "record" /\ exit' = IF agent = "down" THEN code ELSE -1
  /\ UNCHANGED <<dog, world, closed, late, answer, out, history>>

Wait ==
  /\ reader = "wait" /\ agent = "down"
  /\ reader' = "record" /\ exit' = code
  /\ UNCHANGED <<dog, world, closed, late, answer, out, history>>

\* An OSError of the write is swallowed, before it began or half way.
Record ==
  /\ reader = "record"
  /\ reader' = "done"
  /\ \/ /\ out' = IF answer THEN "answer" ELSE "empty"
        /\ UNCHANGED swallowed
     \/ /\ out' \in {out, "empty", "part"}
        /\ swallowed' = TRUE
  /\ UNCHANGED <<dog, world, closed, late, answer, exit, forced, strayed>>

-----------------------------------------------------------------------------
(* The watchdog thread.                                                    *)

Wake ==
  /\ dog = "sleep" /\ late
  /\ IF agent = "down"
     THEN dog' = "over" /\ UNCHANGED <<agent, history>>
     ELSE dog' = "grace" /\ Terminate /\ UNCHANGED <<strayed, swallowed>>
  /\ UNCHANGED <<reader, code, pipe, open, lines, printed, closed, late, call>>

\* Mutants: the pipe is closed before the agent has been seen to end; and an
\* agent that ignores proc.terminate is left alone.
DogHurries ==
  /\ dog = "grace"
  /\ dog' = "close"
  /\ UNCHANGED <<reader, world, closed, late, call, history>>

DogOnlyAsks ==
  /\ dog = "grace" /\ agent = "down"
  /\ dog' = "close"
  /\ UNCHANGED <<reader, world, closed, late, call, history>>

DogGrace ==
  /\ dog = "grace"
  /\ EndAgent
  /\ dog' = "close"
  /\ UNCHANGED <<reader, pipe, lines, printed, closed, late, call, history>>

\* close() waits for a reader that is inside read().
Blocked == reader = "loop" /\ pipe = <<>> /\ ~Drained

Close ==
  /\ dog = "close" /\ ~Blocked
  /\ closed' = TRUE
  /\ dog' = "over"
  /\ UNCHANGED <<reader, world, late, call, history>>

Reader == \/ Start \/ StartFails \/ Spawn \/ SpawnFails \/ SpawnUnwatched \/ ReadLine \/ ReadRaises \/ EndOfFile
          \/ Grace \/ Wait \/ Record
Watchdog == Wake \/ DogGrace \/ Close

Next ==
  \/ Reader \/ Watchdog
  \/ (\E l \in {"progress", "result", "bytes"} : Emit(l))
  \/ Quit \/ HangUp \/ Deadline

\* The two threads run and time passes; nothing is expected of the agent.
Spec == Init /\ [][Next]_vars /\ WF_vars(Reader) /\ WF_vars(Watchdog) /\ WF_vars(Deadline)

-----------------------------------------------------------------------------
\* Every variable keeps its shape.
TypeOK ==
  /\ reader \in {"start", "spawn", "loop", "grace", "wait", "record", "done", "raised"}
  /\ dog \in {"none", "sleep", "grace", "close", "over"}
  /\ agent \in {"none", "up", "term", "down"}
  /\ code \in {0, 1, KILLED} /\ exit \in {0, 1, KILLED, TIMEOUT}
  /\ pipe \in Seq({"progress", "result", "bytes"}) /\ lines \in 0..MaxLines
  /\ out \in {"old", "empty", "part", "answer"}
  /\ open \subseteq {"agent", "orphan"}
  /\ closed \in BOOLEAN /\ late \in BOOLEAN
  /\ answer \in BOOLEAN /\ printed \in BOOLEAN /\ forced \in BOOLEAN /\ strayed \in BOOLEAN
  /\ swallowed \in BOOLEAN

Over == reader \in {"done", "raised"}

\* Exit code 0 means that the agent's answer, if it printed one, is the one in
\* the file: neither the deadline nor the watchdog has cut it off.  Two errors
\* hide behind a 0: a result line that does not parse (core.py:1039) and a file
\* that cannot be written (core.py:1078) are both passed over.
ZeroMeansWhole == reader = "done" /\ exit = 0 /\ printed => out = "answer" \/ swallowed

\* When the call is over the agent no longer runs and cannot touch the working
\* tree, except after an error of the reader's own: output that cannot be read,
\* a log that cannot be written (core.py:1064).
NoAgentLeftBehind == Over => agent \in {"none", "down"} \/ strayed

\* When the call returns, the file does not hold an earlier call's answer, even
\* if this one's cannot be written: the callers parse it without looking at the
\* exit code.
NoOldAnswer == reader = "done" => out # "old"

\* Who can go on: the reader, the watchdog, the clock.
ReaderCan == \/ reader \in {"start", "spawn", "grace", "record"}
             \/ reader = "loop" /\ (closed \/ pipe # <<>> \/ Drained)
             \/ reader = "wait" /\ agent = "down"
WatchdogCan == (dog = "sleep" /\ late) \/ dog = "grace" \/ (dog = "close" /\ ~Blocked)
TimeCan == dog # "none" /\ ~late

\* Reader and watchdog never wait for each other or for a living agent: only
\* a command that outlives the agent and holds its pipe can keep a call from
\* going on (close() waits for the reader in read(), core.py:970, 979).
OnlyOrphansBlock ==
  Over \/ ReaderCan \/ WatchdogCan \/ TimeCan \/ (agent = "down" /\ open = {"orphan"})

\* A silent agent, one that ignores SIGTERM and one whose output breaks the
\* reader all come to an end, unless the log could not be opened and no watchdog
\* was started (core.py:953).  And the call returns, unless a command the agent
\* has left behind holds the pipe for good: close() then waits for the reader,
\* and the reader for the pipe (core.py:970, 979).
CallReturns ==
  /\ []<>(agent \in {"none", "down"}) \/ [](dog = "none")
  /\ <>[](open = {"orphan"}) \/ <>Over
=============================================================================
