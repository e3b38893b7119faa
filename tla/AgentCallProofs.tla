---------------------------- MODULE AgentCallProofs ----------------------------
(***************************************************************************)
(* Theorems about AgentCall, for an agent that prints any number of lines: *)
(* type correctness, that exit code 0 means a whole answer, that no agent  *)
(* is left behind and no old answer is read, that nothing but an orphan    *)
(* can hold a call up, and that a call runs down.                          *)
(***************************************************************************)
EXTENDS AgentCall, TLAPS

USE DEF world, call, history

Line == {"progress", "result", "bytes"}

-----------------------------------------------------------------------------
(* The pipe.                                                               *)

Holds(p, l) == \E k \in 1 .. Len(p) : p[k] = l

LEMMA AppendHolds ==
  ASSUME NEW p \in Seq(Line), NEW l \in Line
  PROVE  /\ Append(p, l) \in Seq(Line)
         /\ Holds(Append(p, l), l)
         /\ \A m \in Line : Holds(p, m) => Holds(Append(p, l), m)
BY DEF Holds

LEMMA TailHolds ==
  ASSUME NEW p \in Seq(Line), p # <<>>
  PROVE  /\ Tail(p) \in Seq(Line) /\ Head(p) \in Line
         /\ \A m \in Line : Holds(p, m) => Head(p) = m \/ Holds(Tail(p), m)
<1>1. Tail(p) \in Seq(Line) /\ Head(p) \in Line
  OBVIOUS
<1>2. ASSUME NEW m \in Line, Holds(p, m), Head(p) # m PROVE Holds(Tail(p), m)
  <2>1. PICK k \in 1 .. Len(p) : p[k] = m
    BY <1>2 DEF Holds
  <2>2. k # 1
    BY <1>2, <2>1
  <2>3. k - 1 \in 1 .. Len(Tail(p)) /\ Tail(p)[k - 1] = m
    BY <2>1, <2>2
  <2> QED BY <2>3 DEF Holds
<1> QED BY <1>1, <1>2

-----------------------------------------------------------------------------
(* Type correctness.                                                       *)

\* The parts of TypeOK: where the actors are, the numbers, the pipe, the rest.
PlaceOK ==
  /\ reader \in {"start", "spawn", "loop", "grace", "wait", "record", "done", "raised"}
  /\ dog \in {"none", "sleep", "grace", "close", "over"}
  /\ agent \in {"none", "up", "term", "down"}
CodeOK == code \in {0, 1, KILLED} /\ exit \in {0, 1, KILLED, TIMEOUT}
PipeOK == /\ pipe \in Seq(Line) /\ lines \in 0 .. MaxLines
          /\ open \subseteq {"agent", "orphan"} /\ out \in {"old", "empty", "part", "answer"}
FlagOK == /\ closed \in BOOLEAN /\ late \in BOOLEAN /\ answer \in BOOLEAN
          /\ printed \in BOOLEAN /\ forced \in BOOLEAN /\ strayed \in BOOLEAN
          /\ swallowed \in BOOLEAN

LEMMA Parts == TypeOK <=> PlaceOK /\ CodeOK /\ PipeOK /\ FlagOK
BY DEF TypeOK, PlaceOK, CodeOK, PipeOK, FlagOK, Line

LEMMA InitType == Init => TypeOK
<1>1. Init => PlaceOK /\ FlagOK
  BY DEF Init, PlaceOK, FlagOK
<1>2. Init => CodeOK
  BY DEF Init, CodeOK
<1>3. Init => PipeOK
  BY AgentCallAssumption DEF Init, PipeOK
<1> QED BY <1>1, <1>2, <1>3, Parts

LEMMA PlaceNext == PlaceOK /\ Next => PlaceOK'
BY DEF PlaceOK, Next, Reader, Watchdog, Emit, Quit, HangUp, Deadline, Start, StartFails,
       Spawn, SpawnFails, SpawnUnwatched,
       ReadLine, ReadRaises, EndOfFile, Grace, Wait, Record, Wake, DogGrace, Close, Terminate,
       EndAgent

LEMMA CodeNext == CodeOK /\ Next => CodeOK'
BY DEF CodeOK, Next, Reader, Watchdog, Emit, Quit, HangUp, Deadline, Start, StartFails,
       Spawn, SpawnFails, SpawnUnwatched,
       ReadLine, ReadRaises, EndOfFile, Grace, Wait, Record, Wake, DogGrace, Close, EndAgent

LEMMA FlagNext == FlagOK /\ Next => FlagOK'
BY DEF FlagOK, Next, Reader, Watchdog, Emit, Quit, HangUp, Deadline, Start, StartFails,
       Spawn, SpawnFails, SpawnUnwatched,
       ReadLine, ReadRaises, EndOfFile, Grace, Wait, Record, Wake, DogGrace, Close, Terminate

LEMMA PipeNext == PipeOK /\ Next => PipeOK'
<1> SUFFICES ASSUME PipeOK, Next PROVE PipeOK'
  OBVIOUS
<1>1. ASSUME NEW l \in Line, Emit(l) PROVE PipeOK'
  <2>1. pipe' \in Seq(Line)
    BY <1>1, AppendHolds DEF Emit, PipeOK
  <2>2. lines' \in 0 .. MaxLines
    BY <1>1, AgentCallAssumption DEF Emit, PipeOK
  <2> QED BY <1>1, <2>1, <2>2 DEF Emit, PipeOK
<1>2. CASE ReadLine
  <2>1. pipe' \in Seq(Line) /\ UNCHANGED <<lines, open, out>>
    BY <1>2, TailHolds DEF ReadLine, PipeOK
  <2> QED BY <2>1 DEF PipeOK
<1>3. ASSUME UNCHANGED <<pipe, lines>>, open' \subseteq {"agent", "orphan"},
             out' \in {"old", "empty", "part", "answer"}
      PROVE  PipeOK'
  BY <1>3 DEF PipeOK
<1>4. CASE Quit \/ HangUp \/ Deadline \/ Wake \/ DogGrace \/ Close
  BY <1>3, <1>4 DEF Quit, HangUp, Deadline, Wake, DogGrace, Close, EndAgent, Left, PipeOK
<1>5. CASE \/ Start \/ StartFails \/ Spawn \/ SpawnFails \/ SpawnUnwatched \/ ReadRaises
           \/ EndOfFile \/ Grace \/ Wait \/ Record
  BY <1>3, <1>5 DEF Start, StartFails, Spawn, SpawnFails, SpawnUnwatched, ReadRaises, EndOfFile, Grace, Wait, Record,
                    EndAgent, Left, PipeOK
<1> QED BY <1>1, <1>2, <1>4, <1>5 DEF Next, Reader, Watchdog, Line

LEMMA NextType == TypeOK /\ [Next]_vars => TypeOK'
<1>1. TypeOK /\ UNCHANGED vars => TypeOK'
  BY DEF vars, TypeOK
<1>2. PlaceOK' /\ CodeOK' /\ PipeOK' /\ FlagOK' => TypeOK'
  BY DEF TypeOK, PlaceOK, CodeOK, PipeOK, FlagOK, Line
<1> QED BY <1>1, <1>2, Parts, PlaceNext, CodeNext, FlagNext, PipeNext

\* Reader, watchdog, agent and pipe keep their types however their steps
\* interleave; the exit code is one the caller knows (core.py:801, 1062).
THEOREM TypeCorrect == Spec => []TypeOK
BY InitType, NextType, PTL DEF Spec

-----------------------------------------------------------------------------
(* A result that was printed is in the pipe until the reader has taken it, *)
(* and only the wait behind an empty pipe gives exit code 0.               *)

WholeInv ==
  /\ printed => answer \/ swallowed \/ Holds(pipe, "result")
  /\ reader = "wait" => pipe = <<>> /\ open = {}
  /\ reader \in {"record", "done"} /\ exit = 0 => open = {} /\ (printed => answer \/ swallowed)
  /\ reader = "done" /\ answer => out = "answer" \/ swallowed

LEMMA WholeNext == TypeOK /\ WholeInv /\ [Next]_vars => WholeInv'
<1> SUFFICES ASSUME TypeOK, WholeInv, [Next]_vars PROVE WholeInv'
  OBVIOUS
<1>0. pipe \in Seq(Line)
  BY DEF TypeOK, Line
<1>1. CASE UNCHANGED vars
  BY <1>1 DEF vars, WholeInv
<1>2. ASSUME NEW l \in Line, Emit(l) PROVE WholeInv'
  <2>1. (printed' => answer' \/ swallowed' \/ Holds(pipe', "result")) /\ open # {}
    BY <1>0, <1>2, AppendHolds DEF Emit, WholeInv, Line, TypeOK
  <2> QED BY <1>2, <2>1 DEF Emit, WholeInv
<1>3. CASE Quit \/ HangUp \/ Deadline
  BY <1>3 DEF Quit, HangUp, Deadline, Left, WholeInv
<1>4. CASE Start \/ StartFails \/ Spawn \/ SpawnFails \/ SpawnUnwatched
  BY <1>4 DEF Start, StartFails, Spawn, SpawnFails, SpawnUnwatched, WholeInv
<1>5. CASE ReadLine
  <2>0. Holds(pipe, "result") => Head(pipe) = "result" \/ Holds(pipe', "result")
    BY <1>0, <1>5, TailHolds DEF ReadLine, Line
  <2>3. \/ answer' = (answer \/ Head(pipe) = "result") /\ swallowed' = swallowed
        \/ swallowed' = TRUE
    BY <1>5 DEF ReadLine
  <2>4. /\ answer \/ swallowed => answer' \/ swallowed'
        /\ Head(pipe) = "result" => answer' \/ swallowed'
    BY <2>3, Zenon DEF TypeOK
  <2>5. printed' = printed
    BY <1>5 DEF ReadLine
  <2>1. printed' => answer' \/ swallowed' \/ Holds(pipe', "result")
    BY <2>0, <2>4, <2>5 DEF WholeInv
  <2>2. reader' \in {"loop", "grace"}
    BY <1>5 DEF ReadLine
  <2> QED BY <2>1, <2>2 DEF WholeInv
<1>6. CASE EndOfFile
  BY <1>6 DEF EndOfFile, Drained, WholeInv
<1>7. CASE Wait
  <2>1. ~Holds(<<>>, "result")
    BY DEF Holds
  <2> QED BY <1>7, <2>1 DEF Wait, WholeInv
<1>8. CASE ReadRaises \/ Record
  BY <1>8 DEF ReadRaises, Record, WholeInv
<1>9. CASE Grace \/ DogGrace
  BY <1>9 DEF Grace, DogGrace, EndAgent, Left, TIMEOUT, WholeInv
<1>10. CASE Wake \/ Close
  BY <1>10 DEF Wake, Terminate, Close, WholeInv
<1> QED BY <1>1, <1>2, <1>3, <1>4, <1>5, <1>6, <1>7, <1>8, <1>9, <1>10
        DEF Next, Reader, Watchdog, Line

\* Exit code 0 means that the whole answer of the agent is in the file, unless
\* its line did not parse or the file could not be written.
THEOREM ZeroIsWhole == Spec => []ZeroMeansWhole
<1>1. Init => WholeInv
  BY DEF Init, WholeInv
<1>2. WholeInv => ZeroMeansWhole
  BY DEF WholeInv, ZeroMeansWhole
<1> QED BY <1>1, <1>2, InitType, NextType, WholeNext, PTL DEF Spec

-----------------------------------------------------------------------------
(* Whoever stops waiting for the agent has seen it end.                    *)

EndInv ==
  /\ dog = "close" \/ closed => agent = "down"
  /\ reader \in {"start", "spawn", "raised"} => agent = "none" /\ dog = "none" /\ ~closed
  /\ reader \in {"record", "done"} => agent = "down" \/ strayed

LEMMA EndNext == TypeOK /\ EndInv /\ [Next]_vars => EndInv'
<1> SUFFICES ASSUME TypeOK, EndInv, [Next]_vars PROVE EndInv'
  OBVIOUS
<1> USE DEF EndInv
<1>1. CASE UNCHANGED vars
  BY <1>1 DEF vars
<1>2. CASE (\E l \in Line : Emit(l)) \/ Quit \/ HangUp \/ Deadline
  BY <1>2 DEF Emit, Quit, HangUp, Deadline
<1>3. CASE Start \/ StartFails \/ Spawn \/ SpawnFails \/ SpawnUnwatched \/ EndOfFile \/ Wait \/ Record
  BY <1>3 DEF Start, StartFails, Spawn, SpawnFails, SpawnUnwatched, EndOfFile, Wait, Record
<1>4. CASE ReadLine
  <2>1. reader = "loop" /\ reader' \in {"loop", "grace"} /\ UNCHANGED <<dog, closed>>
    BY <1>4 DEF ReadLine
  <2>2. agent = "down" => agent' = "down"
    BY <1>4 DEF ReadLine, Terminate
  <2> QED BY <2>1, <2>2
<1>7. CASE ReadRaises
  <2>1. /\ reader = "loop" /\ reader' = "record" /\ UNCHANGED <<dog, agent, closed>>
        /\ closed \/ strayed'
    BY <1>7 DEF ReadRaises
  <2> QED BY <2>1
<1>5. CASE Grace \/ DogGrace
  BY <1>5 DEF Grace, DogGrace, EndAgent
<1>6. CASE Wake \/ Close
  BY <1>6 DEF Wake, Terminate, Close
<1> QED BY <1>1, <1>2, <1>3, <1>4, <1>5, <1>6, <1>7 DEF Next, Reader, Watchdog, Line

\* When the call is over the agent has ended, unless the reader gave up on an
\* error of its own.
THEOREM NobodyLeftBehind == Spec => []NoAgentLeftBehind
<1>1. Init => EndInv
  BY DEF Init, EndInv
<1>2. EndInv => NoAgentLeftBehind
  BY DEF EndInv, NoAgentLeftBehind, Over
<1> QED BY <1>1, <1>2, InitType, NextType, EndNext, PTL DEF Spec

-----------------------------------------------------------------------------
\* The file has been emptied before anything can end the call.
FreshInv == reader \notin {"start", "raised"} => out # "old"

LEMMA FreshNext == FreshInv /\ [Next]_vars => FreshInv'
BY DEF FreshInv, Next, Reader, Watchdog, vars, Emit, Quit, HangUp, Deadline, Start, StartFails, Spawn,
       SpawnFails, SpawnUnwatched, ReadLine, ReadRaises, EndOfFile, Grace, Wait, Record, Wake,
       DogGrace, Close

\* When a call returns, an earlier call's answer is gone.
THEOREM OldAnswerGone == Spec => []NoOldAnswer
<1>1. Init => FreshInv
  BY DEF Init, FreshInv
<1>2. FreshInv => NoOldAnswer
  BY DEF FreshInv, NoOldAnswer
<1> QED BY <1>1, <1>2, FreshNext, PTL DEF Spec

-----------------------------------------------------------------------------
(* Nobody waits for ever.  The pipe of an agent that has ended is held by  *)
(* an orphan only; a watchdog that is over has seen the agent end.         *)

PipeInv ==
  /\ agent = "none" => open = {} /\ dog = "none"
  /\ agent = "down" => "agent" \notin open
  /\ dog = "over" => agent = "down"
  /\ reader \in {"loop", "grace", "wait"} => agent # "none" /\ dog # "none"

LEMMA PipeInvNext == TypeOK /\ EndInv /\ PipeInv /\ [Next]_vars => PipeInv'
<1> SUFFICES ASSUME TypeOK, EndInv, PipeInv, [Next]_vars PROVE PipeInv'
  OBVIOUS
<1> USE DEF PipeInv
<1>1. CASE UNCHANGED vars
  BY <1>1 DEF vars
<1>2. CASE (\E l \in Line : Emit(l)) \/ Quit \/ HangUp \/ Deadline
  BY <1>2 DEF Emit, Quit, HangUp, Deadline, Left
<1>3. CASE \/ Start \/ StartFails \/ Spawn \/ SpawnFails \/ SpawnUnwatched \/ ReadRaises
           \/ EndOfFile \/ Wait \/ Record
  BY <1>3 DEF Start, StartFails, Spawn, SpawnFails, SpawnUnwatched, ReadRaises, EndOfFile, Wait, Record, EndInv
<1>4. CASE ReadLine
  BY <1>4 DEF ReadLine, Terminate
<1>5. CASE Grace \/ DogGrace
  BY <1>5 DEF Grace, DogGrace, EndAgent, Left
<1>6. CASE Wake \/ Close
  BY <1>6 DEF Wake, Terminate, Close, EndInv
<1> QED BY <1>1, <1>2, <1>3, <1>4, <1>5, <1>6 DEF Next, Reader, Watchdog, Line

\* Whoever is waiting for whom, the call can go on, unless an orphan of the
\* agent holds the pipe.
THEOREM NoDeadlock == Spec => []OnlyOrphansBlock
<1>1. Init => EndInv /\ PipeInv
  BY DEF Init, EndInv, PipeInv
<1>2. TypeOK /\ EndInv /\ PipeInv => OnlyOrphansBlock
  BY DEF TypeOK, EndInv, PipeInv, OnlyOrphansBlock, Over, ReaderCan, WatchdogCan, TimeCan,
         Blocked, Drained
<1> QED BY <1>1, <1>2, InitType, NextType, EndNext, PipeInvNext, PTL DEF Spec

-----------------------------------------------------------------------------
(* Every step of a call uses up something that is not given back.          *)

ReaderLeft == CASE reader = "start" -> 6 [] reader = "spawn" -> 5 [] reader = "loop" -> 4
                [] reader = "grace" -> 3 [] reader = "wait" -> 3 [] reader = "record" -> 2
                [] OTHER -> 1
DogLeft == CASE dog = "none" -> 5 [] dog = "sleep" -> 4 [] dog = "grace" -> 3
             [] dog = "close" -> 2 [] OTHER -> 1
AgentLeft == CASE agent = "none" -> 4 [] agent = "up" -> 3 [] agent = "term" -> 2 [] OTHER -> 1
PipeLeft == IF agent = "none" \/ "agent" \in open THEN 3 ELSE IF open # {} THEN 2 ELSE 1
TimeLeft == IF late THEN 1 ELSE 2
LinesLeft == 2 * (MaxLines - lines) + Len(pipe)
Fuel == ReaderLeft + DogLeft + AgentLeft + PipeLeft + TimeLeft + LinesLeft

LEMMA FuelParts ==
  ASSUME TypeOK
  PROVE  /\ ReaderLeft \in 1 .. 6 /\ DogLeft \in 1 .. 5 /\ AgentLeft \in 1 .. 4
         /\ PipeLeft \in 1 .. 3 /\ TimeLeft \in 1 .. 2
         /\ LinesLeft \in Nat
<1>1. ReaderLeft \in 1 .. 6 /\ DogLeft \in 1 .. 5 /\ AgentLeft \in 1 .. 4
  BY DEF ReaderLeft, DogLeft, AgentLeft
<1>2. PipeLeft \in 1 .. 3 /\ TimeLeft \in 1 .. 2
  BY DEF PipeLeft, TimeLeft
<1>3. LinesLeft \in Nat
  <2>1. Len(pipe) \in Nat /\ MaxLines - lines \in Nat
    BY AgentCallAssumption DEF TypeOK
  <2> QED BY <2>1 DEF LinesLeft
<1> QED BY <1>1, <1>2, <1>3

\* One actor's step: the others and the pipe do not gain.
LEMMA FuelLines ==
  ASSUME TypeOK, UNCHANGED <<reader, dog, agent, open, late>> \/ ReadLine,
         (\E l \in Line : Emit(l)) \/ ReadLine
  PROVE  LinesLeft' \in Nat /\ LinesLeft' < LinesLeft
<1>1. pipe \in Seq(Line) /\ lines \in Nat /\ MaxLines \in Nat /\ lines <= MaxLines
  BY AgentCallAssumption DEF TypeOK, Line
<1>2. CASE \E l \in Line : Emit(l)
  <2>1. PICK l \in Line : pipe' = Append(pipe, l) /\ lines' = lines + 1 /\ lines < MaxLines
    BY <1>2 DEF Emit
  <2>2. Len(pipe') = Len(pipe) + 1 /\ Len(pipe) \in Nat
    BY <1>1, <2>1
  <2> QED BY <1>1, <2>1, <2>2 DEF LinesLeft
<1>3. CASE ReadLine
  <2>1. pipe # <<>> /\ pipe' = Tail(pipe) /\ lines' = lines
    BY <1>3 DEF ReadLine
  <2>2. Len(pipe') = Len(pipe) - 1 /\ Len(pipe) \in Nat /\ Len(pipe) > 0
    BY <1>1, <2>1
  <2> QED BY <1>1, <2>1, <2>2 DEF LinesLeft
<1> QED BY <1>2, <1>3

LEMMA FuelNext == TypeOK /\ EndInv /\ PipeInv /\ Next => Fuel' < Fuel
<1> SUFFICES ASSUME TypeOK, EndInv, PipeInv, Next PROVE Fuel' < Fuel
  OBVIOUS
<1> USE FuelParts DEF Fuel
<1>1. CASE \E l \in Line : Emit(l)
  <2>1. UNCHANGED <<reader, dog, agent, open, late>>
    BY <1>1 DEF Emit
  <2>2. UNCHANGED <<ReaderLeft, DogLeft, AgentLeft, PipeLeft, TimeLeft>>
    BY <2>1 DEF ReaderLeft, DogLeft, AgentLeft, PipeLeft, TimeLeft
  <2> QED BY <1>1, <2>1, <2>2, FuelLines
<1>2. CASE ReadLine
  <2>1. UNCHANGED <<dog, open, late>> /\ reader = "loop" /\ reader' \in {"loop", "grace"}
    BY <1>2 DEF ReadLine
  <2>2. UNCHANGED agent \/ (agent = "up" /\ agent' = "term")
    BY <1>2 DEF ReadLine, Terminate
  <2>3. /\ UNCHANGED <<DogLeft, PipeLeft, TimeLeft>>
        /\ ReaderLeft' \in {3, 4} /\ ReaderLeft = 4
        /\ UNCHANGED AgentLeft \/ (AgentLeft = 3 /\ AgentLeft' = 2)
    BY <2>1, <2>2 DEF ReaderLeft, DogLeft, AgentLeft, PipeLeft, TimeLeft
  <2> QED BY <1>2, <2>3, FuelLines
<1>3. ASSUME UNCHANGED <<pipe, lines>> PROVE LinesLeft' = LinesLeft
  BY <1>3 DEF LinesLeft
<1>4. CASE Quit \/ HangUp \/ Deadline
  <2>1. UNCHANGED <<reader, dog, pipe, lines>>
    BY <1>4 DEF Quit, HangUp, Deadline
  <2>2. UNCHANGED <<ReaderLeft, DogLeft, LinesLeft>>
    BY <1>3, <2>1 DEF ReaderLeft, DogLeft
  <2>3. CASE Quit
    <3>1. AgentLeft' < AgentLeft /\ AgentLeft' \in Nat /\ PipeLeft' \in Nat /\ PipeLeft' <= PipeLeft
          /\ TimeLeft' = TimeLeft
      BY <2>3 DEF Quit, Left, AgentLeft, PipeLeft, TimeLeft
    <3> QED BY <2>2, <3>1
  <2>4. CASE HangUp
    <3>1. /\ AgentLeft' = AgentLeft /\ TimeLeft' = TimeLeft
          /\ PipeLeft' \in Nat /\ PipeLeft' < PipeLeft
      BY <2>4 DEF HangUp, PipeInv, AgentLeft, PipeLeft, TimeLeft
    <3> QED BY <2>2, <3>1
  <2>5. CASE Deadline
    <3>1. AgentLeft' = AgentLeft /\ TimeLeft' = 1 /\ TimeLeft = 2 /\ PipeLeft' = PipeLeft
      BY <2>5 DEF Deadline, AgentLeft, PipeLeft, TimeLeft
    <3> QED BY <2>2, <3>1
  <2> QED BY <1>4, <2>3, <2>4, <2>5
<1>5. CASE Start \/ StartFails \/ SpawnFails \/ ReadRaises \/ EndOfFile \/ Wait \/ Record
  <2>1. /\ UNCHANGED <<dog, agent, open, late, pipe, lines>>
        /\ ReaderLeft' \in Nat /\ ReaderLeft' < ReaderLeft
    BY <1>5 DEF Start, StartFails, SpawnFails, ReadRaises, EndOfFile, Wait, Record, ReaderLeft
  <2>2. UNCHANGED <<DogLeft, AgentLeft, PipeLeft, TimeLeft, LinesLeft>>
    BY <1>3, <2>1 DEF DogLeft, AgentLeft, PipeLeft, TimeLeft
  <2> QED BY <2>1, <2>2
<1>6. CASE Spawn
  <2>1. /\ reader = "spawn" /\ reader' = "loop" /\ dog = "none" /\ dog' = "sleep"
        /\ agent = "none" /\ agent' = "up" /\ open' = {"agent"}
        /\ UNCHANGED <<late, pipe, lines>>
    BY <1>6 DEF Spawn, EndInv
  <2>2. /\ ReaderLeft = 5 /\ ReaderLeft' = 4 /\ DogLeft = 5 /\ DogLeft' = 4
        /\ AgentLeft = 4 /\ AgentLeft' = 3 /\ PipeLeft = 3 /\ PipeLeft' = 3
        /\ TimeLeft' = TimeLeft
    BY <2>1 DEF ReaderLeft, DogLeft, AgentLeft, PipeLeft, TimeLeft
  <2> QED BY <1>3, <2>1, <2>2
<1>9. CASE SpawnUnwatched
  <2>1. /\ reader = "spawn" /\ reader' = "record" /\ agent = "none" /\ agent' = "up"
        /\ open' = {"agent"} /\ UNCHANGED <<dog, late, pipe, lines>>
    BY <1>9 DEF SpawnUnwatched, EndInv
  <2>2. /\ ReaderLeft = 5 /\ ReaderLeft' = 2 /\ DogLeft' = DogLeft
        /\ AgentLeft = 4 /\ AgentLeft' = 3 /\ PipeLeft = 3 /\ PipeLeft' = 3
        /\ TimeLeft' = TimeLeft
    BY <2>1 DEF ReaderLeft, DogLeft, AgentLeft, PipeLeft, TimeLeft
  <2> QED BY <1>3, <2>1, <2>2
<1>7. CASE Grace \/ DogGrace
  <2>1. /\ UNCHANGED <<late, pipe, lines>> /\ agent # "none"
        /\ \/ reader = "grace" /\ reader' = "record" /\ dog' = dog
           \/ dog = "grace" /\ dog' = "close" /\ reader' = reader
    BY <1>7 DEF Grace, DogGrace, EndInv, PipeInv, TypeOK
  <2>2. EndAgent
    BY <1>7 DEF Grace, DogGrace
  <2>3. /\ AgentLeft' \in Nat /\ AgentLeft' <= AgentLeft
        /\ PipeLeft' \in Nat /\ PipeLeft' <= PipeLeft
    BY <2>1, <2>2 DEF EndAgent, Left, AgentLeft, PipeLeft
  <2>4. /\ TimeLeft' = TimeLeft
        /\ \/ ReaderLeft = 3 /\ ReaderLeft' = 2 /\ DogLeft' = DogLeft
           \/ DogLeft = 3 /\ DogLeft' = 2 /\ ReaderLeft' = ReaderLeft
    BY <2>1 DEF ReaderLeft, DogLeft, TimeLeft
  <2> QED BY <1>3, <2>1, <2>3, <2>4
<1>8. CASE Wake \/ Close
  <2>1. UNCHANGED <<reader, open, late, pipe, lines>>
    BY <1>8 DEF Wake, Close
  <2>2. /\ DogLeft' \in Nat /\ DogLeft' < DogLeft
        /\ UNCHANGED agent \/ (agent = "up" /\ agent' = "term")
    BY <1>8 DEF Wake, Close, Terminate, DogLeft
  <2>3. /\ UNCHANGED <<ReaderLeft, PipeLeft, TimeLeft>>
        /\ UNCHANGED AgentLeft \/ (AgentLeft = 3 /\ AgentLeft' = 2)
    BY <2>1, <2>2 DEF ReaderLeft, PipeLeft, TimeLeft, AgentLeft
  <2> QED BY <1>3, <2>1, <2>2, <2>3
<1> QED BY <1>1, <1>2, <1>4, <1>5, <1>6, <1>7, <1>8, <1>9 DEF Next, Reader, Watchdog, Line

FuelBounded == Fuel \in 0 .. 2 * MaxLines + 20

\* A call makes at most 2 * MaxLines + 20 steps, whatever its agent prints and
\* however it ends: with NoDeadlock and the fairness of Spec, why it returns.
THEOREM CallRunsDown == Spec => []FuelBounded /\ [][Fuel' < Fuel]_vars
<1> DEFINE Natural == Fuel \in Nat
<1>1. Init => EndInv /\ PipeInv /\ FuelBounded
  <2> SUFFICES ASSUME Init PROVE EndInv /\ PipeInv /\ FuelBounded
    OBVIOUS
  <2>1. EndInv /\ PipeInv
    BY DEF Init, EndInv, PipeInv
  <2>2. LinesLeft = 2 * MaxLines
    BY AgentCallAssumption DEF Init, LinesLeft
  <2>3. /\ ReaderLeft = 6 /\ DogLeft = 5 /\ AgentLeft = 4 /\ PipeLeft = 3 /\ TimeLeft = 2
    BY DEF Init, ReaderLeft, DogLeft, AgentLeft, PipeLeft, TimeLeft
  <2> QED BY <2>1, <2>2, <2>3, AgentCallAssumption DEF Fuel, FuelBounded
<1>2. TypeOK => Natural
  BY FuelParts DEF Fuel
<1>3. TypeOK' => Natural'
  BY <1>2, PTL
<1>4. TypeOK /\ EndInv /\ PipeInv /\ [Next]_vars => [Fuel' < Fuel]_vars
  BY FuelNext
<1>5. FuelBounded /\ TypeOK' /\ [Fuel' < Fuel]_vars => FuelBounded'
  <2>1. UNCHANGED vars => Fuel' = Fuel
    BY DEF vars, Fuel, ReaderLeft, DogLeft, AgentLeft, PipeLeft, TimeLeft, LinesLeft
  <2> QED BY <1>3, <2>1, AgentCallAssumption DEF FuelBounded
<1> QED BY <1>1, <1>4, <1>5, InitType, NextType, EndNext, PipeInvNext, PTL DEF Spec
=============================================================================
