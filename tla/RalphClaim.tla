----------------------------- MODULE RalphClaim -----------------------------
(***************************************************************************)
(* hooks/ralph-session-stop.py: which session a ralph loop belongs to.     *)
(* The plugin keeps one state file per project, created without a session  *)
(* id; its own Stop hook keeps the loop running in any session that finds  *)
(* no id, or its own, in the file.  The hook modelled here runs before it  *)
(* in every session and writes the starter's id, or a placeholder, into    *)
(* the file.  The plugin (its setup, its Stop hook, /cancel-ralph) is      *)
(* external and modelled from what the hook says of it.                    *)
(***************************************************************************)
CONSTANT Session

ASSUME RalphClaimAssumption ==
  /\ Session \cap {"absent", "empty", "pending", "none"} = {}

VARIABLES file,     \* session_id in the state file; "absent" without a file
          marked,   \* sessions whose live.json names the ralph skill
          pc,       \* what each session is doing
          val,      \* what its hook is about to write
          \* History: read by properties only.
          starter,  \* who started the loop the file was created for
          tainted,  \* another session was marked, or writing, before the loop
                    \* had its owner
          raced     \* sessions that were stopping when the file was created, or
                    \* could not write

vars == <<file, marked, pc, val, starter, tainted, raced>>

Init ==
  /\ file = "absent" /\ marked = {}
  /\ pc = [s \in Session |-> "work"] /\ val = [s \in Session |-> "none"]
  /\ starter = "none" /\ tainted = FALSE /\ raced = {}

Go(s, to) == pc' = [pc EXCEPT ![s] = to]

\* The loop has its owner, or there is none, and nobody is about to write.
Settled == file \in {starter, "absent"} /\ \A t \in Session : pc[t] # "write"

\* PreToolUse of Skill(ralph-loop): skill-gate.py marks the session.
Mark(s) ==
  /\ pc[s] = "work"
  /\ Go(s, "skill")
  /\ marked' = marked \cup {s}
  /\ tainted' = (tainted \/ (s # starter /\ ~Settled))
  /\ UNCHANGED <<file, val, starter, raced>>

\* The call: the plugin makes the file, over another loop's if there is one.
StartLoop(s) ==
  /\ pc[s] = "skill"
  /\ Go(s, "work")
  /\ file' = "empty"
  /\ starter' = s
  /\ tainted' = \E t \in Session \ {s} : t \in marked \/ pc[t] = "write"
  /\ raced' = {t \in Session : pc[t] \in {"write", "official"}}
  /\ UNCHANGED <<marked, val>>

\* The call is refused, or fails: the mark stays.
NoLoop(s) ==
  /\ pc[s] = "skill"
  /\ Go(s, "work")
  /\ UNCHANGED <<file, marked, val, starter, tainted, raced>>

\* Another skill takes the mark's place in live.json, or a Stop under a
\* kill removes it.  Neither PostToolUse(Skill) nor any other Stop does.
Unmark(s) ==
  /\ marked' = marked \ {s}
  /\ UNCHANGED <<file, pc, val, starter, tainted, raced>>

\* /cancel-ralph: the file goes.
Cancel ==
  /\ file' = "absent"
  /\ UNCHANGED <<marked, pc, val, starter, tainted, raced>>

\* Mutants: without placeholders, and with a claim for whoever comes second.
ClaimNoPlaceholder(s) ==
  IF file \in {"empty", "pending"} /\ s \in marked THEN s ELSE "none"
ClaimPending(s) ==
  CASE file = "empty" -> IF s \in marked THEN s ELSE "pending"
    [] file = "pending" -> s
    [] OTHER -> "none"
\* Mutant: a placeholder is taken for somebody's id.
ClaimKeepsPending(s) ==
  CASE file = "empty" -> IF s \in marked THEN s ELSE "pending"
    [] OTHER -> "none"

\* Cases A, B and C of main: what to write into the file, if anything.
Claim(s) ==
  CASE file = "empty" -> IF s \in marked THEN s ELSE "pending"
    [] file = "pending" /\ s \in marked -> s
    [] OTHER -> "none"

\* The session stops: the hook reads the file and live.json.
Look(s) ==
  /\ pc[s] = "work"
  /\ val' = [val EXCEPT ![s] = Claim(s)]
  /\ Go(s, IF Claim(s) = "none" THEN "official" ELSE "write")
  /\ raced' = raced \ {s}
  /\ UNCHANGED <<file, marked, starter, tainted>>

\* The whole file is written back as it was read, with the new id.
Write(s) ==
  /\ pc[s] = "write"
  /\ file' = val[s]
  /\ val' = [val EXCEPT ![s] = "none"]
  /\ Go(s, "official")
  /\ UNCHANGED <<marked, starter, tainted, raced>>

\* An OSError, of the write or of the reads before it, is swallowed.
WriteFails(s) ==
  /\ pc[s] = "write"
  /\ val' = [val EXCEPT ![s] = "none"]
  /\ Go(s, "official")
  /\ raced' = raced \cup {s}
  /\ UNCHANGED <<file, marked, starter, tainted>>

\* The plugin's Stop hook keeps the session, as long as the loop goes on.
Keep(s) ==
  /\ pc[s] = "official" /\ file \in {"empty", s}
  /\ Go(s, "kept")
  /\ file' \in {file, "absent"}
  /\ UNCHANGED <<marked, val, starter, tainted, raced>>

LetGo(s) ==
  /\ pc[s] = "official" /\ file \notin {"empty", s}
  /\ Go(s, "idle")
  /\ UNCHANGED <<file, marked, val, starter, tainted, raced>>

\* The next prompt: the user's, or the loop's.
Resume(s) ==
  /\ pc[s] \in {"idle", "kept"}
  /\ Go(s, "work")
  /\ UNCHANGED <<file, marked, val, starter, tainted, raced>>

Next ==
  \/ Cancel
  \/ \E s \in Session : \/ Mark(s) \/ StartLoop(s) \/ NoLoop(s) \/ Unmark(s)
                        \/ Look(s) \/ Write(s) \/ WriteFails(s)
                        \/ Keep(s) \/ LetGo(s) \/ Resume(s)

\* A Stop runs its hooks to the end.
Fairness == \A s \in Session : WF_vars(Write(s) \/ WriteFails(s)) /\ WF_vars(Keep(s) \/ LetGo(s))

Spec == Init /\ [][Next]_vars /\ Fairness

-----------------------------------------------------------------------------
\* Every variable keeps its shape.
TypeOK ==
  /\ file \in Session \cup {"absent", "empty", "pending"}
  /\ marked \subseteq Session
  /\ pc \in [Session -> {"work", "skill", "write", "official", "kept", "idle"}]
  /\ val \in [Session -> Session \cup {"pending", "none"}]
  /\ \A s \in Session : pc[s] = "write" <=> val[s] # "none"
  /\ starter \in Session \cup {"none"}
  /\ tainted \in BOOLEAN
  /\ raced \subseteq Session

\* The file names nobody but the session that started the loop
\* (ralph-session-stop.py:14, "the first Stop of a wrong session takes the loop
\* over"), unless before the loop had its owner another session was marked too:
\* by an earlier loop, or by a ralph-loop call of its own, even one that made no
\* file.
OwnerIsStarter == file \in Session => file = starter \/ tainted

\* Only the starter is kept working for the loop.  Exceptions: another session
\* marked too early, as above, one whose Stop was under way when the file was
\* made, and one that could not write its placeholder.
OnlyStarterIsKept ==
  [][\A s \in Session :
       pc[s] = "official" /\ pc'[s] = "kept" => s = starter \/ tainted \/ s \in raced]_vars

\* The starter gets its loop, if it keeps stopping and can write, although other
\* sessions have put a placeholder or write one late.
StarterClaims ==
  \A s \in Session :
    []<><<Look(s)>>_vars /\ <>[][~WriteFails(s)]_vars =>
      (file \in {"empty", "pending"} /\ starter = s
         ~> file \notin {"empty", "pending"} \/ starter # s \/ s \notin marked)
=============================================================================
