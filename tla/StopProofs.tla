------------------------------ MODULE StopProofs ------------------------------
(***************************************************************************)
(* Theorems about the two things that stop a session, or keep it from      *)
(* stopping: the kill signal (KillSwitch), for any number of runs and      *)
(* kills, and the claim of a ralph loop (RalphClaim), for any number of    *)
(* sessions: type correctness, whose id the state file may hold, and whom  *)
(* the plugin's Stop hook keeps working.                                   *)
(***************************************************************************)
EXTENDS KillSwitch, RalphClaim, TLAPS

-----------------------------------------------------------------------------
(* KillSwitch.                                                             *)

LEMMA KeptNext == KillNotLost /\ [KillNext]_killVars => KillNotLost'
<1> SUFFICES ASSUME KillNotLost, [KillNext]_killVars PROVE KillNotLost'
  OBVIOUS
<1> USE DEF KillNotLost
<1>1. CASE UNCHANGED killVars
  BY <1>1 DEF killVars
<1>2. CASE Kill
  BY <1>2 DEF Kill
<1>3. ASSUME NEW r \in Run, ConsumeSignal(r) PROVE KillNotLost'
  BY <1>3 DEF ConsumeSignal
<1>4. ASSUME NEW r \in Run,
             Begin(r) \/ StartAgent(r) \/ SeeSignal(r) \/ AgentEnds(r) \/ Crash(r)
      PROVE  KillNotLost'
  BY <1>4 DEF Begin, StartAgent, SeeSignal, AgentEnds, Crash
<1> QED BY <1>1, <1>2, <1>3, <1>4 DEF KillNext

\* A kill that some run was there to see stays in the file until a run stops.
THEOREM NoKillIsLost == KillSpec => []KillNotLost
<1>1. KillInit => KillNotLost
  BY DEF KillInit, KillNotLost
<1> QED BY <1>1, KeptNext, PTL DEF KillSpec

-----------------------------------------------------------------------------
(* RalphClaim.                                                             *)

LEMMA InitType == Init => TypeOK
BY RalphClaimAssumption DEF Init, TypeOK

\* What a hook may be about to write.
LEMMA ClaimType ==
  ASSUME TypeOK, NEW s \in Session
  PROVE  /\ Claim(s) \in {s, "pending", "none"}
         /\ Claim(s) = s => s \in marked
         /\ file = "empty" => Claim(s) # "none"
BY RalphClaimAssumption DEF Claim, TypeOK

\* A starter is not one of the words that stand in the file instead of an id.
LEMMA StarterName == TypeOK => starter \notin {"empty", "pending"}
BY RalphClaimAssumption DEF TypeOK

LEMMA NextType == TypeOK /\ [Next]_vars => TypeOK'
<1> SUFFICES ASSUME TypeOK, [Next]_vars PROVE TypeOK'
  OBVIOUS
<1> USE DEF Go, TypeOK
<1>1. CASE UNCHANGED vars
  BY <1>1 DEF vars
<1>2. CASE Cancel
  BY <1>2 DEF Cancel
<1>3. ASSUME NEW s \in Session, Mark(s) \/ StartLoop(s) \/ NoLoop(s) PROVE TypeOK'
  BY <1>3 DEF Mark, StartLoop, NoLoop
<1>4. ASSUME NEW s \in Session, Unmark(s) \/ Keep(s) \/ LetGo(s) \/ Resume(s) PROVE TypeOK'
  BY <1>4 DEF Unmark, Keep, LetGo, Resume
<1>5. ASSUME NEW s \in Session, Look(s) PROVE TypeOK'
  <2>1. Claim(s) \in Session \cup {"pending", "none"}
    BY ClaimType
  <2> QED BY <1>5, <2>1 DEF Look
<1>6. ASSUME NEW s \in Session, Write(s) \/ WriteFails(s) PROVE TypeOK'
  BY <1>6, RalphClaimAssumption DEF Write, WriteFails
<1> QED BY <1>1, <1>2, <1>3, <1>4, <1>5, <1>6 DEF Next

\* The state file holds a session, a placeholder or nothing, and a hook has
\* something to write exactly when it is about to write.
THEOREM TypeCorrect == Spec => []TypeOK
BY InitType, NextType, PTL DEF Spec

-----------------------------------------------------------------------------
(* As long as no other session is marked, or about to write, before the    *)
(* loop has its owner, only the starter's id is written; once the loop has *)
(* it, and nobody is writing, nobody begins to.                            *)

Alone ==
  /\ marked \subseteq {starter}
  /\ file \in Session => file = starter
  /\ \A s \in Session : val[s] \in Session => val[s] = starter

OwnerInv == ~tainted => Alone \/ Settled

LEMMA OwnerNext == TypeOK /\ OwnerInv /\ [Next]_vars => OwnerInv'
<1> SUFFICES ASSUME TypeOK, OwnerInv, [Next]_vars PROVE OwnerInv'
  OBVIOUS
<1> USE DEF Alone, Settled
<1>1. CASE UNCHANGED vars
  BY <1>1 DEF vars, OwnerInv
<1>2. CASE Cancel
  BY <1>2, RalphClaimAssumption DEF Cancel, OwnerInv
<1>3. ASSUME NEW s \in Session, StartLoop(s) PROVE OwnerInv'
  <2> SUFFICES ASSUME ~tainted' PROVE Alone'
    BY DEF OwnerInv
  <2>1. \A t \in Session \ {s} : t \notin marked /\ pc[t] # "write"
    BY <1>3 DEF StartLoop
  <2>2. \A t \in Session : val[t] = "none"
    BY <1>3, <2>1 DEF StartLoop, TypeOK
  <2>3. marked' \subseteq {starter'} /\ file' = "empty" /\ val' = val
    BY <1>3, <2>1 DEF StartLoop, TypeOK
  <2> QED BY <2>2, <2>3, RalphClaimAssumption
<1>4. ASSUME NEW s \in Session, Mark(s) PROVE OwnerInv'
  <2> SUFFICES ASSUME ~tainted' PROVE (Alone \/ Settled)'
    BY DEF OwnerInv
  <2>1. ~tainted /\ (s = starter \/ Settled)
    BY <1>4 DEF Mark
  <2>2. CASE Settled
    BY <1>4, <2>2 DEF Mark, Go, TypeOK
  <2>3. CASE s = starter /\ Alone
    BY <1>4, <2>3 DEF Mark
  <2> QED BY <2>1, <2>2, <2>3 DEF OwnerInv
<1>5. ASSUME NEW s \in Session, NoLoop(s) \/ Unmark(s) \/ Keep(s) \/ LetGo(s) \/ Resume(s)
      PROVE  OwnerInv'
  BY <1>5, RalphClaimAssumption DEF NoLoop, Unmark, Keep, LetGo, Resume, Go, OwnerInv, TypeOK
<1>6. ASSUME NEW s \in Session, Look(s) PROVE OwnerInv'
  <2> SUFFICES ASSUME ~tainted PROVE (Alone \/ Settled)'
    BY <1>6 DEF Look, OwnerInv
  <2>1. CASE Alone
    BY <1>6, <2>1, ClaimType, RalphClaimAssumption DEF Look, TypeOK
  <2>2. CASE Settled
    <3>1. Claim(s) = "none"
      BY <1>6, <2>2, StarterName DEF Claim
    <3> QED BY <1>6, <2>2, <3>1 DEF Look, Go, TypeOK
  <2> QED BY <2>1, <2>2 DEF OwnerInv
<1>7. ASSUME NEW s \in Session, Write(s) \/ WriteFails(s) PROVE OwnerInv'
  <2> SUFFICES ASSUME ~tainted PROVE Alone'
    BY <1>7 DEF Write, WriteFails, OwnerInv
  <2>1. Alone
    BY <1>7 DEF Write, WriteFails, OwnerInv
  <2> QED BY <1>7, <2>1, RalphClaimAssumption DEF Write, WriteFails, TypeOK
<1> QED BY <1>1, <1>2, <1>3, <1>4, <1>5, <1>6, <1>7 DEF Next

LEMMA OwnerInit == Init => OwnerInv
BY RalphClaimAssumption DEF Init, OwnerInv, Alone

\* The state file names nobody but the session that started the loop, unless
\* another session was marked, or about to write, before the loop had its owner.
THEOREM OnlyStarterOwns == Spec => []OwnerIsStarter
<1>1. OwnerInv => OwnerIsStarter
  BY RalphClaimAssumption DEF OwnerInv, OwnerIsStarter, Alone, Settled
<1> QED BY <1>1, InitType, NextType, OwnerInit, OwnerNext, PTL DEF Spec

-----------------------------------------------------------------------------
(* A Stop that began after the file was made, and can write, leaves its    *)
(* claim in it before the plugin's hook looks.                             *)

RaceInv == \A s \in Session : file = "empty" /\ pc[s] = "official" => s \in raced

LEMMA RaceNext == TypeOK /\ RaceInv /\ [Next]_vars => RaceInv'
<1> SUFFICES ASSUME TypeOK, RaceInv, [Next]_vars PROVE RaceInv'
  OBVIOUS
<1> USE DEF Go, RaceInv, TypeOK
<1>1. CASE UNCHANGED vars
  BY <1>1 DEF vars
<1>2. CASE Cancel
  BY <1>2 DEF Cancel
<1>3. ASSUME NEW s \in Session, Mark(s) \/ StartLoop(s) \/ NoLoop(s) PROVE RaceInv'
  BY <1>3 DEF Mark, StartLoop, NoLoop
<1>4. ASSUME NEW s \in Session, Unmark(s) \/ Keep(s) \/ LetGo(s) \/ Resume(s) PROVE RaceInv'
  BY <1>4 DEF Unmark, Keep, LetGo, Resume
<1>5. ASSUME NEW s \in Session, Look(s) PROVE RaceInv'
  BY <1>5, ClaimType DEF Look
<1>6. ASSUME NEW s \in Session, Write(s) \/ WriteFails(s) PROVE RaceInv'
  BY <1>6, RalphClaimAssumption DEF Write, WriteFails
<1> QED BY <1>1, <1>2, <1>3, <1>4, <1>5, <1>6 DEF Next

\* Nobody but the starter is kept working for the loop, but for a session marked
\* before the loop had its owner, a Stop that was under way when the file was
\* made, and one that could not write.
THEOREM OnlyStarterKept == Spec => OnlyStarterIsKept
<1>1. ASSUME TypeOK, OwnerInv, RaceInv, [Next]_vars
      PROVE  [\A s \in Session :
                pc[s] = "official" /\ pc'[s] = "kept" => s = starter \/ tainted \/ s \in raced]_vars
  <2> SUFFICES ASSUME NEW s \in Session, pc[s] = "official", pc'[s] = "kept"
               PROVE  s = starter \/ tainted \/ s \in raced
    OBVIOUS
  <2>1. Keep(s)
    BY <1>1 DEF Next, vars, Cancel, Mark, StartLoop, NoLoop, Unmark, Look, Write, WriteFails,
           Keep, LetGo, Resume, Go, TypeOK
  <2> QED BY <1>1, <2>1, RalphClaimAssumption DEF Keep, OwnerInv, Alone, Settled, RaceInv
<1>2. Init => RaceInv
  BY DEF Init, RaceInv
<1> QED BY <1>1, <1>2, InitType, NextType, OwnerInit, OwnerNext, RaceNext, PTL
        DEF Spec, OnlyStarterIsKept
=============================================================================
