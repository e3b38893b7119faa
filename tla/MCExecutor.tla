----------------------------- MODULE MCExecutor -----------------------------
(* Two sessions on one issue; the first session starts two executors.      *)
EXTENDS Executor, TLC

CONSTANTS e1, e2, e3, s1, s2

MCExec == {e1, e2, e3}
MCSession == {s1, s2}
MCSessionOf == [e \in MCExec |-> IF e = e3 THEN s2 ELSE s1]

\* The two executors of the first session are interchangeable.
MCSymmetry == Permutations({e1, e2})

\* One executor in each session.
PairExec == {e1, e3}
PairSessionOf == [e \in PairExec |-> IF e = e3 THEN s2 ELSE s1]

\* Two executors of one session.
TwinExec == {e1, e2}
TwinSessionOf == [e \in TwinExec |-> s1]
=============================================================================
