---------------------------- MODULE MCTimerPool ----------------------------
(* Instances of TimerPool for TLC.                                         *)
EXTENDS TimerPool, TLC

CONSTANTS a1, a2, main, other

\* The second nanoapp lives in the second loop when there are two.
MCLoopOf == [o \in Owners |-> IF o = a2 /\ other \in Loops THEN other ELSE main]
=============================================================================
