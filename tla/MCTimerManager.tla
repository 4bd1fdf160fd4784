--------------------------- MODULE MCTimerManager ----------------------------
(***************************************************************************)
(* Instance of TimerManager for TLC: one id of the constructor and one     *)
(* created later, a wheel of one bucket, time that wraps.                 *)
(***************************************************************************)
EXTENDS TimerManager, TLC

CONSTANTS t1, t2

MCTimers == {t1, t2}
MCPrereserved == {t1}
MCMaxCmds == (t1 :> 3) @@ (t2 :> 2)
=============================================================================
