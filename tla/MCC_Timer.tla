------------------------------ MODULE MCC_Timer ------------------------------
(* C_Timer on small instances. *)
EXTENDS C_Timer

CONSTANTS t1, t2, th1, th2

TwoTimers == {t1, t2}
TwoThreads == {th1, th2}
=============================================================================
