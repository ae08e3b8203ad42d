----------------------------- MODULE MCHandshakes -----------------------------
(* Model values for checking Handshakes with TLC.                              *)
EXTENDS Handshakes

CONSTANTS c1, c2, c3, t1, t2

MCCirc == {c1, c2, c3}
MCNtor == {c1, c2}
MCThread == {t1, t2}
MCTaskLimits == <<1, 2>>
===============================================================================
