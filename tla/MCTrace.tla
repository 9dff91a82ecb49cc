------------------------------ MODULE MCTrace ------------------------------
(* A small instance of Trace for TLC: one address that two devices share,  *)
(* a second address of one of them, two sessions and two users on a        *)
(* device, and horizons of one second before a window of two.              *)
EXTENDS TraceAndLive, TLC

CONSTANTS ip1, ip2, m1, m2, s1, s2, u1, u2, n1, n2

MCLeases == {<<ip1, m1>>, <<ip1, m2>>, <<ip2, m1>>}
MCLogins == {<<m1, s1, u1>>, <<m1, s1, u2>>, <<m1, s2, u2>>}
=============================================================================
