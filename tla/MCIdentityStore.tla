-------------------------- MODULE MCIdentityStore --------------------------
(* Small instances of IdentityStore for TLC: two devices take turns on one *)
(* address, two sessions on one device.                                    *)
EXTENDS IdentityStore, TLC

CONSTANTS ip1, m1, m2, s1, s2, u1, u2

MCLeases == {ip1} \X {m1, m2}
MCLogins == {<<m1, s1, u1>>, <<m1, s2, u2>>}
=============================================================================
