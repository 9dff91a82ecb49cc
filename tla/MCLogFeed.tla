----------------------------- MODULE MCLogFeed ------------------------------
(* Small instances of LogFeed for TLC: a file of leases, with a line in    *)
(* two pieces and one that is ignored, and a file of sessions.             *)
EXTENDS LogFeed, TLC

MCLengths == <<<<1, 2, 1>>, <<1>>>>
MCRotations == <<1, 0>>
MCKindOf == <<"dhcp", "radius">>
MCIgnored == {<<1, 1>>}
MCRefused == {<<1, 2>>}
=============================================================================
