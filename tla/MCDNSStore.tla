----------------------------- MODULE MCDNSStore -----------------------------
(* Small instances of DNSStore for TLC. *)
EXTENDS DNSStore, TLC

MCKeys == Permutations(Keys)
=============================================================================
