------------------------------ MODULE MCIngest ------------------------------
(* Small instances of Ingest for TLC. *)
EXTENDS Ingest, TLC

CONSTANTS r1, r2, k1, k2

(* Two partitions that repeat a 7-tuple across them, and another 7-tuple. *)
MCMixedLog == (r1 :> <<k1, k2>>) @@ (r2 :> <<k1>>)

(* More flows of one 7-tuple than there are workers, and a payload that is *)
(* not a flow.                                                             *)
MCRepeatLog == (r1 :> <<k1, k1>>) @@ (r2 :> <<Garbage, k1>>)

MCSymmetry == Permutations(Workers)
=============================================================================
