---------------------------- MODULE MCEnrichment ----------------------------
(* A small instance of Enrichment for TLC: two workers and two releases.   *)
EXTENDS Enrichment, TLC

CONSTANTS w1, w2, r1, r2
=============================================================================
