--------------------------- MODULE MCBatchWriter ---------------------------
(* Small instances of BatchWriter for TLC. *)
EXTENDS BatchWriter, TLC

MCSymmetry == Permutations(Workers)
=============================================================================
