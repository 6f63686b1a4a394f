------------------------ MODULE MCTranspositionTable ------------------------
(***************************************************************************)
(* Small buckets for TLC: one more position than there are slots, depths   *)
(* on both sides of the distance of 4 that store() asks about.             *)
(***************************************************************************)
EXTENDS TranspositionTable, TLC

MCSymmetry == Permutations(Keys)
=============================================================================
