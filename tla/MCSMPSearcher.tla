--------------------------- MODULE MCSMPSearcher ----------------------------
(***************************************************************************)
(* Small SMPSearchers for TLC.  The vote and what is shown and returned    *)
(* take two moves, two depths and scores of which one is a mate and two    *)
(* have a sum that does not divide evenly; the threads take three workers  *)
(* and no data.                                                            *)
(***************************************************************************)
EXTENDS SMPSearcher, TLC

MCScores == {-2, 1, 8}

MCSymmetry == Permutations(Moves)
=============================================================================
