--------------------------- MODULE MCStateManager ---------------------------
(***************************************************************************)
(* A small StateManager for TLC: two positions, one of them in the         *)
(* tablebases, up to three threads on a machine that allows three.         *)
(***************************************************************************)
EXTENDS StateManager

CONSTANTS start, endgame

MCPositions == {start, endgame}
MCTablebaseHits == {endgame}
MCThreadValues == {0, 2, 4}
MCOneThread == {0, 1}
MCTTSizes == {1, 2}
=============================================================================
