------------------------------- MODULE Scores -------------------------------
(***************************************************************************)
(* The search-wide score scale (src/src/search/types.h).                   *)
(*                                                                         *)
(* A score is an integer.  Mate scores are within MaxPly of +-MaxMate;     *)
(* ScoreMin and ScoreMax are one step outside every reachable score and    *)
(* stand for "no bound known yet".  Move 0 is no move.                     *)
(***************************************************************************)
EXTENDS Integers

CONSTANTS
  MaxMate,   \* MAX_MATE, 30000 in the program
  MaxPly,    \* MAX_PLY, 128 in the program
  NoMove     \* the move 0

(* The mate band is wider than the two scores nearest to MaxMate and the   *)
(* two mate bands are further apart than they are wide.                    *)
ASSUME ScoreAssumption ==
  /\ MaxMate \in Nat
  /\ MaxPly \in Nat
  /\ MaxPly > 2
  /\ MaxMate > 2 * MaxPly

MateThreshold == MaxMate - MaxPly
ScoreMin == -MaxMate - 1
ScoreMax == MaxMate + 1

IsMateScore(score) == score > MateThreshold \/ score < -MateThreshold

MateIn(ply)  == MaxMate - ply
MatedIn(ply) == -MaxMate + ply

(* What search() can return at the root (ply 1): from "checkmated now" to  *)
(* "mate with the next move".                                              *)
RootScores == MatedIn(1) .. MateIn(2)
=============================================================================
