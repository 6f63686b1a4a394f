---------------------------- MODULE SearchTable -----------------------------
(***************************************************************************)
(* The transposition table as one search uses it: what a store leaves      *)
(* behind for a position, how a score travels between the distance from    *)
(* the root and the distance from the node, and when an entry ends a node. *)
(*                                                                         *)
(* The buckets, the words of a slot and the other threads are the subject  *)
(* of TranspositionTable; here they show as entries a probe may find that  *)
(* this search never stored.  An entry is [move, score, depth, flag].      *)
(***************************************************************************)
EXTENDS Scores

NoEntry == [move |-> NoMove, score |-> 0, depth |-> -1, flag |-> "NONE"]

(* A lower bound is no more than the quickest mate, an upper bound no less *)
(* than the quickest loss.                                                 *)
Bounded(e) ==
  /\ DOMAIN e = {"move", "score", "depth", "flag"} /\ e.score \in Int
  /\ e.flag \in {"LOWER", "EXACT"} => e.score <= MaxMate
  /\ e.flag \in {"UPPER", "EXACT"} => e.score >= -MaxMate

(* score_to_tt(): a mate score counts from the node.                       *)
ScoreToTable(score, ply) ==
  IF score >= MateThreshold THEN score + ply
  ELSE IF score <= -MateThreshold THEN score - ply
  ELSE score

(* score_from_tt(): and from the root again.                               *)
ScoreAsStored(score, ply) == score

ScoreFromTable(score, ply) ==
  IF score >= MateThreshold THEN score - ply
  ELSE IF score <= -MateThreshold THEN score + ply
  ELSE score

(* The node's value is the score of the entry at once.                     *)
Decides(entry, alpha, beta) ==
  \/ entry.flag = "EXACT"
  \/ entry.flag = "LOWER" /\ entry.score >= beta
  \/ entry.flag = "UPPER" /\ entry.score <= alpha

BoundOf(score, alpha_orig, beta) ==
  IF score >= beta THEN "LOWER" ELSE IF score > alpha_orig THEN "EXACT" ELSE "UPPER"

(* store() onto the entry `old` of the same position (or NoEntry): a store *)
(* without a move keeps the old one, and a shallow bound leaves a much     *)
(* deeper entry in place, but for a move it lacks.                         *)
Stored(old, new) ==
  LET move == IF new.move = NoMove THEN old.move ELSE new.move
  IN  IF old.flag # "NONE" /\ new.flag # "EXACT" /\ new.depth + 4 < old.depth
      THEN [old EXCEPT !.move = IF @ = NoMove THEN move ELSE @]
      ELSE [new EXCEPT !.move = move]
=============================================================================
