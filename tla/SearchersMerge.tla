--------------------------- MODULE SearchersMerge ---------------------------
(***************************************************************************)
(* search::smp::SearchersMerge (src/src/search/smp/searchers_merge.h): the *)
(* vote that turns the results of N workers into one.                      *)
(*                                                                         *)
(* The object is a value [cur, by_depth]: the consensus depth and, per     *)
(* worker and depth, the last result that counts, [move, score] or         *)
(* NoResult.  Node counts are left out; the mutex makes each method one    *)
(* step of its caller.                                                     *)
(***************************************************************************)
EXTENDS Scores, FiniteSets

CONSTANTS
  N,          \* num_workers_
  MaxDepth,   \* depth limit of the search
  Moves       \* moves of the root position

ASSUME MergeAssumption ==
  /\ N \in Nat \ {0}
  /\ MaxDepth \in Nat \ {0}
  /\ NoMove \notin Moves

Workers == 1 .. N
Depths == 1 .. MaxDepth

NoResult == [move |-> NoMove, score |-> ScoreMin]
HasResult(r) == r.move # NoMove

Reset == [cur |-> 1, by_depth |-> [w \in Workers |-> [d \in Depths |-> NoResult]]]

(* Fail-low results, and those without a move, do not count.               *)
Update(m, w, r) ==
  IF r.upper \/ r.move = NoMove THEN m
  ELSE [m EXCEPT !.by_depth[w][r.depth] = [move |-> r.move, score |-> r.score]]

-----------------------------------------------------------------------------
(* MoveAgg *)

EmptyAgg == [sum |-> 0, cnt |-> 0, is_mate |-> FALSE, mate_val |-> ScoreMin]

(* Mate scores are averaged like the others.                               *)
AddAveraged(agg, e) ==
  [agg EXCEPT !.sum = @ + e, !.cnt = @ + 1]

(* A mate score makes the move a mate for good; before the first one the   *)
(* scores are summed.                                                      *)
Add(agg, e) ==
  [sum      |-> IF agg.is_mate \/ IsMateScore(e) THEN agg.sum ELSE agg.sum + e,
   cnt      |-> agg.cnt + 1,
   is_mate  |-> agg.is_mate \/ IsMateScore(e),
   mate_val |-> IF IsMateScore(e) /\ (~agg.is_mate \/ e > agg.mate_val)
                THEN e ELSE agg.mate_val]

(* Integer division of the language, towards zero.                         *)
Quotient(a, b) == IF a >= 0 THEN a \div b ELSE -((-a) \div b)

AggEval(agg) == IF agg.is_mate THEN agg.mate_val ELSE Quotient(agg.sum, agg.cnt)

-----------------------------------------------------------------------------
(* Depth d has been reported by the fraction 1 / N of the workers.         *)
HasDepth(m, d) == d \in Depths /\ \E w \in Workers : HasResult(m.by_depth[w][d])

Advance(m) == IF HasDepth(m, m.cur + 1) THEN [m EXCEPT !.cur = @ + 1] ELSE m

Voters(m, move) == {w \in Workers : m.by_depth[w][m.cur].move = move}
Candidates(m) == {move \in Moves : Voters(m, move) # {}}

(* The votes for a move, taken in the order of the workers.                *)
Aggregate(m, move) ==
  LET agg[w \in 0 .. N] ==
        IF w = 0 THEN EmptyAgg
        ELSE IF w \in Voters(m, move)
             THEN Add(agg[w - 1], m.by_depth[w][m.cur].score)
             ELSE agg[w - 1]
  IN  agg[N]

Eval(m, move) == AggEval(Aggregate(m, move))

(* The moves accumulate() may elect; the order of the hash table decides   *)
(* between equals.                                                         *)
Winners(m) ==
  {move \in Candidates(m) :
     \A other \in Candidates(m) : Eval(m, move) >= Eval(m, other)}

Elected(m, move) ==
  [depth |-> m.cur, score |-> Eval(m, move), move |-> move,
   lower |-> FALSE, upper |-> FALSE]
=============================================================================
