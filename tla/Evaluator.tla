------------------------------ MODULE Evaluator ------------------------------
(***************************************************************************)
(* The first layer of the NNUE evaluation (src/src/nnue/nnue.cpp): for each*)
(* perspective the sum of the weight columns of the pieces on the board,   *)
(* in the columns of the bucket of that side's king.  It is updated with   *)
(* each move and rolled back with it; some moves recompute it.  A column   *)
(* of weights is its index, a sum counts the columns in it: 16-bit sums of *)
(* columns wrap, so only the counts matter.                                *)
(***************************************************************************)
EXTENDS ChessBoard

FEATURE_SIZE == 768
COLOR_STRIDE == 64 * 6
PIECE_STRIDE == 64
INPUT_BUCKETS == <<0, 0, 1, 1, 2, 2, 3, 3, 4, 4, 4, 4, 5, 5, 5, 5>>

convert_square(s) == 8 * RankOf(s) + 7 - FileOf(s)           \* ^ 7
Mirrored(n) == 8 * (7 - RankOf(n)) + FileOf(n)               \* ^ 0b111000
ForSide(n, c) == IF c = WHITE THEN n ELSE Mirrored(n)

choose_input_bucket(n, side) == LET i == ForSide(n, side) + 1 IN IF i > 16 THEN 6 ELSE INPUT_BUCKETS[i]

get_feature_index(n, side, piece, perspective) ==
  (IF side = perspective THEN 0 ELSE COLOR_STRIDE) + (piece - 1) * PIECE_STRIDE + ForSide(n, perspective)

Column(man, perspective, bucket) ==
  get_feature_index(convert_square(man.square), man.side, man.piece, perspective) + bucket * FEATURE_SIZE

\* how often a column is in a sum: a column in it zero times is not in its domain
Plus(sum, column, n) ==
  LET old == IF column \in DOMAIN sum THEN sum[column] ELSE 0
  IN  [k \in (DOMAIN sum \cup {column}) \ (IF old + n = 0 THEN {column} ELSE {}) |->
         IF k = column THEN old + n ELSE sum[k]]

\* both accumulators with a piece added (n = 1) or taken away (n = -1)
acc_both(acc, man, n) ==
  [c \in Colors |-> [acc[c] EXCEPT !.sum = Plus(@, Column(man, c, acc[c].bucket), n)]]

full_refresh(b) ==
  [c \in Colors |->
     LET bucket == choose_input_bucket(convert_square(Least(b.pieces[c][KING])), c)
         men == UNION {{[side |-> us, piece |-> p, square |-> s] : s \in b.pieces[us][p]} :
                         us \in Colors, p \in PieceTypes}
     IN [bucket |-> bucket, sum |-> [k \in {Column(man, c, bucket) : man \in men} |-> 1]]]

apply_diff(acc, m, side, forward) ==
  LET n == IF forward THEN 1 ELSE -1
      leaves == [side |-> side, piece |-> m.source, square |-> m.from]
      arrives == [side |-> side, piece |-> IF is_promotion(m) THEN m.type ELSE m.source, square |-> m.to]
      taken == [side |-> 1 - side, piece |-> m.attacked, square |-> m.to]
      moved == acc_both(acc_both(acc, leaves, -n), arrives, n)
  IN  IF m.attacked = EMPTY THEN moved ELSE acc_both(moved, taken, -n)

\* the evaluator: both accumulators and a frame for each move on the way down
reset(b) == [acc |-> full_refresh(b), stack |-> <<>>]

BucketChanges(m, side) ==
  m.source = KING /\ choose_input_bucket(convert_square(m.from), side)
                       # choose_input_bucket(convert_square(m.to), side)

\* wrong: a king keeps its bucket
RefreshesIfSpecial(m, side) == is_castling(m) \/ is_ep(m)

Refreshes(m, side) == is_castling(m) \/ is_ep(m) \/ BucketChanges(m, side)

\* b is the board after the move
after_make(eval, b, m, side) ==
  LET refresh == Refreshes(m, side)
      frame == [move |-> m, side_moved |-> side, refresh |-> refresh,
                snap |-> IF refresh THEN eval.acc ELSE <<>>]
  IN  [acc |-> IF refresh THEN full_refresh(b) ELSE apply_diff(eval.acc, m, side, TRUE),
       stack |-> Append(eval.stack, frame)]

after_unmake(eval) ==
  LET top == Len(eval.stack)
      f == eval.stack[top]
  IN  IF top = 0 THEN eval
      ELSE [acc |-> IF f.refresh THEN f.snap ELSE apply_diff(eval.acc, f.move, f.side_moved, FALSE),
            stack |-> SubSeq(eval.stack, 1, top - 1)]
=============================================================================
