--------------------------- MODULE StaticExchange ---------------------------
(***************************************************************************)
(* What a capture wins or loses once all exchanges on its square are made  *)
(* (src/src/board/see_util.cpp), and the reference it is checked against.  *)
(***************************************************************************)
EXTENDS ChessBoard, ChessRules

Value == <<100, 300, 300, 500, 900, 3000>>
MATERIAL_SEE(piece) == IF piece = EMPTY THEN 0 ELSE Value[piece]
PROMOTION_SCORE_SEE(piece) == Value[piece] - Value[PAWN]

\* wrong: one rank too low
RankBelowPromotion(c) == {s \in Squares : RankOf(s) = LastRank(c) - 2 * Up(c)}
RANK_PROMOTION(c) == {s \in Squares : RankOf(s) = LastRank(c) - Up(c)}

Better(x, y) == IF x >= y THEN x ELSE y

(* The attackers of a square by side c among the pieces still standing,    *)
(* the least valuable first; a pawn that promotes counts after the queen,  *)
(* and sliders are looked for only while one is left on the lines.         *)
AttackersInOrder(b, c, to, allPieces, slidingMask) ==
  LET men == b.pieces[c]
      pawns == PAWN_ATTACKS[1 - c][to] \cap men[PAWN] \cap allPieces
      SlidersOf(piece, moves) == IF men[piece] \cap slidingMask = {} THEN {} ELSE men[piece] \cap moves \cap allPieces
      by(piece, squares) == [piece |-> piece, squares |-> squares]
  IN  <<by(PAWN, pawns \ RANK_PROMOTION(c)),
        by(NIGHT, men[NIGHT] \cap KNIGHT_MOVES[to] \cap allPieces),
        by(BISHOP, SlidersOf(BISHOP, bishop_moves(to, allPieces))),
        by(ROOK, SlidersOf(ROOK, rook_moves(to, allPieces))),
        by(QUEEN, SlidersOf(QUEEN, queen_moves(to, allPieces))),
        by(PAWN, pawns \cap RANK_PROMOTION(c)),
        by(KING, men[KING] \cap KING_MOVES[to])>>

(* getSeeScore(): side c may take the attacked piece on `to', or leave it. *)
RECURSIVE getSeeScore(_, _, _, _, _, _)
getSeeScore(b, c, to, attacked, allPieces, slidingMask) ==
  LET order == AttackersInOrder(b, c, to, allPieces, slidingMask)
      some == {i \in DOMAIN order : order[i].squares # {}}
      first == CHOOSE i \in some : \A j \in some : i <= j
      left == allPieces (+) {Least(order[first].squares)}
      promotes == first = 6
  IN  IF some = {} THEN 0
      ELSE IF attacked = KING THEN 3000
      ELSE Better(0, (IF promotes THEN PROMOTION_SCORE_SEE(QUEEN) ELSE 0) + MATERIAL_SEE(attacked)
                       - getSeeScore(b, 1 - c, to, IF promotes THEN QUEEN ELSE order[first].piece,
                                     left, slidingMask \cap left))

getSeeCaptureScore(b, m) ==
  LET left == b.allPieces \ {m.from}
      arrives == IF is_promotion(m) THEN m.type ELSE m.source
  IN  (IF is_promotion(m) THEN PROMOTION_SCORE_SEE(m.type) ELSE 0) + MATERIAL_SEE(m.attacked)
        - getSeeScore(b, 1 - b.colorToMove, m.to, arrives, left, queen_moves_empty[m.to] \cap left)

getSeeFieldScore(b, square) ==
  LET left == b.allPieces \ {square}
  IN  -getSeeScore(b, 1 - b.colorToMove, square, b.pieceIndexes[square], left,
                   queen_moves_empty[square] \cap left)

-----------------------------------------------------------------------------
(* The reference, from the squares and pieces of a position alone.  Each   *)
(* side takes on t with the piece that it risks least by it, a pawn that   *)
(* promotes being the queen it becomes, or stops; between pieces of equal  *)
(* value it may choose.  A king may not take where it could be taken; pins *)
(* and checks elsewhere do not count.                                      *)
Promotes(at, s, t) == at[s][2] = PAWN /\ RankOf(t) = LastRank(at[s][1])

Arriving(at, s, t) == IF Promotes(at, s, t) THEN QUEEN ELSE at[s][2]

TakenBy(at, s, t) ==
  [q \in DOMAIN at \ {s} |-> IF q = t THEN <<at[s][1], Arriving(at, s, t)>> ELSE at[q]]

MayTake(at, c, t) ==
  {s \in Attacking(at, c, t) : at[s][2] = KING => Attacking(TakenBy(at, s, t), Opponent(c), t) = {}}

Cheapest(at, c, t) ==
  LET risk(s) == MATERIAL_SEE(Arriving(at, s, t))
  IN  {s \in MayTake(at, c, t) : \A q \in MayTake(at, c, t) : risk(s) <= risk(q)}

\* what side c may come out with, by the choices made between equals
RECURSIVE Exchanges(_, _, _)
Exchanges(at, c, t) ==
  LET gain(s) == MATERIAL_SEE(at[t][2]) + (IF Promotes(at, s, t) THEN PROMOTION_SCORE_SEE(QUEEN) ELSE 0)
      after(s) == Exchanges(TakenBy(at, s, t), Opponent(c), t)
  IN  IF Cheapest(at, c, t) = {} THEN {0}
      ELSE UNION {{Better(0, gain(s) - o) : o \in after(s)} : s \in Cheapest(at, c, t)}

ExchangesOf(pos, m) ==
  LET won == MATERIAL_SEE(m.attacked) + (IF is_promotion(m) THEN PROMOTION_SCORE_SEE(m.type) ELSE 0)
  IN  {won - o : o \in Exchanges(After(pos, m), Opponent(pos.side), m.to)}

\* A rook or a queen on the file of an en passant capture, behind the pawn that
\* is taken
BehindTaken(pos, m) ==
  LET taken == m.to - Forward(pos.side)
  IN  is_ep(m) /\ \E q \in DOMAIN pos.at : /\ Piece(pos, q) \in {ROOK, QUEEN} /\ FileOf(q) = FileOf(taken)
                                           /\ (RankOf(taken) - RankOf(q)) * Up(pos.side) > 0
=============================================================================
