----------------------------- MODULE BoardSession -----------------------------
(***************************************************************************)
(* One board under the search: a search node plays the generated moves     *)
(* that pass isLegal(), and null moves out of check, and takes each back   *)
(* before it returns (search.cpp).  The moves and null moves on the way    *)
(* down are the history of the board.  isValidMove() and the generator     *)
(* are also called on their own: they refresh the pins.  The evaluator     *)
(* follows the moves, not the null moves.                                  *)
(***************************************************************************)
EXTENDS UciMove, ChessRules, Evaluator

CONSTANTS
  Fens,     \* the positions that setupposition may set, as fields of a FEN
  MaxPly    \* bound: how deep the search goes

ASSUME BoundAssumption == MaxPly \in Nat /\ MaxPly < Capacity - 1

VARIABLES
  cb,       \* the ChessBoard
  nnue,     \* the Evaluator
  past      \* auxiliary: the boards that the moves on the way down were made on

vars == <<cb, nnue, past>>

\* the position that a board stands for, read from the redundant fields that
\* the queries of the code read
PositionOf(b) ==
  [at |-> [s \in b.allPieces |->
             <<IF s \in b.friendlyPieces[WHITE] THEN WHITE ELSE BLACK, b.pieceIndexes[s]>>],
   side |-> b.colorToMove, rights |-> b.castlingRights, home |-> b.castlingConfig,
   ep |-> b.epIndex, clock |-> b.lastCaptureOrPawnMoveBefore]

\* What a FEN must say: pieces on squares of their own, one king a side, a pawn
\* behind the en-passant square, for every castling right a rook of its side
\* that detectCastlingConfig finds for it and for no right after it, and the
\* side that has just moved has not left its king in check.
WellFormed(fen) ==
  LET men == fen.pieces
      them == Opponent(fen.colorToMove)
      rook == getNewCB(fen).castlingConfig.rook
      pos == PositionOf(getNewCB(fen))
  IN /\ men \in [Colors -> [PieceTypes -> SUBSET Squares]]
     /\ fen.colorToMove \in Colors /\ fen.epIndex \in Squares /\ fen.castlingRights \subseteq Rights
     /\ \A c, d \in Colors, p, q \in PieceTypes : men[c][p] \cap men[d][q] # {} => c = d /\ p = q
     /\ \A c \in Colors : \E k \in Squares : men[c][KING] = {k}
     /\ fen.epIndex # 0 =>
          /\ \A c \in Colors, p \in PieceTypes : fen.epIndex \notin men[c][p]
          /\ fen.epIndex + Forward(them) \in men[them][PAWN]
     /\ \A r \in fen.castlingRights :
          /\ rook[r] \in men[OwnerOf(r)][ROOK]
          /\ \A q \in Rights : q > r => rook[q] # rook[r]
     /\ Checkers(pos, them) = {}

ASSUME FensAssumption == \A fen \in Fens : WellFormed(fen)

Ply == Len(cb.history)
LastMove == cb.history[Ply].move

-----------------------------------------------------------------------------
Init == cb \in {getNewCB(fen) : fen \in Fens} /\ nnue = reset(cb) /\ past = <<>>

Deepen(board) == Ply < MaxPly /\ cb' = board /\ past' = Append(past, RefreshPins(cb))
Return(board) == cb' = board /\ past' = SubSeq(past, 1, Len(past) - 1)

MakeMove == \E m \in LegalMoves(cb) :
              /\ Deepen(doMove(cb, m))
              /\ nnue' = after_make(nnue, cb', m, cb.colorToMove)

MakeNull == cb.checkingPieces = {} /\ Deepen(doNullMove(cb)) /\ UNCHANGED nnue

UnmakeMove == /\ Ply > 0 /\ LastMove # NO_MOVE
              /\ Return(undoMove(cb, LastMove))
              /\ nnue' = after_unmake(nnue)

UnmakeNull == Ply > 0 /\ LastMove = NO_MOVE /\ Return(undoNullMove(cb)) /\ UNCHANGED nnue

\* isValidMove(), generateMoves(), generateAttacks()
Refresh == cb.pinnedPiecesDirty /\ cb' = RefreshPins(cb) /\ UNCHANGED <<nnue, past>>

Next == MakeMove \/ MakeNull \/ UnmakeMove \/ UnmakeNull \/ Refresh

Spec == Init /\ [][Next]_vars

-----------------------------------------------------------------------------
\* What doMove and undoMove update piece by piece is what a board set up anew
\* with the same pieces would hold: the four views of who stands where agree,
\* and the keys and the material counts fit them.
IncrementalState ==
  LET fresh == getNewCB([pieces |-> cb.pieces, colorToMove |-> cb.colorToMove,
                         castlingRights |-> cb.castlingRights, epIndex |-> cb.epIndex,
                         halfmoves |-> 0])
  IN /\ cb.friendlyPieces  = fresh.friendlyPieces
     /\ cb.allPieces       = fresh.allPieces
     /\ cb.pieceIndexes    = fresh.pieceIndexes
     /\ cb.kingIndex       = fresh.kingIndex
     /\ cb.materialKey     = fresh.materialKey
     /\ cb.material_factor = fresh.material_factor
     /\ cb.zobristKey      = fresh.zobristKey
     /\ cb.pawnZobristKey  = fresh.pawnZobristKey

\* What is taken back is taken back to the last field, the pins and the table of
\* repetitions included: the board is the one that the move was made on.
UndoRestores == [][Ply' < Ply => cb' = past[Len(past)]]_vars

\* the pieces that alone stand between a king and a slider of the other side:
\* without them the king would be in a check that it is not in now
AloneBefore(pos, c) ==
  {s \in DOMAIN pos.at :
     LET without == [t \in DOMAIN pos.at \ {s} |-> pos.at[t]]
         king == KingSquare(pos, c)
     IN s # king /\ \E a \in Attacking(without, Opponent(c), king) :
                       a \notin Attacking(pos.at, Opponent(c), king)}

\* The pieces that give check, which doMove looks for among those that the move
\* can have brought to bear, are those that a full search finds.  Whenever the
\* pins are not marked dirty they are those of the position: a move that leaves
\* the flag alone changed no pin and no discovered piece, of either king, and
\* what undoMove brings back is not stale.
CachesExact ==
  /\ cb.checkingPieces = checkingPiecesFull(cb)
  /\ ~cb.pinnedPiecesDirty =>
       LET pos == PositionOf(cb)
           alone == [c \in Colors |-> AloneBefore(pos, c)]
       IN /\ cb.pinnedPieces = UNION {{s \in alone[c] : Owns(pos, c, s)} : c \in Colors}
          /\ cb.discoveredPieces = UNION {{s \in alone[c] : Owns(pos, Opponent(c), s)} : c \in Colors}

\* No move that the search plays captures a king, which has no place in the
\* counts and the keys of a capture: the side that has just moved never leaves
\* its king to be taken.
KingsStand == \A m \in LegalMoves(cb) : m.attacked # KING

\* What the search plays is exactly the legal moves of the position, and none of
\* them captures a king.
MoveGenerationExact == LegalMoves(cb) = Legal(PositionOf(cb)) /\ KingsStand

\* move_generator.h:1: "pseudo-legal/legal-king move generation".  The king moves
\* that the generator makes are legal as they are.
KingMovesAreLegal ==
  LET b == RefreshPins(cb)
  IN \A m \in generateMoves(b) \cup generateAttacks(b) :
       m.source = KING => m \in Legal(PositionOf(b))

\* Moves that a table filled from other positions may return for the squares
\* where the side to move has a piece: any that fits the way a piece moves.
StoredMoves(b) ==
  LET us == b.colorToMove
      captures(s, t, p) ==
        {create_attack(s, t, p, a) : a \in PAWN..QUEEN}
      pawn(s, c) ==
        LET last == {t \in Squares : RankOf(t) = LastRank(c)}
            one == Steps(s, {<<0, Up(c)>>})
            two == IF RankOf(s) = SecondRank(c) THEN {s + 2 * Forward(c)} ELSE {}
            takes == Steps(s, {<<1, Up(c)>>, <<-1, Up(c)>>})
        IN {create_move(s, t, PAWN) : t \in (one \cup two) \ last}
           \cup (UNION {captures(s, t, PAWN) : t \in takes \ last})
           \cup {create_promotion_attack(y, s, t, a) : y \in PromotionTypes, t \in takes \cap last, a \in NIGHT..QUEEN}
           \cup {create_promotion_attack(y, s, t, EMPTY) : y \in PromotionTypes, t \in one \cap last}
           \cup {create_ep(s, t) : t \in {x \in takes : RankOf(x) = LastRank(c) - 2 * Up(c)}}
      other(s, p) ==
        LET reach == Reached(us, p, s, {})
        IN {create_move(s, t, p) : t \in reach} \cup (UNION {captures(s, t, p) : t \in reach})
  IN UNION {CASE b.pieceIndexes[s] = PAWN -> pawn(s, WHITE) \cup pawn(s, BLACK)
              [] b.pieceIndexes[s] = KING -> other(s, KING)
                    \cup {create_castling(s, KING_TO[r]) :
                            r \in {q \in RightsOf(us) : b.castlingConfig.king[us] = s}}
              [] OTHER -> other(s, b.pieceIndexes[s])
            : s \in b.friendlyPieces[us]}

\* The search plays the move of the transposition table after isValidMove()
\* alone: that accepts it exactly when it is legal in the position, whatever
\* position it was stored for.
TtMoveChecked ==
  LET legal == Legal(PositionOf(cb))
  IN \A m \in StoredMoves(cb) : isValidMove(cb, m) <=> m \in legal

\* givesCheck() says before a move what doMove() would find after it.
GivesCheckExact ==
  LET pos == PositionOf(cb)
  IN \A m \in LegalMoves(cb) :
       givesCheck(cb, m) <=> Checkers(Played(pos, m), Opponent(pos.side)) # {}

\* Both accumulators hold what a full refresh would compute for the position on
\* the board, though a move only adds and takes away what it moves: through
\* castling, en passant, promotions, kings that change buckets, null moves, and
\* all of these taken back.
AccumulatorsFresh == nnue.acc = full_refresh(cb)

\* The keys of the positions on the way down and of the one on the board are
\* counted in playedBoardStates, and no other key is.
KeysOnBoard == [i \in 1..(Ply + 1) |-> IF i > Ply THEN cb.zobristKey ELSE cb.history[i].zobristKey]

RepetitionsCounted ==
  CountsStack(cb.playedBoardStates, KeysOnBoard, {KeysOnBoard[i] : i \in 1..(Ply + 1)})
  /\ \A i \in Slots : cb.playedBoardStates[i].count > 0 =>
       \E j \in 1..(Ply + 1) : KeysOnBoard[j] = cb.playedBoardStates[i].key

\* A move sent to the GUI, or by it, is the same move when it is read back, with
\* Chess960 notation and, from the classic squares, without it.
ClassicSquares == /\ cb.castlingConfig.king = [c \in Colors |-> IF c = WHITE THEN 3 ELSE 59]
                  /\ cb.castlingConfig.rook = CORNER

UciRoundTrip ==
  \A m \in LegalMoves(cb), frc \in BOOLEAN :
    frc \/ ClassicSquares =>
      uci_to_move(cb, move_to_uci(m, cb.castlingConfig, frc), frc) = m

-----------------------------------------------------------------------------
\* The board implements the game by the laws of chess: what it plays are legal
\* moves, with the effect the laws give them, and what it takes back brings
\* the position before back.
RootPositions == {PositionOf(getNewCB(fen)) : fen \in Fens}

Chess == INSTANCE ChessGame WITH pos <- PositionOf(cb), Roots <- RootPositions,
                                 past <- [i \in 1..Len(past) |-> PositionOf(past[i])]

Implements == Chess!Game

=============================================================================
