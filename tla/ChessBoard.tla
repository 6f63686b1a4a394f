------------------------------ MODULE ChessBoard ------------------------------
(***************************************************************************)
(* The board (chess_board.*, chess_board_util.cpp) as a record `b' with    *)
(* the fields of the class, and each method as an operator on it.          *)
(*                                                                         *)
(* Left out: colorToMoveInverse, emptySpaces and the king's area and rays, *)
(* which are always functions of colorToMove, allPieces and kingIndex; the *)
(* piece-square scores, whose tables are all zero; and the bound MAX_MOVES *)
(* of the history arrays, which are a sequence here.                       *)
(***************************************************************************)
EXTENDS Castling, Material, RepetitionTable

(***************************************************************************)
(* Keys (zobrist.cpp).  A key is the set of the indexes, in the stream of  *)
(* random numbers, of the numbers that are XORed into it.  epIndex[0] is   *)
(* the number 0, so it adds nothing.  What is lost is that two sets may    *)
(* have the same 64-bit value.                                             *)
(***************************************************************************)
PieceKey(sq, color, piece) == {14 * sq + 7 * color + piece}

CastlingKey(rights) ==
  LET bit(r) == IF r \in rights THEN r ELSE 0
  IN {896 + bit(8) + bit(4) + bit(2) + bit(1)}

EpKey(sq) == IF sq = 0 THEN {} ELSE {911 + sq}
SideKey   == {959}

Sliders(b, color, type) == b.pieces[color][type] \cup b.pieces[color][QUEEN]

-----------------------------------------------------------------------------
(***************************************************************************)
(* Checks and pins.                                                        *)
(***************************************************************************)
checkingPiecesFull(b) ==
  LET them == Opponent(b.colorToMove)
  IN Attackers(b.kingIndex[b.colorToMove], b.colorToMove, b.pieces[them], b.allPieces)

\* only the checks given by pieces of the type that has just moved
checkingPiecesByPiece(b, piece) ==
  LET king == b.kingIndex[b.colorToMove]
      reach == CASE piece = PAWN   -> PAWN_ATTACKS[b.colorToMove][king]
                 [] piece = NIGHT  -> KNIGHT_MOVES[king]
                 [] piece = BISHOP -> bishop_moves(king, b.allPieces)
                 [] piece = ROOK   -> rook_moves(king, b.allPieces)
                 [] piece = QUEEN  -> queen_moves(king, b.allPieces)
                 [] OTHER          -> {}
  IN b.pieces[Opponent(b.colorToMove)][piece] \cap reach

\* the lone pieces between the king of `color' and a slider of the other side;
\* a side whose material key shows no slider is skipped
LoneBlockers(b, color) ==
  LET king == b.kingIndex[color]
      enemy == Opponent(color)
      aimed == IF ~has_sliding_pieces(b.materialKey, enemy) THEN {}
               ELSE (Sliders(b, enemy, BISHOP) \cap bishop_moves_empty[king])
                      \cup (Sliders(b, enemy, ROOK) \cap rook_moves_empty[king])
      between == {IN_BETWEEN[king][s] \cap b.allPieces : s \in aimed}
  IN UNION {bb \in between : Cardinality(bb) = 1}

setPinnedAndDiscoPieces(b) ==
  LET lone == [c \in Colors |-> LoneBlockers(b, c)]
  IN [b EXCEPT
        !.pinnedPieces     = UNION {lone[c] \cap b.friendlyPieces[c] : c \in Colors},
        !.discoveredPieces = UNION {lone[c] \cap b.friendlyPieces[Opponent(c)] : c \in Colors}]

\* what doMove, doNullMove, isValidMove and the move generator do first
RefreshPins(b) ==
  IF b.pinnedPiecesDirty
  THEN [setPinnedAndDiscoPieces(b) EXCEPT !.pinnedPiecesDirty = FALSE]
  ELSE b

\* updatePinnedAndDiscoPiecesAfterMove()
PinsMayChange(b, piece, changedSquares) ==
  \/ piece = KING
  \/ changedSquares \cap (queen_moves_empty[b.kingIndex[WHITE]]
                            \cup queen_moves_empty[b.kingIndex[BLACK]]) # {}

-----------------------------------------------------------------------------
(***************************************************************************)
(* A new board (initBoard, getNewCB) from the fields of a FEN.             *)
(***************************************************************************)
XorOfPieces(pieces, types) ==
  UNION {{14 * s + 7 * c + p : s \in pieces[c][p]} : c \in Colors, p \in types}

Popcounts(pieces, weight) ==
  [c \in Colors |-> weight[NIGHT]  * Cardinality(pieces[c][NIGHT])
                  + weight[BISHOP] * Cardinality(pieces[c][BISHOP])
                  + weight[ROOK]   * Cardinality(pieces[c][ROOK])
                  + weight[QUEEN]  * Cardinality(pieces[c][QUEEN])]

calculateMaterialKey(pieces) ==
  LET half == [c \in Colors |-> Popcounts(pieces, VALUES)[c] + Cardinality(pieces[c][PAWN])]
  IN [low  |-> half[WHITE] % HALF,
      high |-> (half[BLACK] + half[WHITE] \div HALF) % HALF]

getNewCB(fen) ==
  LET friendly == [c \in Colors |-> UNION {fen.pieces[c][p] : p \in PieceTypes}]
      kingIndex == [c \in Colors |-> Least(fen.pieces[c][KING])]
      indexes == [s \in Squares |->
                    IF s \in friendly[WHITE] \cup friendly[BLACK]
                    THEN CHOOSE p \in PieceTypes : s \in fen.pieces[WHITE][p] \cup fen.pieces[BLACK][p]
                    ELSE EMPTY]
      bareKey == XorOfPieces(fen.pieces, PieceTypes) (+) EpKey(fen.epIndex)
                   (+) (IF fen.colorToMove = WHITE THEN SideKey ELSE {})
      firstKey == bareKey (+) CastlingKey({})
      key == bareKey (+) CastlingKey(fen.castlingRights)
      b == [pieces |-> fen.pieces, friendlyPieces |-> friendly,
            allPieces |-> friendly[WHITE] \cup friendly[BLACK],
            pieceIndexes |-> indexes, kingIndex |-> kingIndex,
            colorToMove |-> fen.colorToMove, epIndex |-> fen.epIndex,
            castlingRights |-> fen.castlingRights,
            castlingConfig |-> detectCastlingConfig(indexes, kingIndex),
            materialKey |-> calculateMaterialKey(fen.pieces),
            material_factor |-> Popcounts(fen.pieces, PHASE),
            zobristKey |-> key, pawnZobristKey |-> XorOfPieces(fen.pieces, {PAWN}),
            checkingPieces |-> {}, pinnedPieces |-> {}, discoveredPieces |-> {},
            pinnedPiecesDirty |-> FALSE,
            lastCaptureOrPawnMoveBefore |-> fen.halfmoves, history |-> <<>>,
            playedBoardStates |-> inc(dec(inc(EmptyTable, firstKey), firstKey), key)]
  IN setPinnedAndDiscoPieces([b EXCEPT !.checkingPieces = checkingPiecesFull(b)])

-----------------------------------------------------------------------------
(***************************************************************************)
(* The history.                                                            *)
(***************************************************************************)
pushHistoryValues(b, m) ==
  [b EXCEPT !.history = Append(@,
     [move |-> m, castlingRights |-> b.castlingRights, epIndex |-> b.epIndex,
      zobristKey |-> b.zobristKey, checkingPieces |-> b.checkingPieces,
      pinnedPieces |-> b.pinnedPieces, discoveredPieces |-> b.discoveredPieces,
      lastCaptureOrPawnMoveBefore |-> b.lastCaptureOrPawnMoveBefore])]

popHistoryValues(b) ==
  LET h == b.history[Len(b.history)]
  IN [b EXCEPT
        !.history = SubSeq(@, 1, Len(@) - 1),
        !.castlingRights = h.castlingRights, !.epIndex = h.epIndex,
        !.zobristKey = h.zobristKey, !.checkingPieces = h.checkingPieces,
        !.pinnedPieces = h.pinnedPieces, !.discoveredPieces = h.discoveredPieces,
        !.lastCaptureOrPawnMoveBefore = h.lastCaptureOrPawnMoveBefore]

changeSideToMove(b) == [b EXCEPT !.colorToMove = Opponent(@)]

-----------------------------------------------------------------------------
(***************************************************************************)
(* Doing a move.                                                           *)
(***************************************************************************)
\* the square of the captured pawn of an en-passant move, else the target
CaptureSquare(b, m) ==
  IF is_ep(m) THEN m.to + Forward(Opponent(b.colorToMove)) ELSE m.to

Placed(m) == IF is_promotion(m) THEN m.type ELSE m.source

\* wrong: every double step sets the square
EpAfterAlways(b, m) ==
  LET passed == IN_BETWEEN[m.from][m.to]
  IN IF m.source = PAWN /\ ~is_promotion(m) /\ passed # {} THEN Least(passed) ELSE 0

\* the en-passant square behind a double step that an enemy pawn stands beside
EpAfter(b, m) ==
  LET passed == IN_BETWEEN[m.from][m.to]
      us == b.colorToMove
  IN IF /\ m.source = PAWN /\ ~is_promotion(m) /\ passed # {}
        /\ PAWN_ATTACKS[us][Least(passed)] \cap b.pieces[Opponent(us)][PAWN] # {}
     THEN Least(passed) ELSE 0

RightsAfter(b, m) ==
  LET moved == CASE m.source = ROOK -> getRookMovedOrAttackedCastlingRights(
                                         b.castlingRights, m.from, b.castlingConfig)
                 [] m.source = KING -> getKingMovedCastlingRights(b.castlingRights, b.colorToMove)
                 [] OTHER           -> b.castlingRights
  IN IF m.attacked = ROOK
     THEN getRookMovedOrAttackedCastlingRights(moved, m.to, b.castlingConfig)
     ELSE moved

PiecesAfter(b, m) ==
  LET us == b.colorToMove
      moved == [b.pieces EXCEPT ![us][m.source] = @ (+) ({m.from} (+) {m.to})]
      placed == IF is_promotion(m)
                THEN [moved EXCEPT ![us][PAWN] = @ (+) {m.to}, ![us][m.type] = @ \cup {m.to}]
                ELSE moved
  IN IF m.attacked = EMPTY THEN placed
     ELSE [placed EXCEPT ![Opponent(us)][m.attacked] = @ (+) {CaptureSquare(b, m)}]

IndexesAfter(b, m) ==
  LET moved == [b.pieceIndexes EXCEPT ![m.from] = EMPTY, ![m.to] = Placed(m)]
  IN IF is_ep(m) THEN [moved EXCEPT ![CaptureSquare(b, m)] = EMPTY] ELSE moved

MaterialAfter(b, m) ==
  LET us == b.colorToMove
      promoted == IF is_promotion(m)
                  THEN AddMaterial(AddMaterial(b.materialKey, us, m.type, 1), us, PAWN, -1)
                  ELSE b.materialKey
  IN IF m.attacked = EMPTY THEN promoted
     ELSE AddMaterial(promoted, Opponent(us), m.attacked, -1)

FactorAfter(b, m) ==
  LET us == b.colorToMove
  IN [b.material_factor EXCEPT
        ![us] = @ + (IF is_promotion(m) THEN PHASE[m.type] ELSE 0),
        ![Opponent(us)] = @ - PHASE[m.attacked]]

\* what a move changes in the key beside the side to move, en passant and castling
PieceKeyChange(b, m) ==
  LET us == b.colorToMove
  IN PieceKey(m.from, us, m.source) (+) PieceKey(m.to, us, Placed(m))
       (+) (IF m.attacked = EMPTY THEN {}
            ELSE PieceKey(CaptureSquare(b, m), Opponent(us), m.attacked))

\* wrong: a promoted pawn stays in the pawn key, on the last rank
PawnKeyChangeOnPromotion(b, m) ==
  LET us == b.colorToMove
  IN (IF m.source = PAWN THEN PieceKey(m.from, us, PAWN) \cup PieceKey(m.to, us, PAWN) ELSE {})
       (+) (IF m.attacked = PAWN THEN PieceKey(CaptureSquare(b, m), Opponent(us), PAWN) ELSE {})

PawnKeyChange(b, m) ==
  LET us == b.colorToMove
  IN (IF m.source = PAWN THEN PieceKey(m.from, us, PAWN) ELSE {})
       (+) (IF m.source = PAWN /\ ~is_promotion(m) THEN PieceKey(m.to, us, PAWN) ELSE {})
       (+) (IF m.attacked = PAWN THEN PieceKey(CaptureSquare(b, m), Opponent(us), PAWN) ELSE {})

\* the checks the moved board gives; `discoverer' says that the moving piece
\* was a lone blocker before it moved
ChecksAfter(moved, m, discoverer) ==
  IF discoverer \/ ~is_normal(m) THEN checkingPiecesFull(moved)
                                 ELSE checkingPiecesByPiece(moved, m.source)

\* the square that an en-passant move empties beside the one it leaves
EpCaptured(b, m) == IF is_ep(m) THEN {CaptureSquare(b, m)} ELSE {}

\* wrong: the captured pawn does not count
ChangedSquaresOfPiece(b, m) == {m.from, m.to}

\* the squares whose change may make or break a pin
ChangedSquares(b, m) == {m.from, m.to} \cup EpCaptured(b, m)

\* the counter of plies since the last capture or pawn move
PliesAfter(b, m) ==
  IF m.attacked # EMPTY \/ m.source = PAWN THEN 0 ELSE b.lastCaptureOrPawnMoveBefore + 1

DoOrdinaryMove(b, m) ==
  LET us == b.colorToMove
      captured == IF m.attacked = EMPTY THEN {} ELSE {CaptureSquare(b, m)}
      key == b.zobristKey (+) PieceKeyChange(b, m) (+) SideKey
               (+) EpKey(b.epIndex) (+) EpKey(EpAfter(b, m))
               (+) CastlingKey(b.castlingRights) (+) CastlingKey(RightsAfter(b, m))
      friendly == [b.friendlyPieces EXCEPT
                     ![us] = @ (+) ({m.from} (+) {m.to}), ![Opponent(us)] = @ (+) captured]
      moved == [pushHistoryValues(b, m) EXCEPT
                  !.pieces = PiecesAfter(b, m), !.friendlyPieces = friendly,
                  !.allPieces = friendly[WHITE] \cup friendly[BLACK],
                  !.pieceIndexes = IndexesAfter(b, m),
                  !.kingIndex[us] = IF m.source = KING THEN m.to ELSE @,
                  !.colorToMove = Opponent(us), !.epIndex = EpAfter(b, m),
                  !.castlingRights = RightsAfter(b, m),
                  !.materialKey = MaterialAfter(b, m), !.material_factor = FactorAfter(b, m),
                  !.zobristKey = key, !.pawnZobristKey = @ (+) PawnKeyChange(b, m),
                  !.lastCaptureOrPawnMoveBefore = PliesAfter(b, m)]
  IN [moved EXCEPT
        !.checkingPieces = ChecksAfter(moved, m, m.from \in b.discoveredPieces),
        !.pinnedPiecesDirty = PinsMayChange(moved, m.source, ChangedSquares(b, m)),
        !.playedBoardStates = inc(@, key)]

\* King and rook change places without meeting: a square that one leaves and
\* the other enters, or that both the king leaves and enters, cancels out.
CastledSquares(b, m) ==
  LET r == RightOfTarget(m.to)
  IN [king |-> {m.from} (+) {m.to}, rook |-> {b.castlingConfig.rook[r]} (+) {ROOK_TO[r]},
      rookFrom |-> b.castlingConfig.rook[r], rookTo |-> ROOK_TO[r]]

doCastling960(b, m) ==
  LET us == b.colorToMove
      c == CastledSquares(b, m)
      rights == getKingMovedCastlingRights(b.castlingRights, us)
      key == b.zobristKey (+) PieceKey(m.from, us, KING) (+) PieceKey(m.to, us, KING)
               (+) PieceKey(c.rookFrom, us, ROOK) (+) PieceKey(c.rookTo, us, ROOK)
               (+) EpKey(b.epIndex) (+) SideKey
               (+) CastlingKey(b.castlingRights) (+) CastlingKey(rights)
      friendly == [b.friendlyPieces EXCEPT ![us] = @ (+) (c.king (+) c.rook)]
      moved == [pushHistoryValues(b, m) EXCEPT
                  !.pieces[us][KING] = @ (+) c.king, !.pieces[us][ROOK] = @ (+) c.rook,
                  !.friendlyPieces = friendly,
                  !.allPieces = friendly[WHITE] \cup friendly[BLACK],
                  !.pieceIndexes = [s \in Squares |->
                     CASE s = m.to -> KING [] s = c.rookTo -> ROOK
                       [] s \in {m.from, c.rookFrom} \ {m.to, c.rookTo} -> EMPTY
                       [] OTHER -> b.pieceIndexes[s]],
                  !.kingIndex[us] = m.to, !.colorToMove = Opponent(us), !.epIndex = 0,
                  !.castlingRights = rights, !.zobristKey = key,
                  !.lastCaptureOrPawnMoveBefore = @ + 1]
  IN [moved EXCEPT !.checkingPieces = checkingPiecesFull(moved),
                   !.pinnedPiecesDirty = TRUE,
                   !.playedBoardStates = inc(@, key)]

\* wrong: pins that are marked dirty go to the history as they are
doMoveOnDirtyPins(b, m) == IF is_castling(m) THEN doCastling960(b, m) ELSE DoOrdinaryMove(b, m)

doMove(b, m) ==
  IF is_castling(m) THEN doCastling960(RefreshPins(b), m)
                    ELSE DoOrdinaryMove(RefreshPins(b), m)

doNullMove(b) ==
  LET key == b.zobristKey (+) SideKey (+) EpKey(b.epIndex)
  IN [changeSideToMove(pushHistoryValues(RefreshPins(b), NO_MOVE)) EXCEPT
        !.zobristKey = key, !.epIndex = 0, !.playedBoardStates = inc(@, key)]

-----------------------------------------------------------------------------
(***************************************************************************)
(* Taking a move back.                                                     *)
(***************************************************************************)
\* wrong: the key is uncounted after the history gave back the one before
PoppedFirst(b) ==
  LET p == popHistoryValues(b)
  IN [p EXCEPT !.playedBoardStates = dec(@, p.zobristKey), !.pinnedPiecesDirty = FALSE]

\* what undoMove, undoCastling960 and undoNullMove do alike
Popped(b) ==
  [popHistoryValues([b EXCEPT !.playedBoardStates = dec(@, b.zobristKey)])
     EXCEPT !.pinnedPiecesDirty = FALSE]

undoNullMove(b) == changeSideToMove(Popped(b))

UndoOrdinaryMove(b, m) ==
  LET them == b.colorToMove
      us == Opponent(them)
      taken == IF m.attacked = EMPTY THEN {}
               ELSE {IF is_ep(m) THEN m.to + Forward(them) ELSE m.to}
      moved == [b.pieces EXCEPT ![us][m.source] = @ (+) ({m.from} (+) {m.to})]
      placed == IF is_promotion(m)
                THEN [moved EXCEPT ![us][PAWN] = @ (+) {m.to}, ![us][m.type] = @ (+) {m.to}]
                ELSE moved
      friendly == [b.friendlyPieces EXCEPT
                     ![us] = @ (+) ({m.from} (+) {m.to}), ![them] = @ \cup taken]
      demoted == IF is_promotion(m)
                 THEN AddMaterial(AddMaterial(b.materialKey, us, m.type, -1), us, PAWN, 1)
                 ELSE b.materialKey
  IN changeSideToMove([Popped(b) EXCEPT
       !.pieces = IF m.attacked = EMPTY THEN placed
                  ELSE [placed EXCEPT ![them][m.attacked] = @ \cup taken],
       !.friendlyPieces = friendly,
       !.allPieces = friendly[WHITE] \cup friendly[BLACK],
       !.pieceIndexes = [s \in Squares |->
          IF s \in taken THEN m.attacked
          ELSE IF s = m.from THEN m.source ELSE IF s = m.to THEN EMPTY ELSE b.pieceIndexes[s]],
       !.kingIndex[us] = IF m.source = KING THEN m.from ELSE @,
       !.materialKey = IF m.attacked = EMPTY THEN demoted
                       ELSE AddMaterial(demoted, them, m.attacked, 1),
       !.material_factor[us] = @ - (IF is_promotion(m) THEN PHASE[m.type] ELSE 0),
       !.material_factor[them] = @ + PHASE[m.attacked],
       !.pawnZobristKey = @
          (+) (IF m.source = PAWN THEN PieceKey(m.from, us, PAWN) ELSE {})
          (+) (IF m.source = PAWN /\ ~is_promotion(m) THEN PieceKey(m.to, us, PAWN) ELSE {})
          (+) (IF m.attacked = PAWN THEN UNION {PieceKey(s, them, PAWN) : s \in taken} ELSE {})])

undoCastling960(b, m) ==
  LET us == Opponent(b.colorToMove)
      c == CastledSquares(b, m)
      friendly == [b.friendlyPieces EXCEPT ![us] = @ (+) (c.king (+) c.rook)]
  IN changeSideToMove([Popped(b) EXCEPT
       !.pieces[us][KING] = @ (+) c.king, !.pieces[us][ROOK] = @ (+) c.rook,
       !.friendlyPieces = friendly,
       !.allPieces = friendly[WHITE] \cup friendly[BLACK],
       !.pieceIndexes = [s \in Squares |->
          CASE s = m.from -> KING [] s = c.rookFrom -> ROOK
            [] s \in {m.to, c.rookTo} \ {m.from, c.rookFrom} -> EMPTY
            [] OTHER -> b.pieceIndexes[s]],
       !.kingIndex[us] = m.from])

undoMove(b, m) == IF is_castling(m) THEN undoCastling960(b, m) ELSE UndoOrdinaryMove(b, m)

-----------------------------------------------------------------------------
(***************************************************************************)
(* Legality.  The queries that change a bitboard change it back.           *)
(***************************************************************************)
Enemy(b) == b.pieces[Opponent(b.colorToMove)]
OurKing(b) == b.kingIndex[b.colorToMove]

isLegalEPMove(b, from) ==
  LET us == b.colorToMove
      taken == {b.epIndex + Forward(Opponent(us))}
      occupied == (b.friendlyPieces[us] (+) ({from} (+) {b.epIndex}))
                    \cup (b.friendlyPieces[Opponent(us)] (+) taken)
  IN Attackers(OurKing(b), us, [Enemy(b) EXCEPT ![PAWN] = @ (+) taken], occupied) = {}

\* the king's target must not be attacked through the square the king leaves
IsSafeForKing(b, from, to, major) ==
  ~is_in_check_including_king(to, b.colorToMove, Enemy(b), b.allPieces (+) {from}, major)

isLegalKingMove(b, m) == IsSafeForKing(b, m.from, m.to, TRUE)

isLegalNonKingMove(b, m) ==
  ~is_in_check_super(OurKing(b), b.colorToMove, Enemy(b),
                     b.allPieces (+) {m.from} (+) {m.to})

EnemyHasMajor(b) == has_major_pieces(b.materialKey, Opponent(b.colorToMove))

isLegal(b, m) ==
  CASE m.source = KING -> IsSafeForKing(b, m.from, m.to, EnemyHasMajor(b))
    [] m.source # KING /\ m.attacked # EMPTY -> is_ep(m) => isLegalEPMove(b, m.from)
    [] OTHER -> b.checkingPieces # {} => isLegalNonKingMove(b, m)

isValidCastlingMove(b, from, to) ==
  LET r == RightOfTarget(to)
      color == IF from \in b.pieces[WHITE][KING] THEN WHITE ELSE BLACK
      others == b.allPieces \ {b.castlingConfig.king[OwnerOf(r)], b.castlingConfig.rook[r]}
  IN /\ b.checkingPieces = {}
     /\ to \in Targets
     /\ others \cap KingWay(b.castlingConfig, r) = {}
     /\ others \cap RookWay(b.castlingConfig, r) = {}
     /\ \A s \in KingWay(b.castlingConfig, r) :
          ~is_in_check_including_king(s, color, b.pieces[Opponent(color)], others, TRUE)

\* the tests that do not depend on checks and pins
PawnMoveFits(b, m) ==
  IF b.colorToMove = WHITE
  THEN /\ m.from <= m.to
       /\ m.to - m.from = 16 => m.from + 8 \notin b.allPieces
  ELSE /\ m.from >= m.to
       /\ m.from - m.to = 16 => m.from - 8 \notin b.allPieces

TargetFits(b, m) ==
  IF m.attacked # EMPTY THEN m.to \in Enemy(b)[m.attacked] \/ is_ep(m)
  ELSE IF is_castling(m) THEN b.pieceIndexes[m.to] \in {EMPTY, ROOK, KING}
  ELSE b.pieceIndexes[m.to] = EMPTY

\* wrong: capturing one of two checking pieces is enough
AnswersOneCheck(b, m) ==
  /\ m.from \in b.pinnedPieces => m.to \in PINNED_MOVEMENT[m.from][OurKing(b)]
  /\ b.checkingPieces # {} =>
       IF m.attacked = EMPTY THEN isLegalNonKingMove(b, m) ELSE m.to \in b.checkingPieces

\* the last part of isValidMove(): pins, then the checks to be answered
AnswersPinsAndChecks(b, m) ==
  /\ m.from \in b.pinnedPieces => m.to \in PINNED_MOVEMENT[m.from][OurKing(b)]
  /\ b.checkingPieces # {} =>
       IF m.attacked = EMPTY THEN isLegalNonKingMove(b, m)
       ELSE Cardinality(b.checkingPieces) = 1 /\ m.to \in b.checkingPieces

\* isValidMove(): may a move that was stored for another position be played here?
isValidMove(dirty, m) ==
  LET b == RefreshPins(dirty)
  IN /\ m.from \in b.pieces[b.colorToMove][m.source]
     /\ TargetFits(b, m)
     /\ CASE is_ep(m)       -> m.to = b.epIndex /\ isLegalEPMove(b, m.from)
          [] is_castling(m) -> /\ m.to \in getCastlingIndexes(b.colorToMove, b.castlingRights)
                               /\ isValidCastlingMove(b, m.from, m.to)
          [] m.source = KING /\ ~is_castling(m) -> isLegalKingMove(b, m)
          [] m.source = PAWN /\ ~is_ep(m) -> PawnMoveFits(b, m) /\ AnswersPinsAndChecks(b, m)
          [] m.source \in {BISHOP, ROOK, QUEEN} ->
               /\ IN_BETWEEN[m.from][m.to] \cap b.allPieces = {}
               /\ AnswersPinsAndChecks(b, m)
          [] m.source = NIGHT -> AnswersPinsAndChecks(b, m)

\* wrong: the pawn captured en passant still blocks
OccupiedWithCaptured(b, m) == (b.allPieces \ {m.from}) \cup {m.to}

OccupiedAfter(b, m) == ((b.allPieces \ {m.from}) \cup {m.to}) \ EpCaptured(b, m)

\* givesCheck(): would the move leave the other king in check?
givesCheck(b, m) ==
  LET us == b.colorToMove
      them == Opponent(us)
      gone == IF m.source = KING THEN b.pieces[us]
              ELSE [b.pieces[us] EXCEPT ![m.source] = @ \ {m.from}]
      ours == IF m.source = KING THEN gone ELSE [gone EXCEPT ![Placed(m)] = @ \cup {m.to}]
  IN IF is_castling(m) THEN doMove(b, m).checkingPieces # {}
     ELSE Attackers(b.kingIndex[them], them, ours, OccupiedAfter(b, m)) # {}
=============================================================================
