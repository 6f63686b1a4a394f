---------------------------- MODULE MoveGenerator ----------------------------
(***************************************************************************)
(* The move generator (move_generator.cpp).  generateMoves and             *)
(* generateAttacks are the sets of the moves that they append to the list; *)
(* the order of the list, the scores and the sorting are left out.         *)
(*                                                                         *)
(* Both take a board whose pins are fresh: they start by refreshing them.  *)
(***************************************************************************)
EXTENDS ChessBoard

Empties(b)  == Squares \ b.allPieces
Enemies(b)  == b.friendlyPieces[Opponent(b.colorToMove)]
Ours(b, p)  == b.pieces[b.colorToMove][p]
Unpinned(b, p) == Ours(b, p) \ b.pinnedPieces   \* pieces[us][p] & ~pinnedPieces

Reach(b, piece, from) ==
  CASE piece = NIGHT  -> KNIGHT_MOVES[from]
    [] piece = BISHOP -> bishop_moves(from, b.allPieces)
    [] piece = ROOK   -> rook_moves(from, b.allPieces)
    [] piece = QUEEN  -> queen_moves(from, b.allPieces)

\* addNightMoves, addBishopMoves, addRookMoves, addQueenMoves
addMoves(b, piece, froms, possible) ==
  UNION {{create_move(from, to, piece) : to \in Reach(b, piece, from) \cap possible} : from \in froms}

\* addNightAttacks, addBishopAttacks, addRookAttacks, addQueenAttacks
addAttacks(b, piece, froms, possible) ==
  UNION {{create_attack(from, to, piece, b.pieceIndexes[to]) :
            to \in Reach(b, piece, from) \cap possible} : from \in froms}

-----------------------------------------------------------------------------
(***************************************************************************)
(* Pawns.                                                                  *)
(***************************************************************************)
HomeRank(c)      == IF c = WHITE THEN Rank(2) ELSE Rank(7)
PromotionRank(c) == IF c = WHITE THEN Rank(7) ELSE Rank(2)

addPawnMoves(b, pawns, possible) ==
  LET us == b.colorToMove
      step == Forward(us)
      single == {s \in pawns \ PromotionRank(us) : s + step \in possible}
      double == {s \in pawns \cap HomeRank(us) :
                   s + 2 * step \in possible /\ s + step \in Empties(b)}
  IN {create_move(s, s + step, PAWN) : s \in single}
       \cup {create_move(s, s + 2 * step, PAWN) : s \in double}

addPawnAttacksAndPromotions(b, pawns, enemies, empties) ==
  LET us == b.colorToMove
      last == PromotionRank(us)
      targets(s) == PAWN_ATTACKS[us][s] \cap enemies
  IN (UNION {{create_attack(s, t, PAWN, b.pieceIndexes[t]) : t \in targets(s)} : s \in pawns \ last})
     \cup (UNION {{create_promotion_attack(promo, s, t, b.pieceIndexes[t]) :
                    promo \in PromotionTypes, t \in targets(s)} : s \in pawns \cap last})
     \cup {create_promotion_attack(promo, s, s + Forward(us), EMPTY) :
             promo \in PromotionTypes, s \in {q \in pawns \cap last : q + Forward(us) \in empties}}

addEpAttacks(b) ==
  LET from == IF b.epIndex = 0 THEN {}
              ELSE Ours(b, PAWN) \cap PAWN_ATTACKS[Opponent(b.colorToMove)][b.epIndex]
  IN {create_ep(s, b.epIndex) : s \in {q \in from : isLegalEPMove(b, q)}}

-----------------------------------------------------------------------------
(***************************************************************************)
(* The king.                                                               *)
(***************************************************************************)
SafeKingSquares(b, possible) ==
  {to \in KING_MOVES[OurKing(b)] \cap possible :
     IsSafeForKing(b, OurKing(b), to, EnemyHasMajor(b))}

addKingMoves(b) ==
  LET king == OurKing(b)
      castlings == IF b.checkingPieces # {} THEN {}
                   ELSE {to \in getCastlingIndexes(b.colorToMove, b.castlingRights) :
                           isValidCastlingMove(b, king, to)}
  IN {create_move(king, to, KING) : to \in SafeKingSquares(b, Empties(b))}
       \cup {create_castling(king, to) : to \in castlings}

addKingAttacks(b) ==
  {create_attack(OurKing(b), to, KING, b.pieceIndexes[to]) : to \in SafeKingSquares(b, Enemies(b))}

-----------------------------------------------------------------------------
(***************************************************************************)
(* Out of check: pinned pieces move along the line of their pin.           *)
(***************************************************************************)
PinnedOurs(b, types) ==
  {s \in b.friendlyPieces[b.colorToMove] \cap b.pinnedPieces : b.pieceIndexes[s] \in types}

PinLine(b, s) == PINNED_MOVEMENT[s][OurKing(b)]

generateNotInCheckMoves(b) ==
  addKingMoves(b)
  \cup (UNION {addMoves(b, p, Unpinned(b, p), Empties(b)) : p \in NIGHT..QUEEN})
  \cup addPawnMoves(b, Unpinned(b, PAWN), Empties(b))
  \cup (UNION {addPawnMoves(b, {s}, Empties(b) \cap PinLine(b, s)) : s \in PinnedOurs(b, {PAWN})})
  \cup (UNION {addMoves(b, b.pieceIndexes[s], {s}, Empties(b) \cap PinLine(b, s)) :
                s \in PinnedOurs(b, BISHOP..QUEEN)})

generateNotInCheckAttacks(b) ==
  addEpAttacks(b) \cup addKingAttacks(b)
  \cup addPawnAttacksAndPromotions(b, Unpinned(b, PAWN), Enemies(b), Empties(b))
  \cup (UNION {addAttacks(b, p, Unpinned(b, p), Enemies(b)) : p \in NIGHT..QUEEN})
  \cup (UNION {addPawnAttacksAndPromotions(b, {s}, Enemies(b) \cap PinLine(b, s), {}) :
                s \in PinnedOurs(b, {PAWN})})
  \cup (UNION {addAttacks(b, b.pieceIndexes[s], {s}, Enemies(b) \cap PinLine(b, s)) :
                s \in PinnedOurs(b, BISHOP..QUEEN)})

(***************************************************************************)
(* In check by one piece: block it or capture it; a pinned piece can do    *)
(* neither.                                                                *)
(***************************************************************************)
Checker(b) == Least(b.checkingPieces)

generateOutOfSlidingCheckMoves(b) ==
  LET between == IN_BETWEEN[OurKing(b)][Checker(b)]
  IN addKingMoves(b)
     \cup (IF between = {} THEN {}
           ELSE (UNION {addMoves(b, p, Unpinned(b, p), between) : p \in NIGHT..QUEEN})
                  \cup addPawnMoves(b, Unpinned(b, PAWN), between))

\* wrong: a promotion may not block a check
PushTargetsNone(b) == {}

\* where a pawn may promote without a capture: between the king and the checker
PushTargets(b) == IF b.pieceIndexes[Checker(b)] \in BISHOP..QUEEN
                  THEN Empties(b) \cap IN_BETWEEN[OurKing(b)][Checker(b)] ELSE {}

generateOutOfCheckAttacks(b) ==
  addEpAttacks(b) \cup addKingAttacks(b)
  \cup addPawnAttacksAndPromotions(b, Unpinned(b, PAWN), b.checkingPieces, PushTargets(b))
  \cup (UNION {addAttacks(b, p, Unpinned(b, p), b.checkingPieces) : p \in NIGHT..QUEEN})

-----------------------------------------------------------------------------
generateMoves(b) ==
  CASE b.checkingPieces = {}             -> generateNotInCheckMoves(b)
    [] Cardinality(b.checkingPieces) = 1 ->
         IF b.pieceIndexes[Checker(b)] \in {PAWN, NIGHT} THEN addKingMoves(b)
         ELSE generateOutOfSlidingCheckMoves(b)
    [] OTHER                             -> addKingMoves(b)

generateAttacks(b) ==
  CASE b.checkingPieces = {}             -> generateNotInCheckAttacks(b)
    [] Cardinality(b.checkingPieces) = 1 -> generateOutOfCheckAttacks(b)
    [] OTHER                             -> addKingAttacks(b)

\* what a search node plays: every generated move that passes isLegal()
LegalMoves(dirty) ==
  LET b == RefreshPins(dirty)
  IN {m \in generateMoves(b) \cup generateAttacks(b) : isLegal(b, m)}

=============================================================================
