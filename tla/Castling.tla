------------------------------- MODULE Castling -------------------------------
(***************************************************************************)
(* Castling, classic and Chess960 (castling_config.*, castling_util.cpp).  *)
(*                                                                         *)
(* A castling right is one bit of castlingRights: 8 and 4 are White's king *)
(* and queen side, 2 and 1 Black's; `rights' is the set of the bits that   *)
(* are set.  A configuration `cfg' holds the squares that the kings and    *)
(* the rooks of the four rights start from.                                *)
(***************************************************************************)
EXTENDS MoveUtil

Rights      == {8, 4, 2, 1}
RightsOf(c) == IF c = WHITE THEN {8, 4} ELSE {2, 1}
OwnerOf(r)  == IF r \in {8, 4} THEN WHITE ELSE BLACK

\* G1 and F1, C1 and D1, G8 and F8, C8 and D8
KING_TO == [r \in Rights |-> CASE r = 8 -> 1 [] r = 4 -> 5 [] r = 2 -> 57 [] OTHER -> 61]
ROOK_TO == [r \in Rights |-> CASE r = 8 -> 2 [] r = 4 -> 4 [] r = 2 -> 58 [] OTHER -> 60]
CORNER  == [r \in Rights |-> CASE r = 8 -> 0 [] r = 4 -> 7 [] r = 2 -> 56 [] OTHER -> 63]

Targets == {KING_TO[r] : r \in Rights}
RightOfTarget(to) == CHOOSE r \in Rights : KING_TO[r] = to

\* detectCastlingConfig(): the first rook from the king towards the corner, of
\* whatever colour, and the corner when there is none
detectCastlingConfig(pieceIndexes, kingIndex) ==
  LET RookFrom(r) ==
        LET king  == kingIndex[OwnerOf(r)]
            rooks == {s \in Squares : /\ pieceIndexes[s] = ROOK
                                      /\ IF r \in {8, 2} THEN CORNER[r] <= s /\ s <= king
                                                         ELSE king <= s /\ s <= CORNER[r]}
        IN IF rooks = {} THEN CORNER[r]
           ELSE IF r \in {8, 2} THEN CHOOSE s \in rooks : \A t \in rooks : t <= s
           ELSE Least(rooks)
  IN [king |-> kingIndex, rook |-> [r \in Rights |-> RookFrom(r)]]

\* bb_inbetween_king_*, bb_inbetween_rook_*: the squares to cross and the target
KingWay(cfg, r) == IN_BETWEEN[cfg.king[OwnerOf(r)]][KING_TO[r]] \cup {KING_TO[r]}
RookWay(cfg, r) == IN_BETWEEN[cfg.rook[r]][ROOK_TO[r]] \cup {ROOK_TO[r]}

-----------------------------------------------------------------------------
getCastlingIndexes(color, rights) == {KING_TO[r] : r \in rights \cap RightsOf(color)}

\* the right of the first rook square, in the order of the bits, that is `sq'
getRookMovedOrAttackedCastlingRights(rights, sq, cfg) ==
  LET lost == {r \in Rights : cfg.rook[r] = sq}
  IN rights \ {r \in lost : \A q \in lost : q <= r}

getKingMovedCastlingRights(rights, color) == rights \ RightsOf(color)

=============================================================================
