------------------------------- MODULE MoveUtil -------------------------------
(***************************************************************************)
(* Moves (move_util.h).  The 22 bits of a move are the fields of a record: *)
(* the squares, the moving piece, the captured piece (EMPTY for none) and  *)
(* the type.  The promotion bit is set exactly when the type is a piece.   *)
(***************************************************************************)
EXTENDS Bitboards

TYPE_NORMAL   == 0
TYPE_EP       == 1
TYPE_CASTLING == 6
PromotionTypes == {NIGHT, BISHOP, ROOK, QUEEN}

Moves == [from : Squares, to : Squares, source : PieceTypes,
          attacked : EMPTY..QUEEN, type : {TYPE_NORMAL, TYPE_EP, TYPE_CASTLING}
                                            \cup PromotionTypes]

\* move 0, what a null move pushes on the history
NO_MOVE == [from |-> 0, to |-> 0, source |-> EMPTY, attacked |-> EMPTY, type |-> TYPE_NORMAL]

create_attack(from, to, piece, attacked) ==
  [from |-> from, to |-> to, source |-> piece, attacked |-> attacked, type |-> TYPE_NORMAL]
create_move(from, to, piece) == create_attack(from, to, piece, EMPTY)
create_promotion_attack(promo, from, to, attacked) ==
  [from |-> from, to |-> to, source |-> PAWN, attacked |-> attacked, type |-> promo]
create_ep(from, to) ==
  [from |-> from, to |-> to, source |-> PAWN, attacked |-> PAWN, type |-> TYPE_EP]
create_castling(from, to) ==
  [from |-> from, to |-> to, source |-> KING, attacked |-> EMPTY, type |-> TYPE_CASTLING]

is_promotion(m) == m.type \in PromotionTypes
is_ep(m)        == m.type = TYPE_EP
is_castling(m)  == m.type = TYPE_CASTLING
is_normal(m)    == m.type = TYPE_NORMAL
is_quiet(m)     == ~is_promotion(m) /\ m.attacked = EMPTY

=============================================================================
