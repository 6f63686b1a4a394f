------------------------------- MODULE UciMove -------------------------------
(***************************************************************************)
(* Moves on the wire (uci_move.cpp).  The text of a move is the record of  *)
(* its two squares and its promotion piece, EMPTY for none; with `frc' the *)
(* text of a castling move has the rook's square as its target.            *)
(***************************************************************************)
EXTENDS MoveGenerator

rook_from_for_king_target(cfg, to) == IF to \in Targets THEN cfg.rook[RightOfTarget(to)] ELSE to

move_to_uci(m, cfg, frc) ==
  [from |-> m.from,
   to |-> IF frc /\ is_castling(m) THEN rook_from_for_king_target(cfg, m.to) ELSE m.to,
   promo |-> IF is_promotion(m) THEN m.type ELSE EMPTY]

\* Does the text name the move?  A castling move goes by either target.
Names(b, text, m, frc) ==
  /\ m.from = text.from
  /\ \/ m.to = text.to
     \/ /\ frc /\ is_castling(m)
        /\ rook_from_for_king_target(b.castlingConfig, m.to) = text.to
  /\ text.promo = IF is_promotion(m) THEN m.type ELSE EMPTY

\* wrong: castling moves are listed first
ListedBeforeCastlingFirst(m, n) ==
  IF is_castling(m) THEN is_castling(n) => m.to < n.to
  ELSE ~is_castling(n) /\ m.attacked = EMPTY /\ n.attacked # EMPTY

\* The generator lists the king's steps, then the castling moves by their
\* target, then the captures.
ListedBefore(m, n) ==
  \/ m.attacked = EMPTY /\ n.attacked # EMPTY
  \/ m.attacked = n.attacked /\ ~is_castling(m) /\ is_castling(n)
  \/ is_castling(m) /\ is_castling(n) /\ m.to < n.to

\* the first legal move in the list that the text names, NO_MOVE when none is
uci_to_move(b, text, frc) ==
  LET named == {m \in LegalMoves(b) : Names(b, text, m, frc)}
  IN IF named = {} THEN NO_MOVE
     ELSE CHOOSE m \in named : ~\E n \in named : ListedBefore(n, m)

=============================================================================
