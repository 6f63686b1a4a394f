------------------------------ MODULE ChessRules ------------------------------
(***************************************************************************)
(* The laws of chess, as the reference that the board is checked against.  *)
(* Nothing here is translated from the code: pieces move by steps of files *)
(* and ranks, and a move is legal when the king is safe after it.          *)
(*                                                                         *)
(* A position `pos' holds                                                  *)
(*   at      the piece <<colour, type>> on every occupied square           *)
(*   side    the side to move                                              *)
(*   rights  the castling rights, and `home' the squares they start from   *)
(*   ep      the square behind a pawn that an enemy pawn may take en       *)
(*           passant, 0 when there is none                                 *)
(*   clock   the plies since the last capture or pawn move                 *)
(***************************************************************************)
EXTENDS MoveUtil

On(pos, s) == s \in DOMAIN pos.at
Piece(pos, s) == pos.at[s][2]
Owns(pos, c, s) == On(pos, s) /\ pos.at[s][1] = c
KingSquare(pos, c) == CHOOSE s \in DOMAIN pos.at : pos.at[s] = <<c, KING>>

\* n steps of d = <<files, ranks>> from s; -1 off the board
Target(s, d, n) ==
  LET f == FileOf(s) + n * d[1]
      r == RankOf(s) + n * d[2]
  IN IF f \in 0..7 /\ r \in 0..7 THEN 8 * r + f ELSE -1

Straight == {<<1, 0>>, <<-1, 0>>, <<0, 1>>, <<0, -1>>}
Diagonal == {<<1, 1>>, <<1, -1>>, <<-1, 1>>, <<-1, -1>>}
Jumps    == {j \in {-2, -1, 1, 2} \X {-2, -1, 1, 2} : j[1] * j[1] # j[2] * j[2]}
Up(c)    == IF c = WHITE THEN 1 ELSE -1

\* the squares that a piece steps or jumps to once, and those it slides to
Steps(s, ds) == {Target(s, d, 1) : d \in ds} \ {-1}
Slides(occupied, s, ds) ==
  UNION {LET path == [n \in 1..7 |-> Target(s, d, n)]
         IN {path[n] : n \in {k \in 1..7 : path[k] # -1 /\ \A j \in 1..(k - 1) : path[j] \notin occupied}}
         : d \in ds}

Reached(c, p, s, occupied) ==
  CASE p = PAWN   -> Steps(s, {<<1, Up(c)>>, <<-1, Up(c)>>})
    [] p = NIGHT  -> Steps(s, Jumps)
    [] p = BISHOP -> Slides(occupied, s, Diagonal)
    [] p = ROOK   -> Slides(occupied, s, Straight)
    [] p = QUEEN  -> Slides(occupied, s, Straight \cup Diagonal)
    [] p = KING   -> Steps(s, Straight \cup Diagonal)

Attacking(at, c, t) ==
  {s \in DOMAIN at : at[s][1] = c /\ t \in Reached(c, at[s][2], s, DOMAIN at)}

Checkers(pos, c) == Attacking(pos.at, Opponent(c), KingSquare(pos, c))

-----------------------------------------------------------------------------
LastRank(c)   == IF c = WHITE THEN 7 ELSE 0
SecondRank(c) == IF c = WHITE THEN 1 ELSE 6

PawnTargets(pos, s) ==
  LET c == pos.side
      one == Target(s, <<0, Up(c)>>, 1)
      two == Target(s, <<0, Up(c)>>, 2)
      pushes == IF one = -1 \/ On(pos, one) THEN {}
                ELSE {one} \cup {t \in {two} : RankOf(s) = SecondRank(c) /\ ~On(pos, t)}
      takes == {t \in Reached(c, PAWN, s, {}) : Owns(pos, Opponent(c), t)}
  IN pushes \cup takes

PieceMoves(pos, s) ==
  LET p == Piece(pos, s)
      reach == IF p = PAWN THEN PawnTargets(pos, s)
               ELSE {t \in Reached(pos.side, p, s, DOMAIN pos.at) : ~Owns(pos, pos.side, t)}
      types(t) == IF p = PAWN /\ RankOf(t) = LastRank(pos.side) THEN PromotionTypes ELSE {TYPE_NORMAL}
      taken(t) == IF On(pos, t) THEN Piece(pos, t) ELSE EMPTY
  IN (UNION {{[from |-> s, to |-> t, source |-> p, attacked |-> taken(t), type |-> ty] :
                ty \in types(t)} : t \in reach})
     \cup {create_ep(s, t) : t \in {x \in {pos.ep} : /\ x # 0 /\ p = PAWN
                                                     /\ x \in Reached(pos.side, PAWN, s, {})}}

KingTo(r) == IF r \in {8, 2} THEN 1 + (IF r = 2 THEN 56 ELSE 0) ELSE 5 + (IF r = 1 THEN 56 ELSE 0)
RookTo(r) == IF r \in {8, 2} THEN KingTo(r) + 1 ELSE KingTo(r) - 1
Owner(r)  == IF r \in {8, 4} THEN WHITE ELSE BLACK
Span(a, b) == IF a < b THEN a..b ELSE b..a

\* pos.at after a move
After(pos, m) ==
  LET c == pos.side
      castled == CHOOSE r \in {8, 4, 2, 1} : KingTo(r) = m.to
      left == CASE is_castling(m) -> {m.from, pos.home.rook[castled]}
                [] is_ep(m)       -> {m.from, Target(m.to, <<0, -Up(c)>>, 1)}
                [] OTHER          -> {m.from}
      put(s) == IF is_castling(m) /\ s = RookTo(castled) THEN <<c, ROOK>>
                ELSE <<c, IF is_promotion(m) THEN m.type ELSE m.source>>
      filled == {m.to} \cup (IF is_castling(m) THEN {RookTo(castled)} ELSE {})
  IN [s \in (DOMAIN pos.at \ left) \cup filled |-> IF s \in filled THEN put(s) ELSE pos.at[s]]

\* The squares between and at the ends of the king's and of the rook's way are
\* empty but for the two, and no square that the king stands on, crosses or
\* reaches is attacked.
MayCastle(pos, r) ==
  LET king == pos.home.king[Owner(r)]
      rook == pos.home.rook[r]
      others == DOMAIN pos.at \ {king, rook}
      lifted == [s \in DOMAIN pos.at \ {king} |-> pos.at[s]]
  IN /\ r \in pos.rights /\ Owner(r) = pos.side
     /\ (Span(king, KingTo(r)) \cup Span(rook, RookTo(r))) \cap others = {}
     /\ \A s \in Span(king, KingTo(r)) : Attacking(lifted, Opponent(pos.side), s) = {}

Castlings(pos) ==
  {create_castling(pos.home.king[pos.side], KingTo(r)) : r \in {q \in {8, 4, 2, 1} : MayCastle(pos, q)}}

PseudoLegal(pos) ==
  (UNION {PieceMoves(pos, s) : s \in {q \in DOMAIN pos.at : Owns(pos, pos.side, q)}}) \cup Castlings(pos)

\* a move that leaves the own king attacked is illegal
Legal(pos) ==
  {m \in PseudoLegal(pos) : Checkers([pos EXCEPT !.at = After(pos, m)], pos.side) = {}}

-----------------------------------------------------------------------------
\* a right lasts as long as its king and its rook have not been moved or taken
RightsLeft(pos, m) ==
  {r \in pos.rights : {m.from, m.to} \cap {pos.home.king[Owner(r)], pos.home.rook[r]} = {}}

\* a double step lets an enemy pawn that stands beside it take en passant
EpSquare(pos, m) ==
  LET c == pos.side
      behind == Target(m.to, <<0, -Up(c)>>, 1)
      beside == Steps(m.to, {<<1, 0>>, <<-1, 0>>})
  IN IF /\ m.source = PAWN /\ (m.from - m.to) \in {16, -16}
        /\ \E s \in beside : Owns(pos, Opponent(c), s) /\ Piece(pos, s) = PAWN
     THEN behind ELSE 0

Played(pos, m) ==
  [pos EXCEPT !.at = After(pos, m), !.side = Opponent(@), !.rights = RightsLeft(pos, m),
              !.ep = EpSquare(pos, m),
              !.clock = IF m.source = PAWN \/ m.attacked # EMPTY THEN 0 ELSE @ + 1]

\* the null move of the search
NullMoved(pos) == [pos EXCEPT !.side = Opponent(@), !.ep = 0]

=============================================================================
