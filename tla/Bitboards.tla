------------------------------ MODULE Bitboards ------------------------------
(***************************************************************************)
(* The squares, the bitboards and the attack tables of src/board.          *)
(*                                                                         *)
(* Squares are numbered as in types.h: H1 = 0, A1 = 7, ..., A8 = 63.  A    *)
(* bitboard is the set of the squares whose bit is set, so & is \cap, | is *)
(* \cup, a & ~b is a \ b, and ^ is the symmetric difference (+) below.      *)
(***************************************************************************)
EXTENDS Integers, FiniteSets

Squares == 0..63
Colors  == {0, 1}
WHITE   == 0
BLACK   == 1

\* piece codes; a square without a piece holds EMPTY
EMPTY  == 0
PAWN   == 1
NIGHT  == 2
BISHOP == 3
ROOK   == 4
QUEEN  == 5
KING   == 6
PieceTypes == PAWN..KING

Opponent(c) == 1 - c

\* COLOR_FACTOR_8: one rank forward for the side
Forward(c) == IF c = WHITE THEN 8 ELSE -8

FileOf(s) == s % 8
RankOf(s) == s \div 8
Rank(n) == {s \in Squares : RankOf(s) = n - 1}

a (+) b == (a \ b) \cup (b \ a)

Least(bb) == CHOOSE s \in bb : \A t \in bb : s <= t   \* trailing_zeros

-----------------------------------------------------------------------------
(***************************************************************************)
(* Jumping pieces (static_moves.h): a move is recognised by the difference *)
(* of the ranks and of the square numbers.                                 *)
(***************************************************************************)
IsKnightMove(from, to) ==
  LET dr == RankOf(from) - RankOf(to)
  IN \/ dr =  1 /\ from - to \in {6, 10}
     \/ dr = -1 /\ to - from \in {6, 10}
     \/ dr =  2 /\ from - to \in {15, 17}
     \/ dr = -2 /\ to - from \in {15, 17}

IsKingMove(from, to) ==
  LET dr == RankOf(from) - RankOf(to)
  IN \/ dr =  0 /\ from - to \in {-1, 1}
     \/ dr =  1 /\ from - to \in 7..9
     \/ dr = -1 /\ to - from \in 7..9

KNIGHT_MOVES == [s \in Squares |-> {t \in Squares : IsKnightMove(s, t)}]
KING_MOVES   == [s \in Squares |-> {t \in Squares : IsKingMove(s, t)}]

\* the squares a pawn of colour c on s attacks; the file test cuts the
\* attacks that would run over the edge
PAWN_ATTACKS ==
  [c \in Colors |-> [s \in Squares |->
     {t \in Squares :
        IF c = WHITE
        THEN \/ t = s + 7 /\ FileOf(t) # 7
             \/ t = s + 9 /\ FileOf(t) # 0
        ELSE \/ t = s - 7 /\ FileOf(t) # 0
             \/ t = s - 9 /\ FileOf(t) # 7}]]

-----------------------------------------------------------------------------
(***************************************************************************)
(* Lines (chess_constants.cpp).                                            *)
(***************************************************************************)
\* the step from the lower to the higher of two squares of one line, 0 when
\* they share no line
LineStep(a, b) ==
  LET lo == IF a < b THEN a ELSE b
      hi == IF a < b THEN b ELSE a
  IN IF a = b THEN 0
     ELSE IF RankOf(lo) = RankOf(hi) THEN 1
     ELSE IF FileOf(lo) = FileOf(hi) THEN 8
     ELSE IF (hi - lo) % 9 = 0 /\ FileOf(hi) > FileOf(lo) THEN 9
     ELSE IF (hi - lo) % 7 = 0 /\ FileOf(hi) < FileOf(lo) THEN 7
     ELSE 0

LINE_STEP == [a \in Squares |-> [b \in Squares |-> LineStep(a, b)]]

\* the squares strictly between two squares of one line
IN_BETWEEN ==
  [a \in Squares |-> [b \in Squares |->
     LET lo == IF a < b THEN a ELSE b
         hi == IF a < b THEN b ELSE a
         step == LINE_STEP[a][b]
     IN IF step = 0 THEN {}
        ELSE {s \in (lo + 1)..(hi - 1) : (s - lo) % step = 0}]]

\* the ray that leaves the king's square towards the pinned piece, to the edge
PINNED_MOVEMENT ==
  [pinned \in Squares |-> [king \in Squares |->
     IF LINE_STEP[king][pinned] = 0 THEN {}
     ELSE IN_BETWEEN[king][pinned] \cup {pinned}
            \cup {s \in Squares : pinned \in IN_BETWEEN[king][s]}]]

-----------------------------------------------------------------------------
(***************************************************************************)
(* Sliding pieces.  The magic lookups (magic.h) return the squares a rook  *)
(* or a bishop reaches given the occupancy, the first piece in each        *)
(* direction included; how the tables are filled and hashed is left out.   *)
(***************************************************************************)
rook_moves_empty   == [s \in Squares |-> {t \in Squares : LINE_STEP[s][t] \in {1, 8}}]
bishop_moves_empty == [s \in Squares |-> {t \in Squares : LINE_STEP[s][t] \in {7, 9}}]
queen_moves_empty  == [s \in Squares |-> rook_moves_empty[s] \cup bishop_moves_empty[s]]

Unblocked(from, reach, occupied) ==
  {t \in reach : IN_BETWEEN[from][t] \cap occupied = {}}

rook_moves(from, occupied)   == Unblocked(from, rook_moves_empty[from], occupied)
bishop_moves(from, occupied) == Unblocked(from, bishop_moves_empty[from], occupied)
queen_moves(from, occupied)  == rook_moves(from, occupied) \cup bishop_moves(from, occupied)

-----------------------------------------------------------------------------
(***************************************************************************)
(* Attack queries (check_util.h).  `enemy' is the array of the bitboards   *)
(* of the attacking side, `color' the side of the king on `sq'.            *)
(***************************************************************************)
Attackers(sq, color, enemy, occupied) ==
  (enemy[NIGHT] \cap KNIGHT_MOVES[sq])
  \cup ((enemy[ROOK] \cup enemy[QUEEN]) \cap rook_moves(sq, occupied))
  \cup ((enemy[BISHOP] \cup enemy[QUEEN]) \cap bishop_moves(sq, occupied))
  \cup (enemy[PAWN] \cap PAWN_ATTACKS[color][sq])

is_in_check_super(sq, color, enemy, occupied) ==
  Attackers(sq, color, enemy, occupied) # {}

\* `major' is false when the material key says that the enemy has only pawns
is_in_check_including_king(sq, color, enemy, occupied, major) ==
  \/ enemy[KING] \cap KING_MOVES[sq] # {}
  \/ IF major THEN is_in_check_super(sq, color, enemy, occupied)
              ELSE enemy[PAWN] \cap PAWN_ATTACKS[color][sq] # {}

=============================================================================
