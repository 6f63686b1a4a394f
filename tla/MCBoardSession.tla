---------------------------- MODULE MCBoardSession ----------------------------
(***************************************************************************)
(* The roots of the runs: few pieces each, placed so that within a few     *)
(* plies the moves come up that are hard to keep the board right through.  *)
(***************************************************************************)
EXTENDS BoardSession, StaticExchange
LOCAL INSTANCE FiniteSetsExt

\* squares by file (a = 7, ..., h = 0) and rank
At(file, rank) == 8 * (rank - 1) + file
a == 7  b == 6  c == 5  d == 4  e == 3  f == 2  g == 1  h == 0

\* men: a set of <<colour, piece, file, rank>>
Fen(men, side, rights, ep) ==
  [pieces |-> [col \in Colors |-> [p \in PieceTypes |->
                 {At(x[3], x[4]) : x \in {y \in men : y[1] = col /\ y[2] = p}}]],
   colorToMove |-> side, castlingRights |-> rights, epIndex |-> ep, halfmoves |-> 0]

KeySlot(key) == SumSet(key) % Capacity

W(piece, file, rank) == <<WHITE, piece, file, rank>>
B(piece, file, rank) == <<BLACK, piece, file, rank>>

\* castling both ways past an attacked square, rights lost to captures, and a
\* double step that no pawn stands beside
Castle == Fen({W(KING, e, 1), W(ROOK, a, 1), W(ROOK, h, 1), W(PAWN, b, 7), W(PAWN, h, 2),
               B(KING, e, 8), B(ROOK, a, 8), B(BISHOP, a, 6)}, WHITE, {8, 4, 1}, 0)

\* en passant along a rank with the king and a rook on it
EnPassantWhite == Fen({W(KING, a, 5), W(PAWN, b, 5), W(ROOK, b, 4), W(PAWN, e, 2), W(PAWN, g, 2),
                       B(KING, h, 4), B(PAWN, c, 7), B(PAWN, d, 6), B(ROOK, h, 5), B(PAWN, f, 4)},
                      WHITE, {}, 0)
EnPassantBlack == [EnPassantWhite EXCEPT !.colorToMove = BLACK]
EnPassantCheck == Fen({W(KING, f, 4), W(PAWN, d, 5), W(PAWN, f, 5),
                       B(KING, e, 1), B(PAWN, e, 5), B(BISHOP, h, 3), B(ROOK, d, 8)},
                      WHITE, {}, At(e, 6))
EnPassantDiscovers == Fen({W(KING, g, 1), W(PAWN, d, 5), W(BISHOP, b, 2),
                           B(KING, g, 7), B(PAWN, e, 5)}, WHITE, {}, At(e, 6))

\* Chess960: king and rook change places, share squares, or stay
NineSixtyA == Fen({W(KING, f, 1), W(ROOK, h, 1), W(ROOK, b, 1),
                   B(KING, g, 8), B(ROOK, h, 8)}, WHITE, {8, 4, 2}, 0)
NineSixtyB == Fen({W(KING, e, 1), W(ROOK, g, 1), W(ROOK, d, 1),
                   B(KING, f, 8), B(ROOK, g, 8)}, BLACK, {8, 4, 2}, 0)
NineSixtyC == Fen({W(KING, c, 1), W(ROOK, b, 1), B(ROOK, a, 1), B(KING, h, 8)}, WHITE, {4}, 0)

\* a pinned knight and pawn, two ways to discover a check, a capture that promotes
Pins == Fen({W(KING, h, 1), W(ROOK, d, 1), W(BISHOP, d, 3), W(NIGHT, g, 2), W(PAWN, a, 7),
             B(KING, d, 8), B(BISHOP, b, 7), B(ROOK, b, 8)}, WHITE, {}, 0)

\* checks to be blocked, captured or fled from, by a slider, a knight and two pieces
SliderCheck == Fen({W(KING, e, 1), W(ROOK, a, 4), W(PAWN, d, 2), W(QUEEN, h, 4),
                    B(KING, g, 8), B(ROOK, e, 8), B(BISHOP, a, 5)}, WHITE, {}, 0)
KnightCheck == Fen({W(KING, e, 1), W(PAWN, c, 2), W(BISHOP, e, 2), W(ROOK, d, 6),
                    B(KING, g, 8), B(QUEEN, e, 7), B(NIGHT, d, 3)}, WHITE, {}, 0)
DoubleCheck == Fen({W(KING, e, 1), W(QUEEN, a, 3), B(KING, g, 8), B(ROOK, e, 8), B(NIGHT, f, 3)},
                   WHITE, {}, 0)

PromotionCheck == Fen({W(KING, g, 8), W(PAWN, c, 7), W(PAWN, b, 7), B(KING, h, 6), B(ROOK, a, 8)},
                      WHITE, {}, 0)

\* a square where a knight may be taken by a pawn, a queen and the rook behind it,
\* and the taker by a bishop and the queen behind it, once the pawn is gone
XRays == Fen({W(KING, h, 1), W(PAWN, d, 4), W(QUEEN, e, 2), W(ROOK, e, 1),
              B(KING, a, 8), B(NIGHT, c, 6), B(BISHOP, c, 3), B(QUEEN, b, 2)}, BLACK, {}, 0)

\* an en passant capture on the file of a rook, on a square that a pawn guards
EnPassantFile == Fen({W(KING, a, 1), W(PAWN, d, 5), W(ROOK, e, 1),
                      B(KING, h, 8), B(PAWN, e, 5), B(PAWN, f, 7)}, WHITE, {}, At(e, 6))

Roots960 == {NineSixtyA, NineSixtyB, NineSixtyC}
RootFens == {Castle, EnPassantWhite, EnPassantBlack, EnPassantCheck,
             EnPassantDiscovers, EnPassantFile, Pins, SliderCheck,
             KnightCheck, DoubleCheck, PromotionCheck, XRays} \cup Roots960

\* seven queens and a pawn that becomes the eighth
QueensFens ==
  {Fen({W(QUEEN, x, 1) : x \in g..b}
         \cup {W(KING, a, 2), W(QUEEN, c, 2), W(PAWN, b, 7), B(KING, h, 8)}, WHITE, {}, 0)}

\* What getSeeCaptureScore() says of a legal move is what comes of it when the two
\* sides take in turn on its square, always with the piece that they risk least
\* and no longer than it pays, through the x-rays that open and close as pieces
\* leave.  It leaves the pawn that is taken en passant on the board and so misses
\* a rook or a queen behind it: such captures are excepted.
ExchangesByLeastValue ==
  LET pos == PositionOf(cb)
  IN \A m \in LegalMoves(cb) : BehindTaken(pos, m) \/ getSeeCaptureScore(cb, m) \in ExchangesOf(pos, m)

=============================================================================
