------------------------------- MODULE Material -------------------------------
(***************************************************************************)
(* The material key (material_util.h): the pieces of both sides counted in *)
(* one 32-bit word, QQQRRRBBBNNNPPPP for White in the low half and for     *)
(* Black in the high half.  A field has no guard, so a count that outgrows *)
(* it carries into the next one, and out of White's half into Black's.     *)
(* The word is kept as the pair of its halves, which is what TLC's         *)
(* integers can hold.                                                      *)
(***************************************************************************)
EXTENDS Bitboards

HALF == 65536

\* VALUES[color][piece], as a value of the side's half
VALUES == [p \in PAWN..QUEEN |->
             CASE p = PAWN -> 1 [] p = NIGHT -> 16 [] p = BISHOP -> 128
               [] p = ROOK -> 1024 [] OTHER -> 8192]

MaterialKeys == [low : 0..(HALF - 1), high : 0..(HALF - 1)]

NO_MATERIAL == [low |-> 0, high |-> 0]

\* materialKey += n * VALUES[color][piece], modulo 2^32
AddMaterial(key, color, piece, n) ==
  LET delta == n * VALUES[piece]
      low == IF color = WHITE THEN key.low + delta ELSE key.low
      high == key.high + (IF color = BLACK THEN delta ELSE 0) + (low \div HALF)
  IN [low |-> low % HALF, high |-> high % HALF]

HalfOf(key, color) == IF color = WHITE THEN key.low ELSE key.high

\* MASK_SLIDING: any bit of the bishops, rooks and queens
has_sliding_pieces(key, color) == HalfOf(key, color) \div VALUES[BISHOP] # 0

\* get_major_pieces() # 0: any bit but those of the pawns (MASK_MINOR_MAJOR)
has_major_pieces(key, color) == HalfOf(key, color) \div VALUES[NIGHT] # 0

\* PHASE, the weight of a piece in the material factor
PHASE == [p \in EMPTY..KING |->
            CASE p \in {NIGHT, BISHOP} -> 3 [] p = ROOK -> 5 [] p = QUEEN -> 9
              [] OTHER -> 0]

=============================================================================
