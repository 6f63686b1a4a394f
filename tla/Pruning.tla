------------------------------ MODULE Pruning -------------------------------
(***************************************************************************)
(* The margins, reductions and gates of Searcher::search() and             *)
(* singular_move_search() (src/src/search/search.cpp) as formulas over one *)
(* node, in centipawns and plies.                                          *)
(*                                                                         *)
(* A node is a record with the fields depth (after the internal iterative  *)
(* reduction), alpha, beta, pv, cut, ev (the static evaluation), improving *)
(* and declining (not improving for two turns), checked (the side to move  *)
(* is in check), pieces (a side has more than pawns), threat (the null     *)
(* move met a mate) and played (the moves played so far).                  *)
(***************************************************************************)
EXTENDS Scores

Least(a, b) == IF a <= b THEN a ELSE b
Most(a, b) == IF a >= b THEN a ELSE b

(* The division of C++ on integers, toward zero.                           *)
Quotient(a, b) == IF a >= 0 THEN a \div b ELSE -((-a) \div b)

OrdinaryWindow(n) == ~IsMateScore(n.alpha) /\ ~IsMateScore(n.beta)

(* IIR: a node without a table move is searched a ply shallower.           *)
IterativelyReduced(depth, tt_move) ==
  IF depth >= 2 /\ tt_move = NoMove THEN depth - 1 ELSE depth

-----------------------------------------------------------------------------
(* Cuts before any move is made *)

MayPruneNode(n) == ~n.pv /\ ~n.checked /\ n.pieces /\ OrdinaryWindow(n)

HighEnough(n) == n.ev >= n.beta + 35

StaticNullMargin(n) ==
  ((n.depth * 80 - (IF n.improving THEN 70 ELSE 0)) * 3) \div 4

StaticNullCut(n) ==
  /\ MayPruneNode(n) /\ HighEnough(n)
  /\ n.depth <= 7
  /\ n.ev - StaticNullMargin(n) >= n.beta

StaticNullValue(n) == Quotient(2 * n.beta + n.ev, 3)

TryNullMove(n) ==
  MayPruneNode(n) /\ HighEnough(n) /\ ~StaticNullCut(n) /\ n.depth >= 3

(* The depth of the null-move probe: the reduction is the integer part of  *)
(* 1.555 * (depth/3 + 3 + min(3, (ev - beta)/80)), here in 240000ths.      *)
NullMoveDepth(n) ==
  LET surplus == Least(240, Most(0, n.ev - n.beta))
      raw == 80 * n.depth + 720 + 3 * surplus
  IN  n.depth - (raw * 1555) \div 240000

Razor(n) ==
  /\ MayPruneNode(n)
  /\ n.ev <= n.alpha
  /\ n.depth <= 4
  /\ n.ev + (260 * n.depth * 3) \div 4 < n.alpha

-----------------------------------------------------------------------------
(* The singular test of the table move *)

MaySingular(n, entry, reliable) ==
  /\ n.sme /\ ~n.checked
  /\ n.depth >= 6
  /\ n.ply < MaxPly \div 2
  /\ OrdinaryWindow(n)
  /\ entry.flag \in {"LOWER", "EXACT"}
  /\ ~IsMateScore(entry.score)
  /\ reliable
  /\ entry.depth >= n.depth - 3
  /\ entry.move # NoMove

SingularBeta(n, entry) ==
  entry.score - (IF n.pv THEN (n.depth * n.depth) \div 12 ELSE (126 * n.depth) \div 55)

SingularDepth(n) == Most(1, (n.depth - 1) \div 2)

SingularQuietLimit(depth) == 1 + depth \div 2

-----------------------------------------------------------------------------
(* Moves left out of a node, and moves searched less deeply *)

MayPruneMoves(n) ==
  ~n.pv /\ ~n.checked /\ ~n.threat /\ n.pieces /\ n.played >= 1 /\ OrdinaryWindow(n)

LateMoveCount(n) ==
  ((3 + (n.depth * n.depth) \div (IF n.improving THEN 1 ELSE 2)) * 3) \div 4

LoseThreshold(n) == -((80 * n.depth * 3) \div 4)

(* Late move pruning, futility and the static exchange, for quiet moves.   *)
SkipQuiet(n, see) ==
  /\ MayPruneMoves(n)
  /\ \/ n.played >= LateMoveCount(n)
     \/ n.depth <= 7 /\ n.ev + (n.depth * 80 * 3) \div 4 <= n.alpha
     \/ n.played >= 3 /\ n.depth <= 7 /\ see < LoseThreshold(n)

SkipBadCapture(n, see) ==
  MayPruneMoves(n) /\ n.depth <= 7 /\ see < LoseThreshold(n)

MayReduce(n, quiet, new_depth, extension) ==
  /\ quiet /\ new_depth >= 2 /\ n.played >= 1
  /\ ~n.checked /\ extension = 0 /\ ~n.threat

(* Natural logarithms in thousandths; the table of reductions ends at 63.  *)
Ln == <<0, 693, 1099, 1386, 1609, 1792, 1946, 2079, 2197, 2303, 2398, 2485, 2565, 2639, 2708, 2773,
        2833, 2890, 2944, 2996, 3045, 3091, 3135, 3178, 3219, 3258, 3296, 3332, 3367, 3401, 3434, 3466,
        3497, 3526, 3555, 3584, 3611, 3638, 3664, 3689, 3714, 3738, 3761, 3784, 3807, 3829, 3850, 3871,
        3892, 3912, 3932, 3951, 3970, 3989, 4007, 4025, 4043, 4060, 4078, 4094, 4111, 4127, 4143>>

LMRTable(depth, played) ==
  (Most(1000, (Ln[Least(63, depth)] * Ln[Least(63, played)]) \div 2000) * 1555) \div 1000

(* LMR; the two histories move the table's entry by at most one either way.*)
Reductions(n, new_depth) ==
  LET base == LMRTable(new_depth, n.played) + (IF n.pv THEN 0 ELSE 1000) + (IF n.cut THEN 1000 ELSE 0)
                   - (IF n.improving THEN 1000 ELSE 0) + (IF n.declining THEN 1000 ELSE 0)
      Clamped(r) == Least(new_depth - 1, Most(1, r))
  IN  {r \in 1 .. new_depth - 1 : \E history \in {-1000, 0, 1000} : r = Clamped((base + history) \div 1000)}
=============================================================================
