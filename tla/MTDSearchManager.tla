-------------------------- MODULE MTDSearchManager --------------------------
(***************************************************************************)
(* The bounds bookkeeping of the MTD driver (src/src/search/mtd.cpp):      *)
(* BetaGenerator proposes the next null-window bound from the interval     *)
(* [lower, upper] proved so far at the current depth, MTDSearchManager     *)
(* sequences the depths and decides when a depth has converged.            *)
(*                                                                         *)
(* Both objects are values here: a generator is a record                   *)
(*   [lower, upper, trend, multiplier, last]                               *)
(* and a manager a record [depth, initial, gen, betas]; each method is an  *)
(* operator from the old object to the new one.  BETAS_COUNT is 1, as in   *)
(* every instance the program makes, so genBetas() is a single formula.    *)
(***************************************************************************)
EXTENDS Scores, Sequences

CONSTANTS
  TrustWindow,         \* TRUST_WINDOW_BEST_MOVE, 8
  StepWindow,          \* TRUST_WINDOW_MTD_STEP, 8: the generator's interval
  MaxTrendMultiplier   \* MAX_TREND_MULTIPLIER, 1000000

ASSUME WindowAssumption ==
  /\ TrustWindow \in Nat \ {0}
  /\ TrustWindow < MaxMate
  /\ StepWindow \in Nat \ {0}
  /\ MaxTrendMultiplier \in Nat \ {0}

-----------------------------------------------------------------------------
(* BetaGenerator *)

GeneratorType ==
  [lower : Int, upper : Int, trend : {"INIT", "UP", "DOWN"},
   multiplier : Nat \ {0}, last : Int]

NewBetaGenerator(initial_val) ==
  [lower |-> ScoreMin, upper |-> ScoreMax,
   trend |-> "INIT", multiplier |-> 1, last |-> initial_val]

(* A move of a bound in the direction of the last one doubles the step.    *)
NextMultiplier(g, direction) ==
  IF g.trend # direction THEN 1
  ELSE IF g.multiplier < MaxTrendMultiplier THEN 2 * g.multiplier
  ELSE g.multiplier

DecreaseUpper(g, val) ==
  IF val < g.upper
  THEN [g EXCEPT !.upper = val, !.trend = "DOWN",
                 !.multiplier = NextMultiplier(g, "DOWN")]
  ELSE g

IncreaseLower(g, val) ==
  IF val > g.lower
  THEN [g EXCEPT !.lower = val, !.trend = "UP",
                 !.multiplier = NextMultiplier(g, "UP")]
  ELSE g

AbsDiff(a, b) == IF a < b THEN b - a ELSE a - b

(* The middle rounded one too low.                                         *)
GenBetaLow(g) ==
  IF g.lower # ScoreMin /\ g.upper # ScoreMax
  THEN g.lower + (AbsDiff(g.upper, g.lower) \div 2) - 1
  ELSE IF g.lower = ScoreMin /\ g.upper = ScoreMax THEN g.last
  ELSE IF g.lower # ScoreMin THEN g.lower + StepWindow * g.multiplier
  ELSE g.upper - StepWindow * g.multiplier

(* The beta for the interval: its middle when both ends are known, the     *)
(* seed value when none is, a growing step away from the known end         *)
(* otherwise.                                                              *)
GenBeta(g) ==
  IF g.lower # ScoreMin /\ g.upper # ScoreMax
  THEN LET win == AbsDiff(g.upper, g.lower) \div 2
       IN  IF win <= 0 THEN g.upper ELSE g.lower + win
  ELSE IF g.lower = ScoreMin /\ g.upper = ScoreMax THEN g.last
  ELSE IF g.lower # ScoreMin THEN g.lower + StepWindow * g.multiplier
  ELSE g.upper - StepWindow * g.multiplier

GenBetas(g) == <<GenBeta(g)>>

-----------------------------------------------------------------------------
(* MTDSearchManager *)

ManagerType ==
  [depth : Nat, initial : Int, gen : GeneratorType, betas : Seq(Int)]

InitBetas(m) ==
  LET seed == IF m.gen.lower = ScoreMin THEN m.initial ELSE m.gen.lower
      g    == NewBetaGenerator(seed)
  IN  [m EXCEPT !.gen = g, !.betas = GenBetas(g)]

UpdateBetas(m) == [m EXCEPT !.betas = GenBetas(m.gen)]

NewManager(start_depth, initial_value) ==
  InitBetas([depth |-> start_depth, initial |-> initial_value,
             gen |-> NewBetaGenerator(initial_value), betas |-> <<>>])

(* nextBeta() pops the head of the queue, refilling an exhausted queue     *)
(* first.                                                                  *)
Refilled(m) == IF m.betas = <<>> THEN UpdateBetas(m) ELSE m
NextBeta(m) == Head(Refilled(m).betas)
PopBeta(m)  == [Refilled(m) EXCEPT !.betas = Tail(@)]

(* A depth is over when the interval is no wider than the trust window or  *)
(* when one of its ends is a mate score.                                   *)
IsLast(g) ==
  \/ g.lower + TrustWindow >= g.upper
  \/ /\ g.lower >= MateThreshold
     /\ IsMateScore(g.lower)
     /\ g.upper - g.lower < MateThreshold
  \/ /\ g.upper <= -MateThreshold
     /\ IsMateScore(g.upper)
     /\ g.upper - g.lower < MateThreshold

FinishDepth(m) == [m EXCEPT !.depth = @ + 1]

(* A converged depth is searched again.                                    *)
SettleSameDepth(m) == IF IsLast(m.gen) THEN InitBetas(m) ELSE UpdateBetas(m)

(* Common tail of the two bound updates.                                   *)
Settle(m) == IF IsLast(m.gen) THEN InitBetas(FinishDepth(m)) ELSE UpdateBetas(m)

IncreaseLowerBound(m, eval) ==
  Settle(IF eval >= m.gen.lower
         THEN [m EXCEPT !.gen = IncreaseLower(@, eval)] ELSE m)

DecreaseUpperBound(m, eval) ==
  Settle(IF eval <= m.gen.upper
         THEN [m EXCEPT !.gen = DecreaseUpper(@, eval)] ELSE m)
=============================================================================
