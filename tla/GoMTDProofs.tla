---------------------------- MODULE GoMTDProofs -----------------------------
(***************************************************************************)
(* Proofs about the MTD driver, for every score scale, trust window, step, *)
(* move set and depth limit.                                               *)
(***************************************************************************)
EXTENDS GoMTD, TLAPS

USE ScoreAssumption, WindowAssumption, GoMTDAssumption

-----------------------------------------------------------------------------
(* An interval the driver may probe: not converged, and with each end      *)
(* either unknown or a score a probe can have proved.                      *)
OpenGenerator(g) ==
  /\ g \in GeneratorType
  /\ ~IsLast(g)
  /\ g.lower = ScoreMin \/ g.lower >= MatedIn(1) + 1
  /\ g.upper = ScoreMax \/ g.upper <= MateIn(2) - 1

(* A manager waiting for nextBeta().                                       *)
ReadyManager(m) ==
  /\ m \in ManagerType
  /\ OpenGenerator(m.gen)
  /\ m.betas = GenBetas(m.gen)

LEMMA ProductPositive ==
  \A a, b \in Nat \ {0} : a * b \in Nat \ {0}
  OBVIOUS

(* The proved interval of an open generator is wide and free of mates.     *)
LEMMA OpenBounds ==
  ASSUME NEW g, OpenGenerator(g)
  PROVE  /\ g.lower + TrustWindow < g.upper
         /\ g.lower <= MateThreshold
         /\ g.upper >= -MateThreshold
<1>1. g.lower \in Int /\ g.upper \in Int
  BY DEF OpenGenerator, GeneratorType
<1>2. g.lower + TrustWindow < g.upper
  BY <1>1 DEF OpenGenerator, IsLast
<1>3. g.lower <= MateThreshold
  BY <1>1, <1>2 DEF OpenGenerator, IsLast, IsMateScore, MateThreshold,
     ScoreMin, ScoreMax, MateIn, MatedIn
<1>4. g.upper >= -MateThreshold
  BY <1>1, <1>2 DEF OpenGenerator, IsLast, IsMateScore, MateThreshold,
     ScoreMin, ScoreMax, MateIn, MatedIn
<1> QED BY <1>2, <1>3, <1>4

(* The next beta, clamped, is above the lower bound, not above the upper   *)
(* bound, and inside the band mate-distance pruning leaves open.           *)
LEMMA BetaInside ==
  ASSUME NEW g, OpenGenerator(g)
  PROVE  /\ GenBeta(g) \in Int
         /\ g.lower < ClampBeta(GenBeta(g))
         /\ ClampBeta(GenBeta(g)) <= g.upper
         /\ ClampBeta(GenBeta(g)) \in MatedIn(1) + 1 .. MateIn(2)
<1>1. /\ g.lower \in Int /\ g.upper \in Int /\ g.last \in Int
      /\ g.multiplier \in Nat \ {0}
  BY DEF OpenGenerator, GeneratorType
<1>2. /\ g.lower + TrustWindow < g.upper
      /\ g.lower <= MateThreshold
      /\ g.upper >= -MateThreshold
  BY OpenBounds
<1>3. StepWindow * g.multiplier \in Nat \ {0}
  BY <1>1, ProductPositive
<1>4. /\ g.lower = ScoreMin \/ g.lower >= MatedIn(1) + 1
      /\ g.upper = ScoreMax \/ g.upper <= MateIn(2) - 1
  BY DEF OpenGenerator
<1>5. CASE g.lower # ScoreMin /\ g.upper # ScoreMax
  <2> DEFINE win == AbsDiff(g.upper, g.lower) \div 2
  <2>1. win \in Int /\ 0 < win /\ win < g.upper - g.lower
    BY <1>1, <1>2 DEF AbsDiff
  <2>2. GenBeta(g) = g.lower + win
    BY <1>5, <2>1 DEF GenBeta
  <2> HIDE DEF win
  <2> QED BY <1>1, <1>2, <1>4, <1>5, <2>1, <2>2
          DEF ClampBeta, MatedIn, MateIn, ScoreMin, ScoreMax
<1>6. CASE g.lower = ScoreMin /\ g.upper = ScoreMax
  <2>1. GenBeta(g) = g.last
    BY <1>6 DEF GenBeta
  <2> QED BY <1>1, <1>6, <2>1 DEF ClampBeta, MatedIn, MateIn, ScoreMin, ScoreMax
<1>7. CASE g.lower # ScoreMin /\ g.upper = ScoreMax
  <2>1. GenBeta(g) = g.lower + StepWindow * g.multiplier
    BY <1>7, <1>1 DEF GenBeta, ScoreMin, ScoreMax
  <2> QED BY <1>1, <1>2, <1>3, <1>4, <1>7, <2>1
          DEF ClampBeta, MatedIn, MateIn, ScoreMin, ScoreMax, MateThreshold
<1>8. CASE g.lower = ScoreMin /\ g.upper # ScoreMax
  <2>1. GenBeta(g) = g.upper - StepWindow * g.multiplier
    BY <1>8, <1>1 DEF GenBeta, ScoreMin, ScoreMax
  <2> QED BY <1>1, <1>2, <1>3, <1>4, <1>8, <2>1
          DEF ClampBeta, MatedIn, MateIn, ScoreMin, ScoreMax, MateThreshold
<1> QED BY <1>5, <1>6, <1>7, <1>8

(* A fresh generator is open.                                              *)
LEMMA FreshIsOpen ==
  ASSUME NEW v \in Int
  PROVE  OpenGenerator(NewBetaGenerator(v))
  BY DEF OpenGenerator, NewBetaGenerator, GeneratorType, IsLast, MatedIn,
     MateIn, ScoreMin, ScoreMax, MateThreshold, IsMateScore

-----------------------------------------------------------------------------
(* The ends of an interval that probes can have proved.                    *)
ProvableEnds(g) ==
  /\ g.lower = ScoreMin \/ g.lower >= MatedIn(1) + 1
  /\ g.upper = ScoreMax \/ g.upper <= MateIn(2) - 1

LEMMA GenBetaType ==
  ASSUME NEW g \in GeneratorType
  PROVE  GenBeta(g) \in Int
<1>1. StepWindow * g.multiplier \in Int
  BY ProductPositive DEF GeneratorType
<1>2. AbsDiff(g.upper, g.lower) \div 2 \in Int
  BY DEF AbsDiff, GeneratorType
<1> QED BY <1>1, <1>2 DEF GenBeta, GeneratorType

(* initBetas() leaves a ready manager at the same depth.                   *)
LEMMA InitBetasReady ==
  ASSUME NEW m \in ManagerType
  PROVE  /\ ReadyManager(InitBetas(m))
         /\ InitBetas(m).depth = m.depth
<1> DEFINE seed == IF m.gen.lower = ScoreMin THEN m.initial ELSE m.gen.lower
<1> DEFINE g == NewBetaGenerator(seed)
<1>1. seed \in Int
  BY DEF ManagerType, GeneratorType
<1>2. OpenGenerator(g)
  BY <1>1, FreshIsOpen
<1>3. GenBeta(g) \in Int
  BY <1>2, BetaInside
<1>4. InitBetas(m) = [m EXCEPT !.gen = g, !.betas = GenBetas(g)]
  BY DEF InitBetas
<1>5. g \in GeneratorType
  BY <1>2 DEF OpenGenerator
<1> HIDE DEF g
<1>6. GenBetas(g) \in Seq(Int)
  BY <1>3 DEF GenBetas
<1> QED BY <1>2, <1>4, <1>5, <1>6 DEF ReadyManager, ManagerType

(* What follows an update of the bounds: a converged depth is left, any    *)
(* other gets a fresh beta.                                                *)
LEMMA SettleReady ==
  ASSUME NEW m \in ManagerType, ProvableEnds(m.gen)
  PROVE  /\ ReadyManager(Settle(m))
         /\ IsLast(m.gen) => Settle(m).depth = m.depth + 1
         /\ ~IsLast(m.gen) => /\ Settle(m).depth = m.depth
                              /\ Settle(m).gen = m.gen
<1>1. CASE IsLast(m.gen)
  <2>1. /\ FinishDepth(m) \in ManagerType
        /\ FinishDepth(m).depth = m.depth + 1
    <3>1. m.depth + 1 \in Nat
      BY DEF ManagerType
    <3> QED BY <3>1, Zenon DEF FinishDepth, ManagerType
  <2> QED BY <1>1, <2>1, InitBetasReady DEF Settle
<1>2. CASE ~IsLast(m.gen)
  <2>1. m.gen \in GeneratorType
    BY DEF ManagerType
  <2>2. GenBetas(m.gen) \in Seq(Int)
    BY <2>1, GenBetaType DEF GenBetas
  <2>3. Settle(m) = [m EXCEPT !.betas = GenBetas(m.gen)]
    BY <1>2 DEF Settle, UpdateBetas
  <2> QED BY <1>2, <2>1, <2>2, <2>3
          DEF ReadyManager, ManagerType, OpenGenerator, ProvableEnds
<1> QED BY <1>1, <1>2

LEMMA NextMultiplierType ==
  ASSUME NEW g \in GeneratorType, NEW d \in {"UP", "DOWN"}
  PROVE  NextMultiplier(g, d) \in Nat \ {0}
  BY DEF NextMultiplier, GeneratorType

(* A fail-high answer to a probe above the proved lower bound.             *)
LEMMA IncreaseLowerBoundReady ==
  ASSUME NEW m \in ManagerType, OpenGenerator(m.gen),
         NEW b \in Int, m.gen.lower < b, b >= MatedIn(1) + 1,
         NEW e \in RootScores, e >= b
  PROVE  /\ ReadyManager(IncreaseLowerBound(m, e))
         /\ \/ IncreaseLowerBound(m, e).depth = m.depth + 1
            \/ /\ IncreaseLowerBound(m, e).depth = m.depth
               /\ Width(IncreaseLowerBound(m, e)) < Width(m)
         /\ e > MateThreshold
              => IncreaseLowerBound(m, e).depth = m.depth + 1
<1> DEFINE g == IncreaseLower(m.gen, e)
<1> DEFINE n == [m EXCEPT !.gen = g]
<1>1. m.gen \in GeneratorType /\ m.gen.lower \in Int /\ m.gen.upper \in Int
  BY DEF OpenGenerator, GeneratorType
<1>2. e \in Int /\ e > m.gen.lower /\ e >= MatedIn(1) + 1
  BY <1>1 DEF RootScores, MatedIn, MateIn
<1>3. g = [m.gen EXCEPT !.lower = e, !.trend = "UP",
                        !.multiplier = NextMultiplier(m.gen, "UP")]
  BY <1>2 DEF IncreaseLower
<1>4. /\ g \in GeneratorType
      /\ g.lower = e
      /\ g.upper = m.gen.upper
  BY <1>1, <1>2, <1>3, NextMultiplierType DEF GeneratorType
<1>5. ProvableEnds(g)
  BY <1>2, <1>4 DEF ProvableEnds, OpenGenerator
<1>6. e > MateThreshold => IsLast(g)
  <2> SUFFICES ASSUME e > MateThreshold PROVE IsLast(g)
    OBVIOUS
  <2>1. g.upper \in Int /\ g.upper <= ScoreMax
    BY <1>1, <1>4, <1>5 DEF ProvableEnds, MateIn, ScoreMax
  <2> HIDE DEF g
  <2> QED BY <1>2, <1>4, <2>1 DEF IsLast, IsMateScore, MateThreshold, ScoreMax
<1> HIDE DEF g
<1>7. /\ n \in ManagerType
      /\ n.gen = g
      /\ n.depth = m.depth
  BY <1>4 DEF ManagerType
<1>8. IncreaseLowerBound(m, e) = Settle(n)
  BY <1>1, <1>2 DEF IncreaseLowerBound, g
<1>9. /\ ReadyManager(Settle(n))
      /\ IsLast(g) => Settle(n).depth = m.depth + 1
      /\ ~IsLast(g) => Settle(n).depth = m.depth /\ Settle(n).gen = g
  BY <1>5, <1>7, SettleReady
<1>10. g.upper - g.lower < m.gen.upper - m.gen.lower
  BY <1>1, <1>2, <1>4
<1> QED BY <1>6, <1>8, <1>9, <1>10 DEF Width

(* A fail-low answer to a probe not above the proved upper bound.          *)
LEMMA DecreaseUpperBoundReady ==
  ASSUME NEW m \in ManagerType, OpenGenerator(m.gen),
         NEW b \in Int, b <= m.gen.upper, b <= MateIn(2),
         NEW e \in RootScores, e < b
  PROVE  /\ ReadyManager(DecreaseUpperBound(m, e))
         /\ \/ DecreaseUpperBound(m, e).depth = m.depth + 1
            \/ /\ DecreaseUpperBound(m, e).depth = m.depth
               /\ Width(DecreaseUpperBound(m, e)) < Width(m)
<1> DEFINE g == DecreaseUpper(m.gen, e)
<1> DEFINE n == [m EXCEPT !.gen = g]
<1>1. m.gen \in GeneratorType /\ m.gen.lower \in Int /\ m.gen.upper \in Int
  BY DEF OpenGenerator, GeneratorType
<1>2. e \in Int /\ e < m.gen.upper /\ e <= MateIn(2) - 1
  BY <1>1 DEF RootScores, MatedIn, MateIn
<1>3. g = [m.gen EXCEPT !.upper = e, !.trend = "DOWN",
                        !.multiplier = NextMultiplier(m.gen, "DOWN")]
  BY <1>2 DEF DecreaseUpper
<1>4. /\ g \in GeneratorType
      /\ g.lower = m.gen.lower
      /\ g.upper = e
  BY <1>1, <1>2, <1>3, NextMultiplierType DEF GeneratorType
<1>5. ProvableEnds(g)
  BY <1>2, <1>4 DEF ProvableEnds, OpenGenerator
<1> HIDE DEF g
<1>6. /\ n \in ManagerType
      /\ n.gen = g
      /\ n.depth = m.depth
  BY <1>4 DEF ManagerType
<1>7. DecreaseUpperBound(m, e) = Settle(n)
  BY <1>1, <1>2 DEF DecreaseUpperBound, g
<1>8. /\ ReadyManager(Settle(n))
      /\ IsLast(g) => Settle(n).depth = m.depth + 1
      /\ ~IsLast(g) => Settle(n).depth = m.depth /\ Settle(n).gen = g
  BY <1>5, <1>6, SettleReady
<1>9. g.upper - g.lower < m.gen.upper - m.gen.lower
  BY <1>1, <1>2, <1>4
<1> QED BY <1>7, <1>8, <1>9 DEF Width

-----------------------------------------------------------------------------
(* The inductive invariant.                                                *)

(* The manager waits with an open interval and its one beta; a probe under *)
(* way asks about a beta inside the interval.                              *)
BoundsInv ==
  /\ pc \in {"head", "boundary"} => ReadyManager(mgr)
  /\ pc = "probing" =>
       /\ OpenGenerator(mgr.gen)
       /\ mgr.gen.lower < beta
       /\ beta <= mgr.gen.upper
       /\ beta \in MatedIn(1) + 1 .. MateIn(2)

(* What the emitter remembers ties the displayed PV to the chosen move.    *)
DisplayInv ==
  /\ shown # NoMove => shown = best.move
  /\ best.move # NoMove => emitter.last_best_move = best.move

(* A committed lower bound has a move; a committed win by force is only    *)
(* seen at the boundary of the depth it converged.                         *)
MateInv ==
  /\ best.lower => best.move # NoMove
  /\ pc = "entry" => ~best.lower
  /\ pc \in {"head", "probing"} =>
       ~(best.lower /\ best.score > MateThreshold)
  /\ pc = "boundary" /\ best.lower /\ best.score > MateThreshold => converged

IInv ==
  /\ TypeOK
  /\ BoundsInv
  /\ DisplayInv
  /\ FirstProbeGivesMove
  /\ MateInv

LEMMA NewManagerReady ==
  ASSUME NEW v \in Int
  PROVE  ReadyManager(NewManager(1, v))
<1> DEFINE m == [depth |-> 1, initial |-> v, gen |-> NewBetaGenerator(v),
                 betas |-> <<>>]
<1>1. NewBetaGenerator(v) \in GeneratorType
  BY FreshIsOpen DEF OpenGenerator
<1>2. <<>> \in Seq(Int)
  OBVIOUS
<1>3. m \in ManagerType
  BY <1>1, <1>2 DEF ManagerType
<1> QED BY <1>3, InitBetasReady DEF NewManager

LEMMA InitInv == Init => IInv
<1> SUFFICES ASSUME Init PROVE IInv
  OBVIOUS
<1>1. ReadyManager(NewManager(1, 0))
  BY NewManagerReady
<1>2. mgr \in ManagerType
  BY <1>1 DEF Init, ReadyManager
<1>3. best \in ResultType
  BY DEF Init, ResultType
<1>4. emitter \in [last_depth : Nat \cup {-1}, last_best_move : Moves \cup {NoMove},
                  pv_emitted_at_depth : BOOLEAN]
  BY DEF Init, FreshEmitter
<1>5. legal \in SUBSET Moves
  BY DEF Init
<1>6. pc \in {"entry", "head", "probing", "boundary", "done"}
  BY DEF Init
<1>7. beta \in Int /\ eval \in Int
  BY DEF Init
<1>8. /\ stop \in BOOLEAN /\ limited \in BOOLEAN
      /\ converged \in BOOLEAN /\ probes \in BOOLEAN
      /\ shown \in Moves \cup {NoMove}
  BY Zenon DEF Init
<1>9. TypeOK
  BY <1>2, <1>3, <1>4, <1>5, <1>6, <1>7, <1>8 DEF TypeOK
<1> QED BY <1>9 DEF Init, IInv, BoundsInv, DisplayInv, FirstProbeGivesMove, MateInv

(* A ready manager hands out a beta inside its interval.                   *)
LEMMA StartProbeInv == ASSUME IInv, StartProbe PROVE IInv'
<1>1. ReadyManager(mgr)
  BY DEF IInv, BoundsInv, StartProbe
<1>2. OpenGenerator(mgr.gen) /\ mgr.betas = <<GenBeta(mgr.gen)>>
  BY <1>1 DEF ReadyManager, GenBetas
<1>3. NextBeta(mgr) = GenBeta(mgr.gen)
  BY <1>2 DEF NextBeta, Refilled
<1>4. mgr' = [mgr EXCEPT !.betas = Tail(mgr.betas)]
  <2>1. Refilled(mgr) = mgr
    BY <1>2 DEF Refilled
  <2> QED BY <2>1 DEF StartProbe, PopBeta
<1>5. mgr' \in ManagerType /\ mgr'.gen = mgr.gen
  <2>1. Tail(mgr.betas) \in Seq(Int)
    BY <1>2, BetaInside
  <2> QED BY <1>1, <1>4, <2>1 DEF ReadyManager, ManagerType
<1>6. beta' = ClampBeta(GenBeta(mgr.gen))
  BY <1>3 DEF StartProbe
<1>7. /\ mgr.gen.lower < beta'
      /\ beta' <= mgr.gen.upper
      /\ beta' \in MatedIn(1) + 1 .. MateIn(2)
  BY <1>2, <1>6, BetaInside
<1>8. TypeOK'
  BY <1>5, <1>7 DEF IInv, TypeOK, StartProbe, MatedIn, MateIn
<1>9. BoundsInv'
  BY <1>2, <1>5, <1>7 DEF BoundsInv, StartProbe
<1> QED BY <1>8, <1>9 DEF IInv, StartProbe, DisplayInv, FirstProbeGivesMove, MateInv

(* The bookkeeping after a probe: the displayed PV keeps up with the move. *)
LEMMA ReportInv ==
  ASSUME IInv, NEW is_lower \in BOOLEAN, NEW pv \in Moves \cup {NoMove},
         eval' \in Int,
         best' = Commit(TRUE, pv, is_lower),
         Report(TRUE, is_lower)
  PROVE  /\ DisplayInv'
         /\ best' \in ResultType
         /\ emitter' \in [last_depth : Nat \cup {-1},
                          last_best_move : Moves \cup {NoMove},
                          pv_emitted_at_depth : BOOLEAN]
         /\ shown' \in Moves \cup {NoMove}
<1> DEFINE info == [depth |-> mgr.depth, score |-> eval', move |-> best'.move,
                    lower |-> is_lower, upper |-> ~is_lower]
<1>1. PICK overdue \in BOOLEAN :
        /\ emitter' = InfoCallback(emitter, info, overdue)
        /\ shown' = Displayed(shown, emitter, info, overdue)
  BY DEF Report
<1>2. mgr.depth \in Nat /\ best \in ResultType
  BY DEF IInv, TypeOK, ManagerType
<1>3. best.move \in Moves \cup {NoMove} /\ best'.move = CommitMove(pv, is_lower)
  BY <1>2 DEF Commit, ResultType
<1>4. best'.move \in Moves \cup {NoMove}
  BY <1>3 DEF CommitMove
<1>5. best' \in ResultType
  BY <1>2, <1>3, <1>4 DEF Commit, ResultType
<1>6. /\ info.depth = mgr.depth
      /\ info.move = best'.move
      /\ HasPV(info) = is_lower
  BY DEF HasPV
<1> HIDE DEF info
<1>7. best.move # NoMove => best'.move # NoMove
  BY <1>3 DEF CommitMove
<1>8. ~is_lower /\ best.move # NoMove => best'.move = best.move
  BY <1>3 DEF CommitMove
<1>9. CASE Emits(emitter, info, overdue)
  <2>1. emitter' = [last_depth |-> info.depth, last_best_move |-> info.move,
                    pv_emitted_at_depth |->
                      HasPV(info) \/ (~DepthChanged(emitter, info)
                                        /\ emitter.pv_emitted_at_depth)]
    BY <1>1, <1>9 DEF InfoCallback
  <2>2. shown' = IF is_lower THEN best'.move ELSE shown
    BY <1>1, <1>6, <1>9 DEF Displayed
  <2>3. emitter.pv_emitted_at_depth \in BOOLEAN
    BY DEF IInv, TypeOK
  <2>4. emitter'.last_best_move = best'.move
    BY <2>1, <1>6
  <2>5. emitter' \in [last_depth : Nat \cup {-1},
                     last_best_move : Moves \cup {NoMove},
                     pv_emitted_at_depth : BOOLEAN]
    BY <1>2, <1>4, <1>6, <2>1, <2>3 DEF DepthChanged
  <2> QED BY <1>4, <1>5, <1>8, <2>2, <2>4, <2>5 DEF IInv, DisplayInv, TypeOK
<1>10. CASE ~Emits(emitter, info, overdue)
  <2>1. emitter' = emitter /\ shown' = shown
    BY <1>1, <1>10 DEF InfoCallback, Displayed
  <2>2. best'.move # NoMove => best'.move = emitter.last_best_move
    BY <1>6, <1>10 DEF Emits, BestMoveChanged
  <2> QED BY <1>5, <1>7, <2>1, <2>2 DEF IInv, DisplayInv, TypeOK
<1> QED BY <1>9, <1>10

(* A probe with legal moves brings back a PV and leaves a move to play.    *)
LEMMA ProbeMove ==
  ASSUME NEW is_lower \in BOOLEAN, NEW pv \in Moves \cup {NoMove},
         NEW score, RootResult(score, pv), best \in ResultType,
         best' = Commit(TRUE, pv, is_lower), legal \in SUBSET Moves
  PROVE  legal # {} => best'.move # NoMove
<1>1. legal # {} => pv # NoMove
  BY DEF RootResult
<1>2. best'.move = CommitMove(pv, is_lower)
  BY DEF Commit, ResultType
<1> QED BY <1>1, <1>2 DEF CommitMove

LEMMA FailHighInv == ASSUME IInv, FailHigh
                     PROVE  /\ IInv'
                            /\ \/ mgr'.depth = mgr.depth + 1
                               \/ /\ mgr'.depth = mgr.depth
                                  /\ Width(mgr') < Width(mgr)
<1>1. PICK score \in RootScores, pv \in Moves \cup {NoMove} :
        /\ RootResult(score, pv)
        /\ score >= beta
        /\ eval' = score
        /\ mgr' = IncreaseLowerBound(mgr, score)
        /\ AfterProbe(score >= mgr.gen.lower, pv, TRUE)
  BY DEF FailHigh
<1>2. /\ OpenGenerator(mgr.gen) /\ mgr \in ManagerType
      /\ mgr.gen.lower < beta /\ beta >= MatedIn(1) + 1 /\ beta \in Int
      /\ mgr.gen.lower \in Int
  BY DEF IInv, TypeOK, BoundsInv, FailHigh, OpenGenerator, GeneratorType
<1>3. score \in Int
  BY DEF RootScores, MatedIn, MateIn
<1>4. (score >= mgr.gen.lower) = TRUE
  BY <1>1, <1>2, <1>3
<1>5. /\ ReadyManager(mgr')
      /\ \/ mgr'.depth = mgr.depth + 1
         \/ mgr'.depth = mgr.depth /\ Width(mgr') < Width(mgr)
      /\ score > MateThreshold => mgr'.depth = mgr.depth + 1
  BY <1>1, <1>2, IncreaseLowerBoundReady
<1>6. /\ best' = Commit(TRUE, pv, TRUE)
      /\ Report(TRUE, TRUE)
      /\ converged' = (mgr'.depth # mgr.depth)
      /\ probes' = TRUE /\ pc' = "boundary"
      /\ UNCHANGED <<stop, limited, legal, beta>>
  BY <1>1, <1>4 DEF AfterProbe
<1>7. /\ DisplayInv'
      /\ best' \in ResultType
      /\ emitter' \in [last_depth : Nat \cup {-1},
                       last_best_move : Moves \cup {NoMove},
                       pv_emitted_at_depth : BOOLEAN]
      /\ shown' \in Moves \cup {NoMove}
  BY <1>1, <1>3, <1>6, ReportInv
<1>8. TypeOK'
  BY <1>1, <1>3, <1>5, <1>6, <1>7 DEF IInv, TypeOK, ReadyManager
<1>9. BoundsInv'
  BY <1>5, <1>6 DEF BoundsInv
<1>10. FirstProbeGivesMove'
  BY <1>1, <1>6, ProbeMove DEF FirstProbeGivesMove, IInv, TypeOK
<1>11. MateInv'
  <2>1. best \in ResultType /\ mgr.depth \in Nat
    BY DEF IInv, TypeOK, ManagerType
  <2>2. CASE CommitMove(pv, TRUE) # NoMove
    <3>1. best'.move # NoMove /\ best'.score = score
      BY <1>1, <1>6, <2>2 DEF Commit
    <3>2. score > MateThreshold => mgr'.depth # mgr.depth
      BY <1>5, <2>1
    <3>3. score > MateThreshold => converged'
      BY <1>6, <3>2, Zenon
    <3> QED BY <1>6, <3>1, <3>3 DEF MateInv
  <2>3. CASE CommitMove(pv, TRUE) = NoMove
    <3>1. best' = [best EXCEPT !.move = NoMove]
      BY <1>6, <2>3 DEF Commit
    <3>2. best.move = NoMove
      BY <2>3 DEF CommitMove
    <3>3. ~best'.lower
      BY <2>1, <3>1, <3>2 DEF IInv, MateInv, ResultType
    <3> QED BY <1>6, <3>3 DEF MateInv
  <2> QED BY <2>2, <2>3
<1> QED BY <1>5, <1>7, <1>8, <1>9, <1>10, <1>11 DEF IInv

LEMMA FailLowInv == ASSUME IInv, FailLow
                    PROVE  /\ IInv'
                           /\ \/ mgr'.depth = mgr.depth + 1
                              \/ /\ mgr'.depth = mgr.depth
                                 /\ Width(mgr') < Width(mgr)
<1>1. PICK score \in RootScores, pv \in Moves \cup {NoMove} :
        /\ RootResult(score, pv)
        /\ score < beta
        /\ eval' = score
        /\ mgr' = DecreaseUpperBound(mgr, score)
        /\ AfterProbe(score <= mgr.gen.upper, pv, FALSE)
  BY DEF FailLow
<1>2. /\ OpenGenerator(mgr.gen) /\ mgr \in ManagerType
      /\ beta <= mgr.gen.upper /\ beta <= MateIn(2) /\ beta \in Int
      /\ mgr.gen.upper \in Int
  BY DEF IInv, TypeOK, BoundsInv, FailLow, OpenGenerator, GeneratorType
<1>3. score \in Int
  BY DEF RootScores, MatedIn, MateIn
<1>4. (score <= mgr.gen.upper) = TRUE
  BY <1>1, <1>2, <1>3
<1>5. /\ ReadyManager(mgr')
      /\ \/ mgr'.depth = mgr.depth + 1
         \/ mgr'.depth = mgr.depth /\ Width(mgr') < Width(mgr)
  BY <1>1, <1>2, DecreaseUpperBoundReady
<1>6. /\ best' = Commit(TRUE, pv, FALSE)
      /\ Report(TRUE, FALSE)
      /\ converged' = (mgr'.depth # mgr.depth)
      /\ probes' = TRUE /\ pc' = "boundary"
      /\ UNCHANGED <<stop, limited, legal, beta>>
  BY <1>1, <1>4 DEF AfterProbe
<1>7. /\ DisplayInv'
      /\ best' \in ResultType
      /\ emitter' \in [last_depth : Nat \cup {-1},
                       last_best_move : Moves \cup {NoMove},
                       pv_emitted_at_depth : BOOLEAN]
      /\ shown' \in Moves \cup {NoMove}
  BY <1>1, <1>3, <1>6, ReportInv
<1>8. TypeOK'
  BY <1>1, <1>3, <1>5, <1>6, <1>7 DEF IInv, TypeOK, ReadyManager
<1>9. BoundsInv'
  BY <1>5, <1>6 DEF BoundsInv
<1>10. FirstProbeGivesMove'
  BY <1>1, <1>6, ProbeMove DEF FirstProbeGivesMove, IInv, TypeOK
<1>11. MateInv'
  <2>1. best \in ResultType
    BY DEF IInv, TypeOK
  <2>2. best' = [best EXCEPT !.move = CommitMove(pv, FALSE)]
    BY <1>6 DEF Commit
  <2>3. best'.lower = best.lower /\ best'.score = best.score
    BY <2>1, <2>2 DEF ResultType
  <2>4. best.move # NoMove => best'.move # NoMove
    BY <2>1, <2>2 DEF CommitMove, ResultType
  <2> QED BY <1>6, <2>3, <2>4 DEF IInv, MateInv, FailLow
<1> QED BY <1>5, <1>7, <1>8, <1>9, <1>10, <1>11 DEF IInv

LEMMA NextInv == IInv /\ [Next]_vars => IInv'
<1> SUFFICES ASSUME IInv, [Next]_vars PROVE IInv'
  OBVIOUS
<1> USE DEF IInv
<1>1. CASE Enter
  <2>1. PICK v \in StaticEvals : /\ mgr' = NewManager(1, v)
                                 /\ best' = [best EXCEPT !.score = v]
    BY <1>1 DEF Enter
  <2>2. ReadyManager(mgr') /\ v \in Int
    BY <2>1, NewManagerReady
  <2>3. best \in ResultType
    BY DEF TypeOK
  <2>4. /\ best' \in ResultType
        /\ best'.move = best.move /\ best'.lower = best.lower
    BY <2>1, <2>2, <2>3 DEF ResultType
  <2>5. TypeOK'
    BY <1>1, <2>2, <2>4 DEF Enter, TypeOK, ReadyManager
  <2>6. MateInv'
    BY <1>1, <2>1, <2>2, <2>3, <2>4 DEF Enter, MateInv, ResultType
  <2> QED BY <1>1, <2>2, <2>4, <2>5, <2>6
          DEF Enter, BoundsInv, DisplayInv, FirstProbeGivesMove
<1>2. CASE RequestStop
  BY <1>2 DEF RequestStop, TypeOK, BoundsInv, DisplayInv, FirstProbeGivesMove, MateInv
<1>3. CASE LeaveLoop
  BY <1>3 DEF LeaveLoop, TypeOK, BoundsInv, DisplayInv, FirstProbeGivesMove, MateInv
<1>4. CASE StartProbe
  BY <1>4, StartProbeInv
<1>5. CASE AbortProbe
  BY <1>5 DEF AbortProbe, TypeOK, BoundsInv, DisplayInv, FirstProbeGivesMove, MateInv
<1>6. CASE FailHigh
  BY <1>6, FailHighInv
<1>7. CASE FailLow
  BY <1>7, FailLowInv
<1>8. CASE Boundary
  <2>1. pc' = "head" => ~MateFound
    BY <1>8 DEF Boundary
  <2>2. MateInv'
    BY <1>8, <2>1 DEF Boundary, MateInv, MateFound, IsMateScore
  <2> QED BY <1>8, <2>2 DEF Boundary, TypeOK, BoundsInv, DisplayInv, FirstProbeGivesMove
<1>9. CASE UNCHANGED vars
  BY <1>9 DEF vars, TypeOK, BoundsInv, DisplayInv, FirstProbeGivesMove, MateInv
<1> QED BY <1>1, <1>2, <1>3, <1>4, <1>5, <1>6, <1>7, <1>8, <1>9 DEF Next, Probe

LEMMA Invariance == Spec => []IInv
<1> QED BY InitInv, NextInv, PTL DEF Spec

-----------------------------------------------------------------------------
(* Every variable keeps its type, for every scale and limit.               *)
THEOREM TypeCorrect == Spec => []TypeOK
<1>1. IInv => TypeOK
  BY DEF IInv
<1> QED BY <1>1, Invariance, PTL

(* Every probe of every search asks about a beta inside the proved         *)
(* interval and inside the mate-distance band.                             *)
THEOREM ProbesInsideWindow == Spec => []ProbeInsideWindow
<1>1. IInv => ProbeInsideWindow
  BY DEF IInv, BoundsInv, ProbeInsideWindow
<1> QED BY <1>1, Invariance, PTL

(* Between probes the interval is open and one beta is queued.             *)
THEOREM WindowStaysOpen == Spec => []OpenWindow
<1>1. IInv => OpenWindow
  BY OpenBounds DEF IInv, BoundsInv, OpenWindow, ReadyManager, GenBetas
<1> QED BY <1>1, Invariance, PTL

(* The move to be played heads the last PV shown.                          *)
THEOREM DisplayedPVIsPlayed == Spec => []DisplayedMoveIsBest
<1>1. IInv => DisplayedMoveIsBest
  BY DEF IInv, DisplayInv, DisplayedMoveIsBest
<1> QED BY <1>1, Invariance, PTL

(* One completed probe is enough to have a move.                           *)
THEOREM FirstProbeCommits == Spec => []FirstProbeGivesMove
<1>1. IInv => FirstProbeGivesMove
  BY DEF IInv
<1> QED BY <1>1, Invariance, PTL

(* No probe starts after a committed forced win.                           *)
THEOREM MateEndsProbing == Spec => []NoProbeAfterMate
<1>1. IInv => NoProbeAfterMate
  BY DEF IInv, MateInv, NoProbeAfterMate
<1> QED BY <1>1, Invariance, PTL

(* Every completed probe finishes its depth or narrows the interval: the   *)
(* number of probes of a depth is bounded by the width of the score scale. *)
THEOREM ProbesMakeProgress == Spec => ProbeMakesProgress
<1> DEFINE Progress == \/ mgr'.depth = mgr.depth + 1
                       \/ mgr'.depth = mgr.depth /\ Width(mgr') < Width(mgr)
<1>1. IInv /\ [Next]_vars => [Probe => Progress]_vars
  BY FailHighInv, FailLowInv DEF Probe
<1> QED BY <1>1, Invariance, PTL DEF Spec, ProbeMakesProgress
-----------------------------------------------------------------------------
(* The PV of a depth.  A lower bound of the depth's interval is proved by  *)
(* a fail-high, whose line always brings the first PV of its depth; a      *)
(* depth without one can only converge on a mated score.                   *)

PvInv ==
  /\ pc = "entry" => mgr.depth = 1
  /\ pc \in {"head", "probing", "boundary"} /\ mgr.gen.lower # ScoreMin =>
       emitter.last_depth = mgr.depth /\ emitter.pv_emitted_at_depth = TRUE

(* A depth that has converged leaves a fresh interval.                     *)
LEMMA SettleForgets ==
  ASSUME NEW m \in ManagerType, ProvableEnds(m.gen)
  PROVE  \/ /\ IsLast(m.gen) /\ Settle(m).depth = m.depth + 1
            /\ Settle(m).gen.lower = ScoreMin
         \/ /\ ~IsLast(m.gen) /\ Settle(m).depth = m.depth
            /\ Settle(m).gen = m.gen
<1>1. CASE IsLast(m.gen)
  <2>1. Settle(m) = InitBetas(FinishDepth(m))
    BY <1>1 DEF Settle
  <2>2. FinishDepth(m) \in ManagerType
    BY DEF FinishDepth, ManagerType
  <2> DEFINE n == FinishDepth(m)
             g == NewBetaGenerator(IF n.gen.lower = ScoreMin THEN n.initial ELSE n.gen.lower)
  <2>3. InitBetas(n).gen = g
    BY <2>2 DEF InitBetas, ManagerType
  <2>4. g.lower = ScoreMin
    BY DEF NewBetaGenerator
  <2> QED BY <1>1, <2>1, <2>3, <2>4, SettleReady
<1>2. CASE ~IsLast(m.gen)
  BY <1>2, SettleReady
<1> QED BY <1>1, <1>2

LEMMA FreshManager ==
  ASSUME NEW v
  PROVE  NewManager(1, v).depth = 1 /\ NewManager(1, v).gen.lower = ScoreMin
  BY DEF NewManager, InitBetas, NewBetaGenerator

(* What a report leaves in the emitter.                                    *)
LEMMA ReportShowsPV ==
  ASSUME IInv, NEW is_lower \in BOOLEAN, Report(TRUE, is_lower)
  PROVE  /\ emitter'.last_depth = mgr.depth
         /\ is_lower => emitter'.pv_emitted_at_depth = TRUE
         /\ emitter.last_depth = mgr.depth /\ emitter.pv_emitted_at_depth = TRUE =>
              emitter'.pv_emitted_at_depth = TRUE
<1> DEFINE info == [depth |-> mgr.depth, score |-> eval', move |-> best'.move,
                    lower |-> is_lower, upper |-> ~is_lower]
<1>1. PICK overdue \in BOOLEAN : emitter' = InfoCallback(emitter, info, overdue)
  BY DEF Report
<1>2. info.depth = mgr.depth /\ HasPV(info) = is_lower
  BY DEF HasPV
<1>3. emitter.pv_emitted_at_depth \in BOOLEAN
  BY DEF IInv, TypeOK
<1> HIDE DEF info
<1>4. CASE Emits(emitter, info, overdue)
  <2>1. /\ emitter'.last_depth = info.depth
        /\ emitter'.pv_emitted_at_depth =
             (HasPV(info) \/ (~DepthChanged(emitter, info) /\ emitter.pv_emitted_at_depth))
    BY <1>1, <1>4 DEF InfoCallback
  <2> QED BY <1>2, <1>3, <2>1 DEF DepthChanged
<1>5. CASE ~Emits(emitter, info, overdue)
  <2>1. emitter' = emitter
    BY <1>1, <1>5 DEF InfoCallback
  <2>2. emitter.last_depth = info.depth
    BY <1>5 DEF Emits, DepthChanged
  <2>3. HasPV(info) => emitter.pv_emitted_at_depth
    BY <1>5 DEF Emits, NeedsFirstPV
  <2> QED BY <1>2, <1>3, <2>1, <2>2, <2>3
<1> QED BY <1>4, <1>5

(* A fail-high shows a PV at its depth, and with it the bound it proves.   *)
LEMMA FailHighShowsPV ==
  ASSUME IInv, FailHigh
  PROVE  /\ PvInv'
         /\ emitter'.last_depth = mgr.depth /\ emitter'.pv_emitted_at_depth = TRUE
<1>1. PICK score \in RootScores, pv \in Moves \cup {NoMove} :
        /\ score >= beta
        /\ mgr' = IncreaseLowerBound(mgr, score)
        /\ AfterProbe(score >= mgr.gen.lower, pv, TRUE)
  BY DEF FailHigh
<1>2. /\ OpenGenerator(mgr.gen) /\ mgr \in ManagerType
      /\ mgr.gen.lower < beta /\ beta >= MatedIn(1) + 1 /\ beta \in Int
      /\ mgr.gen.lower \in Int /\ mgr.gen.upper \in Int /\ mgr.gen \in GeneratorType
  BY DEF IInv, TypeOK, BoundsInv, FailHigh, OpenGenerator, GeneratorType
<1>3. score \in Int /\ score <= MateIn(2)
  BY DEF RootScores, MatedIn, MateIn
<1>4. (score >= mgr.gen.lower) = TRUE
  BY <1>1, <1>2, <1>3
<1>5. Report(TRUE, TRUE) /\ pc' = "boundary"
  BY <1>1, <1>4 DEF AfterProbe
<1>6. emitter'.last_depth = mgr.depth /\ emitter'.pv_emitted_at_depth = TRUE
  BY <1>5, ReportShowsPV
<1> DEFINE g == IncreaseLower(mgr.gen, score)
           n == [mgr EXCEPT !.gen = g]
<1>7. n \in ManagerType /\ n.depth = mgr.depth /\ ProvableEnds(n.gen) /\ mgr' = Settle(n)
  <2>1. g = [mgr.gen EXCEPT !.lower = score, !.trend = "UP", !.multiplier = NextMultiplier(mgr.gen, "UP")]
    BY <1>1, <1>2, <1>3 DEF IncreaseLower
  <2>2. g \in GeneratorType /\ g.lower = score /\ g.upper = mgr.gen.upper
    BY <1>2, <1>3, <2>1, NextMultiplierType DEF GeneratorType
  <2>3. mgr' = Settle(n)
    BY <1>1, <1>4 DEF IncreaseLowerBound
  <2> HIDE DEF g
  <2>4. ProvableEnds(g)
    BY <1>1, <1>2, <1>3, <2>2 DEF ProvableEnds, OpenGenerator, MatedIn, MateIn
  <2> QED BY <1>2, <2>2, <2>3, <2>4 DEF ManagerType
<1> HIDE DEF n
<1>8. mgr'.depth = mgr.depth \/ mgr'.gen.lower = ScoreMin
  BY <1>7, SettleForgets
<1> QED BY <1>5, <1>6, <1>8 DEF PvInv

(* A fail-low that ends its depth without a PV has found a forced loss.    *)
LEMMA FailLowShowsPV ==
  ASSUME TrustWindow <= MaxPly, IInv, PvInv, FailLow
  PROVE  /\ PvInv'
         /\ mgr'.depth > mgr.depth =>
              /\ emitter'.last_depth = mgr.depth
              /\ emitter'.pv_emitted_at_depth = TRUE \/ eval' < -MateThreshold
<1>1. PICK score \in RootScores, pv \in Moves \cup {NoMove} :
        /\ score < beta
        /\ eval' = score
        /\ mgr' = DecreaseUpperBound(mgr, score)
        /\ AfterProbe(score <= mgr.gen.upper, pv, FALSE)
  BY DEF FailLow
<1>2. /\ OpenGenerator(mgr.gen) /\ mgr \in ManagerType
      /\ beta <= mgr.gen.upper /\ beta <= MateIn(2) /\ beta \in Int
      /\ mgr.gen.lower \in Int /\ mgr.gen.upper \in Int /\ mgr.gen \in GeneratorType
  BY DEF IInv, TypeOK, BoundsInv, FailLow, OpenGenerator, GeneratorType
<1>3. score \in Int /\ score >= MatedIn(1)
  BY DEF RootScores, MatedIn, MateIn
<1>4. (score <= mgr.gen.upper) = TRUE
  BY <1>1, <1>2, <1>3
<1>5. Report(TRUE, FALSE) /\ pc' = "boundary" /\ pc = "probing"
  BY <1>1, <1>4 DEF AfterProbe, FailLow
<1>6. /\ emitter'.last_depth = mgr.depth
      /\ mgr.gen.lower # ScoreMin => emitter'.pv_emitted_at_depth = TRUE
  BY <1>5, ReportShowsPV DEF PvInv
<1> DEFINE g == DecreaseUpper(mgr.gen, score)
           n == [mgr EXCEPT !.gen = g]
<1>7. g \in GeneratorType /\ g.upper = score /\ g.lower = mgr.gen.lower
  <2>1. g = [mgr.gen EXCEPT !.upper = score, !.trend = "DOWN", !.multiplier = NextMultiplier(mgr.gen, "DOWN")]
    BY <1>1, <1>2, <1>3 DEF DecreaseUpper
  <2> QED BY <1>2, <1>3, <2>1, NextMultiplierType DEF GeneratorType
<1>8. mgr' = Settle(n)
  BY <1>1, <1>4 DEF DecreaseUpperBound
<1> HIDE DEF g
<1>9. ProvableEnds(g)
  BY <1>1, <1>2, <1>3, <1>7 DEF ProvableEnds, OpenGenerator, MatedIn, MateIn
<1>10. n \in ManagerType /\ n.depth = mgr.depth /\ n.gen = g
  BY <1>2, <1>7 DEF ManagerType
<1> HIDE DEF n
<1>11. \/ IsLast(g) /\ mgr'.depth = mgr.depth + 1 /\ mgr'.gen.lower = ScoreMin
       \/ mgr'.depth = mgr.depth /\ mgr'.gen = g
  BY <1>8, <1>9, <1>10, SettleForgets
<1>12. PvInv'
  BY <1>5, <1>6, <1>7, <1>11 DEF PvInv
<1>13. ASSUME IsLast(g), mgr.gen.lower = ScoreMin PROVE score < -MateThreshold
  BY <1>3, <1>7, <1>13 DEF IsLast, IsMateScore, MateThreshold, ScoreMin, MatedIn
<1>14. mgr.depth \in Nat
  BY <1>2 DEF ManagerType
<1> QED BY <1>1, <1>6, <1>11, <1>12, <1>13, <1>14

LEMMA PvInvariance ==
  ASSUME TrustWindow <= MaxPly
  PROVE  /\ Init => PvInv
         /\ IInv /\ PvInv /\ [Next]_vars => PvInv'
<1>1. Init => PvInv
  BY FreshManager DEF Init, PvInv
<1>2. ASSUME IInv, PvInv, [Next]_vars PROVE PvInv'
  <2>1. CASE Enter
    <3>1. PICK v \in StaticEvals : mgr' = NewManager(1, v)
      BY <2>1 DEF Enter
    <3>2. mgr'.gen.lower = ScoreMin /\ pc' = "head"
      BY <2>1, <3>1, FreshManager DEF Enter
    <3> QED BY <3>2 DEF PvInv
  <2>2. CASE StartProbe
    <3>1. mgr \in ManagerType
      BY <1>2 DEF IInv, TypeOK
    <3>2. mgr'.gen = mgr.gen /\ mgr'.depth = mgr.depth
      BY <2>2, <3>1 DEF StartProbe, PopBeta, Refilled, UpdateBetas, ManagerType
    <3> QED BY <1>2, <2>2, <3>2 DEF StartProbe, PvInv
  <2>3. CASE FailHigh
    BY <1>2, <2>3, FailHighShowsPV
  <2>4. CASE FailLow
    BY <1>2, <2>4, FailLowShowsPV
  <2>5. CASE RequestStop \/ LeaveLoop \/ AbortProbe \/ Boundary \/ UNCHANGED vars
    BY <1>2, <2>5 DEF RequestStop, LeaveLoop, AbortProbe, Boundary, vars, PvInv
  <2> QED BY <1>2, <2>1, <2>2, <2>3, <2>4, <2>5 DEF Next, Probe
<1> QED BY <1>1, <1>2

(* A depth that converges has shown a PV at that depth or the side to move *)
(* is mated, provided that a trust window at the bottom of the scale holds *)
(* mate scores only (in the program 8 against 128).                        *)
THEOREM DepthsShowPV ==
  ASSUME TrustWindow <= MaxPly
  PROVE  Spec => DepthShowsPV
<1> DEFINE Shows == mgr'.depth > mgr.depth =>
                      /\ emitter'.last_depth = mgr.depth
                      /\ \/ emitter'.pv_emitted_at_depth
                         \/ eval' < -MateThreshold
<1>1. ASSUME IInv, PvInv, Next PROVE Shows
  <2>1. mgr \in ManagerType /\ mgr.depth \in Nat
    BY <1>1 DEF IInv, TypeOK, ManagerType
  <2>2. CASE Enter
    <3>1. PICK v \in StaticEvals : mgr' = NewManager(1, v)
      BY <2>2 DEF Enter
    <3>2. mgr'.depth = 1 /\ mgr.depth = 1
      BY <1>1, <2>2, <3>1, FreshManager DEF Enter, PvInv
    <3> QED BY <3>2
  <2>3. CASE StartProbe
    <3>1. mgr'.depth = mgr.depth
      BY <2>1, <2>3 DEF StartProbe, PopBeta, Refilled, UpdateBetas, ManagerType
    <3> QED BY <2>1, <3>1
  <2>4. CASE FailHigh
    BY <1>1, <2>4, FailHighShowsPV
  <2>5. CASE FailLow
    BY <1>1, <2>5, FailLowShowsPV
  <2>6. CASE RequestStop \/ LeaveLoop \/ AbortProbe \/ Boundary
    BY <2>1, <2>6 DEF RequestStop, LeaveLoop, AbortProbe, Boundary
  <2> QED BY <1>1, <2>2, <2>3, <2>4, <2>5, <2>6 DEF Next, Probe
<1>2. Init => PvInv
  BY PvInvariance
<1>3. IInv /\ PvInv /\ [Next]_vars => PvInv'
  BY PvInvariance
<1>4. IInv /\ PvInv /\ [Next]_vars => [Shows]_vars
  <2> HIDE DEF Shows
  <2> QED BY <1>1
<1> QED BY <1>2, <1>3, <1>4, Invariance, PTL DEF Spec, DepthShowsPV
=============================================================================
