-------------------------------- MODULE GoMTD --------------------------------
(***************************************************************************)
(* Searcher::goMTD() (src/src/search/search.cpp): the iterative-deepening  *)
(* MTD(f) driver of one search, with the info lines it makes the GUI show. *)
(*                                                                         *)
(* One probe is two steps, because stop() may be called by another thread  *)
(* while search() runs: StartProbe takes the next beta, then either the    *)
(* tree search is given up (AbortProbe) or it returns a score and a PV     *)
(* (FailHigh, FailLow).  The tree search itself is abstracted to what it   *)
(* may return at the root.                                                 *)
(***************************************************************************)
EXTENDS MTDSearchManager, InfoEmitter

CONSTANTS
  Moves,          \* moves of the root position
  StaticEvals,    \* values the static evaluation may have
  MaxDepth        \* lim.max_depth

ASSUME GoMTDAssumption ==
  /\ NoMove \notin Moves
  /\ StaticEvals \subseteq Int
  /\ MaxDepth \in Nat \ {0}

VARIABLES
  pc,         \* control point of the searching thread
  stop,       \* stop_
  limited,    \* the limits of this search can make time_up() true
  legal,      \* legal moves of the root position
  mgr,        \* the MTDSearchManager
  beta,       \* bound of the probe under way
  eval,       \* score it returned, 0 when out of scope
  best,       \* the Result that will be returned
  converged,  \* depth_converged of the last probe
  probes,     \* at least one probe has returned a score
  emitter,    \* g_info_state
  shown       \* head of the PV the GUI displays

vars == <<pc, stop, limited, legal, mgr, beta, eval, best, converged, probes,
          emitter, shown>>

-----------------------------------------------------------------------------
Init ==
  /\ pc = "entry"
  /\ stop \in BOOLEAN
  /\ limited \in BOOLEAN
  /\ legal \in {{}, Moves}
  /\ mgr = NewManager(1, 0)
  /\ beta = 0
  /\ eval = 0
  /\ best = [depth |-> 0, score |-> 0, move |-> NoMove,
             lower |-> FALSE, upper |-> FALSE]
  /\ converged = FALSE
  /\ probes = FALSE
  /\ emitter = FreshEmitter
  /\ shown = NoMove

(* Everything before the loop: the flags of the last search are cleared,   *)
(* a stop() that came first included.                                      *)
Enter ==
  /\ pc = "entry"
  /\ stop' = FALSE
  /\ \E initial_val \in StaticEvals :
       /\ mgr' = NewManager(1, initial_val)
       /\ best' = [best EXCEPT !.score = initial_val]
  /\ pc' = "head"
  /\ UNCHANGED <<limited, legal, beta, eval, converged, probes, emitter, shown>>

(* stop(), from the thread that reads the UCI commands.                    *)
RequestStop ==
  /\ pc # "done"
  /\ ~stop
  /\ stop' = TRUE
  /\ UNCHANGED <<pc, limited, legal, mgr, beta, eval, best, converged,
                 probes, emitter, shown>>

LoopCondition == ~stop /\ mgr.depth <= MaxDepth

LeaveLoop ==
  /\ pc = "head"
  /\ ~LoopCondition
  /\ pc' = "done"
  /\ UNCHANGED <<stop, limited, legal, mgr, beta, eval, best, converged,
                 probes, emitter, shown>>

(* A clamp that is one short at the low end.                               *)
ClampBetaShort(b) ==
  IF b <= MatedIn(1) THEN MatedIn(1)
  ELSE IF b > MateIn(2) THEN MateIn(2)
  ELSE b

(* Keeps the null window [b - 1, b] clear of mate-distance pruning at the  *)
(* root.                                                                   *)
ClampBeta(b) ==
  IF b <= MatedIn(1) THEN MatedIn(1) + 1
  ELSE IF b > MateIn(2) THEN MateIn(2)
  ELSE b

StartProbe ==
  /\ pc = "head"
  /\ LoopCondition
  /\ beta' = ClampBeta(NextBeta(mgr))
  /\ mgr' = PopBeta(mgr)
  /\ pc' = "probing"
  /\ UNCHANGED <<stop, limited, legal, eval, best, converged, probes,
                 emitter, shown>>

(* check_for_stop() or a time check in the tree: the score is thrown away. *)
AbortProbe ==
  /\ pc = "probing"
  /\ stop \/ limited
  /\ pc' = "done"
  /\ UNCHANGED <<stop, limited, legal, mgr, beta, eval, best, converged,
                 probes, emitter, shown>>

-----------------------------------------------------------------------------
(* A root with legal moves returns any score and a PV, one without returns *)
(* mate or stalemate and no PV.                                            *)
RootResult(score, pv) ==
  IF legal = {}
  THEN score \in {MatedIn(1), 0} /\ pv = NoMove
  ELSE pv \in legal

CommitMove(pv, is_lower) ==
  IF pv # NoMove /\ (is_lower \/ best.move = NoMove) THEN pv ELSE best.move

(* The Result after the probe; `advanced` is the test that the bound moves.*)
Commit(advanced, pv, is_lower) ==
  LET move == CommitMove(pv, is_lower)
  IN  IF ~advanced THEN best
      ELSE IF is_lower /\ move # NoMove
      THEN [depth |-> mgr.depth, score |-> eval', move |-> move,
            lower |-> TRUE, upper |-> FALSE]
      ELSE [best EXCEPT !.move = move]

(* The on_iteration() call: this probe's score and bound with the          *)
(* committed move.                                                         *)
Report(advanced, is_lower) ==
  LET info == [depth |-> mgr.depth, score |-> eval', move |-> best'.move,
               lower |-> is_lower, upper |-> ~is_lower]
  IN  IF advanced
      THEN \E overdue \in BOOLEAN :
             /\ emitter' = InfoCallback(emitter, info, overdue)
             /\ shown' = Displayed(shown, emitter, info, overdue)
      ELSE UNCHANGED <<emitter, shown>>

AfterProbe(advanced, pv, is_lower) ==
  /\ best' = Commit(advanced, pv, is_lower)
  /\ converged' = (mgr'.depth # mgr.depth)
  /\ Report(advanced, is_lower)
  /\ probes' = TRUE
  /\ pc' = "boundary"
  /\ UNCHANGED <<stop, limited, legal, beta>>

FailHigh ==
  /\ pc = "probing"
  /\ \E score \in RootScores, pv \in Moves \cup {NoMove} :
       /\ RootResult(score, pv)
       /\ score >= beta
       /\ eval' = score
       /\ mgr' = IncreaseLowerBound(mgr, score)
       /\ AfterProbe(score >= mgr.gen.lower, pv, TRUE)

FailLow ==
  /\ pc = "probing"
  /\ \E score \in RootScores, pv \in Moves \cup {NoMove} :
       /\ RootResult(score, pv)
       /\ score < beta
       /\ eval' = score
       /\ mgr' = DecreaseUpperBound(mgr, score)
       /\ AfterProbe(score <= mgr.gen.upper, pv, FALSE)

(* Only the bounds of the manager are looked at.                           *)
MateFoundInBounds ==
  \/ IsMateScore(mgr.gen.lower) /\ mgr.gen.lower > 0
  \/ IsMateScore(mgr.gen.upper) /\ mgr.gen.upper < 0

(* A mate ends the loop: a committed one once its depth has converged, or  *)
(* one among the manager's bounds.                                         *)
MateFound ==
  \/ converged /\ best.move # NoMove /\ IsMateScore(best.score)
  \/ IsMateScore(mgr.gen.lower) /\ mgr.gen.lower > 0
  \/ IsMateScore(mgr.gen.upper) /\ mgr.gen.upper < 0

(* time_up() at the end of an iteration is up to the clock.                *)
Boundary ==
  /\ pc = "boundary"
  /\ \/ (stop \/ limited \/ MateFound) /\ pc' = "done"
     \/ ~stop /\ ~MateFound /\ pc' = "head"
  /\ eval' = 0
  /\ UNCHANGED <<stop, limited, legal, mgr, beta, best, converged,
                 probes, emitter, shown>>

-----------------------------------------------------------------------------
Probe == FailHigh \/ FailLow

Next ==
  \/ Enter
  \/ RequestStop
  \/ LeaveLoop
  \/ StartProbe
  \/ AbortProbe
  \/ Probe
  \/ Boundary

Search == Enter \/ LeaveLoop \/ StartProbe \/ AbortProbe \/ Probe \/ Boundary

Spec == Init /\ [][Next]_vars

(* The searching thread runs as long as it can take a step; nobody has to  *)
(* call stop().                                                            *)
FairSpec == Spec /\ WF_vars(Search)
-----------------------------------------------------------------------------
(* Properties *)

ResultType ==
  [depth : Nat, score : Int, move : Moves \cup {NoMove},
   lower : BOOLEAN, upper : BOOLEAN]

(* The type of every variable of the driver (search.h, mtd.h).             *)
TypeOK ==
  /\ pc \in {"entry", "head", "probing", "boundary", "done"}
  /\ stop \in BOOLEAN
  /\ limited \in BOOLEAN
  /\ legal \in SUBSET Moves
  /\ mgr \in ManagerType
  /\ beta \in Int
  /\ eval \in Int
  /\ best \in ResultType
  /\ converged \in BOOLEAN
  /\ probes \in BOOLEAN
  /\ emitter \in [last_depth : Nat \cup {-1}, last_best_move : Moves \cup {NoMove},
                  pv_emitted_at_depth : BOOLEAN]
  /\ shown \in Moves \cup {NoMove}

(* A probe never asks a question whose answer is known and never searches  *)
(* an empty window: its beta lies above the proved lower bound, not above  *)
(* the proved upper bound, and inside the band that survives mate-distance *)
(* pruning at the root, whatever step the generator took (comment at       *)
(* search.cpp:1432, "the MTD bounds never tighten, and the iteration       *)
(* silently spins").                                                       *)
ProbeInsideWindow ==
  pc = "probing" =>
    /\ mgr.gen.lower < beta
    /\ beta <= mgr.gen.upper
    /\ beta \in MatedIn(1) + 1 .. MateIn(2)

(* Between two probes of a depth the interval is still open, wider than    *)
(* the trust window and free of mate scores, and exactly one beta waits in *)
(* the queue: the "should not happen" fall-back of nextBeta() is dead.     *)
OpenWindow ==
  pc \in {"head", "boundary"} =>
    /\ mgr.gen.lower + TrustWindow < mgr.gen.upper
    /\ mgr.gen.lower <= MateThreshold
    /\ mgr.gen.upper >= -MateThreshold
    /\ Len(mgr.betas) = 1

(* Every completed probe makes progress: it finishes the depth or leaves a *)
(* strictly narrower interval, even when the tree search contradicts a     *)
(* bound it proved before.                                                 *)
Width(m) == m.gen.upper - m.gen.lower

ProbeMakesProgress ==
  [][Probe => \/ mgr'.depth = mgr.depth + 1
              \/ mgr'.depth = mgr.depth /\ Width(mgr') < Width(mgr)]_vars

(* The move the engine would play is the first move of the last PV it      *)
(* printed, if it printed one (state_manager.cpp:79, "we then ship         *)
(* `bestmove X` to a GUI that's still showing PV starting with Y").        *)
DisplayedMoveIsBest ==
  shown # NoMove => shown = best.move

(* A search of a position with legal moves that completed one probe has a  *)
(* move to play, however that probe failed.                                *)
FirstProbeGivesMove ==
  probes /\ legal # {} => best.move # NoMove

(* A depth that converges has shown the GUI a line with a PV at that       *)
(* depth, unless it converged on the proof that the side to move is mated  *)
(* (state_manager.cpp:70, the "info depth N skipped" symptom).             *)
DepthShowsPV ==
  [][mgr'.depth > mgr.depth =>
       /\ emitter'.last_depth = mgr.depth
       /\ \/ emitter'.pv_emitted_at_depth
          \/ eval' < -MateThreshold]_vars

(* Once a win by force is committed no further probe starts: a proven mate *)
(* always converges its depth, and the convergence is noticed although the *)
(* manager has already forgotten its bounds (search.cpp:1569).             *)
NoProbeAfterMate ==
  pc \in {"head", "probing"} => ~(best.lower /\ best.score > MateThreshold)

(* The search returns, with or without a stop.                             *)
Terminates == <>(pc = "done")
=============================================================================
