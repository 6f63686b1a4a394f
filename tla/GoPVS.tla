------------------------------- MODULE GoPVS --------------------------------
(***************************************************************************)
(* Searcher::goPVS() (src/src/search/search.cpp): iterative deepening      *)
(* against the clock, with the time budget of a `go` command and the       *)
(* volatility of score and best move that stretches it.                    *)
(*                                                                         *)
(* The search of the tree is reduced to its two outcomes: it goes on until *)
(* the next look at the clock, or it returns a score and a move.  goMTD()  *)
(* has the same gate, the same time_up() and the same volatility, fed by   *)
(* the depths that converged.                                              *)
(***************************************************************************)
EXTENDS TimeControl

CONSTANTS
  Goes,        \* the commands the search may be started with
  Steps,       \* the milliseconds from one look at the clock to the next
  Horizon,     \* bound: the clock is not followed beyond it
  MaxDepth,    \* bound: Limits::max_depth when the command gives none
  Evals,       \* the scores an iteration may return
  MateEvals,   \* the mate scores among them
  Moves        \* the moves it may return

ASSUME GoPVSAssumption ==
  /\ Steps \subseteq Nat \ {0} /\ Horizon \in Nat /\ MaxDepth \in Nat \ {0}
  /\ Evals \subseteq Int /\ MateEvals \subseteq Evals
  /\ \E longest \in Steps : \A step \in Steps : step <= longest
  /\ \A command \in Goes :
       /\ command.colour \in {White, Black}
       /\ command.time \in [{White, Black} -> Int] /\ command.inc \in [{White, Black} -> Int]
       /\ command.movetime \in Int /\ command.movestogo \in Int

NoMove == "none"

VARIABLES
  go,          \* the command, with the colour to move
  limits,      \* min_move_secs_, total_clock_secs_, max_usage_percent_, max_nodes_, max_depth
  elapsed,     \* the time since start_
  looks,       \* the looks at the clock, each after 4096 nodes; only counted for a node limit
  depth,       \* root_depth_
  last,        \* vol_last_move_, vol_last_eval_
  accum,       \* vol_accum_score_diff_
  usage,       \* vol_usage_pct_, in 150ths of the largest one
  terminate,   \* terminate_search_
  stop,        \* stop_
  best,        \* the result's move
  ended,       \* "no", or what ended the search
  calm         \* no iteration so far has changed the move or the score

vars == <<go, limits, elapsed, looks, depth, last, accum, usage, terminate, stop, best, ended, calm>>

TypeOf(command) == Classify(command, command.colour)
Timed == TypeOf(go) \in TimedTypes

Init ==
  /\ go \in Goes
  /\ limits = Limits(go, go.colour, MaxDepth)
  /\ elapsed = 0 /\ looks = 0
  /\ depth = 1
  /\ last = [move |-> NoMove, eval |-> 0]
  /\ accum = 0 /\ usage = 0
  /\ terminate = FALSE /\ stop = FALSE
  /\ best = NoMove
  /\ ended = "no"
  /\ calm = TRUE

(* min_move + total * usage_percent.                                       *)
AvailableAt(use) == limits.least + (limits.most * limits.usage * use) \div 150000

NodesUsed(count) == limits.nodes # 0 /\ count >= limits.nodes

TimeUpSoftOnly(now, use, term) ==
  limits.least > 0 /\ (term \/ now >= AvailableAt(use))

TimeUp(now, use, term) ==
  limits.least > 0 /\ (term \/ now >= limits.most \/ now >= AvailableAt(use))

(* update_volatility(): half of what was, the change of the score, and a   *)
(* penalty for a change of the move.                                       *)
Distance(a, b) == IF a >= b THEN a - b ELSE b - a

AccumAfterFromStart(eval, move) ==
  accum \div 2 + Distance(last.eval, eval) + (IF last.move # move THEN 50 ELSE 0)

AccumAfter(eval, move) ==
  IF last.move = NoMove THEN accum
  ELSE accum \div 2 + Distance(last.eval, eval) + (IF last.move # move THEN 50 ELSE 0)

UsageOf(sum) == Lesser(150, sum)

(* Once set, time_up() says yes for the rest of the search.                *)
GateEarly(now, use) ==
  limits.least > 0 /\ 100 * now > 50 * AvailableAt(use)

Gate(now, use) ==
  limits.least > 0 /\ now >= limits.least /\ 100 * now > 50 * AvailableAt(use)

-----------------------------------------------------------------------------
(* Some thousand nodes later the clock is looked at: check_for_stop().     *)
Look ==
  /\ ended = "no"
  /\ \E step \in Steps : elapsed' = Lesser(Horizon, elapsed + step)
  /\ looks' = IF limits.nodes = 0 THEN 0 ELSE looks + 1
  /\ ended' = IF stop THEN "stop"
              ELSE IF NodesUsed(looks') THEN "nodes"
              ELSE IF TimeUp(elapsed', usage, terminate) THEN "clock"
              ELSE "no"
  /\ UNCHANGED <<go, limits, depth, last, accum, usage, terminate, stop, best, calm>>

(* The root search of this depth returns.                                  *)
IterationEnds ==
  /\ ended = "no"
  /\ \E eval \in Evals, move \in Moves :
       LET mate == eval \in MateEvals
           sum == IF mate THEN accum ELSE AccumAfter(eval, move)
       IN  /\ best' = move
           /\ accum' = sum
           /\ usage' = IF mate THEN usage ELSE UsageOf(sum)
           /\ last' = IF mate THEN last ELSE [move |-> move, eval |-> eval]
           /\ calm' = (calm /\ (mate \/ last.move = NoMove \/ last = [move |-> move, eval |-> eval]))
           /\ terminate' = (terminate \/ Gate(elapsed, usage'))
           /\ ended' = IF NodesUsed(looks) THEN "nodes"
                       ELSE IF TimeUp(elapsed, usage', terminate') THEN "clock"
                       ELSE IF stop THEN "stop"
                       ELSE IF mate THEN "mate"
                       ELSE IF depth = limits.depth THEN "depth" ELSE "no"
           /\ depth' = IF ended' = "no" THEN depth + 1 ELSE depth
  /\ UNCHANGED <<go, limits, elapsed, looks, stop>>

(* stop(), from another thread.                                            *)
Stop ==
  /\ ended = "no" /\ ~stop
  /\ stop' = TRUE
  /\ UNCHANGED <<go, limits, elapsed, looks, depth, last, accum, usage, terminate, best, ended, calm>>

Done == ended # "no" /\ UNCHANGED vars

Next == Look \/ IterationEnds \/ Stop \/ Done

(* The clock is looked at again and again; no iteration need ever end.     *)
Spec == Init /\ [][Next]_vars /\ WF_vars(Look)

-----------------------------------------------------------------------------
(* Properties *)

MaxStep == CHOOSE step \in Steps : \A other \in Steps : other <= step

(* What was promised is kept: however often and however much score and     *)
(* move change, a search ended by the clock had at least its guaranteed    *)
(* time, unless the clock itself is shorter.                               *)
GuaranteedMinimum == ended = "clock" => elapsed >= Lesser(limits.least, limits.most)

(* The time of the move, or the clock with its reserve, is not overrun, if *)
(* the reserve is as long as the time between two looks at the clock.      *)
NeverFlags ==
  LET given == IF TypeOf(go) = "TIME_PER_MOVE" THEN go.movetime ELSE go.time[go.colour]
      kept == IF TypeOf(go) = "TIME_PER_MOVE" THEN Lesser(50, given \div 20) ELSE Lesser(5000, given \div 10)
  IN  Timed /\ kept >= MaxStep => elapsed <= given

(* Only volatility stretches a search: while neither score nor move        *)
(* changes, the guaranteed minimum is all the time that is spent.          *)
CalmSearchEndsInTime == Timed /\ calm => elapsed <= limits.least + MaxStep

(* A search with a clock ends by itself, whatever the numbers of the       *)
(* command are (an empty or overdrawn clock, no time, no moves to go) and  *)
(* even if no iteration ever ends.                                         *)
TimedSearchEnds == Timed => <>(ended # "no")
=============================================================================
