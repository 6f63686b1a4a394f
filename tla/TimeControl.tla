---------------------------- MODULE TimeControl -----------------------------
(***************************************************************************)
(* How a `go` command becomes the limits of a search                       *)
(* (src/src/uci/time_control.cpp, go.h and cmd_go() of state_manager.cpp). *)
(*                                                                         *)
(* A command is a record [ponder, infinite, depth, nodes, movetime,        *)
(* movestogo, time, inc], the last two by colour.  Times are milliseconds; *)
(* the program computes them in floating point, here they are rounded down.*)
(***************************************************************************)
EXTENDS Integers

CONSTANT NoLimit     \* the largest number, for a depth, a node count or a clock not given

ASSUME NoLimitAssumption == NoLimit \in Nat

Undefined == -1      \* a move time or a number of moves not given
White == 0
Black == 1

Lesser(a, b) == IF a <= b THEN a ELSE b
Greater(a, b) == IF a >= b THEN a ELSE b

-----------------------------------------------------------------------------
(* classify() *)

HasDepth(go) == go.depth # NoLimit /\ go.depth > 0
HasNodes(go) == go.nodes # NoLimit /\ go.nodes > 0

TimedTypes == {"TIME_PER_MOVE", "INCREMENT_PER_MOVE", "TOURNAMENT", "SUDDEN_DEATH"}

Classify(go, colour) ==
  CASE go.ponder \/ go.infinite -> "INFINITE"
    [] ~(go.ponder \/ go.infinite) /\ HasDepth(go) -> "FIXED_DEPTH"
    [] ~(go.ponder \/ go.infinite) /\ ~HasDepth(go) /\ HasNodes(go) -> "FIXED_NODES"
    [] OTHER ->
       IF go.movetime # Undefined THEN "TIME_PER_MOVE"
       ELSE IF go.time[colour] = NoLimit THEN "INFINITE"
       ELSE IF go.movestogo # Undefined THEN "TOURNAMENT"
       ELSE IF go.inc[colour] > 0 THEN "INCREMENT_PER_MOVE"
       ELSE "SUDDEN_DEATH"

-----------------------------------------------------------------------------
(* per_move_budget_components(): the least a move gets, and the most *)

Reserved(amount, most) == Lesser(most, amount \div 10)

UsableClock(go, colour) == Greater(0, go.time[colour] - Reserved(go.time[colour], 5000))
UsableInc(go, colour) == Greater(0, go.inc[colour] - Reserved(go.inc[colour], 1000))

(* From 3 with an empty clock down to 1 at twenty seconds, in 10000ths.    *)
EmergencyFactor(clock) == IF clock >= 20000 THEN 10000 ELSE 30000 - clock

(* Zero would mean that there is no limit.                                 *)
AtLeastZero(ms) == ms
AtLeastOne(ms) == Greater(1, ms)

DivideFactor == 35

MoveBudget(type, go, colour) ==
  LET clock == UsableClock(go, colour)
      inc == UsableInc(go, colour)
  IN  CASE type = "TIME_PER_MOVE" ->
             LET budget == AtLeastOne(go.movetime - Lesser(50, go.movetime \div 20))
             IN  [least |-> budget, most |-> budget]
        [] type = "TOURNAMENT" ->
             [least |-> AtLeastOne(clock \div (Greater(1, go.movestogo) + 1) + inc), most |-> clock]
        [] type = "INCREMENT_PER_MOVE" ->
             LET base == clock \div DivideFactor
             IN  [least |-> AtLeastOne(IF clock >= DivideFactor * inc THEN Greater(base, inc)
                                       ELSE Lesser(base, inc)),
                  most |-> clock]
        [] type = "SUDDEN_DEATH" ->
             LET factor == EmergencyFactor(clock)
                 least == AtLeastOne((clock * 10000) \div (DivideFactor * factor))
             IN  [least |-> least, most |-> Greater(least, (clock * 10000) \div factor)]
        [] OTHER -> [least |-> 0, most |-> 0]

(* How much of the clock a volatile search may add, in thousandths.        *)
MaxUsage(type) ==
  CASE type = "SUDDEN_DEATH" -> 125
    [] type \in {"INCREMENT_PER_MOVE", "TOURNAMENT"} -> 200
    [] OTHER -> 0

(* compute(), and what cmd_go() makes of it.  least = 0: no time limit;    *)
(* nodes = 0: no node limit.                                               *)
Limits(go, colour, depth) ==
  LET type == Classify(go, colour)
      budget == MoveBudget(type, go, colour)
  IN  [depth |-> IF type = "FIXED_DEPTH" THEN go.depth ELSE depth,
       nodes |-> IF type = "FIXED_NODES" THEN go.nodes ELSE 0,
       least |-> budget.least, most |-> budget.most, usage |-> MaxUsage(type)]
=============================================================================
