---------------------------- MODULE GoPVSProofs -----------------------------
(***************************************************************************)
(* The time that a search takes, for all clocks, increments and commands,  *)
(* all scores and moves its iterations may return, and any longest time    *)
(* between two looks at the clock.                                         *)
(***************************************************************************)
EXTENDS GoPVS, TLAPS

-----------------------------------------------------------------------------
(* Arithmetic *)

(* A quotient of natural numbers is one, and no larger than the dividend.  *)
LEMMA QuotientIsSmaller ==
  ASSUME NEW a \in Nat, NEW b \in Nat \ {0}
  PROVE  a \div b \in Nat /\ a \div b <= a
<1> DEFINE q == a \div b
           r == a % b
<1>1. q \in Int /\ r \in 0 .. b - 1 /\ a = b * q + r
  OBVIOUS
<1> HIDE DEF q, r
<1>2. q >= 0
  <2> SUFFICES ASSUME q <= -1 PROVE FALSE
    BY <1>1
  <2>1. b * q <= b * (-1)
    BY <1>1
  <2> QED BY <1>1, <2>1
<1>3. b * q >= q
  BY <1>1, <1>2
<1> QED BY <1>1, <1>2, <1>3 DEF q

(* Dividing by a larger number than one has multiplied with only lowers.   *)
LEMMA ScaledDown ==
  ASSUME NEW a \in Nat, NEW b \in Nat, b >= 10000
  PROVE  (a * 10000) \div b \in Nat /\ (a * 10000) \div b <= a
<1> DEFINE q == (a * 10000) \div b
           r == (a * 10000) % b
<1>1. q \in Nat
  BY QuotientIsSmaller
<1>2. r \in 0 .. b - 1 /\ a * 10000 = b * q + r
  OBVIOUS
<1> HIDE DEF q, r
<1>3. b * q >= 10000 * q
  BY <1>1
<1>4. 10000 * q <= 10000 * a
  BY <1>1, <1>2, <1>3
<1> QED BY <1>1, <1>4 DEF q

LEMMA LesserOf ==
  ASSUME NEW a \in Int, NEW b \in Int
  PROVE  Lesser(a, b) \in {a, b} /\ Lesser(a, b) <= a /\ Lesser(a, b) <= b
BY DEF Lesser

LEMMA GreaterOf ==
  ASSUME NEW a \in Int, NEW b \in Int
  PROVE  Greater(a, b) \in {a, b} /\ Greater(a, b) >= a /\ Greater(a, b) >= b
BY DEF Greater

-----------------------------------------------------------------------------
(* The budget of a command *)

(* What NeverFlags compares: the time given, and the part held back.       *)
Given(command) ==
  IF TypeOf(command) = "TIME_PER_MOVE" THEN command.movetime ELSE command.time[command.colour]
Kept(command) ==
  IF TypeOf(command) = "TIME_PER_MOVE" THEN Lesser(50, command.movetime \div 20)
  ELSE Lesser(5000, command.time[command.colour] \div 10)

Usable(command) == UsableClock(command, command.colour)

LEMMA UsableTimes ==
  ASSUME NEW command \in Goes
  PROVE  /\ Usable(command) \in Nat
         /\ UsableInc(command, command.colour) \in Nat
         /\ command.time[command.colour] \in Int
<1>1. command.time[command.colour] \in Int /\ command.inc[command.colour] \in Int
  BY GoPVSAssumption
<1>2. /\ Reserved(command.time[command.colour], 5000) \in Int
      /\ Reserved(command.inc[command.colour], 1000) \in Int
  BY <1>1, LesserOf DEF Reserved
<1> QED BY <1>1, <1>2, GreaterOf DEF Usable, UsableClock, UsableInc

LEMMA EmergencyFactorTyped ==
  ASSUME NEW clock \in Nat
  PROVE  EmergencyFactor(clock) \in Nat /\ EmergencyFactor(clock) >= 10000
BY DEF EmergencyFactor

(* On sudden death the most is within the clock, and so is the least,      *)
(* unless the clock is empty.                                              *)
LEMMA SuddenDeathBudget ==
  ASSUME NEW command \in Goes
  PROVE  LET budget == MoveBudget("SUDDEN_DEATH", command, command.colour)
         IN  /\ budget.least \in Nat /\ budget.least >= 1
             /\ budget.most \in Nat
             /\ Usable(command) >= 1 => budget.most <= Usable(command)
<1> DEFINE clock == Usable(command)
           factor == EmergencyFactor(clock)
           share == (clock * 10000) \div (35 * factor)
           whole == (clock * 10000) \div factor
<1>1. clock \in Nat
  BY UsableTimes
<1>2. factor \in Nat /\ factor >= 10000
  BY <1>1, EmergencyFactorTyped
<1>3. MoveBudget("SUDDEN_DEATH", command, command.colour)
        = [least |-> AtLeastOne(share), most |-> Greater(AtLeastOne(share), whole)]
  BY DEF MoveBudget, Usable, DivideFactor
<1> HIDE DEF clock, factor
<1>4. share \in Nat /\ share <= clock
  BY <1>1, <1>2, ScaledDown
<1>5. whole \in Nat /\ whole <= clock
  BY <1>1, <1>2, ScaledDown
<1> HIDE DEF share, whole
<1>6. AtLeastOne(share) \in {1, share} /\ AtLeastOne(share) >= 1
  BY <1>4, GreaterOf DEF AtLeastOne
<1>7. Greater(AtLeastOne(share), whole) \in {AtLeastOne(share), whole}
  BY <1>4, <1>5, <1>6, GreaterOf
<1>8. clock >= 1 => Greater(AtLeastOne(share), whole) <= clock
  BY <1>1, <1>4, <1>5, <1>6, <1>7
<1> QED BY <1>3, <1>4, <1>5, <1>6, <1>7, <1>8 DEF clock

LEMMA TournamentBudget ==
  ASSUME NEW command \in Goes
  PROVE  LET budget == MoveBudget("TOURNAMENT", command, command.colour)
         IN  /\ budget.least \in Nat /\ budget.least >= 1
             /\ budget.most = Usable(command)
<1> DEFINE share == Usable(command) \div (Greater(1, command.movestogo) + 1)
           inc == UsableInc(command, command.colour)
<1>1. command.movestogo \in Int
  BY GoPVSAssumption
<1>2. Greater(1, command.movestogo) \in Int /\ Greater(1, command.movestogo) >= 1
  BY <1>1, GreaterOf
<1>3. share \in Nat
  BY <1>2, UsableTimes, QuotientIsSmaller
<1>4. inc \in Nat
  BY UsableTimes
<1>5. MoveBudget("TOURNAMENT", command, command.colour)
        = [least |-> AtLeastOne(share + inc), most |-> Usable(command)]
  BY DEF MoveBudget, Usable
<1> HIDE DEF share, inc
<1> QED BY <1>3, <1>4, <1>5, GreaterOf DEF AtLeastOne

LEMMA IncrementBudget ==
  ASSUME NEW command \in Goes
  PROVE  LET budget == MoveBudget("INCREMENT_PER_MOVE", command, command.colour)
         IN  /\ budget.least \in Nat /\ budget.least >= 1
             /\ budget.most = Usable(command)
<1> DEFINE clock == Usable(command)
           base == clock \div DivideFactor
           inc == UsableInc(command, command.colour)
           raw == IF clock >= DivideFactor * inc THEN Greater(base, inc) ELSE Lesser(base, inc)
<1>1. clock \in Nat /\ inc \in Nat
  BY UsableTimes
<1>2. base \in Nat
  BY <1>1, QuotientIsSmaller DEF DivideFactor
<1>3. MoveBudget("INCREMENT_PER_MOVE", command, command.colour) = [least |-> AtLeastOne(raw), most |-> clock]
  BY DEF MoveBudget, Usable
<1> HIDE DEF clock, base, inc
<1>4. raw \in {base, inc}
  BY <1>1, <1>2, GreaterOf, LesserOf
<1> HIDE DEF raw
<1>5. AtLeastOne(raw) \in Nat /\ AtLeastOne(raw) >= 1
  BY <1>1, <1>2, <1>4, GreaterOf DEF AtLeastOne
<1> QED BY <1>3, <1>5 DEF clock

LEMMA MoveTimeBudget ==
  ASSUME NEW command \in Goes
  PROVE  LET budget == MoveBudget("TIME_PER_MOVE", command, command.colour)
             kept == Lesser(50, command.movetime \div 20)
         IN  /\ budget.least \in Nat /\ budget.least >= 1
             /\ budget.most = budget.least
             /\ kept >= 1 => budget.most = command.movetime - kept
<1> DEFINE kept == Lesser(50, command.movetime \div 20)
<1>1. command.movetime \in Int
  BY GoPVSAssumption
<1>2. kept \in Int /\ kept <= command.movetime \div 20
  BY <1>1, LesserOf
<1>3. MoveBudget("TIME_PER_MOVE", command, command.colour)
        = [least |-> AtLeastOne(command.movetime - kept), most |-> AtLeastOne(command.movetime - kept)]
  BY DEF MoveBudget
<1>4. kept >= 1 => command.movetime - kept >= 1
  BY <1>1, <1>2
<1> HIDE DEF kept
<1>5. /\ AtLeastOne(command.movetime - kept) \in {1, command.movetime - kept}
      /\ AtLeastOne(command.movetime - kept) >= 1
      /\ AtLeastOne(command.movetime - kept) >= command.movetime - kept
  BY <1>1, <1>2, GreaterOf DEF AtLeastOne
<1>6. kept >= 1 => AtLeastOne(command.movetime - kept) = command.movetime - kept
  BY <1>1, <1>2, <1>4, <1>5
<1> QED BY <1>1, <1>2, <1>3, <1>5, <1>6 DEF kept

LEMMA BudgetOf ==
  ASSUME NEW command \in Goes
  PROVE  LET budget == Limits(command, command.colour, MaxDepth)
         IN  /\ budget.least \in Nat /\ budget.most \in Nat /\ budget.usage \in Nat
             /\ TypeOf(command) \in TimedTypes =>
                  /\ budget.least >= 1
                  /\ Kept(command) >= 1 => budget.most <= Given(command) - Kept(command)
<1> DEFINE type == TypeOf(command)
           budget == MoveBudget(type, command, command.colour)
           result == Limits(command, command.colour, MaxDepth)
<1>1. /\ result.least = budget.least /\ result.most = budget.most /\ result.usage = MaxUsage(type)
  BY DEF Limits, TypeOf
<1>2. MaxUsage(type) \in Nat
  BY DEF MaxUsage
<1>3. ASSUME Usable(command) >= 1 \/ Lesser(5000, command.time[command.colour] \div 10) >= 1
      PROVE  Usable(command) = command.time[command.colour] - Lesser(5000, command.time[command.colour] \div 10)
  <2>1. command.time[command.colour] \in Int
    BY UsableTimes
  <2>2. Lesser(5000, command.time[command.colour] \div 10) \in Int
    BY <2>1, LesserOf
  <2>3. Lesser(5000, command.time[command.colour] \div 10) <= command.time[command.colour] \div 10
    BY <2>1, LesserOf
  <2>4. Lesser(5000, command.time[command.colour] \div 10) >= 1 =>
          command.time[command.colour] - Lesser(5000, command.time[command.colour] \div 10) >= 1
    BY <2>1, <2>2, <2>3
  <2> QED BY <1>3, <2>1, <2>2, <2>4 DEF Usable, UsableClock, Reserved, Greater
<1>4. Lesser(5000, command.time[command.colour] \div 10) >= 1 => Usable(command) >= 1
  <2>1. command.time[command.colour] \in Int
    BY UsableTimes
  <2>2. Lesser(5000, command.time[command.colour] \div 10) \in Int
    BY <2>1, LesserOf
  <2>3. Lesser(5000, command.time[command.colour] \div 10) <= command.time[command.colour] \div 10
    BY <2>1, LesserOf
  <2> QED BY <1>3, <2>1, <2>2, <2>3
<1>5. CASE type = "TIME_PER_MOVE"
  <2>1. /\ Given(command) = command.movetime
        /\ Kept(command) = Lesser(50, command.movetime \div 20)
    BY <1>5 DEF Given, Kept
  <2>2. command.movetime \in Int
    BY GoPVSAssumption
  <2> QED BY <1>1, <1>2, <1>5, <2>1, <2>2, MoveTimeBudget
<1> DEFINE ByClock == /\ Given(command) = command.time[command.colour]
                      /\ Kept(command) = Lesser(5000, command.time[command.colour] \div 10)
<1>6. type # "TIME_PER_MOVE" => ByClock
  BY DEF Given, Kept
<1>7. CASE type = "TOURNAMENT"
  BY <1>1, <1>2, <1>3, <1>4, <1>6, <1>7, TournamentBudget, UsableTimes
<1>8. CASE type = "INCREMENT_PER_MOVE"
  BY <1>1, <1>2, <1>3, <1>4, <1>6, <1>8, IncrementBudget, UsableTimes
<1>9. CASE type = "SUDDEN_DEATH"
  BY <1>1, <1>2, <1>3, <1>4, <1>6, <1>9, SuddenDeathBudget, UsableTimes
<1>10. CASE type \notin TimedTypes
  <2>1. budget = [least |-> 0, most |-> 0]
    BY <1>10 DEF MoveBudget, TimedTypes
  <2> QED BY <1>1, <1>2, <1>10, <2>1
<1> QED BY <1>5, <1>7, <1>8, <1>9, <1>10 DEF TimedTypes

-----------------------------------------------------------------------------
(* The invariant *)

LEMMA LongestStep ==
  /\ MaxStep \in Nat \ {0}
  /\ \A step \in Steps : step \in Nat \ {0} /\ step <= MaxStep
<1>1. PICK longest \in Steps : \A step \in Steps : step <= longest
  BY GoPVSAssumption
<1>2. MaxStep \in Steps /\ \A step \in Steps : step <= MaxStep
  BY <1>1 DEF MaxStep
<1> QED BY <1>2, GoPVSAssumption

VariablesTyped ==
  /\ go \in Goes
  /\ limits = Limits(go, go.colour, MaxDepth)
  /\ elapsed \in 0 .. Horizon
  /\ accum \in Nat /\ usage \in Nat
  /\ last \in [move : Moves \cup {NoMove}, eval : Int]
  /\ terminate \in BOOLEAN /\ calm \in BOOLEAN

(* Nothing asks the search to stop before its guaranteed time.             *)
GateInv == terminate => elapsed >= limits.least
EndInv == GuaranteedMinimum

(* A search that goes on has time left: time_up() said no.                 *)
TimeLeft ==
  limits.least > 0 /\ ended = "no" =>
    /\ elapsed < AvailableAt(usage)
    /\ elapsed = 0 \/ elapsed < limits.most

(* An overrun is at most the time since the look before.                   *)
OverrunInv == limits.least > 0 => elapsed <= limits.most + MaxStep

CalmInv ==
  calm => /\ accum = 0 /\ usage = 0
          /\ limits.least > 0 => elapsed <= limits.least + MaxStep

IInv == VariablesTyped /\ GateInv /\ EndInv /\ TimeLeft /\ OverrunInv /\ CalmInv

LEMMA LimitsTyped ==
  ASSUME VariablesTyped
  PROVE  limits.least \in Nat /\ limits.most \in Nat /\ limits.usage \in Nat
BY BudgetOf DEF VariablesTyped

(* Volatility adds to the guaranteed time, and calm adds nothing.          *)
LEMMA TimeAvailable ==
  ASSUME VariablesTyped, NEW use \in Nat
  PROVE  /\ AvailableAt(use) \in Nat /\ AvailableAt(use) >= limits.least
         /\ AvailableAt(0) = limits.least
<1> DEFINE part == limits.most * limits.usage * use
<1>1. part \in Nat
  BY LimitsTyped
<1>2. part \div 150000 \in Nat
  BY <1>1, QuotientIsSmaller
<1>3. limits.most * limits.usage * 0 = 0
  BY LimitsTyped
<1>4. 0 \div 150000 = 0
  OBVIOUS
<1> HIDE DEF part
<1>5. AvailableAt(use) = limits.least + part \div 150000
  BY DEF AvailableAt, part
<1>6. AvailableAt(0) = limits.least + 0
  BY <1>3, <1>4 DEF AvailableAt
<1> QED BY <1>2, <1>5, <1>6, LimitsTyped

LEMMA InitInv == Init => IInv
<1> SUFFICES ASSUME Init PROVE IInv
  OBVIOUS
<1>1. VariablesTyped
  <2>1. 0 \in 0 .. Horizon
    BY GoPVSAssumption
  <2>2. [move |-> NoMove, eval |-> 0] \in [move : Moves \cup {NoMove}, eval : Int]
    OBVIOUS
  <2> QED BY <2>1, <2>2 DEF Init, VariablesTyped
<1>2. /\ limits.least \in Nat /\ limits.most \in Nat
      /\ AvailableAt(0) = limits.least
  BY <1>1, LimitsTyped, TimeAvailable
<1>3. OverrunInv /\ CalmInv /\ TimeLeft
  BY <1>2, LongestStep DEF Init, OverrunInv, CalmInv, TimeLeft
<1> QED BY <1>1, <1>3 DEF Init, IInv, GateInv, EndInv, GuaranteedMinimum

(* The clock is looked at.                                                 *)
LEMMA LookInv == IInv /\ Look => IInv'
<1> SUFFICES ASSUME IInv, Look PROVE IInv'
  OBVIOUS
<1>1. VariablesTyped
  BY DEF IInv
<1>2. /\ limits.least \in Nat /\ limits.most \in Nat
      /\ AvailableAt(usage) \in Nat /\ AvailableAt(usage) >= limits.least
      /\ AvailableAt(0) = limits.least
  BY <1>1, LimitsTyped, TimeAvailable DEF VariablesTyped
<1>3. PICK step \in Steps : elapsed' = Lesser(Horizon, elapsed + step)
  BY DEF Look
<1>4. step \in Nat \ {0} /\ step <= MaxStep /\ MaxStep \in Nat
  BY LongestStep
<1>5. elapsed \in Nat /\ elapsed <= Horizon /\ Horizon \in Nat
  BY <1>1, GoPVSAssumption DEF VariablesTyped
<1>6. elapsed' \in 0 .. Horizon /\ elapsed' >= elapsed /\ elapsed' <= elapsed + MaxStep
  BY <1>3, <1>4, <1>5 DEF Lesser
<1>7. /\ UNCHANGED <<go, limits, accum, usage, last, terminate, calm>>
      /\ AvailableAt(usage)' = AvailableAt(usage)
  BY DEF Look, AvailableAt
<1>8. VariablesTyped'
  BY <1>1, <1>6, <1>7 DEF VariablesTyped
<1>9. GateInv'
  BY <1>2, <1>5, <1>6, <1>7 DEF IInv, GateInv
<1>10. /\ ended' = "clock" => TimeUp(elapsed', usage, terminate)
       /\ ended' = "no" => ~TimeUp(elapsed', usage, terminate)
  BY DEF Look
<1>11. EndInv'
  <2> SUFFICES ASSUME ended' = "clock" PROVE elapsed' >= Lesser(limits.least, limits.most)
    BY <1>7 DEF EndInv, GuaranteedMinimum
  <2>1. terminate \/ elapsed' >= limits.most \/ elapsed' >= AvailableAt(usage)
    BY <1>10 DEF TimeUp
  <2>2. terminate => elapsed' >= limits.least
    BY <1>7, <1>9 DEF GateInv
  <2>3. elapsed' >= limits.least \/ elapsed' >= limits.most
    BY <1>2, <1>6, <2>1, <2>2
  <2> QED BY <1>2, <1>6, <2>3 DEF Lesser
<1>12. TimeLeft'
  BY <1>2, <1>6, <1>7, <1>10 DEF TimeLeft, TimeUp
<1>13. limits.least > 0 => /\ elapsed < AvailableAt(usage)
                           /\ elapsed = 0 \/ elapsed < limits.most
  BY DEF IInv, TimeLeft, Look
<1>14. OverrunInv'
  BY <1>2, <1>4, <1>5, <1>6, <1>7, <1>13 DEF OverrunInv
<1>15. CalmInv'
  <2> SUFFICES ASSUME calm PROVE accum = 0 /\ usage = 0
                                 /\ (limits.least > 0 => elapsed' <= limits.least + MaxStep)
    BY <1>7 DEF CalmInv
  <2>1. accum = 0 /\ usage = 0
    BY DEF IInv, CalmInv
  <2> QED BY <1>2, <1>4, <1>5, <1>6, <1>13, <2>1
<1> QED BY <1>8, <1>9, <1>11, <1>12, <1>14, <1>15 DEF IInv

LEMMA DistanceTyped ==
  ASSUME NEW a \in Int, NEW b \in Int
  PROVE  Distance(a, b) \in Nat /\ Distance(a, a) = 0
BY DEF Distance

(* An iteration returns: the sum moves, the gate may close.                *)
LEMMA IterationInv == IInv /\ IterationEnds => IInv'
<1> SUFFICES ASSUME IInv, IterationEnds PROVE IInv'
  OBVIOUS
<1>1. VariablesTyped
  BY DEF IInv
<1> PICK eval \in Evals, move \in Moves :
      LET mate == eval \in MateEvals
          sum == IF mate THEN accum ELSE AccumAfter(eval, move)
      IN  /\ best' = move
          /\ accum' = sum
          /\ usage' = IF mate THEN usage ELSE UsageOf(sum)
          /\ last' = IF mate THEN last ELSE [move |-> move, eval |-> eval]
          /\ calm' = (calm /\ (mate \/ last.move = NoMove \/ last = [move |-> move, eval |-> eval]))
          /\ terminate' = (terminate \/ Gate(elapsed, usage'))
          /\ ended' = IF NodesUsed(looks) THEN "nodes"
                      ELSE IF TimeUp(elapsed, usage', terminate') THEN "clock"
                      ELSE IF stop THEN "stop"
                      ELSE IF mate THEN "mate"
                      ELSE IF depth = limits.depth THEN "depth" ELSE "no"
  BY DEF IterationEnds
<1>2. UNCHANGED <<go, limits, elapsed>>
  BY DEF IterationEnds
<1>3. eval \in Int /\ last.eval \in Int /\ accum \in Nat /\ usage \in Nat
  BY <1>1, GoPVSAssumption DEF VariablesTyped
<1>4. AccumAfter(eval, move) \in Nat
  <2>1. accum \div 2 \in Nat
    BY <1>3
  <2>2. Distance(last.eval, eval) \in Nat
    BY <1>3, DistanceTyped
  <2> DEFINE penalty == IF last.move # move THEN 50 ELSE 0
  <2>3. penalty \in Nat
    OBVIOUS
  <2>4. AccumAfter(eval, move) = IF last.move = NoMove THEN accum
                                 ELSE accum \div 2 + Distance(last.eval, eval) + penalty
    BY DEF AccumAfter
  <2> HIDE DEF penalty
  <2> QED BY <1>3, <2>1, <2>2, <2>3, <2>4
<1>5. accum' \in Nat /\ usage' \in Nat
  <2>1. UsageOf(AccumAfter(eval, move)) \in Nat
    BY <1>4 DEF UsageOf, Lesser
  <2> QED BY <1>3, <1>4, <2>1
<1>6. VariablesTyped'
  <2>1. last' \in [move : Moves \cup {NoMove}, eval : Int]
    BY <1>1, <1>3 DEF VariablesTyped
  <2>2. terminate' \in BOOLEAN /\ calm' \in BOOLEAN
    BY <1>1 DEF VariablesTyped, Gate
  <2> QED BY <1>1, <1>2, <1>5, <2>1, <2>2 DEF VariablesTyped
<1>7. /\ limits.least \in Nat /\ limits.most \in Nat
      /\ AvailableAt(usage') \in Nat /\ AvailableAt(usage') >= limits.least
      /\ AvailableAt(usage)' = AvailableAt(usage')
  BY <1>1, <1>2, <1>5, LimitsTyped, TimeAvailable DEF AvailableAt
<1>8. GateInv'
  BY <1>2, <1>7 DEF IInv, GateInv, Gate
<1>9. EndInv'
  <2> SUFFICES ASSUME ended' = "clock" PROVE elapsed >= Lesser(limits.least, limits.most)
    BY <1>2 DEF EndInv, GuaranteedMinimum
  <2>1. terminate' \/ elapsed >= limits.most \/ elapsed >= AvailableAt(usage')
    BY DEF TimeUp
  <2>2. terminate' => elapsed >= limits.least
    BY <1>2, <1>8 DEF GateInv
  <2> QED BY <1>1, <1>7, <2>1, <2>2 DEF Lesser, VariablesTyped
<1>10. TimeLeft'
  <2> SUFFICES ASSUME limits.least > 0, ended' = "no"
               PROVE  elapsed < AvailableAt(usage') /\ elapsed < limits.most
    BY <1>2, <1>7 DEF TimeLeft
  <2>1. ~TimeUp(elapsed, usage', terminate')
    OBVIOUS
  <2> QED BY <1>1, <1>7, <2>1 DEF TimeUp, VariablesTyped
<1>11. OverrunInv'
  BY <1>2 DEF IInv, OverrunInv
<1>12. CalmInv'
  <2> SUFFICES ASSUME calm' PROVE accum' = 0 /\ usage' = 0
    BY <1>2 DEF IInv, CalmInv
  <2>1. calm /\ accum = 0 /\ usage = 0
    BY DEF IInv, CalmInv
  <2>2. UsageOf(0) = 0
    BY DEF UsageOf, Lesser
  <2>3. CASE eval \in MateEvals
    BY <2>1, <2>3
  <2>4. CASE eval \notin MateEvals /\ last.move = NoMove
    BY <2>1, <2>2, <2>4 DEF AccumAfter
  <2>5. CASE eval \notin MateEvals /\ last.move # NoMove
    <3>1. last = [move |-> move, eval |-> eval]
      BY <2>5
    <3>2. last.move = move /\ last.eval = eval
      BY <3>1
    <3>3. AccumAfter(eval, move) = accum \div 2 + Distance(eval, eval) + 0
      BY <2>5, <3>2 DEF AccumAfter
    <3>4. AccumAfter(eval, move) = 0
      BY <1>3, <2>1, <3>3, DistanceTyped
    <3> QED BY <2>2, <2>5, <3>4
  <2> QED BY <2>3, <2>4, <2>5
<1> QED BY <1>6, <1>8, <1>9, <1>10, <1>11, <1>12 DEF IInv

LEMMA StepInv == IInv /\ [Next]_vars => IInv'
<1> SUFFICES ASSUME IInv, [Next]_vars PROVE IInv'
  OBVIOUS
<1>1. CASE Look
  BY <1>1, LookInv
<1>2. CASE IterationEnds
  BY <1>2, IterationInv
<1>3. CASE Stop
  BY <1>3 DEF Stop, IInv, VariablesTyped, GateInv, EndInv, GuaranteedMinimum, TimeLeft, AvailableAt,
              OverrunInv, CalmInv
<1>4. CASE UNCHANGED vars
  BY <1>4 DEF vars, IInv, VariablesTyped, GateInv, EndInv, GuaranteedMinimum, TimeLeft, AvailableAt,
              OverrunInv, CalmInv
<1> QED BY <1>1, <1>2, <1>3, <1>4 DEF Next, Done

LEMMA InductiveInv == Spec => []IInv
BY InitInv, StepInv, PTL DEF Spec

-----------------------------------------------------------------------------
(* A search that the clock ends had the time it was guaranteed, unless the *)
(* clock is shorter, for any commands, scores, moves and steps.            *)
THEOREM MinimumIsGuaranteed == Spec => []GuaranteedMinimum
<1>1. IInv => GuaranteedMinimum
  BY DEF IInv, EndInv
<1> QED BY <1>1, InductiveInv, PTL

(* Whatever the clock and the increment are, the time given is not overrun *)
(* if the part held back is as long as the time between two looks.         *)
THEOREM FlagNeverFalls == Spec => []NeverFlags
<1>1. IInv => NeverFlags
  <2> SUFFICES ASSUME IInv, Timed, Kept(go) >= MaxStep PROVE elapsed <= Given(go)
    BY DEF NeverFlags, Kept, Given
  <2>1. go \in Goes /\ limits = Limits(go, go.colour, MaxDepth) /\ elapsed \in Nat
    BY DEF IInv, VariablesTyped
  <2>2. MaxStep \in Nat /\ MaxStep >= 1
    BY LongestStep
  <2>3. Kept(go) \in Int /\ Given(go) \in Int
    <3>1. go.movetime \in Int /\ go.time[go.colour] \in Int
      BY <2>1, GoPVSAssumption
    <3> QED BY <3>1, LesserOf DEF Kept, Given
  <2>4. limits.most \in Nat /\ limits.least >= 1 /\ limits.most <= Given(go) - Kept(go)
    BY <2>1, <2>2, <2>3, BudgetOf DEF Timed
  <2>5. limits.least \in Nat
    BY <2>1, BudgetOf
  <2>6. elapsed <= limits.most + MaxStep
    BY <2>4, <2>5 DEF IInv, OverrunInv
  <2> QED BY <2>1, <2>2, <2>3, <2>4, <2>6
<1> QED BY <1>1, InductiveInv, PTL

(* While neither score nor move changes, a search spends the guaranteed    *)
(* time and no more, up to the next look at the clock.                     *)
THEOREM CalmSearchIsShort == Spec => []CalmSearchEndsInTime
<1>1. IInv => CalmSearchEndsInTime
  <2> SUFFICES ASSUME IInv, Timed, calm PROVE elapsed <= limits.least + MaxStep
    BY DEF CalmSearchEndsInTime
  <2>1. limits.least \in Nat /\ limits.least >= 1
    BY BudgetOf DEF IInv, VariablesTyped, Timed
  <2> QED BY <2>1 DEF IInv, CalmInv
<1> QED BY <1>1, InductiveInv, PTL
=============================================================================
