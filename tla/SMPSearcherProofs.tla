------------------------- MODULE SMPSearcherProofs --------------------------
(***************************************************************************)
(* The coordinator of a parallel search, for any number of workers, any    *)
(* depth, moves and scores, and any order of their steps: its count of     *)
(* running workers is right, and what it returns is what it has shown.     *)
(*                                                                         *)
(* The state invariant does without what a vote is worth: it holds for     *)
(* every winner that has a voter.  The vote itself comes last.             *)
(***************************************************************************)
EXTENDS SMPSearcher, FiniteSetTheorems, WellFoundedInduction, TLAPS

LEMMA ConstantTypes == N \in Nat \ {0} /\ MaxDepth \in Nat \ {0} /\ NoMove \notin Moves
  BY MergeAssumption

-----------------------------------------------------------------------------
(* The inductive invariant.                                                *)

Votes == [move : Moves \cup {NoMove}, score : Reported \cup {ScoreMin}]

MergeInv == merge \in [cur : Depths, by_depth : [Workers -> [Depths -> Votes]]]

ThreadTypes ==
  /\ pc \in {"entry", "launch", "poll", "join", "done"}
  /\ limited \in BOOLEAN
  /\ stop \in BOOLEAN
  /\ caller \subseteq Workers
  /\ called \in BOOLEAN
  /\ worker \in [Workers -> {"idle", "started", "running", "finished"}]
  /\ wstop \in [Workers -> BOOLEAN]
  /\ wdepth \in [Workers -> Depths]

Unfinished(state) == {w \in Workers : state[w] # "finished"}

(* The count is set before the threads exist and from then on that of the  *)
(* threads that have not finished.                                         *)
CountInv ==
  /\ pc = "entry" => running = 0
  /\ pc \in {"entry", "launch"} => worker = [w \in Workers |-> "idle"]
  /\ pc # "entry" => running = Cardinality(Unfinished(worker))

(* What was sent last, what the emitter remembers and what the screen      *)
(* shows have the same move, printed or suppressed.                        *)
ResultsTyped ==
  \A r \in {last, result} : r.depth \in 0 .. MaxDepth /\ r.move \in Moves \cup {NoMove}

ShownInv ==
  /\ pc # "done" => shown = last.move /\ emitter.last_best_move = last.move
  /\ pc = "done" => shown = result.move

IInv == ThreadTypes /\ MergeInv /\ CountInv /\ ResultsTyped /\ ShownInv

-----------------------------------------------------------------------------
(* The merge *)

LEMMA OneIsADepth == 1 \in Depths
  BY ConstantTypes DEF Depths

LEMMA ResetType == Reset \in [cur : Depths, by_depth : [Workers -> [Depths -> Votes]]]
  BY OneIsADepth DEF Reset, NoResult, Votes

LEMMA UpdateType ==
  ASSUME MergeInv, NEW w \in Workers, NEW d \in Depths, NEW score \in Reported,
         NEW move \in Moves, NEW upper \in BOOLEAN
  PROVE  Update(merge, w, [depth |-> d, score |-> score, move |-> move, upper |-> upper])
           \in [cur : Depths, by_depth : [Workers -> [Depths -> Votes]]]
<1>1. [move |-> move, score |-> score] \in Votes
  BY DEF Votes
<1> QED
  BY <1>1 DEF Update, MergeInv

LEMMA AdvanceType ==
  ASSUME MergeInv
  PROVE  Advance(merge) \in [cur : Depths, by_depth : [Workers -> [Depths -> Votes]]]
<1>1. HasDepth(merge, merge.cur + 1) => merge.cur + 1 \in Depths
  BY DEF HasDepth
<1> QED
  BY <1>1 DEF Advance, MergeInv

(* A winner is a move of the root, at the consensus depth.                 *)
LEMMA ElectedType ==
  ASSUME NEW m, m.cur \in Depths, NEW move \in Winners(m)
  PROVE  /\ Elected(m, move).move = move
         /\ move \in Moves
         /\ Elected(m, move).depth \in 0 .. MaxDepth
         /\ ~Elected(m, move).upper
<1>1. Elected(m, move).depth = m.cur /\ Elected(m, move).move = move /\ ~Elected(m, move).upper
  BY DEF Elected
<1>2. move \in Moves
  BY DEF Winners, Candidates
<1>3. m.cur \in 0 .. MaxDepth
  BY ConstantTypes DEF Depths
<1> QED
  BY <1>1, <1>2, <1>3

(* Sending an elected result leaves its move on the screen and in the      *)
(* emitter's memory: a line is held back only if the move has not changed. *)
LEMMA SendShows ==
  ASSUME NEW r, r.move \in Moves, ~r.upper, Send(r), shown = last.move,
         emitter.last_best_move = last.move
  PROVE  shown' = r.move /\ emitter'.last_best_move = r.move
<1>1. PICK overdue \in BOOLEAN :
        /\ emitter' = InfoCallback(emitter, r, overdue)
        /\ shown' = Displayed(shown, emitter, r, overdue)
  BY DEF Send
<1>2. HasPV(r)
  BY DEF HasPV
<1>3. CASE Emits(emitter, r, overdue)
  BY <1>1, <1>2, <1>3 DEF InfoCallback, Displayed
<1>4. CASE ~Emits(emitter, r, overdue)
  <2>1. r.move = emitter.last_best_move
    BY <1>4, ConstantTypes DEF Emits, BestMoveChanged
  <2> QED
    BY <1>1, <1>4, <2>1 DEF InfoCallback, Displayed
<1> QED
  BY <1>3, <1>4

-----------------------------------------------------------------------------
(* Counting threads *)

LEMMA WorkersFinite == IsFiniteSet(Workers) /\ Cardinality(Workers) = N
<1>1. N \in Int /\ 1 \in Int /\ ~(1 > N) /\ N - 1 + 1 = N
  BY ConstantTypes
<1> QED
  BY <1>1, FS_Interval DEF Workers

LEMMA UnfinishedFinite ==
  ASSUME NEW state
  PROVE  /\ IsFiniteSet(Unfinished(state))
         /\ Cardinality(Unfinished(state)) \in 0 .. N
<1>1. Unfinished(state) \in SUBSET Workers
  BY DEF Unfinished
<1>2. IsFiniteSet(Unfinished(state)) /\ Cardinality(Unfinished(state)) <= N
  BY <1>1, WorkersFinite, FS_Subset
<1>3. Cardinality(Unfinished(state)) \in Nat
  BY <1>2, FS_CardinalityType
<1> QED
  BY <1>2, <1>3, ConstantTypes

LEMMA RunningInRange == IInv => running \in 0 .. N
<1> SUFFICES ASSUME IInv PROVE running \in 0 .. N
  OBVIOUS
<1>1. CASE pc = "entry"
  BY <1>1, ConstantTypes DEF IInv, CountInv
<1>2. CASE pc # "entry"
  BY <1>2, UnfinishedFinite DEF IInv, CountInv
<1> QED
  BY <1>1, <1>2

-----------------------------------------------------------------------------
LEMMA InitInv == Init => IInv
<1> SUFFICES ASSUME Init PROVE IInv
  OBVIOUS
<1>1. ThreadTypes
  <2>1. limited \in BOOLEAN
    BY SMPAssumption, Zenon DEF Init
  <2> QED
    BY <2>1, OneIsADepth DEF Init, ThreadTypes
<1>2. MergeInv
  BY ResetType DEF Init, MergeInv
<1>3. CountInv
  BY DEF Init, CountInv
<1>4. ResultsTyped
  BY ConstantTypes DEF Init, ResultsTyped, EmptyResult
<1>5. ShownInv
  BY DEF Init, ShownInv, EmptyResult, FreshEmitter
<1> QED
  BY <1>1, <1>2, <1>3, <1>4, <1>5 DEF IInv

LEMMA NextInv == IInv /\ [Next]_vars => IInv'
<1> SUFFICES ASSUME IInv, [Next]_vars PROVE IInv'
  OBVIOUS
<1> USE DEF IInv
<1>1. CASE UNCHANGED vars
  BY <1>1 DEF vars, votes, output, ThreadTypes, MergeInv, CountInv, ResultsTyped, ShownInv, Unfinished
<1>2. CASE Enter
  <2>1. MergeInv'
    BY <1>2, ResetType DEF Enter, MergeInv
  <2>2. CountInv'
    <3>1. worker' = [w \in Workers |-> "idle"] /\ running' = N /\ pc' = "launch"
      BY <1>2 DEF Enter, CountInv
    <3>2. Unfinished(worker') = Workers
      BY <3>1 DEF Unfinished
    <3> QED
      BY <3>1, <3>2, WorkersFinite DEF CountInv
  <2>3. ThreadTypes' /\ ResultsTyped' /\ ShownInv'
    BY <1>2 DEF Enter, output, ThreadTypes, ResultsTyped, ShownInv
  <2> QED
    BY <2>1, <2>2, <2>3
<1>3. CASE Launch
  <2>1. CountInv'
    <3>1. /\ worker = [w \in Workers |-> "idle"] /\ worker' = [w \in Workers |-> "started"]
          /\ running' = Cardinality(Unfinished(worker)) /\ pc' = "poll"
      BY <1>3 DEF Launch, CountInv
    <3>2. Unfinished(worker') = Unfinished(worker)
      BY <3>1 DEF Unfinished
    <3> QED
      BY <3>1, <3>2 DEF CountInv
  <2>2. ThreadTypes' /\ MergeInv' /\ ResultsTyped' /\ ShownInv'
    BY <1>3 DEF Launch, output, ThreadTypes, MergeInv, ResultsTyped, ShownInv
  <2> QED
    BY <2>1, <2>2
<1>4. CASE Poll
  <2>1. merge'.cur \in Depths /\ MergeInv'
    BY <1>4, AdvanceType DEF Poll, MergeInv
  <2>2. ThreadTypes' /\ CountInv'
    BY <1>4 DEF Poll, ThreadTypes, CountInv, Unfinished
  <2>3. pc = "poll" /\ pc' = "poll" /\ result' = result
    BY <1>4 DEF Poll
  <2>4. CASE UNCHANGED <<last, emitter, shown>>
    BY <2>1, <2>2, <2>3, <2>4 DEF ResultsTyped, ShownInv
  <2>5. ASSUME NEW move \in Winners(merge'), Send(Elected(merge', move)), last' = Elected(merge', move)
        PROVE  IInv'
    <3>1. last'.move \in Moves /\ last'.depth \in 0 .. MaxDepth /\ ~last'.upper
      BY <2>1, <2>5, ElectedType
    <3>2. shown' = last'.move /\ emitter'.last_best_move = last'.move
      BY <2>3, <2>5, <3>1, SendShows DEF ShownInv
    <3> QED
      BY <2>1, <2>2, <2>3, <3>1, <3>2 DEF ResultsTyped, ShownInv
  <2> QED
    BY <1>4, <2>4, <2>5 DEF Poll
<1>5. CASE StopWorkers
  BY <1>5 DEF StopWorkers, votes, output, ThreadTypes, MergeInv, CountInv, ResultsTyped, ShownInv, Unfinished
<1>6. CASE Finish
  <2>1. merge'.cur \in Depths /\ MergeInv'
    BY <1>6, AdvanceType DEF Finish, FinalMerge, MergeInv
  <2>2. ThreadTypes' /\ CountInv'
    BY <1>6 DEF Finish, ThreadTypes, CountInv, Unfinished
  <2>3. pc = "join" /\ pc' = "done" /\ last' = last
    BY <1>6 DEF Finish
  <2>4. CASE result' = last /\ UNCHANGED <<emitter, shown>>
    BY <2>1, <2>2, <2>3, <2>4 DEF ResultsTyped, ShownInv
  <2>5. ASSUME NEW move \in Winners(merge'), result' = Elected(merge', move), Send(result')
        PROVE  IInv'
    <3>1. result'.move \in Moves /\ result'.depth \in 0 .. MaxDepth /\ ~result'.upper
      BY <2>1, <2>5, ElectedType
    <3>2. shown' = result'.move
      BY <2>3, <2>5, <3>1, SendShows DEF ShownInv
    <3> QED
      BY <2>1, <2>2, <2>3, <3>1, <3>2 DEF ResultsTyped, ShownInv
  <2> QED
    BY <1>6, <2>4, <2>5 DEF Finish
<1>7. CASE CallStop
  BY <1>7 DEF CallStop, votes, output, ThreadTypes, MergeInv, CountInv, ResultsTyped, ShownInv, Unfinished
<1>8. ASSUME NEW w \in Workers, WorkerEnter(w) PROVE IInv'
  <2>1. CountInv'
    <3>1. /\ worker[w] = "started" /\ worker' = [worker EXCEPT ![w] = "running"]
          /\ running' = running /\ pc' = pc /\ worker \in [Workers -> {"idle", "started", "running", "finished"}]
      BY <1>8 DEF WorkerEnter, ThreadTypes
    <3>2. pc \notin {"entry", "launch"}
      BY <3>1 DEF CountInv
    <3>3. Unfinished(worker') = Unfinished(worker)
      BY <3>1 DEF Unfinished
    <3> QED
      BY <3>1, <3>2, <3>3 DEF CountInv
  <2>2. ThreadTypes' /\ MergeInv' /\ ResultsTyped' /\ ShownInv'
    BY <1>8 DEF WorkerEnter, output, ThreadTypes, MergeInv, ResultsTyped, ShownInv
  <2> QED
    BY <2>1, <2>2
<1>9. ASSUME NEW w \in Workers, WorkerReport(w) PROVE IInv'
  <2>1. MergeInv'
    <3>1. wdepth[w] \in Depths
      BY DEF ThreadTypes
    <3> QED
      BY <3>1, <1>9, UpdateType DEF WorkerReport, MergeInv
  <2>2. ThreadTypes' /\ CountInv' /\ ResultsTyped' /\ ShownInv'
    BY <1>9 DEF WorkerReport, output, ThreadTypes, CountInv, ResultsTyped, ShownInv, Unfinished
  <2> QED
    BY <2>1, <2>2
<1>10. ASSUME NEW w \in Workers, WorkerDeepen(w) PROVE IInv'
  <2>1. ThreadTypes'
    <3>1. wdepth[w] + 1 \in Depths
      BY <1>10, ConstantTypes DEF WorkerDeepen, ThreadTypes, Depths
    <3> QED
      BY <1>10, <3>1 DEF WorkerDeepen, ThreadTypes
  <2>2. MergeInv' /\ CountInv' /\ ResultsTyped' /\ ShownInv'
    BY <1>10 DEF WorkerDeepen, output, MergeInv, CountInv, ResultsTyped, ShownInv, Unfinished
  <2> QED
    BY <2>1, <2>2
<1>11. ASSUME NEW w \in Workers, WorkerReturn(w) PROVE IInv'
  <2>1. CountInv'
    <3>1. /\ worker[w] = "running" /\ worker' = [worker EXCEPT ![w] = "finished"]
          /\ running' = running - 1 /\ pc' = pc
          /\ worker \in [Workers -> {"idle", "started", "running", "finished"}]
      BY <1>11 DEF WorkerReturn, AfterWorker, ThreadTypes
    <3>2. pc \notin {"entry", "launch"} /\ running = Cardinality(Unfinished(worker))
      BY <3>1 DEF CountInv
    <3>3. w \in Unfinished(worker) /\ Unfinished(worker') = Unfinished(worker) \ {w}
      BY <3>1 DEF Unfinished
    <3>4. Cardinality(Unfinished(worker')) = Cardinality(Unfinished(worker)) - 1
      BY <3>3, UnfinishedFinite, FS_RemoveElement
    <3> QED
      BY <3>1, <3>2, <3>4 DEF CountInv
  <2>2. ThreadTypes' /\ MergeInv' /\ ResultsTyped' /\ ShownInv'
    BY <1>11 DEF WorkerReturn, output, ThreadTypes, MergeInv, ResultsTyped, ShownInv
  <2> QED
    BY <2>1, <2>2
<1>12. ASSUME NEW w \in Workers, StopWorker(w) PROVE IInv'
  BY <1>12 DEF StopWorker, votes, output, ThreadTypes, MergeInv, CountInv, ResultsTyped, ShownInv, Unfinished
<1> QED
  BY <1>1, <1>2, <1>3, <1>4, <1>5, <1>6, <1>7, <1>8, <1>9, <1>10, <1>11, <1>12
  DEF Next, Coordinator

LEMMA Inductive == Spec => []IInv
  BY InitInv, NextInv, PTL DEF Spec

(* Types; the count of running workers, which ends the polling loop, never *)
(* leaves 0 .. N, whenever the workers finish.                             *)
THEOREM TypeCorrect == Spec => []TypeOK
<1>1. IInv => TypeOK
  <2> SUFFICES ASSUME IInv PROVE TypeOK
    OBVIOUS
  <2>1. shown \in Moves \cup {NoMove}
    BY DEF IInv, ShownInv, ResultsTyped
  <2>2. merge.cur \in Depths
    BY DEF IInv, MergeInv
  <2> QED
    BY <2>1, <2>2, RunningInRange DEF IInv, ThreadTypes, ResultsTyped, TypeOK
<1> QED
  BY <1>1, Inductive, PTL

(* The move that go() returns is the one at the head of the last PV on the *)
(* screen, whichever lines the throttle held back and whoever won a vote.  *)
THEOREM ResultWasShown == Spec => []ReturnedMoveIsShown
<1>1. IInv => ReturnedMoveIsShown
  BY DEF IInv, ShownInv, ReturnedMoveIsShown
<1> QED
  BY <1>1, Inductive, PTL

-----------------------------------------------------------------------------
(* The vote.  The merge adds the results in the order of the workers; what *)
(* it has after the first w of them follows by induction over w.           *)

(* A set of naturals that has 0 and the successor of each of its members   *)
(* has all of them.                                                        *)
LEMMA SetInduction ==
  ASSUME NEW T, 0 \in T, \A n \in Nat : n \in T => n + 1 \in T
  PROVE  Nat \subseteq T
<1> SUFFICES ASSUME NEW m \in Nat, m \notin T PROVE FALSE
  OBVIOUS
<1> DEFINE U == Nat \ T
<1>1. PICK x \in U : \A y \in U : ~(<<y, x>> \in OpToRel(<, Nat))
  BY NatLessThanWellFounded, WFMin
<1>2. \A y \in U : ~(y < x)
  BY <1>1 DEF OpToRel
<1>3. x - 1 \in Nat /\ x - 1 \notin T
  <2>1. x \in Nat /\ x # 0
    OBVIOUS
  <2>2. x = (x - 1) + 1 /\ x - 1 \in Nat
    BY <2>1
  <2> QED
    BY <2>2
<1> QED
  BY <1>2, <1>3

(* A fold over the workers exists.                                         *)
LEMMA Recursion ==
  ASSUME NEW S, NEW a \in S, NEW step \in [Workers -> [S -> S]]
  PROVE  \E f \in [0 .. N -> S] : f[0] = a /\ \A w \in Workers : f[w] = step[w][f[w - 1]]
<1> DEFINE Upto(n) == \E f \in [0 .. n -> S] : f[0] = a /\ \A w \in 1 .. n : f[w] = step[w][f[w - 1]]
           T == {n \in Nat : n <= N => Upto(n)}
<1>1. 0 \in T
  <2> DEFINE f == [w \in 0 .. 0 |-> a]
  <2>1. f \in [0 .. 0 -> S] /\ f[0] = a
    OBVIOUS
  <2>2. \A w \in 1 .. 0 : f[w] = step[w][f[w - 1]]
    OBVIOUS
  <2> QED
    BY <2>1, <2>2
<1>2. ASSUME NEW n \in Nat, n \in T PROVE n + 1 \in T
  <2> SUFFICES ASSUME n + 1 <= N PROVE Upto(n + 1)
    OBVIOUS
  <2>1. PICK f \in [0 .. n -> S] : f[0] = a /\ \A w \in 1 .. n : f[w] = step[w][f[w - 1]]
    BY <1>2, ConstantTypes
  <2> DEFINE g == [w \in 0 .. n + 1 |-> IF w <= n THEN f[w] ELSE step[n + 1][f[n]]]
  <2>2. n + 1 \in Workers /\ f[n] \in S
    BY ConstantTypes DEF Workers
  <2>3. step[n + 1][f[n]] \in S
    BY <2>2
  <2>4. g \in [0 .. n + 1 -> S]
    BY <2>3
  <2>5. g[0] = a
    BY <2>1
  <2>6. ASSUME NEW w \in 1 .. n + 1 PROVE g[w] = step[w][g[w - 1]]
    <3>1. CASE w <= n
      BY <3>1, <2>1
    <3>2. CASE w = n + 1
      BY <3>2
    <3> QED
      BY <3>1, <3>2
  <2> QED
    BY <2>4, <2>5, <2>6
<1>3. Nat \subseteq T
  <2> HIDE DEF T
  <2> QED
    BY <1>1, <1>2, SetInduction
<1>4. Upto(N)
  <2>1. N \in T /\ N <= N
    BY <1>3, ConstantTypes
  <2> QED
    BY <2>1
<1> QED
  BY <1>4 DEF Workers

Aggs == [sum : Int, cnt : Nat, is_mate : BOOLEAN, mate_val : Int]

LEMMA AddType ==
  ASSUME NEW a \in Aggs, NEW e \in Int
  PROVE  Add(a, e) \in Aggs
<1>1. IsMateScore(e) \in BOOLEAN
  BY Zenon DEF IsMateScore
<1>2. a.is_mate \/ IsMateScore(e) \in BOOLEAN
  BY <1>1, Zenon
<1>3. /\ (IF a.is_mate \/ IsMateScore(e) THEN a.sum ELSE a.sum + e) \in Int
      /\ a.cnt + 1 \in Nat
      /\ (IF IsMateScore(e) /\ (~a.is_mate \/ e > a.mate_val) THEN e ELSE a.mate_val) \in Int
  BY DEF Aggs
<1> QED
  BY <1>2, <1>3 DEF Add, Aggs

LEMMA EmptyAggType == EmptyAgg \in Aggs
  BY ScoreAssumption DEF EmptyAgg, Aggs, ScoreMin

(* What the votes of the workers in V amount to after the first w workers. *)
Counted(V, score, agg, sum, w) ==
  LET S == V \cap (1 .. w)
      mates == {v \in S : IsMateScore(score[v])}
  IN  /\ agg[w].is_mate <=> mates # {}
      /\ mates = {} => agg[w].sum = sum[w]
      /\ agg[w].cnt = Cardinality(S)
      /\ mates # {} => /\ \E v \in mates : agg[w].mate_val = score[v]
                       /\ \A v \in mates : agg[w].mate_val >= score[v]

LEMMA VotesCounted ==
  ASSUME NEW V \in SUBSET Workers, NEW score, \A v \in V : score[v] \in Int,
         NEW agg \in [0 .. N -> Aggs], NEW sum \in [0 .. N -> Int],
         agg[0] = EmptyAgg, sum[0] = 0,
         \A w \in Workers : agg[w] = IF w \in V THEN Add(agg[w - 1], score[w]) ELSE agg[w - 1],
         \A w \in Workers : sum[w] = sum[w - 1] + (IF w \in V THEN score[w] ELSE 0)
  PROVE  Counted(V, score, agg, sum, N)
<1> DEFINE T == {w \in Nat : w <= N => Counted(V, score, agg, sum, w)}
<1>1. 0 \in T
  <2>1. V \cap (1 .. 0) = {}
    OBVIOUS
  <2>2. Cardinality({}) = 0
    BY FS_EmptySet
  <2> QED
    BY <2>1, <2>2 DEF Counted, EmptyAgg
<1>2. ASSUME NEW n \in Nat, n \in T PROVE n + 1 \in T
  <2> SUFFICES ASSUME n + 1 <= N PROVE Counted(V, score, agg, sum, n + 1)
    OBVIOUS
  <2> DEFINE w == n + 1
             S == V \cap (1 .. n)
             R == V \cap (1 .. w)
             mates == {v \in S : IsMateScore(score[v])}
             more == {v \in R : IsMateScore(score[v])}
             e == score[w]
  <2>1. w \in Workers /\ w - 1 = n /\ n \in 0 .. N /\ w \in 0 .. N /\ n <= N
    BY ConstantTypes DEF Workers
  <2>2. /\ agg[n].is_mate <=> mates # {}
        /\ mates = {} => agg[n].sum = sum[n]
        /\ agg[n].cnt = Cardinality(S)
        /\ mates # {} => /\ \E v \in mates : agg[n].mate_val = score[v]
                         /\ \A v \in mates : agg[n].mate_val >= score[v]
    BY <1>2, <2>1 DEF Counted
  <2>3. /\ agg[w] = IF w \in V THEN Add(agg[n], e) ELSE agg[n]
        /\ sum[w] = sum[n] + (IF w \in V THEN e ELSE 0)
        /\ agg[n] \in Aggs /\ sum[n] \in Int
    BY <2>1
  <2>4. IsFiniteSet(S) /\ Cardinality(S) \in Nat
    BY WorkersFinite, FS_Subset, FS_CardinalityType
  <2>5. R = (IF w \in V THEN S \cup {w} ELSE S) /\ w \notin S
    BY <2>1
  <2>6. CASE w \notin V
    <3>1. R = S /\ more = mates /\ agg[w] = agg[n] /\ sum[w] = sum[n]
      BY <2>3, <2>5, <2>6
    <3> HIDE DEF R, S, mates
    <3> QED
      BY <2>2, <3>1 DEF Counted, R
  <2>7. CASE w \in V
    <3>1. R = S \cup {w} /\ agg[w] = Add(agg[n], e) /\ sum[w] = sum[n] + e /\ e \in Int
      BY <2>3, <2>5, <2>7
    <3>2. Cardinality(R) = Cardinality(S) + 1
      BY <2>4, <2>5, <3>1, FS_AddElement
    <3>3. more = IF IsMateScore(e) THEN mates \cup {w} ELSE mates
      BY <3>1
    <3>4. mates \subseteq S /\ (\A v \in mates : score[v] \in Int) /\ agg[n].mate_val \in Int
      BY <2>3 DEF Aggs
    <3> HIDE DEF w, R, S, mates, more, e
    <3>5. agg[w].is_mate <=> more # {}
      <4>0. Add(agg[n], e).is_mate = (agg[n].is_mate \/ IsMateScore(e))
        BY Zenon DEF Add
      <4>1. agg[w].is_mate = (agg[n].is_mate \/ IsMateScore(e))
        BY <3>1, <4>0, Zenon
      <4>2. more # {} <=> (mates # {} \/ IsMateScore(e))
        BY <3>3
      <4> QED
        BY <2>2, <4>1, <4>2
    <3>6. agg[w].cnt = Cardinality(R)
      BY <2>2, <3>1, <3>2 DEF Add
    <3>7. ASSUME more = {} PROVE agg[w].sum = sum[w]
      <4>1. mates = {} /\ ~IsMateScore(e) /\ ~agg[n].is_mate
        BY <2>2, <3>3, <3>7
      <4>2. agg[w].sum = agg[n].sum + e
        BY <3>1, <4>1 DEF Add
      <4> QED
        BY <2>2, <3>1, <4>1, <4>2
    <3>8. ASSUME more # {}
          PROVE  /\ \E v \in more : agg[w].mate_val = score[v]
                 /\ \A v \in more : agg[w].mate_val >= score[v]
      <4>1. agg[w].mate_val = IF IsMateScore(e) /\ (mates = {} \/ e > agg[n].mate_val) THEN e ELSE agg[n].mate_val
        BY <2>2, <3>1 DEF Add
      <4>2. CASE ~IsMateScore(e)
        BY <2>2, <3>3, <3>8, <4>1, <4>2
      <4>3. CASE IsMateScore(e)
        <5>1. more = mates \cup {w}
          BY <3>3, <4>3
        <5>2. CASE mates = {}
          BY <3>1, <4>1, <4>3, <5>1, <5>2 DEF e
        <5>3. CASE mates # {}
          <6>1. PICK v \in mates : agg[n].mate_val = score[v]
            BY <2>2, <5>3
          <6>2. \A u \in mates : agg[n].mate_val >= score[u]
            BY <2>2, <5>3
          <6>3. CASE e > agg[n].mate_val
            BY <3>1, <3>4, <4>1, <4>3, <5>1, <6>2, <6>3 DEF e
          <6>4. CASE ~(e > agg[n].mate_val)
            BY <3>1, <3>4, <4>1, <5>1, <5>3, <6>1, <6>2, <6>4 DEF e
          <6> QED
            BY <6>3, <6>4
        <5> QED
          BY <5>2, <5>3
      <4> QED
        BY <4>2, <4>3
    <3> QED
      BY <3>5, <3>6, <3>7, <3>8 DEF Counted, w, R, more
  <2> QED
    BY <2>6, <2>7
<1>3. Nat \subseteq T
  <2> HIDE DEF T
  <2> QED
    BY <1>1, <1>2, SetInduction
<1> QED
  BY <1>3, ConstantTypes

(* The recursive definitions of the model are such folds.                  *)
LEMMA AggregateIsFold ==
  ASSUME NEW move, \A w \in Voters(merge, move) : merge.by_depth[w][merge.cur].score \in Int
  PROVE  \E agg \in [0 .. N -> Aggs] :
           /\ agg[0] = EmptyAgg
           /\ \A w \in Workers :
                agg[w] = IF w \in Voters(merge, move)
                         THEN Add(agg[w - 1], merge.by_depth[w][merge.cur].score) ELSE agg[w - 1]
           /\ Aggregate(merge, move) = agg[N]
<1> DEFINE V == Voters(merge, move)
           score(w) == merge.by_depth[w][merge.cur].score
           step == [w \in Workers |-> [a \in Aggs |-> IF w \in V THEN Add(a, score(w)) ELSE a]]
           IsFold(agg) == agg = [w \in 0 .. N |-> IF w = 0 THEN EmptyAgg
                                                  ELSE IF w \in V THEN Add(agg[w - 1], score(w)) ELSE agg[w - 1]]
<1>1. step \in [Workers -> [Aggs -> Aggs]]
  <2>1. ASSUME NEW w \in Workers, NEW a \in Aggs PROVE (IF w \in V THEN Add(a, score(w)) ELSE a) \in Aggs
    BY AddType
  <2> QED
    BY <2>1
<1>2. PICK f \in [0 .. N -> Aggs] : f[0] = EmptyAgg /\ \A w \in Workers : f[w] = step[w][f[w - 1]]
  <2> HIDE DEF step
  <2> QED
    BY <1>1, EmptyAggType, Recursion
<1> HIDE DEF V, score
<1>3. ASSUME NEW w \in Workers PROVE f[w] = IF w \in V THEN Add(f[w - 1], score(w)) ELSE f[w - 1]
  <2>1. w - 1 \in 0 .. N
    BY ConstantTypes DEF Workers
  <2> QED
    BY <1>2, <2>1
<1>4. IsFold(f)
  <2> DEFINE h == [w \in 0 .. N |-> IF w = 0 THEN EmptyAgg
                                    ELSE IF w \in V THEN Add(f[w - 1], score(w)) ELSE f[w - 1]]
  <2>1. ASSUME NEW w \in 0 .. N PROVE f[w] = h[w]
    <3>1. CASE w = 0
      BY <1>2, <3>1
    <3>2. CASE w \in Workers
      BY <1>3, <3>2 DEF Workers
    <3> QED
      BY <3>1, <3>2, ConstantTypes DEF Workers
  <2> QED
    BY <2>1
<1> DEFINE agg == CHOOSE agg : IsFold(agg)
<1>5. IsFold(agg)
  BY <1>4
<1>6. Aggregate(merge, move) = agg[N]
  BY DEF Aggregate, V, score
<1> HIDE DEF agg
<1>7. agg[0] = EmptyAgg /\ \A w \in Workers : agg[w] = IF w \in V THEN Add(agg[w - 1], score(w)) ELSE agg[w - 1]
  BY <1>5, ConstantTypes DEF Workers
<1>8. agg \in [0 .. N -> Aggs]
  <2> DEFINE T == {n \in Nat : n <= N => agg[n] \in Aggs}
  <2>1. 0 \in T
    BY <1>7, EmptyAggType
  <2>2. ASSUME NEW n \in Nat, n \in T PROVE n + 1 \in T
    <3> SUFFICES ASSUME n + 1 <= N PROVE agg[n + 1] \in Aggs
      OBVIOUS
    <3>1. n + 1 \in Workers /\ agg[n] \in Aggs /\ (n + 1) - 1 = n
      BY <2>2, ConstantTypes DEF Workers
    <3>2. n + 1 \in V => score(n + 1) \in Int
      BY DEF V, score
    <3> QED
      BY <1>7, <3>1, <3>2, AddType
  <2>3. Nat \subseteq T
    <3> HIDE DEF T
    <3> QED
      BY <2>1, <2>2, SetInduction
  <2>4. \A w \in 0 .. N : agg[w] \in Aggs
    BY <2>3, ConstantTypes
  <2>5. agg = [w \in 0 .. N |-> agg[w]]
    BY <1>5
  <2> QED
    BY <2>4, <2>5
<1> QED
  BY <1>6, <1>7, <1>8 DEF V, score

LEMMA SumIsFold ==
  ASSUME NEW V, \A w \in V : merge.by_depth[w][merge.cur].score \in Int
  PROVE  \E sum \in [0 .. N -> Int] :
           /\ sum[0] = 0
           /\ \A w \in Workers :
                sum[w] = sum[w - 1] + (IF w \in V THEN merge.by_depth[w][merge.cur].score ELSE 0)
           /\ SumOver(V) = sum[N]
<1> DEFINE score(w) == merge.by_depth[w][merge.cur].score
           term(w) == IF w \in V THEN score(w) ELSE 0
           step == [w \in Workers |-> [x \in Int |-> x + term(w)]]
           IsFold(sum) == sum = [w \in 0 .. N |-> IF w = 0 THEN 0 ELSE sum[w - 1] + term(w)]
<1>1. \A w \in Workers : term(w) \in Int
  OBVIOUS
<1>2. step \in [Workers -> [Int -> Int]]
  <2> HIDE DEF term
  <2> QED
    BY <1>1
<1>3. PICK f \in [0 .. N -> Int] : f[0] = 0 /\ \A w \in Workers : f[w] = step[w][f[w - 1]]
  <2> HIDE DEF step
  <2> DEFINE S == Int
  <2>1. 0 \in S /\ step \in [Workers -> [S -> S]]
    BY <1>2
  <2>2. \E f \in [0 .. N -> S] : f[0] = 0 /\ \A w \in Workers : f[w] = step[w][f[w - 1]]
    <3> HIDE DEF S
    <3> QED
      BY <2>1, Recursion
  <2> QED
    BY <2>2
<1> HIDE DEF term
<1>4. ASSUME NEW w \in Workers PROVE f[w] = f[w - 1] + term(w)
  <2>1. w - 1 \in 0 .. N
    BY ConstantTypes DEF Workers
  <2> QED
    BY <1>3, <2>1
<1>5. IsFold(f)
  <2> DEFINE h == [w \in 0 .. N |-> IF w = 0 THEN 0 ELSE f[w - 1] + term(w)]
  <2>1. ASSUME NEW w \in 0 .. N PROVE f[w] = h[w]
    <3>1. CASE w = 0
      BY <1>3, <3>1
    <3>2. CASE w \in Workers
      BY <1>4, <3>2 DEF Workers
    <3> QED
      BY <3>1, <3>2, ConstantTypes DEF Workers
  <2> QED
    BY <2>1
<1> DEFINE sum == CHOOSE sum : IsFold(sum)
<1>6. IsFold(sum)
  BY <1>5
<1>7. SumOver(V) = sum[N]
  BY DEF SumOver, term
<1> HIDE DEF sum
<1>8. sum[0] = 0 /\ \A w \in Workers : sum[w] = sum[w - 1] + term(w)
  BY <1>6, ConstantTypes DEF Workers
<1>9. sum \in [0 .. N -> Int]
  <2> DEFINE T == {n \in Nat : n <= N => sum[n] \in Int}
  <2>1. 0 \in T
    BY <1>8
  <2>2. ASSUME NEW n \in Nat, n \in T PROVE n + 1 \in T
    <3> SUFFICES ASSUME n + 1 <= N PROVE sum[n + 1] \in Int
      OBVIOUS
    <3>1. n + 1 \in Workers /\ sum[n] \in Int /\ (n + 1) - 1 = n
      BY <2>2, ConstantTypes DEF Workers
    <3> QED
      BY <1>1, <1>8, <3>1
  <2>3. Nat \subseteq T
    <3> HIDE DEF T
    <3> QED
      BY <2>1, <2>2, SetInduction
  <2>4. \A w \in 0 .. N : sum[w] \in Int
    BY <2>3, ConstantTypes
  <2>5. sum = [w \in 0 .. N |-> sum[w]]
    BY <1>6
  <2> QED
    BY <2>4, <2>5
<1> QED
  BY <1>7, <1>8, <1>9 DEF term

(* A move is credited the best mate that any of its voters sees, else the  *)
(* average of its voters, whatever the order in which the merge takes the  *)
(* results of the workers.                                                 *)
THEOREM VoteFair == Spec => []VoteIsFair
<1>1. ASSUME MergeInv, NEW move \in Candidates(merge) PROVE Eval(merge, move) = ReferenceEval(move)
  <2> DEFINE V == Voters(merge, move)
             score == [w \in Workers |-> merge.by_depth[w][merge.cur].score]
  <2>1. V \subseteq Workers /\ \A v \in V : score[v] \in Int
    <3>1. \A w \in Workers : merge.by_depth[w][merge.cur] \in Votes
      BY <1>1 DEF MergeInv
    <3>2. ScoreMin \in Int /\ Reported \subseteq Int
      BY SMPAssumption, ScoreAssumption DEF ScoreMin
    <3>3. \A r \in Votes : r.score \in Int
      BY <3>2 DEF Votes
    <3> QED
      BY <3>1, <3>3 DEF Voters
  <2>2. PICK agg \in [0 .. N -> Aggs] :
          /\ agg[0] = EmptyAgg
          /\ \A w \in Workers : agg[w] = IF w \in V THEN Add(agg[w - 1], merge.by_depth[w][merge.cur].score)
                                         ELSE agg[w - 1]
          /\ Aggregate(merge, move) = agg[N]
    BY <2>1, AggregateIsFold
  <2>3. PICK sum \in [0 .. N -> Int] :
          /\ sum[0] = 0
          /\ \A w \in Workers : sum[w] = sum[w - 1] + (IF w \in V THEN merge.by_depth[w][merge.cur].score ELSE 0)
          /\ SumOver(V) = sum[N]
    BY <2>1, SumIsFold
  <2> HIDE DEF V
  <2>4. /\ \A w \in Workers : agg[w] = IF w \in V THEN Add(agg[w - 1], score[w]) ELSE agg[w - 1]
        /\ \A w \in Workers : sum[w] = sum[w - 1] + (IF w \in V THEN score[w] ELSE 0)
    BY <2>2, <2>3
  <2> HIDE DEF score
  <2>5. Counted(V, score, agg, sum, N)
    BY <2>1, <2>2, <2>3, <2>4, VotesCounted
  <2>6. V \cap (1 .. N) = V
    BY <2>1 DEF Workers
  <2> DEFINE voters == {v \in V : IsMateScore(score[v])}
             mates == {e \in ScoresFor(move) : IsMateScore(e)}
  <2>7. /\ agg[N].is_mate <=> voters # {}
        /\ voters = {} => agg[N].sum = sum[N]
        /\ agg[N].cnt = Cardinality(V)
        /\ voters # {} => /\ \E v \in voters : agg[N].mate_val = score[v]
                          /\ \A v \in voters : agg[N].mate_val >= score[v]
    BY <2>5, <2>6 DEF Counted
  <2>8. mates = {score[v] : v \in voters}
    BY <2>1 DEF ScoresFor, V, score
  <2>9. ReferenceEval(move) = IF mates # {} THEN CHOOSE e \in mates : \A f \in mates : e >= f
                              ELSE Quotient(SumOver(V), Cardinality(V))
    BY DEF ReferenceEval, V
  <2> HIDE DEF voters, mates
  <2>10. CASE voters = {}
    <3>1. mates = {} /\ ~agg[N].is_mate
      BY <2>7, <2>8, <2>10
    <3>2. Eval(merge, move) = Quotient(agg[N].sum, agg[N].cnt)
      BY <2>2, <3>1 DEF Eval, AggEval
    <3> QED
      BY <2>3, <2>7, <2>9, <2>10, <3>1, <3>2
  <2>11. CASE voters # {}
    <3> DEFINE best == agg[N].mate_val
    <3>1. mates # {} /\ agg[N].is_mate
      BY <2>7, <2>8, <2>11
    <3>2. Eval(merge, move) = best
      BY <2>2, <3>1 DEF Eval, AggEval
    <3>3. best \in mates /\ \A f \in mates : best >= f
      BY <2>7, <2>8, <2>11
    <3>4. mates \subseteq Int
      BY <2>1, <2>8 DEF voters
    <3> HIDE DEF best
    <3>5. \A e \in mates : (\A f \in mates : e >= f) => e = best
      BY <3>3, <3>4
    <3>6. (CHOOSE e \in mates : \A f \in mates : e >= f) = best
      BY <3>3, <3>5
    <3> QED
      BY <2>9, <3>1, <3>2, <3>6
  <2> QED
    BY <2>10, <2>11
<1>2. IInv => VoteIsFair
  BY <1>1 DEF IInv, VoteIsFair
<1> QED
  BY <1>2, Inductive, PTL
=============================================================================
