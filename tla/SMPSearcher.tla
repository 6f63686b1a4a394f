----------------------------- MODULE SMPSearcher -----------------------------
(***************************************************************************)
(* search::smp::SMPSearcher (src/src/search/smp/smp_searcher.cpp): one     *)
(* search by N worker threads, the coordinator that streams their merged   *)
(* results to the GUI, and a stop() from the thread that reads commands.   *)
(*                                                                         *)
(* A worker is Searcher::go() reduced to its stop flag and the results it  *)
(* hands to the merge (GoMTD is its inside).  Threads that are created but *)
(* have not run yet are "started", so creating all of them is one step.    *)
(***************************************************************************)
EXTENDS SearchersMerge, InfoEmitter

CONSTANTS
  Reported,   \* scores the workers report
  Bounded     \* {TRUE}: searches with a limit, {TRUE, FALSE}: all searches

ASSUME SMPAssumption ==
  /\ Reported \subseteq Int
  /\ Bounded \subseteq BOOLEAN

VARIABLES
  pc,        \* control point of the coordinator
  limited,   \* the limits of this search make every worker return
  stop,      \* stop_
  caller,    \* workers the caller of stop() has yet to reach
  called,    \* stop() has been called
  worker,    \* control point of each worker
  wstop,     \* stop_ of each worker's Searcher
  wdepth,    \* depth each worker is searching
  running,   \* running_
  merge,     \* merge_
  last,      \* last_sent
  emitter,   \* g_info_state
  shown,     \* head of the PV the GUI displays
  result     \* what go() returned

votes == <<worker, wdepth, running, merge>>
output == <<last, emitter, shown, result>>
vars == <<pc, limited, stop, caller, called, wstop, votes, output>>

-----------------------------------------------------------------------------
(* Result{}: no move, depth 0.                                             *)
EmptyResult == [depth |-> 0, score |-> 0, move |-> NoMove,
                lower |-> FALSE, upper |-> FALSE]

Init ==
  /\ pc = "entry"
  /\ limited \in Bounded
  /\ stop = FALSE
  /\ caller = {}
  /\ called = FALSE
  /\ worker = [w \in Workers |-> "idle"]
  /\ wstop = [w \in Workers |-> FALSE]
  /\ wdepth = [w \in Workers |-> 1]
  /\ running = 0
  /\ merge = Reset
  /\ last = EmptyResult
  /\ emitter = FreshEmitter
  /\ shown = NoMove
  /\ result = EmptyResult

(* Everything up to the creation of the threads.                           *)
Enter ==
  /\ pc = "entry"
  /\ stop' = FALSE
  /\ merge' = Reset
  /\ running' = N
  /\ pc' = "launch"
  /\ UNCHANGED <<limited, caller, called, worker, wstop, wdepth, output>>

Launch ==
  /\ pc = "launch"
  /\ worker' = [w \in Workers |-> "started"]
  /\ pc' = "poll"
  /\ UNCHANGED <<limited, stop, caller, called, wstop, wdepth, running, merge, output>>

-----------------------------------------------------------------------------
(* The workers.                                                            *)

(* Searcher::goMTD() clears the stop flag it finds.                        *)
WorkerEnter(w) ==
  /\ worker[w] = "started"
  /\ wstop' = [wstop EXCEPT ![w] = FALSE]
  /\ worker' = [worker EXCEPT ![w] = "running"]
  /\ UNCHANGED <<pc, limited, stop, caller, called, wdepth, running, merge, output>>

(* worker_cb(): the result of a probe, at the worker's depth.              *)
WorkerReport(w) ==
  /\ worker[w] = "running"
  /\ \E score \in Reported, move \in Moves, upper \in BOOLEAN :
       merge' = Update(merge, w, [depth |-> wdepth[w], score |-> score,
                                  move |-> move, upper |-> upper])
  /\ UNCHANGED <<pc, limited, stop, caller, called, wstop, worker, wdepth, running, output>>

(* A depth may end without a vote: on the proof that the side to move is   *)
(* mated, which is a fail-low.                                             *)
WorkerDeepen(w) ==
  /\ worker[w] = "running"
  /\ wdepth[w] < MaxDepth
  /\ wdepth' = [wdepth EXCEPT ![w] = @ + 1]
  /\ UNCHANGED <<pc, limited, stop, caller, called, wstop, worker, running, merge, output>>

(* The count never goes down.                                              *)
AfterWorkerForgotten(n) == n

AfterWorker(n) == n - 1

(* Told to stop, out of its limits or by itself.                           *)
WorkerReturn(w) ==
  /\ worker[w] = "running"
  /\ worker' = [worker EXCEPT ![w] = "finished"]
  /\ running' = AfterWorker(running)
  /\ UNCHANGED <<pc, limited, stop, caller, called, wstop, wdepth, merge, output>>

-----------------------------------------------------------------------------
(* The coordinator.                                                        *)

IsNew(r) ==
  \/ last = EmptyResult
  \/ r.depth > last.depth
  \/ r.depth = last.depth /\ (r.move # last.move \/ r.score # last.score)

Send(r) ==
  \E overdue \in BOOLEAN :
    /\ emitter' = InfoCallback(emitter, r, overdue)
    /\ shown' = Displayed(shown, emitter, r, overdue)

(* One turn of the polling loop: merged() and send_if_new().               *)
Poll ==
  /\ pc = "poll"
  /\ ~stop /\ running > 0
  /\ merge' = Advance(merge)
  /\ \/ Winners(merge') = {} /\ UNCHANGED <<last, emitter, shown>>
     \/ \E move \in Winners(merge') :
          LET r == Elected(merge', move)
          IN  IF IsNew(r) THEN Send(r) /\ last' = r
              ELSE UNCHANGED <<last, emitter, shown>>
  /\ UNCHANGED <<pc, limited, stop, caller, called, wstop, worker, wdepth, running, result>>

(* The loop is left and every worker told to stop.                         *)
StopWorkers ==
  /\ pc = "poll"
  /\ stop \/ running = 0
  /\ wstop' = [w \in Workers |-> TRUE]
  /\ pc' = "join"
  /\ UNCHANGED <<limited, stop, caller, called, votes, output>>

FinalMerge(m) == Advance(m)

(* The join of the last worker and the final merge.                        *)
Finish ==
  /\ pc = "join"
  /\ \A w \in Workers : worker[w] = "finished"
  /\ merge' = FinalMerge(merge)
  /\ \/ /\ Winners(merge') = {}
        /\ result' = last
        /\ UNCHANGED <<emitter, shown>>
     \/ \E move \in Winners(merge') :
          /\ result' = Elected(merge', move)
          /\ Send(result')
  /\ pc' = "done"
  /\ UNCHANGED <<limited, stop, caller, called, wstop, worker, wdepth, running, last>>

-----------------------------------------------------------------------------
(* stop(): the coordinator's flag, then each worker's.                     *)
CallStop ==
  /\ ~called
  /\ pc # "done"
  /\ called' = TRUE
  /\ stop' = TRUE
  /\ caller' = Workers
  /\ UNCHANGED <<pc, limited, wstop, votes, output>>

StopWorker(w) ==
  /\ w \in caller
  /\ caller' = caller \ {w}
  /\ wstop' = [wstop EXCEPT ![w] = TRUE]
  /\ UNCHANGED <<pc, limited, stop, called, votes, output>>

-----------------------------------------------------------------------------
Coordinator == Enter \/ Launch \/ Poll \/ StopWorkers \/ Finish

Next ==
  \/ Coordinator
  \/ CallStop
  \/ \E w \in Workers : \/ WorkerEnter(w)
                        \/ WorkerReport(w)
                        \/ WorkerDeepen(w)
                        \/ WorkerReturn(w)
                        \/ StopWorker(w)

Spec == Init /\ [][Next]_vars

(* Every thread runs.  A worker is bound to return only when its limits    *)
(* end it or its own flag is up; nobody has to call stop().                *)
FairSpec ==
  /\ Spec
  /\ WF_vars(Enter \/ Launch \/ StopWorkers \/ Finish)
  /\ \A w \in Workers :
       /\ WF_vars(WorkerEnter(w))
       /\ WF_vars(StopWorker(w))
       /\ WF_vars(WorkerReturn(w) /\ (limited \/ wstop[w]))

-----------------------------------------------------------------------------
(* Properties *)

(* The types of the coordinator and of the merge; the count of the running *)
(* workers does not leave 0 .. N.                                          *)
TypeOK ==
  /\ pc \in {"entry", "launch", "poll", "join", "done"}
  /\ limited \in BOOLEAN
  /\ stop \in BOOLEAN
  /\ caller \subseteq Workers
  /\ called \in BOOLEAN
  /\ worker \in [Workers -> {"idle", "started", "running", "finished"}]
  /\ wstop \in [Workers -> BOOLEAN]
  /\ wdepth \in [Workers -> Depths]
  /\ running \in 0 .. N
  /\ merge.cur \in Depths
  /\ \A r \in {last, result} : r.depth \in 0 .. MaxDepth /\ r.move \in Moves \cup {NoMove}
  /\ shown \in Moves \cup {NoMove}

(* The vote as search/README.md describes it, without an order of the      *)
(* workers: the best mate any voter sees, else the average of the voters.  *)
ScoresFor(move) == {merge.by_depth[w][merge.cur].score : w \in Voters(merge, move)}

SumOver(S) ==
  LET sum[w \in 0 .. N] ==
        IF w = 0 THEN 0
        ELSE sum[w - 1] + (IF w \in S THEN merge.by_depth[w][merge.cur].score ELSE 0)
  IN  sum[N]

ReferenceEval(move) ==
  LET mates == {e \in ScoresFor(move) : IsMateScore(e)}
  IN  IF mates # {}
      THEN CHOOSE e \in mates : \A f \in mates : e >= f
      ELSE Quotient(SumOver(Voters(merge, move)), Cardinality(Voters(merge, move)))

(* Whatever the order in which the workers' results are added, a move is   *)
(* credited what the documented vote gives it.                             *)
VoteIsFair ==
  \A move \in Candidates(merge) : Eval(merge, move) = ReferenceEval(move)

(* go() returns the move at the head of the PV on the GUI's screen,        *)
(* whatever the throttle held back.                                        *)
ReturnedMoveIsShown ==
  pc = "done" /\ shown # NoMove => result.move = shown

(* A bounded search returns whenever stop() comes, and a stop that comes   *)
(* when every worker has entered its loop ends any search.                 *)
Returns ==
  (\/ limited
   \/ /\ pc = "poll"
      /\ caller = Workers
      /\ \A w \in Workers : worker[w] \in {"running", "finished"}) ~> pc = "done"
=============================================================================
