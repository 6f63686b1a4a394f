----------------------------- MODULE InfoEmitter -----------------------------
(***************************************************************************)
(* info_callback() of src/src/uci/state_manager.cpp: which results of the  *)
(* search become `info` lines, and which of those carry a PV.              *)
(*                                                                         *)
(* A result is a record [depth, score, move, lower, upper] (search::Result *)
(* with its PV reduced to the first move).  The emitter is the record of   *)
(* g_info_state without its clock: `overdue` is the outcome of the 80 ms   *)
(* test.  What the GUI displays is the head of the last PV printed.        *)
(***************************************************************************)
EXTENDS Scores

(* reset_info_emitter(): every `go` starts from this state.                *)
FreshEmitter == [last_depth |-> -1, last_best_move |-> NoMove,
                 pv_emitted_at_depth |-> FALSE]

DepthChanged(e, r) == r.depth # e.last_depth
BestMoveChanged(e, r) == r.move # NoMove /\ r.move # e.last_best_move

IsMateLine(r) == r.score >= MateThreshold \/ r.score <= -MateThreshold

HasPV(r) == ~r.upper

(* Only the first line of a depth may bring its PV.                        *)
NeedsFirstPVOnDepthChange(e, r) == HasPV(r) /\ DepthChanged(e, r)

NeedsFirstPV(e, r) ==
  HasPV(r) /\ (DepthChanged(e, r) \/ ~e.pv_emitted_at_depth)

(* The throttle before changes of the best move were exempted.             *)
EmitsThrottled(e, r, overdue) ==
  \/ DepthChanged(e, r)
  \/ IsMateLine(r)
  \/ overdue
  \/ NeedsFirstPV(e, r)

Emits(e, r, overdue) ==
  \/ DepthChanged(e, r)
  \/ BestMoveChanged(e, r)
  \/ IsMateLine(r)
  \/ overdue
  \/ NeedsFirstPV(e, r)

(* The emitter after the call (a depth change always emits).               *)
InfoCallback(e, r, overdue) ==
  IF Emits(e, r, overdue)
  THEN [last_depth |-> r.depth, last_best_move |-> r.move,
        pv_emitted_at_depth |->
          HasPV(r) \/ (~DepthChanged(e, r) /\ e.pv_emitted_at_depth)]
  ELSE e

(* The head of the PV on the GUI's screen after the call.                  *)
Displayed(shown, e, r, overdue) ==
  IF Emits(e, r, overdue) /\ HasPV(r) THEN r.move ELSE shown
=============================================================================
