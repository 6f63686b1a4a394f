----------------------------- MODULE UciSession -----------------------------
(***************************************************************************)
(* What the engine promises its GUI about the commands that start and end  *)
(* searches (UCI as src/src/uci/README.md and state_manager.h describe     *)
(* it), without threads, flags or objects.                                 *)
(*                                                                         *)
(* The engine has a current position and is idle or searching it.  A       *)
(* search is answered by exactly one bestmove, computed for the position   *)
(* that was current when it started; the position changes only while the   *)
(* engine is idle, and the engine ends only idle.                          *)
(***************************************************************************)
CONSTANTS
  Positions,   \* positions the GUI may set up
  StartPos     \* the initial position of a game

VARIABLES
  position,    \* the current position
  searching,   \* a bestmove is owed to the GUI
  answer,      \* position the last bestmove was computed for
  ended        \* the engine has left its command loop

vars == <<position, searching, answer, ended>>

NoAnswer == "no answer"

Init ==
  /\ position = StartPos
  /\ searching = FALSE
  /\ answer = NoAnswer
  /\ ended = FALSE

(* `position` and `ucinewgame`.                                            *)
SetPosition ==
  /\ ~searching /\ ~ended
  /\ position' \in Positions
  /\ UNCHANGED <<searching, answer, ended>>

Go ==
  /\ ~searching /\ ~ended
  /\ searching' = TRUE
  /\ UNCHANGED <<position, answer, ended>>

BestMove ==
  /\ searching
  /\ searching' = FALSE
  /\ answer' = position
  /\ UNCHANGED <<position, ended>>

Quit ==
  /\ ~searching /\ ~ended
  /\ ended' = TRUE
  /\ UNCHANGED <<position, searching, answer>>

Next == SetPosition \/ Go \/ BestMove \/ Quit

Spec == Init /\ [][Next]_vars
=============================================================================
