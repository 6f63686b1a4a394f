------------------------------ MODULE ChessGame ------------------------------
(***************************************************************************)
(* What the board promises to the search that walks the game tree on it:   *)
(* from a root position, every legal move can be played, the side to move  *)
(* can pass when it is not in check, and whatever was done last can be     *)
(* taken back.                                                             *)
(***************************************************************************)
EXTENDS ChessRules, Sequences

CONSTANT Roots   \* the positions that a game may start from

VARIABLES
  pos,    \* the position on the board
  past    \* the positions before it, the last one at the end

gameVars == <<pos, past>>

GameInit == pos \in Roots /\ past = <<>>

Play == \E m \in Legal(pos) : pos' = Played(pos, m) /\ past' = Append(past, pos)

Pass == /\ Checkers(pos, pos.side) = {}
        /\ pos' = NullMoved(pos) /\ past' = Append(past, pos)

TakeBack == /\ past # <<>>
            /\ pos' = past[Len(past)] /\ past' = SubSeq(past, 1, Len(past) - 1)

GameNext == Play \/ Pass \/ TakeBack

Game == GameInit /\ [][GameNext]_gameVars

=============================================================================
