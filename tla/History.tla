------------------------------ MODULE History -------------------------------
(***************************************************************************)
(* The three history tables of a searcher (src/src/search/history.h), that *)
(* order the moves of a node and move its reductions.  They differ only in *)
(* what an entry stands for: a quiet move of a side, a quiet move after    *)
(* the move before it, or a capture.  Nothing clears them between          *)
(* searches, so only the form of the update keeps them in range.           *)
(***************************************************************************)
EXTENDS Integers

CONSTANT Entries    \* the entries of the tables

MAX_VAL == 16384
Depths == Nat

VARIABLE history_table

Magnitude(a) == IF a >= 0 THEN a ELSE -a
Clamped(bonus) == IF bonus > MAX_VAL THEN MAX_VAL ELSE IF bonus < -MAX_VAL THEN -MAX_VAL ELSE bonus

(* Division by MAX_VAL in C++, toward zero.                                *)
Share(a) == IF a >= 0 THEN a \div MAX_VAL ELSE -((-a) \div MAX_VAL)

(* update(): the nearer an entry is to the limit the less it moves.        *)
Updated(v, bonus) == v + (Clamped(bonus) - Share(v * Magnitude(Clamped(bonus))))

HistoryInit == history_table = [e \in Entries |-> 0]

(* on_cutoff() and on_poor().                                              *)
OnCutoff(e, depth) == history_table' = [history_table EXCEPT ![e] = Updated(@, depth * depth)]
OnPoor(e, depth) == history_table' = [history_table EXCEPT ![e] = Updated(@, -depth)]

HistoryNext == \E e \in Entries, depth \in Depths : OnCutoff(e, depth) \/ OnPoor(e, depth)

HistorySpec == HistoryInit /\ [][HistoryNext]_history_table

-----------------------------------------------------------------------------
(* No entry leaves the range that reductions and the order of captures     *)
(* assume, however often it is rewarded or blamed, and therefore no        *)
(* product in an update is larger than the square of the limit.            *)
HistoryInBounds == history_table \in [Entries -> -MAX_VAL .. MAX_VAL]

(* A reward never lowers an entry and a blame never raises one, however    *)
(* close to the limit it is and whichever way the division rounds.         *)
RewardsAndBlames ==
  [][\A e \in Entries, depth \in Depths :
        /\ OnCutoff(e, depth) => history_table'[e] >= history_table[e]
        /\ OnPoor(e, depth) => history_table'[e] <= history_table[e]]_history_table

=============================================================================
