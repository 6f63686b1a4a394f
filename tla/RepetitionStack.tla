---------------------------- MODULE RepetitionStack ----------------------------
(***************************************************************************)
(* The repetition table as the board uses it: doMove(), doCastling960()    *)
(* and doNullMove() count the key of the position that they reach, and     *)
(* undoMove(), undoCastling960() and undoNullMove() uncount it before they *)
(* return to the position before (chess_board.cpp).  So what is uncounted  *)
(* is always what was counted last, and the keys counted form a stack.     *)
(***************************************************************************)
EXTENDS RepetitionTable

CONSTANT Keys   \* the position keys

\* key & mask_ is an index of the table
ASSUME NaturalSlotAssumption == \A key \in Keys : natural_slot(key) \in Slots

VARIABLES
  table,   \* the table
  counted  \* the keys counted, the last one at the end

stackVars == <<table, counted>>

StackInit == table = EmptyTable /\ counted = <<>>

\* The stack leaves a slot of the table free: MAX_MOVES, the length of the
\* history arrays, is below the capacity.
Push(key) == /\ Len(counted) < Capacity - 1
             /\ table' = inc(table, key)
             /\ counted' = Append(counted, key)

Pop == /\ counted # <<>>
       /\ table' = dec(table, counted[Len(counted)])
       /\ counted' = SubSeq(counted, 1, Len(counted) - 1)

StackNext == (\E key \in Keys : Push(key)) \/ Pop

StackSpec == StackInit /\ [][StackNext]_stackVars

-----------------------------------------------------------------------------
TypeOK == StackTyped(table, counted, Keys)

\* Every key is counted as often as it is on the stack, however the probe
\* chains of the keys run into each other.
Counted == CountsStack(table, counted, Keys)

\* An entry never moves: a slot that stays in use keeps its key.  The repair
\* after an erasure stops at the first entry in its natural slot, before
\* entries that may have probed past the hole; used as a stack, the table never
\* has anything to repair.
EntriesStay ==
  [][\A i \in Slots : table[i].count > 0 /\ table'[i].count > 0
                        => table'[i].key = table[i].key]_stackVars

=============================================================================
