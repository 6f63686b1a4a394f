---------------------------- MODULE RepetitionTable ----------------------------
(***************************************************************************)
(* The open-addressed counters of repeated positions (repetition.h), as a  *)
(* value `slots' and an operator per method.                               *)
(*                                                                         *)
(* A loop `idx = (idx + 1) & mask_' that runs until a slot stops it finds  *)
(* the first such slot in cyclic order from where it starts: Passed(a, b)  *)
(* are the slots it walks over from a before it reaches b.  The key that a *)
(* freed slot still holds is never read and is left out.                   *)
(***************************************************************************)
EXTENDS Integers, Sequences, FiniteSets

CONSTANTS
  Capacity,        \* the number of slots, 16384 in the code
  NoKey,           \* the key that a slot is made with
  natural_slot(_)  \* key & mask_: the slot a key is looked for first

Slots == 0..(Capacity - 1)

ASSUME CapacityAssumption == Capacity \in Nat /\ Capacity > 1

NO_VALUE == -1
Free     == [key |-> NoKey, count |-> 0]

EmptyTable == [i \in Slots |-> Free]

NextSlot(i) == IF i = Capacity - 1 THEN 0 ELSE i + 1

Passed(a, b) ==
  IF a <= b THEN {i \in Slots : a <= i /\ i < b}
            ELSE {i \in Slots : a <= i \/ i < b}

-----------------------------------------------------------------------------
\* where the probing for a key ends: its slot or, without one, a free slot
Stops(slots, key, i) == slots[i].count = 0 \/ slots[i].key = key

Probe(slots, key) ==
  CHOOSE i \in Slots : /\ Stops(slots, key, i)
                       /\ \A j \in Passed(natural_slot(key), i) : ~Stops(slots, key, j)

get(slots, key) ==
  LET i == Probe(slots, key)
  IN IF slots[i].count = 0 THEN NO_VALUE ELSE slots[i].count

\* wrong: the key goes to its natural slot whoever is there
incNatural(slots, key) ==
  LET i == natural_slot(key)
  IN [slots EXCEPT ![i] = [key |-> key, count |-> slots[i].count + 1]]

inc(slots, key) ==
  LET i == Probe(slots, key)
  IN [slots EXCEPT ![i] = [key |-> key, count |-> slots[i].count + 1]]

\* wrong: entries slide back out of their natural slots
erase_and_repair_all(slots, hole) ==
  LET freed == [slots EXCEPT ![hole] = Free]
      stop == CHOOSE i \in Slots : /\ freed[i].count = 0
                                   /\ \A j \in Passed(NextSlot(hole), i) : freed[j].count > 0
      slid == Passed(NextSlot(hole), stop)
  IN [i \in Slots |-> IF NextSlot(i) \in slid THEN freed[NextSlot(i)]
                      ELSE IF i \in slid THEN Free
                      ELSE freed[i]]

\* erase_and_repair(): the entries after the hole are slid back one slot each,
\* up to the first slot that is free or holds an entry of that very slot
erase_and_repair(slots, hole) ==
  LET freed == [slots EXCEPT ![hole] = Free]
      Stays(i) == freed[i].count = 0 \/ natural_slot(freed[i].key) = i
      stop == CHOOSE i \in Slots : /\ Stays(i)
                                   /\ \A j \in Passed(NextSlot(hole), i) : ~Stays(j)
      slid == Passed(NextSlot(hole), stop)
  IN [i \in Slots |-> IF NextSlot(i) \in slid THEN freed[NextSlot(i)]
                      ELSE IF i \in slid THEN Free
                      ELSE freed[i]]

dec(slots, key) ==
  LET i == Probe(slots, key)
  IN IF slots[i].count = 0 THEN slots
     ELSE IF slots[i].count = 1 THEN erase_and_repair(slots, i)
     ELSE [slots EXCEPT ![i].count = @ - 1]

-----------------------------------------------------------------------------
\* how often a key occurs on a stack of keys
Occurrences(stack, key) == Cardinality({j \in 1..Len(stack) : stack[j] = key})

\* The table counts, of the given keys, exactly those on the stack.
CountsStack(slots, stack, keys) ==
  \A key \in keys :
    get(slots, key) = IF Occurrences(stack, key) = 0 THEN NO_VALUE
                                                     ELSE Occurrences(stack, key)
-----------------------------------------------------------------------------
(***************************************************************************)
(* A table that counts a stack of keys.                                    *)
(***************************************************************************)
Used(slots, i) == slots[i].count > 0

Entries(keys) == [key : keys \cup {NoKey}, count : Nat]

StackTyped(slots, stack, keys) ==
  slots \in [Slots -> Entries(keys)] /\ stack \in Seq(keys) /\ Len(stack) < Capacity

\* x is on the stack before y is for the first time
Earlier(s, x, y) ==
  \E p \in 1..Len(s) : s[p] = x /\ \A q \in 1..Len(s) : s[q] = y => p < q

CountsRight(slots, stack, keys) ==
  \A i \in Slots : Used(slots, i) => /\ slots[i].key \in keys
                                     /\ slots[i].count = Occurrences(stack, slots[i].key)

KeysFound(slots, stack) ==
  \A p \in 1..Len(stack) : \E i \in Slots : Used(slots, i) /\ slots[i].key = stack[p]

OneSlotEach(slots) ==
  \A i, j \in Slots : Used(slots, i) /\ Used(slots, j) /\ slots[i].key = slots[j].key => i = j

\* what an entry has probed past was there before it
ChainsOlder(slots, stack) ==
  \A i \in Slots : Used(slots, i) =>
    \A j \in Passed(natural_slot(slots[i].key), i) :
      Used(slots, j) /\ Earlier(stack, slots[j].key, slots[i].key)

\* a slot that is not in use is as it was made
FreeIsEmpty(slots) == \A i \in Slots : ~Used(slots, i) => slots[i] = Free

\* The table's entries are the keys of the stack, one slot each, and a probe
\* chain runs over older entries only, so the newest entry is on nobody's chain
\* and uncounting it leaves the other chains whole.
StackInv(slots, stack, keys) ==
  /\ StackTyped(slots, stack, keys) /\ CountsRight(slots, stack, keys) /\ KeysFound(slots, stack)
  /\ OneSlotEach(slots) /\ ChainsOlder(slots, stack) /\ FreeIsEmpty(slots)

=============================================================================
