------------------------------ MODULE BoardProofs ------------------------------
(***************************************************************************)
(* What is proved of the constant operators of the board: the table of     *)
(* repetitions, the moves made and taken back, the board set up from a     *)
(* FEN, and what the tables of the pieces say of attacks, lines and pins,  *)
(* up to the laws of chess (ReachedIs) and a king that stays out of check  *)
(* (OrdinaryGuards).  None of it needs a state, and                        *)
(* BoardSessionProofs takes it to the board under the search.  The one     *)
(* part with variables of its own is the table of repetitions driven by    *)
(* itself (RepetitionStack): it counts a stack of keys, whichever they are *)
(* (CountedAlways), and its entries never move (EntriesNeverMove).         *)
(***************************************************************************)
EXTENDS MoveGenerator, ChessRules, RepetitionStack, FiniteSetTheorems, SequenceTheorems, WellFoundedInduction, TLAPS

USE CapacityAssumption

-----------------------------------------------------------------------------
(***************************************************************************)
(* The first slot, in cyclic order from n, of a set of slots.              *)
(***************************************************************************)
LEMMA Minimum ==
  ASSUME NEW T, T \subseteq Nat, T # {}
  PROVE  \E m \in T : \A t \in T : m <= t
<1>1. PICK m \in T : \A t \in T : ~(<<t, m>> \in OpToRel(<, Nat))
  BY NatLessThanWellFounded, WFMin
<1>2. ASSUME NEW t \in T
      PROVE  m <= t
  <2>1. m \in Nat /\ t \in Nat
    OBVIOUS
  <2>2. ~(t < m)
    BY <1>1, <2>1 DEF OpToRel
  <2> QED
    BY <2>1, <2>2
<1> QED
  BY <1>2

LEMMA FirstSlot ==
  ASSUME NEW n \in Slots, NEW T, T \subseteq Slots, T # {}
  PROVE  \E i \in T : \A j \in Passed(n, i) : j \notin T
<1>0. Slots \subseteq Nat
  BY DEF Slots
<1>1. CASE \E t \in T : n <= t
  <2> DEFINE U == {t \in T : n <= t}
  <2>1. PICK m \in U : \A t \in U : m <= t
    <3>1. U \subseteq Nat /\ U # {}
      BY <1>0, <1>1
    <3> HIDE DEF U
    <3> QED
      BY <3>1, Minimum
  <2>2. m \in T /\ n <= m
    BY <2>1
  <2>3. ASSUME NEW j \in Passed(n, m) PROVE j \notin T
    BY <2>2, <2>1 DEF Passed, Slots
  <2> QED
    BY <2>2, <2>3
<1>2. CASE ~\E t \in T : n <= t
  <2>1. PICK m \in T : \A t \in T : m <= t
    BY <1>0, Minimum
  <2>2. m < n
    BY <1>2, <2>1 DEF Slots
  <2>3. ASSUME NEW j \in Passed(n, m) PROVE j \notin T
    BY <2>2, <1>2, <2>1 DEF Passed, Slots
  <2> QED
    BY <2>1, <2>3
<1> QED
  BY <1>1, <1>2

\* of two slots, one is on the way from n to the other
LEMMA WayIsLinear ==
  ASSUME NEW n \in Slots, NEW i \in Slots, NEW k \in Slots, i # k
  PROVE  i \in Passed(n, k) \/ k \in Passed(n, i)
BY DEF Passed, Slots

\* what is on the way from n comes before the slot that the way leads to
LEMMA NextIsFirst ==
  ASSUME NEW h \in Slots
  PROVE  /\ NextSlot(h) \in Slots
         /\ \A n \in Slots : n # NextSlot(h) => h \in Passed(n, NextSlot(h))
         /\ Passed(NextSlot(h), NextSlot(h)) = {}
<1>1. NextSlot(h) \in Slots
  BY DEF NextSlot, Slots
<1>2. ASSUME NEW n \in Slots, n # NextSlot(h)
      PROVE  h \in Passed(n, NextSlot(h))
  BY <1>1, <1>2 DEF NextSlot, Slots, Passed
<1>3. Passed(NextSlot(h), NextSlot(h)) = {}
  BY <1>1 DEF Passed, Slots
<1> QED
  BY <1>1, <1>2, <1>3

-----------------------------------------------------------------------------
(***************************************************************************)
(* Probing.                                                                *)
(***************************************************************************)
LEMMA ProbeEnds ==
  ASSUME NEW s, NEW key, natural_slot(key) \in Slots,
         NEW f \in Slots, Stops(s, key, f)
  PROVE  /\ Probe(s, key) \in Slots
         /\ Stops(s, key, Probe(s, key))
         /\ \A j \in Passed(natural_slot(key), Probe(s, key)) : ~Stops(s, key, j)
<1> DEFINE n == natural_slot(key)
           T == {i \in Slots : Stops(s, key, i)}
<1>1. \E i \in T : \A j \in Passed(n, i) : j \notin T
  <2>1. T \subseteq Slots /\ T # {}
    OBVIOUS
  <2> HIDE DEF T
  <2> QED
    BY <2>1, FirstSlot
<1>2. \A i : Passed(n, i) \subseteq Slots
  BY DEF Passed
<1>3. \E i \in Slots : Stops(s, key, i) /\ \A j \in Passed(n, i) : ~Stops(s, key, j)
  BY <1>1, <1>2
<1> QED
  BY <1>3 DEF Probe

\* the probe for a key ends at a slot that stops it and is not passed by another
LEMMA ProbeIs ==
  ASSUME NEW s, NEW key, natural_slot(key) \in Slots,
         NEW i \in Slots, Stops(s, key, i),
         \A j \in Passed(natural_slot(key), i) : ~Stops(s, key, j)
  PROVE  Probe(s, key) = i
<1>1. /\ Probe(s, key) \in Slots
      /\ Stops(s, key, Probe(s, key))
      /\ \A j \in Passed(natural_slot(key), Probe(s, key)) : ~Stops(s, key, j)
  BY ProbeEnds
<1> QED
  BY <1>1, WayIsLinear

-----------------------------------------------------------------------------
(***************************************************************************)
(* Counting keys on a stack.                                               *)
(***************************************************************************)
Positions(s, x) == {j \in 1..Len(s) : s[j] = x}

LEMMA OccurrencesType ==
  ASSUME NEW s, Len(s) \in Nat, NEW x
  PROVE  /\ IsFiniteSet(Positions(s, x))
         /\ Occurrences(s, x) = Cardinality(Positions(s, x))
         /\ Occurrences(s, x) \in Nat
         /\ Occurrences(s, x) > 0 <=> \E j \in 1..Len(s) : s[j] = x
<1>1. IsFiniteSet(1..Len(s))
  BY FS_Interval
<1>2. IsFiniteSet(Positions(s, x))
  BY <1>1, FS_Subset DEF Positions
<1>3. Occurrences(s, x) = Cardinality(Positions(s, x))
  BY DEF Occurrences, Positions
<1>4. Cardinality(Positions(s, x)) \in Nat
  BY <1>2, FS_CardinalityType
<1>5. Cardinality(Positions(s, x)) = 0 <=> Positions(s, x) = {}
  BY <1>2, FS_EmptySet
<1>6. Positions(s, x) = {} <=> ~\E j \in 1..Len(s) : s[j] = x
  BY DEF Positions
<1> QED
  BY <1>2, <1>3, <1>4, <1>5, <1>6

\* t is s with one more element at the end
Extends(t, s) ==
  /\ Len(s) \in Nat /\ Len(t) = Len(s) + 1
  /\ \A p \in 1..Len(s) : t[p] = s[p]

LEMMA OccurrencesExtend ==
  ASSUME NEW s, NEW t, Extends(t, s), NEW x
  PROVE  Occurrences(t, x) = Occurrences(s, x) + (IF t[Len(t)] = x THEN 1 ELSE 0)
<1>1. Len(s) \in Nat /\ Len(t) \in Nat /\ Len(t) = Len(s) + 1
  BY DEF Extends
<1>2. CASE t[Len(t)] = x
  <2>1. Positions(t, x) = Positions(s, x) \cup {Len(t)}
    BY <1>1, <1>2 DEF Positions, Extends
  <2>2. Len(t) \notin Positions(s, x)
    BY <1>1 DEF Positions
  <2> QED
    BY <1>1, <1>2, <2>1, <2>2, OccurrencesType, FS_AddElement
<1>3. CASE t[Len(t)] # x
  <2>1. Positions(t, x) = Positions(s, x)
    BY <1>1, <1>3 DEF Positions, Extends
  <2> QED
    BY <1>1, <1>3, <2>1, OccurrencesType
<1> QED
  BY <1>2, <1>3

\* whoever was there earlier stays so, and what follows all the rest is later
LEMMA EarlierExtend ==
  ASSUME NEW s, NEW t, Extends(t, s), NEW x, NEW y
  PROVE  /\ Earlier(s, x, y) => Earlier(t, x, y)
         /\ Earlier(t, x, y) /\ (\E q \in 1..Len(s) : s[q] = y) => Earlier(s, x, y)
         /\ (\E p \in 1..Len(s) : s[p] = x) /\ ~(\E q \in 1..Len(s) : s[q] = y)
              => Earlier(t, x, y)
<1>1. Len(s) \in Nat /\ Len(t) = Len(s) + 1 /\ \A p \in 1..Len(s) : t[p] = s[p]
  BY DEF Extends
<1>2. ASSUME Earlier(s, x, y) PROVE Earlier(t, x, y)
  <2>1. PICK p \in 1..Len(s) : s[p] = x /\ \A q \in 1..Len(s) : s[q] = y => p < q
    BY <1>2 DEF Earlier
  <2>2. p \in 1..Len(t) /\ t[p] = x
    BY <1>1, <2>1
  <2>3. ASSUME NEW q \in 1..Len(t), t[q] = y PROVE p < q
    BY <1>1, <2>1, <2>3
  <2> QED
    BY <2>2, <2>3 DEF Earlier
<1>3. ASSUME Earlier(t, x, y), NEW q \in 1..Len(s), s[q] = y PROVE Earlier(s, x, y)
  <2>1. PICK p \in 1..Len(t) : t[p] = x /\ \A r \in 1..Len(t) : t[r] = y => p < r
    BY <1>3 DEF Earlier
  <2>2. p < q
    BY <1>1, <1>3, <2>1
  <2>3. p \in 1..Len(s) /\ s[p] = x
    BY <1>1, <2>1, <2>2
  <2>4. ASSUME NEW r \in 1..Len(s), s[r] = y PROVE p < r
    BY <1>1, <2>1, <2>4
  <2> QED
    BY <2>3, <2>4 DEF Earlier
<1>4. ASSUME NEW p \in 1..Len(s), s[p] = x, ~(\E q \in 1..Len(s) : s[q] = y)
      PROVE  Earlier(t, x, y)
  <2>1. p \in 1..Len(t) /\ t[p] = x
    BY <1>1, <1>4
  <2>2. ASSUME NEW q \in 1..Len(t), t[q] = y PROVE p < q
    <3>1. q = Len(t)
      BY <1>1, <1>4, <2>2
    <3> QED
      BY <1>1, <3>1
  <2> QED
    BY <2>1, <2>2 DEF Earlier
<1> QED
  BY <1>2, <1>3, <1>4

LEMMA EarlierOther ==
  ASSUME NEW s, Len(s) \in Nat, NEW x, Earlier(s, x, x)
  PROVE  FALSE
<1>1. PICK p \in 1..Len(s) : s[p] = x /\ \A q \in 1..Len(s) : s[q] = x => p < q
  BY DEF Earlier
<1> QED
  BY <1>1

-----------------------------------------------------------------------------
(***************************************************************************)
(* Probing a table that satisfies the invariant.                           *)
(***************************************************************************)
LEMMA StackType ==
  ASSUME NEW slots, NEW stack, NEW keys, StackInv(slots, stack, keys),
         \A k \in keys : natural_slot(k) \in Slots
  PROVE  /\ Len(stack) \in Nat /\ Len(stack) < Capacity
         /\ \A p \in 1..Len(stack) : stack[p] \in keys
         /\ \A i \in Slots : slots[i].count \in Nat
         /\ \A i \in Slots : Used(slots, i) <=> slots[i].count # 0
BY DEF StackInv, StackTyped, Entries, Used

\* the key of a used slot is on the stack
LEMMA UsedOnStack ==
  ASSUME NEW slots, NEW stack, NEW keys, StackInv(slots, stack, keys),
         \A k \in keys : natural_slot(k) \in Slots, NEW i \in Slots, Used(slots, i)
  PROVE  /\ slots[i].key \in keys
         /\ \E p \in 1..Len(stack) : stack[p] = slots[i].key
<1>1. slots[i].key \in keys /\ slots[i].count = Occurrences(stack, slots[i].key)
  BY DEF StackInv, CountsRight
<1>2. Occurrences(stack, slots[i].key) > 0
  BY <1>1 DEF Used
<1> QED
  BY <1>1, <1>2, StackType, OccurrencesType

LEMMA CountTo ==
  ASSUME NEW n \in Nat
  PROVE  IsFiniteSet(1..n) /\ Cardinality(1..n) = n
<1>1. /\ IsFiniteSet(1..n)
      /\ Cardinality(1..n) = IF 1 > n THEN 0 ELSE n - 1 + 1
  <2> 1 \in Int /\ n \in Int
    OBVIOUS
  <2> QED
    BY ONLY FS_Interval, 1 \in Int, n \in Int
<1> QED
  BY <1>1

\* There is always a free slot: the used ones hold different keys of a stack
\* that is shorter than the table.
LEMMA FreeSlot ==
  ASSUME NEW slots, NEW stack, NEW keys, StackInv(slots, stack, keys),
         \A k \in keys : natural_slot(k) \in Slots
  PROVE  \E i \in Slots : ~Used(slots, i)
<1> SUFFICES ASSUME \A i \in Slots : Used(slots, i) PROVE FALSE
  OBVIOUS
<1> DEFINE f == [i \in Slots |-> CHOOSE p \in 1..Len(stack) : stack[p] = slots[i].key]
<1>1. ASSUME NEW i \in Slots PROVE f[i] \in 1..Len(stack) /\ stack[f[i]] = slots[i].key
  BY UsedOnStack
<1>2. f \in [Slots -> 1..Len(stack)]
  BY <1>1
<1>3. IsFiniteSet(Slots) /\ Cardinality(Slots) = Capacity
  BY FS_Interval DEF Slots
<1>4. IsFiniteSet(1..Len(stack)) /\ Cardinality(1..Len(stack)) < Cardinality(Slots)
  BY StackType, CountTo, <1>3
<1> HIDE DEF f
<1>5. PICK i \in Slots, j \in Slots : i # j /\ f[i] = f[j]
  BY <1>2, <1>3, <1>4, FS_PigeonHole
<1>6. slots[i].key = slots[j].key
  BY <1>1, <1>5
<1> QED
  BY <1>5, <1>6 DEF StackInv, OneSlotEach

\* a key on the stack is found in its slot
LEMMA FindsKey ==
  ASSUME NEW slots, NEW stack, NEW keys, StackInv(slots, stack, keys),
         \A k \in keys : natural_slot(k) \in Slots, NEW h \in Slots, Used(slots, h)
  PROVE  Probe(slots, slots[h].key) = h
<1> DEFINE key == slots[h].key
<1>1. natural_slot(key) \in Slots
  BY UsedOnStack
<1>2. Stops(slots, key, h)
  BY DEF Stops
<1>3. ASSUME NEW j \in Passed(natural_slot(key), h) PROVE ~Stops(slots, key, j)
  BY <1>3, StackType, EarlierOther DEF Passed, StackInv, ChainsOlder, Stops
<1> HIDE DEF key
<1> QED
  BY <1>1, <1>2, <1>3, ProbeIs DEF key

\* for any other key the probe ends at a free slot, past used ones
LEMMA FindsFree ==
  ASSUME NEW slots, NEW stack, NEW keys, StackInv(slots, stack, keys),
         \A k \in keys : natural_slot(k) \in Slots, NEW key \in keys, ~\E i \in Slots : Used(slots, i) /\ slots[i].key = key
  PROVE  /\ Probe(slots, key) \in Slots
         /\ ~Used(slots, Probe(slots, key))
         /\ \A j \in Passed(natural_slot(key), Probe(slots, key)) : Used(slots, j)
<1>1. PICK f \in Slots : ~Used(slots, f)
  BY FreeSlot
<1>2. Stops(slots, key, f)
  BY <1>1, StackType DEF Stops
<1>3. /\ Probe(slots, key) \in Slots
      /\ Stops(slots, key, Probe(slots, key))
      /\ \A j \in Passed(natural_slot(key), Probe(slots, key)) : ~Stops(slots, key, j)
  BY <1>2, ProbeEnds
<1>4. ~Used(slots, Probe(slots, key))
  BY <1>3, StackType DEF Stops
<1>5. ASSUME NEW j \in Passed(natural_slot(key), Probe(slots, key)) PROVE Used(slots, j)
  <2>1. j \in Slots
    BY <1>5 DEF Passed
  <2> QED
    BY <1>3, <1>5, <2>1, StackType DEF Stops
<1> QED
  BY <1>3, <1>4, <1>5

\* The invariant says what the property asks for.
LEMMA InvCounts ==
  ASSUME NEW slots, NEW stack, NEW keys, StackInv(slots, stack, keys),
         \A k \in keys : natural_slot(k) \in Slots
  PROVE  CountsStack(slots, stack, keys)
<1> SUFFICES ASSUME NEW key \in keys
             PROVE  get(slots, key) = IF Occurrences(stack, key) = 0 THEN NO_VALUE
                                                                 ELSE Occurrences(stack, key)
  BY DEF CountsStack
<1>1. CASE \E i \in Slots : Used(slots, i) /\ slots[i].key = key
  <2>1. PICK h \in Slots : Used(slots, h) /\ slots[h].key = key
    BY <1>1
  <2>2. Probe(slots, key) = h
    BY <2>1, FindsKey
  <2>3. slots[h].count = Occurrences(stack, key) /\ slots[h].count # 0
    BY <2>1, StackType DEF StackInv, CountsRight
  <2> QED
    BY <2>2, <2>3 DEF get
<1>2. CASE ~\E i \in Slots : Used(slots, i) /\ slots[i].key = key
  BY <1>2, FindsFree, StackType, OccurrencesType DEF StackInv, KeysFound, get
<1> QED
  BY <1>1, <1>2

-----------------------------------------------------------------------------
(***************************************************************************)
(* The empty table, counting a key and uncounting it.                      *)
(***************************************************************************)
LEMMA EmptyInv ==
  ASSUME NEW keys
  PROVE  StackInv(EmptyTable, <<>>, keys)
<1>1. StackTyped(EmptyTable, <<>>, keys)
  BY DEF StackTyped, EmptyTable, Free, Entries
<1>2. \A i \in Slots : ~Used(EmptyTable, i)
  BY DEF EmptyTable, Free, Used
<1> QED
  BY <1>1, <1>2 DEF StackInv, CountsRight, KeysFound, OneSlotEach, ChainsOlder, FreeIsEmpty, EmptyTable

Pushes(slots, stack, key, slots2, stack2) ==
  Len(stack) < Capacity - 1 /\ slots2 = inc(slots, key) /\ stack2 = Append(stack, key)

Pops(slots, stack, slots2, stack2) ==
  /\ stack # <<>>
  /\ slots2 = dec(slots, stack[Len(stack)]) /\ stack2 = SubSeq(stack, 1, Len(stack) - 1)

\* what Push does to the table: one slot counts the key once more
LEMMA PushChanges ==
  ASSUME NEW slots, NEW stack, NEW keys, StackInv(slots, stack, keys),
         \A k \in keys : natural_slot(k) \in Slots, NEW key \in keys, NEW slots2, NEW stack2,
         Pushes(slots, stack, key, slots2, stack2), NEW h, h = Probe(slots, key)
  PROVE  /\ h \in Slots
         /\ slots2 = [slots EXCEPT ![h] = [key |-> key, count |-> slots[h].count + 1]]
         /\ slots[h].count = Occurrences(stack, key)
         /\ \A i \in Slots : Used(slots, i) => (slots[i].key = key <=> i = h)
         /\ Extends(stack2, stack) /\ stack2[Len(stack2)] = key
<1>1. slots2 = [slots EXCEPT ![h] = [key |-> key, count |-> slots[h].count + 1]]
  BY DEF Pushes, inc
<1>2. Extends(stack2, stack) /\ stack2[Len(stack2)] = key
  BY DEF Pushes, Extends, StackInv, StackTyped
<1>3. CASE \E i \in Slots : Used(slots, i) /\ slots[i].key = key
  <2>1. PICK i \in Slots : Used(slots, i) /\ slots[i].key = key
    BY <1>3
  <2>2. h = i
    BY <2>1, FindsKey
  <2>3. slots[h].count = Occurrences(stack, key)
    BY <2>1, <2>2 DEF StackInv, CountsRight
  <2>4. \A j \in Slots : Used(slots, j) => (slots[j].key = key <=> j = h)
    BY <2>1, <2>2 DEF StackInv, OneSlotEach
  <2> QED
    BY <1>1, <1>2, <2>2, <2>3, <2>4
<1>4. CASE ~\E i \in Slots : Used(slots, i) /\ slots[i].key = key
  <2>1. h \in Slots /\ ~Used(slots, h)
    BY <1>4, FindsFree
  <2>2. slots[h].count = 0
    BY <2>1, StackType
  <2>3. ~\E p \in 1..Len(stack) : stack[p] = key
    BY <1>4 DEF StackInv, KeysFound
  <2>4. Occurrences(stack, key) = 0
    BY <2>3, StackType, OccurrencesType
  <2>5. \A j \in Slots : Used(slots, j) => (slots[j].key = key <=> j = h)
    BY <1>4, <2>1
  <2> QED
    BY <1>1, <1>2, <2>1, <2>2, <2>4, <2>5
<1> QED
  BY <1>3, <1>4

\* the chain that leads to the key's slot
LEMMA PushChain ==
  ASSUME NEW slots, NEW stack, NEW keys, StackInv(slots, stack, keys),
         \A k \in keys : natural_slot(k) \in Slots, NEW key \in keys, NEW slots2, NEW stack2,
         Pushes(slots, stack, key, slots2, stack2), NEW h, h = Probe(slots, key),
         NEW j \in Passed(natural_slot(key), h)
  PROVE  Used(slots, j) /\ Earlier(stack2, slots[j].key, key)
<1>0. h \in Slots /\ Extends(stack2, stack)
  BY PushChanges
<1>1. j \in Slots
  BY DEF Passed
<1>2. CASE Used(slots, h)
  BY <1>0, <1>2, PushChanges, EarlierExtend DEF StackInv, ChainsOlder
<1>3. CASE ~Used(slots, h)
  <2>1. ~\E i \in Slots : Used(slots, i) /\ slots[i].key = key
    BY <1>3, PushChanges
  <2>2. Used(slots, j)
    BY <2>1, FindsFree
  <2>3. \E p \in 1..Len(stack) : stack[p] = slots[j].key
    BY <1>1, <2>2, UsedOnStack
  <2>4. ~\E q \in 1..Len(stack) : stack[q] = key
    BY <2>1 DEF StackInv, KeysFound
  <2> QED
    BY <1>0, <2>2, <2>3, <2>4, EarlierExtend
<1> QED
  BY <1>2, <1>3

LEMMA PushInv ==
  ASSUME NEW slots, NEW stack, NEW keys, StackInv(slots, stack, keys),
         \A k \in keys : natural_slot(k) \in Slots, NEW key \in keys, NEW slots2, NEW stack2,
         Pushes(slots, stack, key, slots2, stack2)
  PROVE  /\ StackInv(slots2, stack2, keys)
         /\ \A i \in Slots : Used(slots, i) /\ Used(slots2, i) => slots2[i].key = slots[i].key
<1>0. PICK h : h = Probe(slots, key)
  OBVIOUS
<1>1. /\ h \in Slots
      /\ slots2 = [slots EXCEPT ![h] = [key |-> key, count |-> slots[h].count + 1]]
      /\ slots[h].count = Occurrences(stack, key)
      /\ \A i \in Slots : Used(slots, i) => (slots[i].key = key <=> i = h)
      /\ Extends(stack2, stack) /\ stack2[Len(stack2)] = key
  BY <1>0, PushChanges
<1>2. \A j \in Passed(natural_slot(key), h) : Used(slots, j) /\ Earlier(stack2, slots[j].key, key)
  BY <1>0, PushChain
<1>3. StackTyped(slots2, stack2, keys)
  BY <1>1 DEF StackInv, StackTyped, Entries, Pushes
<1>4. /\ slots2[h].key = key /\ slots2[h].count = slots[h].count + 1
      /\ \A i \in Slots : i # h => slots2[i] = slots[i]
  BY <1>1 DEF StackInv, StackTyped
<1>5. /\ Used(slots2, h)
      /\ \A i \in Slots : i # h => (Used(slots2, i) <=> Used(slots, i))
      /\ \A i \in Slots : Used(slots2, i) => (slots2[i].key = key <=> i = h)
  BY <1>1, <1>4, StackType DEF Used
<1>6. \A i \in Slots : Used(slots, i) /\ Used(slots2, i) => slots2[i].key = slots[i].key
  BY <1>1, <1>4
<1>7. CountsRight(slots2, stack2, keys)
  <2> SUFFICES ASSUME NEW i \in Slots, Used(slots2, i)
               PROVE  slots2[i].key \in keys
                      /\ slots2[i].count = Occurrences(stack2, slots2[i].key)
    BY DEF CountsRight
  <2>1. CASE i = h
    BY <1>1, OccurrencesExtend, <1>4, <2>1
  <2>2. CASE i # h
    <3>1. slots[i].key \in keys /\ slots[i].count = Occurrences(stack, slots[i].key)
      BY <1>5, <2>2 DEF StackInv, CountsRight
    <3>2. slots[i].key # key
      BY <1>1, <1>5, <2>2
    <3>3. Occurrences(stack2, slots[i].key) = Occurrences(stack, slots[i].key) + 0
      BY <1>1, <3>2, OccurrencesExtend
    <3>4. Occurrences(stack, slots[i].key) \in Nat
      BY StackType, OccurrencesType
    <3> QED
      BY <1>4, <2>2, <3>1, <3>3, <3>4
  <2> QED
    BY <2>1, <2>2
<1>8. KeysFound(slots2, stack2)
  <2> SUFFICES ASSUME NEW p \in 1..Len(stack2)
               PROVE  \E i \in Slots : Used(slots2, i) /\ slots2[i].key = stack2[p]
    BY DEF KeysFound
  <2>1. CASE stack2[p] = key
    BY <1>1, <1>4, <1>5, <2>1
  <2>2. CASE stack2[p] # key
    <3>1. p \in 1..Len(stack) /\ stack2[p] = stack[p]
      BY <1>1, <2>2 DEF Extends
    <3>2. PICK i \in Slots : Used(slots, i) /\ slots[i].key = stack[p]
      BY <3>1 DEF StackInv, KeysFound
    <3>3. i # h
      BY <1>1, <2>2, <3>1, <3>2
    <3> QED
      BY <1>4, <1>5, <3>1, <3>2, <3>3
  <2> QED
    BY <2>1, <2>2
<1>9. OneSlotEach(slots2)
  <2> SUFFICES ASSUME NEW i \in Slots, NEW j \in Slots, Used(slots2, i), Used(slots2, j),
                      slots2[i].key = slots2[j].key
               PROVE  i = j
    BY DEF OneSlotEach
  <2>1. CASE i = h \/ j = h
    BY <1>4, <1>5, <2>1
  <2>2. CASE i # h /\ j # h
    BY <1>4, <1>5, <2>2 DEF StackInv, OneSlotEach
  <2> QED
    BY <2>1, <2>2
<1>10. ChainsOlder(slots2, stack2)
  <2> SUFFICES ASSUME NEW i \in Slots, Used(slots2, i),
                      NEW j \in Passed(natural_slot(slots2[i].key), i)
               PROVE  Used(slots2, j) /\ Earlier(stack2, slots2[j].key, slots2[i].key)
    BY DEF ChainsOlder
  <2>0. j \in Slots
    BY DEF Passed
  <2>1. CASE i = h
    BY <1>4, <2>1, <1>2, <1>5, <1>6, <2>0
  <2>2. CASE i # h
    <3>1. Used(slots, i) /\ slots2[i].key = slots[i].key
      BY <1>4, <1>5, <2>2
    <3>2. Used(slots, j) /\ Earlier(stack, slots[j].key, slots[i].key)
      BY <3>1 DEF StackInv, ChainsOlder
    <3>3. Earlier(stack2, slots[j].key, slots[i].key)
      BY <1>1, <3>2, EarlierExtend
    <3>4. Used(slots2, j) /\ slots2[j].key = slots[j].key
      BY <1>5, <1>6, <2>0, <3>2
    <3> QED
      BY <3>1, <3>3, <3>4
  <2> QED
    BY <2>1, <2>2
<1>11. FreeIsEmpty(slots2)
  BY <1>4, <1>5 DEF StackInv, FreeIsEmpty
<1> QED
  BY <1>3, <1>6, <1>7, <1>8, <1>9, <1>10, <1>11 DEF StackInv

\* a table that has counted one key
LEMMA FirstKey ==
  ASSUME NEW keys, \A k \in keys : natural_slot(k) \in Slots, NEW key \in keys,
         NEW slots, slots = inc(EmptyTable, key), NEW stack, stack = <<key>>
  PROVE  StackInv(slots, stack, keys)
<1> DEFINE n == natural_slot(key)
<1>1. n \in Slots
  OBVIOUS
<1>2. Probe(EmptyTable, key) = n
  BY <1>1, ProbeIs DEF Stops, EmptyTable, Free, Passed, Slots
<1>3. EmptyTable[n].count = 0 /\ EmptyTable \in [Slots -> Entries(keys)] /\ \A i \in Slots : EmptyTable[i] = Free
  BY <1>1 DEF EmptyTable, Free, Entries
<1> HIDE DEF n
<1>4. slots = [EmptyTable EXCEPT ![n] = [key |-> key, count |-> 1]]
  BY <1>2, <1>3 DEF inc
<1>5. /\ slots[n] = [key |-> key, count |-> 1] /\ slots \in [Slots -> Entries(keys)]
      /\ \A i \in Slots : i # n => slots[i] = Free
  BY <1>1, <1>3, <1>4 DEF Entries
<1>6. \A i \in Slots : Used(slots, i) <=> i = n
  BY <1>5 DEF Used, Free
<1>7. Len(stack) = 1 /\ stack[1] = key /\ stack \in Seq(keys) /\ 1..Len(stack) = {1}
  OBVIOUS
<1>8. StackTyped(slots, stack, keys)
  BY <1>5, <1>7 DEF StackTyped
<1>9. Occurrences(stack, key) = 1
  BY <1>7, FS_Singleton DEF Occurrences
<1>10. CountsRight(slots, stack, keys)
  BY <1>5, <1>6, <1>9 DEF CountsRight
<1>11. KeysFound(slots, stack)
  BY <1>1, <1>5, <1>6, <1>7 DEF KeysFound
<1>12. OneSlotEach(slots)
  BY <1>6 DEF OneSlotEach
<1>13. ChainsOlder(slots, stack)
  <2>1. Passed(n, n) = {}
    BY <1>1 DEF Passed, Slots
  <2> QED BY <1>5, <1>6, <2>1 DEF ChainsOlder, n
<1>14. FreeIsEmpty(slots)
  BY <1>5, <1>6 DEF FreeIsEmpty
<1> QED BY <1>8, <1>10, <1>11, <1>12, <1>13, <1>14 DEF StackInv

LEMMA FrontExtends ==
  ASSUME NEW keys, NEW s \in Seq(keys), s # <<>>
  PROVE  Extends(s, SubSeq(s, 1, Len(s) - 1)) /\ SubSeq(s, 1, Len(s) - 1) \in Seq(keys)
<1> DEFINE n == Len(s) - 1
<1>1. Len(s) \in Nat /\ Len(s) # 0
  OBVIOUS
<1>2. n \in Nat /\ Len(s) = n + 1
  BY <1>1
<1>3. \A p \in 1..n : s[p] \in keys
  BY <1>2
<1> HIDE DEF n
<1>4. /\ SubSeq(s, 1, n) \in Seq(keys)
      /\ Len(SubSeq(s, 1, n)) = IF 1 <= n THEN n - 1 + 1 ELSE 0
      /\ \A p \in 1..(n - 1 + 1) : SubSeq(s, 1, n)[p] = s[1 + p - 1]
  <2>1. 1 \in Int /\ n \in Int
    BY <1>2
  <2> QED
    BY <1>3, <2>1, SubSeqProperties
<1>5. Len(SubSeq(s, 1, n)) = n
  BY <1>2, <1>4
<1>6. ASSUME NEW p \in 1..n PROVE SubSeq(s, 1, n)[p] = s[p]
  BY <1>2, <1>4
<1>7. Extends(s, SubSeq(s, 1, n))
  BY <1>2, <1>5, <1>6 DEF Extends
<1> QED
  BY <1>4, <1>7 DEF n

\* A key that was counted once, and last, is older than nothing on the stack.
LEMMA LastIsYoungest ==
  ASSUME NEW slots, NEW stack, NEW keys, StackInv(slots, stack, keys),
         \A k \in keys : natural_slot(k) \in Slots, stack # <<>>, NEW key, key = stack[Len(stack)], Occurrences(stack, key) = 1,
         NEW y, \E q \in 1..Len(stack) : stack[q] = y
  PROVE  ~Earlier(stack, key, y)
<1> SUFFICES ASSUME Earlier(stack, key, y) PROVE FALSE
  OBVIOUS
<1> DEFINE front == SubSeq(stack, 1, Len(stack) - 1)
<1>1. Extends(stack, front)
  BY FrontExtends DEF StackInv, StackTyped
<1> HIDE DEF front
<1>2. Len(front) \in Nat /\ Len(stack) = Len(front) + 1
  BY <1>1 DEF Extends
<1>3. Occurrences(front, key) = 0
  BY <1>1, <1>2, OccurrencesExtend, OccurrencesType
<1>4. ~\E p \in 1..Len(front) : front[p] = key
  BY <1>2, <1>3, OccurrencesType
<1>5. PICK p \in 1..Len(stack) : stack[p] = key /\ \A q \in 1..Len(stack) : stack[q] = y => p < q
  BY DEF Earlier
<1>6. p = Len(stack)
  BY <1>1, <1>2, <1>4, <1>5 DEF Extends
<1> QED
  BY <1>2, <1>5, <1>6

\* The repair moves nothing when what is in the slot after the hole may stay there.
LEMMA RepairsNothing ==
  ASSUME NEW s, NEW h \in Slots, NEW freed, freed = [s EXCEPT ![h] = Free], DOMAIN s = Slots,
         freed[NextSlot(h)].count = 0 \/ natural_slot(freed[NextSlot(h)].key) = NextSlot(h)
  PROVE  erase_and_repair(s, h) = freed
<1> DEFINE Stays(i) == freed[i].count = 0 \/ natural_slot(freed[i].key) = i
           Stop(i) == Stays(i) /\ \A j \in Passed(NextSlot(h), i) : ~Stays(j)
           stop == CHOOSE i \in Slots : Stop(i)
           slid == Passed(NextSlot(h), stop)
<1>0. NextSlot(h) \in Slots /\ Passed(NextSlot(h), NextSlot(h)) = {}
  BY NextIsFirst
<1>2. Stays(NextSlot(h))
  OBVIOUS
<1>3. Stop(NextSlot(h))
  BY <1>0, <1>2
<1>4. ASSUME NEW i \in Slots, Stop(i) PROVE i = NextSlot(h)
  <2> SUFFICES ASSUME i # NextSlot(h) PROVE FALSE
    OBVIOUS
  <2>1. NextSlot(h) \in Passed(NextSlot(h), i)
    BY <1>0, WayIsLinear
  <2> QED
    BY <1>2, <1>4, <2>1
<1> HIDE DEF Stays
<1>5. stop = NextSlot(h)
  <2> HIDE DEF Stop
  <2> QED
    BY <1>0, <1>3, <1>4
<1>6. slid = {}
  BY <1>0, <1>5
<1> USE DEF Stays
<1>7. erase_and_repair(s, h)
        = [i \in Slots |-> IF NextSlot(i) \in slid THEN freed[NextSlot(i)]
                           ELSE IF i \in slid THEN Free ELSE freed[i]]
  BY DEF erase_and_repair
<1> HIDE DEF slid
<1>8. erase_and_repair(s, h) = [i \in Slots |-> freed[i]]
  BY <1>6, <1>7
<1> QED
  BY <1>8

\* Erasing the youngest entry only frees its slot: the entry after the hole, if
\* there is one, stands in its natural slot, or its chain would run over the
\* youngest entry.
LEMMA NothingToRepair ==
  ASSUME NEW slots, NEW stack, NEW keys, StackInv(slots, stack, keys),
         \A k \in keys : natural_slot(k) \in Slots, stack # <<>>, NEW h \in Slots, Used(slots, h), slots[h].key = stack[Len(stack)],
         slots[h].count = 1
  PROVE  erase_and_repair(slots, h) = [slots EXCEPT ![h] = Free]
<1> DEFINE freed == [slots EXCEPT ![h] = Free]
           n == NextSlot(h)
<1>0. n \in Slots
  BY NextIsFirst
<1>1. freed \in [Slots -> Entries(keys) \cup {Free}] /\ freed[h] = Free
      /\ \A i \in Slots : i # h => freed[i] = slots[i]
  BY DEF StackInv, StackTyped
<1>2. freed[n].count = 0 \/ natural_slot(freed[n].key) = n
  <2>1. CASE n = h
    BY <1>1, <2>1 DEF Free
  <2>2. CASE n # h /\ ~Used(slots, n)
    BY <1>0, <1>1, <2>2, StackType
  <2>3. CASE n # h /\ Used(slots, n)
    <3>1. /\ slots[n].key \in keys
          /\ \E q \in 1..Len(stack) : stack[q] = slots[n].key
      BY <1>0, <2>3, UsedOnStack
    <3>2. Occurrences(stack, stack[Len(stack)]) = 1
      BY DEF StackInv, CountsRight
    <3>3. ~Earlier(stack, slots[h].key, slots[n].key)
      BY <3>1, <3>2, LastIsYoungest
    <3>4. h \notin Passed(natural_slot(slots[n].key), n)
      BY <1>0, <2>3, <3>3 DEF StackInv, ChainsOlder
    <3>5. natural_slot(slots[n].key) = n
      BY <3>1, <3>4, NextIsFirst
    <3> QED
      BY <1>0, <1>1, <2>3, <3>5
  <2> QED
    BY <2>1, <2>2, <2>3
<1>3. DOMAIN slots = Slots
  BY DEF StackInv, StackTyped
<1> HIDE DEF freed, n
<1> QED
  BY <1>2, <1>3, RepairsNothing DEF freed, n

\* What is counted and uncounted again leaves the table as it was.
LEMMA CountedBack ==
  ASSUME NEW slots, NEW stack, NEW keys, StackInv(slots, stack, keys),
         \A k \in keys : natural_slot(k) \in Slots, NEW key \in keys
  PROVE  dec(inc(slots, key), key) = slots
<1> DEFINE h == Probe(slots, key)
           k == natural_slot(key)
           t == inc(slots, key)
<1>1. /\ h \in Slots /\ Stops(slots, key, h)
      /\ \A j \in Passed(k, h) : ~Stops(slots, key, j)
  <2>1. PICK f \in Slots : ~Used(slots, f)
    BY FreeSlot
  <2>2. Stops(slots, key, f)
    BY <2>1, StackType DEF Stops
  <2> QED
    BY <2>2, ProbeEnds
<1>2. /\ slots \in [Slots -> Entries(keys)] /\ k \in Slots
      /\ slots[h].count \in Nat
  BY <1>1, StackType DEF StackInv, StackTyped
<1>3. t = [slots EXCEPT ![h] = [key |-> key, count |-> slots[h].count + 1]]
  BY DEF inc
<1>4. ~Used(slots, h) => slots[h] = Free
  BY <1>1 DEF StackInv, FreeIsEmpty
<1>5. Used(slots, h) => slots[h].key = key
  BY <1>1, StackType DEF Stops
<1> HIDE DEF h, k, t
<1>6. /\ DOMAIN t = Slots /\ t[h] = [key |-> key, count |-> slots[h].count + 1]
      /\ \A i \in Slots : i # h => t[i] = slots[i]
  BY <1>1, <1>2, <1>3
<1>7. Probe(t, key) = h
  BY <1>6, <1>1, <1>2, ProbeIs DEF Stops, Passed, k
<1>8. CASE ~Used(slots, h)
  <2>1. slots[h] = Free /\ slots[h].count = 0
    BY <1>1, <1>4, <1>8, StackType
  <2>2. slots = [t EXCEPT ![h] = Free]
    BY <1>1, <1>2, <1>3, <2>1
  <2>3. slots[NextSlot(h)].count = 0 \/ natural_slot(slots[NextSlot(h)].key) = NextSlot(h)
    <3> DEFINE n == NextSlot(h)
    <3>1. n \in Slots
      BY <1>1, NextIsFirst
    <3>2. CASE ~Used(slots, n)
      BY <3>1, <3>2, StackType
    <3>3. CASE Used(slots, n)
      BY <3>1, <3>3, UsedOnStack, <1>8, <1>1, NextIsFirst DEF StackInv, ChainsOlder
    <3> QED
      BY <3>2, <3>3
  <2>4. erase_and_repair(t, h) = slots
    BY <1>1, <1>6, <2>2, <2>3, RepairsNothing
  <2> QED
    BY <1>6, <1>7, <2>1, <2>4 DEF dec, t
<1>9. CASE Used(slots, h)
  <2>1. slots[h] = [key |-> key, count |-> slots[h].count] /\ slots[h].count # 0
    BY <1>1, <1>2, <1>5, <1>9, StackType DEF Entries
  <2>2. dec(t, key) = [t EXCEPT ![h].count = @ - 1]
    <3>1. t[h].count # 0 /\ t[h].count # 1
      BY <1>2, <1>6, <2>1
    <3> QED
      BY <1>7, <3>1, Zenon DEF dec
  <2>3. slots = [t EXCEPT ![h].count = @ - 1]
    <3>1. PICK u : u = [t EXCEPT ![h].count = @ - 1]
      OBVIOUS
    <3>2. DOMAIN u = Slots /\ \A i \in Slots : i # h => u[i] = slots[i]
      BY <1>6, <3>1
    <3>3. u[h] = [t[h] EXCEPT !.count = @ - 1]
      BY <1>1, <1>6, <3>1
    <3>4. u[h] = [key |-> key, count |-> (slots[h].count + 1) - 1]
      BY <1>6, <3>3
    <3>5. u[h] = slots[h]
      BY <1>2, <2>1, <3>4
    <3>6. u = [i \in Slots |-> u[i]] /\ slots = [i \in Slots |-> slots[i]]
      BY <1>2, <3>1, <3>2
    <3>7. u = slots
      BY <3>2, <3>5, <3>6
    <3> QED
      BY <3>1, <3>7
  <2> QED
    BY <2>2, <2>3 DEF t
<1> QED
  BY <1>8, <1>9

\* what Pop does to the table: one slot counts its key once less
LEMMA PopChanges ==
  ASSUME NEW slots, NEW stack, NEW keys, StackInv(slots, stack, keys),
         \A k \in keys : natural_slot(k) \in Slots, NEW slots2, NEW stack2,
         Pops(slots, stack, slots2, stack2)
  PROVE  \E h \in Slots :
           /\ Used(slots, h) /\ slots[h].key = stack[Len(stack)]
           /\ \A i \in Slots : i # h => slots2[i] = slots[i]
           /\ slots2[h] = IF slots[h].count = 1 THEN Free
                          ELSE [key |-> slots[h].key, count |-> slots[h].count - 1]
           /\ slots2 \in [Slots -> [key : keys \cup {NoKey}, count : Nat]]
<1>1. stack # <<>> /\ Len(stack) \in 1..Len(stack) /\ slots2 = dec(slots, stack[Len(stack)])
  BY DEF Pops, StackInv, StackTyped
<1>2. PICK h \in Slots : Used(slots, h) /\ slots[h].key = stack[Len(stack)]
  BY <1>1 DEF StackInv, KeysFound
<1>3. Probe(slots, stack[Len(stack)]) = h
  BY <1>2, FindsKey
<1>4. slots[h].count \in Nat \ {0}
  BY <1>2, StackType
<1>5. slots \in [Slots -> Entries(keys)]
  BY DEF StackInv, StackTyped
<1>6. CASE slots[h].count = 1
  <2>1. slots2 = [slots EXCEPT ![h] = Free]
    BY <1>1, <1>2, <1>3, <1>6, NothingToRepair DEF dec
  <2>2. Free \in Entries(keys)
    BY DEF Free, Entries
  <2> QED
    BY <1>2, <1>5, <1>6, <2>1, <2>2 DEF Entries
<1>7. CASE slots[h].count # 1
  <2>1. slots2 = [slots EXCEPT ![h].count = @ - 1]
    BY <1>1, <1>3, <1>4, <1>7 DEF dec
  <2>2. slots2[h] = [key |-> slots[h].key, count |-> slots[h].count - 1]
    BY <1>5, <2>1 DEF Entries
  <2>3. slots[h].count - 1 \in Nat
    BY <1>4
  <2>4. slots2 \in [Slots -> Entries(keys)]
    BY <1>5, <2>1, <2>3 DEF Entries
  <2> QED
    BY <1>2, <1>5, <1>7, <2>1, <2>2, <2>4 DEF Entries
<1> QED
  BY <1>6, <1>7

LEMMA PopInv ==
  ASSUME NEW slots, NEW stack, NEW keys, StackInv(slots, stack, keys),
         \A k \in keys : natural_slot(k) \in Slots, NEW slots2, NEW stack2,
         Pops(slots, stack, slots2, stack2)
  PROVE  /\ StackInv(slots2, stack2, keys)
         /\ \A i \in Slots : Used(slots, i) /\ Used(slots2, i) => slots2[i].key = slots[i].key
<1>1. PICK h \in Slots :
        /\ Used(slots, h) /\ slots[h].key = stack[Len(stack)]
        /\ \A i \in Slots : i # h => slots2[i] = slots[i]
        /\ slots2[h] = IF slots[h].count = 1 THEN Free
                       ELSE [key |-> slots[h].key, count |-> slots[h].count - 1]
        /\ slots2 \in [Slots -> [key : keys \cup {NoKey}, count : Nat]]
  BY PopChanges
<1>2. Extends(stack, stack2) /\ stack2 \in Seq(keys)
  BY FrontExtends DEF Pops, StackInv, StackTyped
<1>3. slots[h].count \in Nat /\ slots[h].count # 0
  BY <1>1, StackType
<1>4. /\ Used(slots2, h) <=> slots[h].count # 1
      /\ \A i \in Slots : i # h => (Used(slots2, i) <=> Used(slots, i))
  BY <1>1, <1>3 DEF Used, Free
<1>5. \A i \in Slots : Used(slots2, i) => Used(slots, i) /\ slots2[i].key = slots[i].key
  BY <1>1, <1>4
<1>6. \A x : Occurrences(stack, x) = Occurrences(stack2, x)
                                     + (IF slots[h].key = x THEN 1 ELSE 0)
  BY <1>1, <1>2, OccurrencesExtend
<1>7. \A x : /\ Occurrences(stack2, x) \in Nat
             /\ Occurrences(stack2, x) > 0 <=> \E j \in 1..Len(stack2) : stack2[j] = x
  <2>1. Len(stack2) \in Nat
    BY <1>2 DEF Extends
  <2> QED
    BY <2>1, OccurrencesType
<1>8. ASSUME NEW p \in 1..Len(stack2), stack2[p] = slots[h].key PROVE Used(slots2, h)
  BY <1>7, <1>8, <1>1, <1>6, <1>4 DEF StackInv, CountsRight
<1>9. StackTyped(slots2, stack2, keys)
  BY <1>2, StackType, <1>1 DEF Extends, StackTyped, Entries
<1>10. CountsRight(slots2, stack2, keys)
  <2> SUFFICES ASSUME NEW i \in Slots, Used(slots2, i)
               PROVE  slots2[i].key \in keys
                      /\ slots2[i].count = Occurrences(stack2, slots2[i].key)
    BY DEF CountsRight
  <2>1. /\ Used(slots, i) /\ slots2[i].key = slots[i].key /\ slots[i].key \in keys
        /\ slots[i].count = Occurrences(stack, slots[i].key)
    BY <1>5 DEF StackInv, CountsRight
  <2>2. CASE i = h
    BY <1>1, <1>4, <2>2, <1>6, <2>1, <1>7
  <2>3. CASE i # h
    BY <1>1, <2>1, <2>3, <1>6, <1>7 DEF StackInv, OneSlotEach
  <2> QED
    BY <2>2, <2>3
<1>11. KeysFound(slots2, stack2)
  <2> SUFFICES ASSUME NEW p \in 1..Len(stack2)
               PROVE  \E i \in Slots : Used(slots2, i) /\ slots2[i].key = stack2[p]
    BY DEF KeysFound
  <2>1. p \in 1..Len(stack) /\ stack2[p] = stack[p]
    BY <1>2 DEF Extends
  <2>2. PICK i \in Slots : Used(slots, i) /\ slots[i].key = stack[p]
    BY <2>1 DEF StackInv, KeysFound
  <2>3. Used(slots2, i)
    BY <1>4, <1>8, <2>1, <2>2
  <2> QED
    BY <1>5, <2>1, <2>2, <2>3
<1>12. OneSlotEach(slots2)
  BY <1>5 DEF StackInv, OneSlotEach
<1>13. ChainsOlder(slots2, stack2)
  <2> SUFFICES ASSUME NEW i \in Slots, Used(slots2, i),
                      NEW j \in Passed(natural_slot(slots2[i].key), i)
               PROVE  Used(slots2, j) /\ Earlier(stack2, slots2[j].key, slots2[i].key)
    BY DEF ChainsOlder
  <2>1. Used(slots, i) /\ slots2[i].key = slots[i].key
    BY <1>5
  <2>2. j \in Slots /\ Used(slots, j) /\ Earlier(stack, slots[j].key, slots[i].key)
    BY <2>1 DEF StackInv, ChainsOlder, Passed
  <2>3. \E q \in 1..Len(stack2) : stack2[q] = slots[i].key
    BY <1>10, <2>1, <1>7 DEF CountsRight, Used
  <2>4. Earlier(stack2, slots[j].key, slots[i].key)
    BY <1>2, <2>2, <2>3, EarlierExtend
  <2>5. \E p \in 1..Len(stack2) : stack2[p] = slots[j].key
    BY <2>4 DEF Earlier
  <2>6. Used(slots2, j)
    BY <1>4, <1>8, <2>2, <2>5
  <2> QED
    BY <1>5, <2>1, <2>2, <2>4, <2>6
<1>14. FreeIsEmpty(slots2)
  <2> SUFFICES ASSUME NEW i \in Slots, ~Used(slots2, i) PROVE slots2[i] = Free
    BY DEF FreeIsEmpty
  <2>1. CASE i = h
    BY <1>1, <1>4, <2>1
  <2>2. CASE i # h
    BY <1>1, <1>4, <2>2 DEF StackInv, FreeIsEmpty
  <2> QED
    BY <2>1, <2>2
<1> QED
  BY <1>5, <1>9, <1>10, <1>11, <1>12, <1>13, <1>14 DEF StackInv

LEMMA StackStep ==
  ASSUME NEW slots, NEW stack, NEW keys, StackInv(slots, stack, keys),
         \A k \in keys : natural_slot(k) \in Slots, NEW slots2, NEW stack2,
         \/ \E key \in keys : Pushes(slots, stack, key, slots2, stack2)
         \/ Pops(slots, stack, slots2, stack2)
  PROVE  /\ StackInv(slots2, stack2, keys)
         /\ \A i \in Slots : Used(slots, i) /\ Used(slots2, i) => slots2[i].key = slots[i].key
<1>1. ASSUME NEW key \in keys, Pushes(slots, stack, key, slots2, stack2)
      PROVE  /\ StackInv(slots2, stack2, keys)
             /\ \A i \in Slots : Used(slots, i) /\ Used(slots2, i) => slots2[i].key = slots[i].key
  BY <1>1, PushInv
<1>2. CASE Pops(slots, stack, slots2, stack2)
  BY <1>2, PopInv
<1> QED
  BY <1>1, <1>2

HIDE CapacityAssumption

-----------------------------------------------------------------------------
(***************************************************************************)
(* The table on its own (RepetitionStack), for any keys.                   *)
(***************************************************************************)

\* The table is one that counts a stack, and its entries stay where they are.
LEMMA StackSteps ==
  ASSUME StackInv(table, counted, Keys), [StackNext]_stackVars
  PROVE  /\ StackInv(table, counted, Keys)'
         /\ \A i \in Slots : table[i].count > 0 /\ table'[i].count > 0 => table'[i].key = table[i].key
<1>1. CASE StackNext
  BY <1>1, StackStep, NaturalSlotAssumption DEF StackNext, Push, Pop, Pushes, Pops, Used
<1>2. CASE UNCHANGED stackVars
  BY <1>2 DEF stackVars
<1> QED BY <1>1, <1>2

\* In every history of counting and uncounting, the used slots hold exactly the
\* keys on the stack and every probe chain runs over older entries.
THEOREM Inductive == StackSpec => []StackInv(table, counted, Keys)
<1>1. StackInit => StackInv(table, counted, Keys)
  BY EmptyInv DEF StackInit
<1>2. StackInv(table, counted, Keys) /\ [StackNext]_stackVars => StackInv(table, counted, Keys)'
  BY StackSteps
<1> QED BY <1>1, <1>2, PTL DEF StackSpec

\* get() tells, for every key, how often the key is on the stack: however the
\* keys collide in the table, inc() and dec() of repetition.h count a position
\* as often as it was reached and not taken back.
THEOREM CountedAlways == StackSpec => []Counted
<1>1. StackInv(table, counted, Keys) => Counted
  BY InvCounts, NaturalSlotAssumption DEF Counted
<1> QED BY Inductive, <1>1, PTL

\* No entry ever moves: the sliding loop of erase_and_repair() has nothing to do
\* when the board uncounts what it counted last, so its early end is harmless.
THEOREM EntriesNeverMove == StackSpec => EntriesStay
<1>1. StackInv(table, counted, Keys) /\ [StackNext]_stackVars
        => [\A i \in Slots : table[i].count > 0 /\ table'[i].count > 0
                                   => table'[i].key = table[i].key]_stackVars
  BY StackSteps
<1> QED BY Inductive, <1>1, PTL DEF StackSpec, EntriesStay

-----------------------------------------------------------------------------
(***************************************************************************)
(* What the moves keep true of a board, and the moves that fit one.        *)
(***************************************************************************)

Men == [Colors -> [PieceTypes -> SUBSET Squares]]

OnePieceEach(pieces) ==
  \A c, d \in Colors, p, q \in PieceTypes : \A s \in pieces[c][p] \cap pieces[d][q] : c = d /\ p = q

KeysFit(b) ==
  /\ b.zobristKey = XorOfPieces(b.pieces, PieceTypes) (+) EpKey(b.epIndex)
                      (+) (IF b.colorToMove = WHITE THEN SideKey ELSE {}) (+) CastlingKey(b.castlingRights)
  /\ b.pawnZobristKey = XorOfPieces(b.pieces, {PAWN})

MaterialFits(b) ==
  /\ b.materialKey = calculateMaterialKey(b.pieces)
  /\ b.material_factor = Popcounts(b.pieces, PHASE)

EpSound(b) ==
  LET them == Opponent(b.colorToMove)
  IN b.epIndex # 0 => /\ b.epIndex \notin b.allPieces
                      /\ b.epIndex + Forward(them) \in b.pieces[them][PAWN]

RightsSound(b) ==
  \A r \in b.castlingRights :
    /\ b.castlingConfig.king[OwnerOf(r)] = b.kingIndex[OwnerOf(r)]
    /\ b.castlingConfig.rook[r] \in b.pieces[OwnerOf(r)][ROOK]
    /\ \A q \in Rights : q > r => b.castlingConfig.rook[q] # b.castlingConfig.rook[r]

ChecksClear(b) ==
  \A s \in b.checkingPieces :
    /\ s \in b.friendlyPieces[Opponent(b.colorToMove)]
    /\ b.pieceIndexes[s] \notin {PAWN, NIGHT} =>
         IN_BETWEEN[b.kingIndex[b.colorToMove]][s] \cap b.allPieces = {}

EpFits(b, m) == 
  LET us == b.colorToMove
      passed == IN_BETWEEN[m.from][m.to]
  IN m.source = PAWN /\ ~is_promotion(m) /\ passed # {} =>
        /\ passed = {m.from + Forward(us)}
        /\ m.to = m.from + 2 * Forward(us)
        /\ m.from + Forward(us) \in Squares \ b.allPieces
        /\ m.attacked = EMPTY

CastlingFits(b, m) ==
  /\ m.source = KING /\ m.attacked = EMPTY /\ m.type = TYPE_CASTLING
  /\ \E r \in b.castlingRights :
       /\ OwnerOf(r) = b.colorToMove
       /\ m.to = KING_TO[r]
       /\ {KING_TO[r], ROOK_TO[r]} \cap b.allPieces \subseteq {b.castlingConfig.king[OwnerOf(r)], b.castlingConfig.rook[r]}

OrdinaryFits(b, m) ==
  /\ m.from # m.to
  /\ m.attacked = EMPTY => m.to \notin b.allPieces
  /\ m.attacked # EMPTY /\ m.type # TYPE_EP => m.to \in b.pieces[Opponent(b.colorToMove)][m.attacked]
  /\ m.type = TYPE_EP => m.source = PAWN /\ m.attacked = PAWN /\ m.to = b.epIndex /\ b.epIndex # 0
  /\ is_promotion(m) => m.source = PAWN
  /\ m.type \in {TYPE_NORMAL, TYPE_EP} \cup PromotionTypes
  /\ EpFits(b, m)

MoveFits(b, m) ==
  /\ m.from \in Squares /\ m.to \in Squares /\ m.source \in PieceTypes /\ m.attacked \in EMPTY..KING
  /\ m.from \in b.pieces[b.colorToMove][m.source]
  /\ CastlingFits(b, m) \/ OrdinaryFits(b, m)

-----------------------------------------------------------------------------
(***************************************************************************)
(* The lines of the board that the moves of pawns use.                     *)
(***************************************************************************)

\* The squares between two squares of one line.
LEMMA Along ==
  ASSUME NEW a \in Squares, NEW b \in Squares, NEW d, LineStep(a, b) = d, LineStep(b, a) = d, d # 0, a < b, NEW s
  PROVE  /\ s \in IN_BETWEEN[a][b] <=> s \in (a + 1)..(b - 1) /\ (s - a) % d = 0
         /\ s \in IN_BETWEEN[b][a] <=> s \in (a + 1)..(b - 1) /\ (s - a) % d = 0
<1>1. ~(b < a)
  BY DEF Squares
<1>2. IN_BETWEEN[a][b] = IF LineStep(a, b) = 0 THEN {} ELSE {x \in (a + 1)..(b - 1) : (x - a) % LineStep(a, b) = 0}
  BY <1>1 DEF IN_BETWEEN, LINE_STEP
<1>3. IN_BETWEEN[b][a] = IF LineStep(b, a) = 0 THEN {} ELSE {x \in (a + 1)..(b - 1) : (x - a) % LineStep(b, a) = 0}
  BY <1>1 DEF IN_BETWEEN, LINE_STEP
<1> QED
  BY <1>2, <1>3, Zenon

\* The lines that a pawn moves on.
LEMMA LineSteps ==
  ASSUME NEW a \in Squares
  PROVE  /\ a + 8 \in Squares => LineStep(a, a + 8) = 8 /\ LineStep(a + 8, a) = 8
         /\ a + 16 \in Squares => LineStep(a, a + 16) = 8 /\ LineStep(a + 16, a) = 8
         /\ a + 7 \in Squares /\ FileOf(a + 7) # 7 => LineStep(a, a + 7) = 7 /\ LineStep(a + 7, a) = 7
         /\ a + 9 \in Squares /\ FileOf(a + 9) # 0 => LineStep(a, a + 9) = 9 /\ LineStep(a + 9, a) = 9
  BY DEF LineStep, RankOf, FileOf, Squares

\* Nothing is between neighbours.
LEMMA Neighbours ==
  ASSUME NEW a \in Squares, NEW d \in {7, 8, 9}, a + d \in Squares,
         LineStep(a, a + d) = d, LineStep(a + d, a) = d
  PROVE  IN_BETWEEN[a][a + d] = {} /\ IN_BETWEEN[a + d][a] = {}
<1>1. a < a + d /\ d # 0
  BY DEF Squares
<1>2. \A x \in (a + 1)..((a + d) - 1) : (x - a) % d # 0
  BY DEF Squares
<1>3. ASSUME NEW s PROVE s \notin IN_BETWEEN[a][a + d] /\ s \notin IN_BETWEEN[a + d][a]
  <2> DEFINE b == a + d
  <2>1. b \in Squares /\ a < b /\ LineStep(a, b) = d /\ LineStep(b, a) = d
    BY <1>1
  <2>2. \A x \in (a + 1)..(b - 1) : (x - a) % d # 0
    BY <1>2
  <2> HIDE DEF b
  <2>3. s \notin IN_BETWEEN[a][b] /\ s \notin IN_BETWEEN[b][a]
    BY <1>1, <2>1, <2>2, Along
  <2> QED BY <2>3 DEF b
<1> QED BY <1>3

\* One square is between squares that are two ranks apart.
LEMMA OverOne ==
  ASSUME NEW a \in Squares, a + 16 \in Squares
  PROVE  IN_BETWEEN[a][a + 16] = {a + 8} /\ IN_BETWEEN[a + 16][a] = {a + 8}
<1> DEFINE b == a + 16
           d == 8
<1>1. b \in Squares /\ a < b /\ d # 0 /\ LineStep(a, b) = d /\ LineStep(b, a) = d
  BY LineSteps DEF Squares
<1>2. \A s \in (a + 1)..(b - 1) : (s - a) % d = 0 <=> s = a + 8
  BY DEF Squares
<1>3. a + 8 \in (a + 1)..(b - 1)
  BY DEF Squares
<1> HIDE DEF b, d
<1>4. \A s : (s \in IN_BETWEEN[a][b] <=> s = a + 8) /\ (s \in IN_BETWEEN[b][a] <=> s = a + 8)
  BY <1>1, <1>2, <1>3, Along
<1>5. IN_BETWEEN[a][b] = {a + 8} /\ IN_BETWEEN[b][a] = {a + 8}
  BY <1>4
<1> QED BY <1>5 DEF b

\* A pawn that steps passes no square.
LEMMA PawnStepClear ==
  ASSUME NEW c \in Colors, NEW s \in Squares, s + Forward(c) \in Squares
  PROVE  IN_BETWEEN[s][s + Forward(c)] = {}
<1>1. CASE c = WHITE
  BY <1>1, LineSteps, Neighbours DEF Forward
<1>2. CASE c # WHITE
  <2> DEFINE t == s + (-8)
  <2>1. t \in Squares /\ t + 8 = s
    BY <1>2 DEF Forward, Squares
  <2>2. IN_BETWEEN[t + 8][t] = {}
    <3> HIDE DEF t
    <3> QED BY <2>1, LineSteps, Neighbours
  <2> QED BY <1>2, <2>1, <2>2 DEF Forward
<1> QED BY <1>1, <1>2

\* A pawn that steps twice passes the square before it.
LEMMA PawnDoubleStep ==
  ASSUME NEW c \in Colors, NEW s \in Squares, s + 2 * Forward(c) \in Squares
  PROVE  IN_BETWEEN[s][s + 2 * Forward(c)] = {s + Forward(c)}
<1>1. CASE c = WHITE
  BY <1>1, OverOne DEF Forward, Squares
<1>2. CASE c # WHITE
  <2> DEFINE t == s + (-16)
  <2>1. t \in Squares /\ t + 16 = s /\ t + 8 = s + Forward(c) /\ t = s + 2 * Forward(c)
    BY <1>2 DEF Forward, Squares
  <2>2. IN_BETWEEN[t + 16][t] = {t + 8}
    <3> HIDE DEF t
    <3> QED BY <2>1, OverOne
  <2> QED BY <1>2, <2>1, <2>2
<1> QED BY <1>1, <1>2

\* A pawn that captures passes no square.
LEMMA PawnCaptureClear ==
  ASSUME NEW c \in Colors, NEW s \in Squares, NEW t \in PAWN_ATTACKS[c][s]
  PROVE  t \in Squares /\ t # s /\ IN_BETWEEN[s][t] = {} /\ IN_BETWEEN[t][s] = {}
<1>1. /\ t \in Squares
      /\ IF c = WHITE
         THEN \/ t = s + 7 /\ FileOf(t) # 7
              \/ t = s + 9 /\ FileOf(t) # 0
         ELSE \/ t = s - 7 /\ FileOf(t) # 0
              \/ t = s - 9 /\ FileOf(t) # 7
  BY Zenon DEF PAWN_ATTACKS
<1>2. CASE t = s + 7 /\ FileOf(t) # 7
  BY <1>1, <1>2, LineSteps, Neighbours DEF Squares
<1>3. CASE t = s + 9 /\ FileOf(t) # 0
  BY <1>1, <1>3, LineSteps, Neighbours DEF Squares
<1>4. CASE t = s - 7 /\ FileOf(t) # 0
  BY <1>1, <1>4, LineSteps, Neighbours, SMTT(30) DEF FileOf, Squares
<1>5. CASE t = s - 9 /\ FileOf(t) # 7
  BY <1>1, <1>5, LineSteps, Neighbours, SMTT(30) DEF FileOf, Squares
<1> QED BY <1>1, <1>2, <1>3, <1>4, <1>5

-----------------------------------------------------------------------------
(***************************************************************************)
(* What doMove leaves in every field of the board.                         *)
(***************************************************************************)

IsBoard(b) ==
  b = [pieces |-> b.pieces, friendlyPieces |-> b.friendlyPieces,
       allPieces |-> b.allPieces, pieceIndexes |-> b.pieceIndexes,
       kingIndex |-> b.kingIndex, colorToMove |-> b.colorToMove,
       epIndex |-> b.epIndex, castlingRights |-> b.castlingRights,
       castlingConfig |-> b.castlingConfig, materialKey |-> b.materialKey,
       material_factor |-> b.material_factor, zobristKey |-> b.zobristKey,
       pawnZobristKey |-> b.pawnZobristKey, checkingPieces |-> b.checkingPieces,
       pinnedPieces |-> b.pinnedPieces, discoveredPieces |-> b.discoveredPieces,
       pinnedPiecesDirty |-> b.pinnedPiecesDirty,
       lastCaptureOrPawnMoveBefore |-> b.lastCaptureOrPawnMoveBefore,
       history |-> b.history, playedBoardStates |-> b.playedBoardStates]

Captured(b, m) == IF m.attacked = EMPTY THEN {} ELSE {CaptureSquare(b, m)}

OrdinaryKey(b, m) ==
  b.zobristKey (+) PieceKeyChange(b, m) (+) SideKey
               (+) EpKey(b.epIndex) (+) EpKey(EpAfter(b, m))
               (+) CastlingKey(b.castlingRights) (+) CastlingKey(RightsAfter(b, m))

FriendlyAfter(b, m) ==
  [b.friendlyPieces EXCEPT ![b.colorToMove] = @ (+) ({m.from} (+) {m.to}),
                           ![Opponent(b.colorToMove)] = @ (+) Captured(b, m)]

Entry(b, m) ==
  [move |-> m, castlingRights |-> b.castlingRights, epIndex |-> b.epIndex,
   zobristKey |-> b.zobristKey, checkingPieces |-> b.checkingPieces,
   pinnedPieces |-> b.pinnedPieces, discoveredPieces |-> b.discoveredPieces,
   lastCaptureOrPawnMoveBefore |-> b.lastCaptureOrPawnMoveBefore]

\* pushHistoryValues adds one entry to the history.
LEMMA PushedFields ==
  ASSUME NEW b, IsBoard(b), NEW m, NEW w, w = pushHistoryValues(b, m)
  PROVE  /\ IsBoard(w)
         /\ w.history = Append(b.history, Entry(b, m))
         /\ w.pieces = b.pieces /\ w.friendlyPieces = b.friendlyPieces
         /\ w.allPieces = b.allPieces /\ w.pieceIndexes = b.pieceIndexes
         /\ w.kingIndex = b.kingIndex /\ w.colorToMove = b.colorToMove
         /\ w.epIndex = b.epIndex /\ w.castlingRights = b.castlingRights
         /\ w.castlingConfig = b.castlingConfig /\ w.materialKey = b.materialKey
         /\ w.material_factor = b.material_factor /\ w.zobristKey = b.zobristKey
         /\ w.pawnZobristKey = b.pawnZobristKey /\ w.checkingPieces = b.checkingPieces
         /\ w.pinnedPieces = b.pinnedPieces /\ w.discoveredPieces = b.discoveredPieces
         /\ w.pinnedPiecesDirty = b.pinnedPiecesDirty
         /\ w.lastCaptureOrPawnMoveBefore = b.lastCaptureOrPawnMoveBefore
         /\ w.playedBoardStates = b.playedBoardStates
  BY DEF pushHistoryValues, IsBoard, Entry

OrdinaryResult(b, m, x) ==
  /\ IsBoard(x)
  /\ x.history = Append(b.history, Entry(b, m))
  /\ x.pieces = PiecesAfter(b, m) /\ x.friendlyPieces = FriendlyAfter(b, m)
  /\ x.allPieces = FriendlyAfter(b, m)[WHITE] \cup FriendlyAfter(b, m)[BLACK]
  /\ x.pieceIndexes = IndexesAfter(b, m)
  /\ x.kingIndex = [b.kingIndex EXCEPT ![b.colorToMove] = IF m.source = KING THEN m.to ELSE @]
  /\ x.colorToMove = Opponent(b.colorToMove)
  /\ x.epIndex = EpAfter(b, m) /\ x.castlingRights = RightsAfter(b, m)
  /\ x.castlingConfig = b.castlingConfig /\ x.materialKey = MaterialAfter(b, m)
  /\ x.material_factor = FactorAfter(b, m) /\ x.zobristKey = OrdinaryKey(b, m)
  /\ x.pawnZobristKey = b.pawnZobristKey (+) PawnKeyChange(b, m)
  /\ x.pinnedPieces = b.pinnedPieces /\ x.discoveredPieces = b.discoveredPieces
  /\ x.lastCaptureOrPawnMoveBefore = PliesAfter(b, m)
  /\ x.playedBoardStates = inc(b.playedBoardStates, OrdinaryKey(b, m))

ChecksFound(b, m, x) ==
  \E y : /\ x.checkingPieces = ChecksAfter(y, m, m.from \in b.discoveredPieces)
         /\ x.pinnedPiecesDirty = PinsMayChange(y, m.source, ChangedSquares(b, m))
         /\ y = [x EXCEPT !.checkingPieces = b.checkingPieces,
                          !.pinnedPiecesDirty = b.pinnedPiecesDirty,
                          !.playedBoardStates = b.playedBoardStates]

\* doMove, field by field, for a move that does not castle.
LEMMA OrdinaryFields ==
  ASSUME NEW b, IsBoard(b), NEW m, NEW x, x = DoOrdinaryMove(b, m)
  PROVE  OrdinaryResult(b, m, x) /\ ChecksFound(b, m, x)
<1> DEFINE w == pushHistoryValues(b, m)
           us == b.colorToMove
           friendly == FriendlyAfter(b, m)
           all == friendly[WHITE] \cup friendly[BLACK]
           key == OrdinaryKey(b, m)
           king == IF m.source = KING THEN m.to ELSE b.kingIndex[us]
           them == Opponent(us)
           pieces == PiecesAfter(b, m)
           indexes == IndexesAfter(b, m)
           ep == EpAfter(b, m)
           rights == RightsAfter(b, m)
           material == MaterialAfter(b, m)
           factor == FactorAfter(b, m)
           pawnKey == PawnKeyChange(b, m)
           plies == PliesAfter(b, m)
           y == [w EXCEPT
                  !.pieces = pieces, !.friendlyPieces = friendly,
                  !.allPieces = all, !.pieceIndexes = indexes,
                  !.kingIndex[us] = IF m.source = KING THEN m.to ELSE @,
                  !.colorToMove = them, !.epIndex = ep,
                  !.castlingRights = rights,
                  !.materialKey = material, !.material_factor = factor,
                  !.zobristKey = key, !.pawnZobristKey = @ (+) pawnKey,
                  !.lastCaptureOrPawnMoveBefore = plies]
           checks == ChecksAfter(y, m, m.from \in b.discoveredPieces)
           dirty == PinsMayChange(y, m.source, ChangedSquares(b, m))
<1>1. x = [y EXCEPT !.checkingPieces = checks, !.pinnedPiecesDirty = dirty,
                    !.playedBoardStates = inc(@, key)]
  BY DEF DoOrdinaryMove, OrdinaryKey, FriendlyAfter, Captured
<1>2. PICK v : v = w
  OBVIOUS
<1>3. PICK z : z = y
  OBVIOUS
<1>4. z = [v EXCEPT
                  !.pieces = pieces, !.friendlyPieces = friendly,
                  !.allPieces = all, !.pieceIndexes = indexes,
                  !.kingIndex[us] = IF m.source = KING THEN m.to ELSE @,
                  !.colorToMove = them, !.epIndex = ep,
                  !.castlingRights = rights,
                  !.materialKey = material, !.material_factor = factor,
                  !.zobristKey = key, !.pawnZobristKey = @ (+) pawnKey,
                  !.lastCaptureOrPawnMoveBefore = plies]
  BY <1>2, <1>3
<1>5. /\ checks = ChecksAfter(z, m, m.from \in b.discoveredPieces)
      /\ dirty = PinsMayChange(z, m.source, ChangedSquares(b, m))
      /\ x = [z EXCEPT !.checkingPieces = checks, !.pinnedPiecesDirty = dirty,
                       !.playedBoardStates = inc(@, key)]
  BY <1>1, <1>3
<1>6. v.history = Append(b.history, Entry(b, m)) /\ IsBoard(v)
  BY <1>2, PushedFields
<1>7. /\ v.kingIndex = b.kingIndex /\ v.castlingConfig = b.castlingConfig
      /\ v.pawnZobristKey = b.pawnZobristKey /\ v.checkingPieces = b.checkingPieces
      /\ v.pinnedPieces = b.pinnedPieces /\ v.discoveredPieces = b.discoveredPieces
      /\ v.pinnedPiecesDirty = b.pinnedPiecesDirty
      /\ v.playedBoardStates = b.playedBoardStates
  BY <1>2, PushedFields
<1> HIDE DEF w, us, friendly, all, key, king, them, pieces, indexes, ep, rights, material,
             factor, pawnKey, plies, y, checks, dirty
<1>8. /\ IsBoard(z)
      /\ z.pieces = pieces /\ z.friendlyPieces = friendly
      /\ z.allPieces = all /\ z.pieceIndexes = indexes
      /\ z.colorToMove = them /\ z.epIndex = ep
      /\ z.castlingRights = rights /\ z.materialKey = material /\ z.material_factor = factor
      /\ z.zobristKey = key /\ z.pawnZobristKey = b.pawnZobristKey (+) pawnKey
      /\ z.lastCaptureOrPawnMoveBefore = plies
  BY <1>4, <1>6, <1>7 DEF IsBoard
<1>9. /\ z.history = v.history /\ z.castlingConfig = b.castlingConfig
      /\ z.checkingPieces = b.checkingPieces /\ z.pinnedPieces = b.pinnedPieces
      /\ z.discoveredPieces = b.discoveredPieces /\ z.pinnedPiecesDirty = b.pinnedPiecesDirty
      /\ z.playedBoardStates = b.playedBoardStates
      /\ z.kingIndex = [b.kingIndex EXCEPT ![us] = IF m.source = KING THEN m.to ELSE @]
  BY <1>4, <1>6, <1>7 DEF IsBoard
<1>10. /\ IsBoard(x) /\ x.checkingPieces = checks /\ x.pinnedPiecesDirty = dirty
       /\ x.playedBoardStates = inc(b.playedBoardStates, key)
  BY <1>5, <1>8, <1>9 DEF IsBoard
<1>11. /\ x.pieces = z.pieces /\ x.friendlyPieces = z.friendlyPieces /\ x.allPieces = z.allPieces
       /\ x.pieceIndexes = z.pieceIndexes /\ x.colorToMove = z.colorToMove /\ x.epIndex = z.epIndex
       /\ x.castlingRights = z.castlingRights /\ x.materialKey = z.materialKey
       /\ x.material_factor = z.material_factor /\ x.zobristKey = z.zobristKey
       /\ x.pawnZobristKey = z.pawnZobristKey /\ x.kingIndex = z.kingIndex
       /\ x.lastCaptureOrPawnMoveBefore = z.lastCaptureOrPawnMoveBefore
       /\ x.history = z.history /\ x.castlingConfig = z.castlingConfig
       /\ x.pinnedPieces = z.pinnedPieces /\ x.discoveredPieces = z.discoveredPieces
  BY <1>5, <1>8 DEF IsBoard
<1>12. z = [x EXCEPT !.checkingPieces = b.checkingPieces,
                     !.pinnedPiecesDirty = b.pinnedPiecesDirty,
                     !.playedBoardStates = b.playedBoardStates]
  <2>1. PICK u : u = [x EXCEPT !.checkingPieces = b.checkingPieces,
                     !.pinnedPiecesDirty = b.pinnedPiecesDirty,
                     !.playedBoardStates = b.playedBoardStates]
    OBVIOUS
  <2>2. IsBoard(u)
    BY <2>1, <1>10 DEF IsBoard
  <2>3. u.checkingPieces = b.checkingPieces /\ u.pinnedPiecesDirty = b.pinnedPiecesDirty
        /\ u.playedBoardStates = b.playedBoardStates
    BY <2>1, <1>10 DEF IsBoard
  <2>4. /\ x.pieces = u.pieces /\ x.friendlyPieces = u.friendlyPieces /\ x.allPieces = u.allPieces
       /\ x.pieceIndexes = u.pieceIndexes /\ x.colorToMove = u.colorToMove /\ x.epIndex = u.epIndex
       /\ x.castlingRights = u.castlingRights /\ x.materialKey = u.materialKey
       /\ x.material_factor = u.material_factor /\ x.zobristKey = u.zobristKey
       /\ x.pawnZobristKey = u.pawnZobristKey /\ x.kingIndex = u.kingIndex
       /\ x.lastCaptureOrPawnMoveBefore = u.lastCaptureOrPawnMoveBefore
       /\ x.history = u.history /\ x.castlingConfig = u.castlingConfig
       /\ x.pinnedPieces = u.pinnedPieces /\ x.discoveredPieces = u.discoveredPieces
    BY <2>1, <1>10 DEF IsBoard
  <2>5. z = u
    BY <2>2, <2>3, <2>4, <1>8, <1>9, <1>11 DEF IsBoard
  <2> QED BY <2>1, <2>5
<1>13. ChecksFound(b, m, x)
  <2> SUFFICES \E q : /\ x.checkingPieces = ChecksAfter(q, m, m.from \in b.discoveredPieces)
                      /\ x.pinnedPiecesDirty = PinsMayChange(q, m.source, ChangedSquares(b, m))
                      /\ q = [x EXCEPT !.checkingPieces = b.checkingPieces,
                                       !.pinnedPiecesDirty = b.pinnedPiecesDirty,
                                       !.playedBoardStates = b.playedBoardStates]
    BY Zenon DEF ChecksFound
  <2> WITNESS z
  <2> QED BY <1>5, <1>10, <1>12
<1> QED
  <2>1. /\ IsBoard(x) /\ x.history = Append(b.history, Entry(b, m))
        /\ x.castlingConfig = b.castlingConfig
        /\ x.pinnedPieces = b.pinnedPieces /\ x.discoveredPieces = b.discoveredPieces
    BY <1>6, <1>9, <1>10, <1>11
  <2>2. /\ x.pieces = pieces /\ x.friendlyPieces = friendly
      /\ x.allPieces = all /\ x.pieceIndexes = indexes
      /\ x.colorToMove = them /\ x.epIndex = ep
      /\ x.castlingRights = rights /\ x.materialKey = material /\ x.material_factor = factor
      /\ x.zobristKey = key /\ x.pawnZobristKey = b.pawnZobristKey (+) pawnKey
      /\ x.lastCaptureOrPawnMoveBefore = plies
      /\ x.playedBoardStates = inc(b.playedBoardStates, key)
    BY <1>8, <1>10, <1>11
  <2>3. x.kingIndex = [b.kingIndex EXCEPT ![us] = IF m.source = KING THEN m.to ELSE @]
    BY <1>9, <1>11
  <2> QED
    BY <1>13, <2>1, <2>2, <2>3, Zenon DEF OrdinaryResult, us, friendly, all, key, them, pieces, indexes, ep, rights, material, factor, pawnKey, plies

ChecksSeen(b, m, x) ==
  \E y : /\ x.checkingPieces = ChecksAfter(y, m, m.from \in b.discoveredPieces)
         /\ x.pinnedPiecesDirty = PinsMayChange(y, m.source, ChangedSquares(b, m))
         /\ y.pieces = x.pieces /\ y.allPieces = x.allPieces
         /\ y.kingIndex = x.kingIndex /\ y.colorToMove = x.colorToMove

\* The checks that doMove finds are of pieces that see the king.
LEMMA OrdinaryChecks ==
  ASSUME NEW b, IsBoard(b), NEW m, NEW x, x = DoOrdinaryMove(b, m)
  PROVE  ChecksSeen(b, m, x)
<1>1. IsBoard(x)
  BY OrdinaryFields, Zenon DEF OrdinaryResult
<1>2. ChecksFound(b, m, x)
  BY OrdinaryFields, Zenon
<1>3. PICK y : /\ x.checkingPieces = ChecksAfter(y, m, m.from \in b.discoveredPieces)
               /\ x.pinnedPiecesDirty = PinsMayChange(y, m.source, ChangedSquares(b, m))
               /\ y = [x EXCEPT !.checkingPieces = b.checkingPieces,
                                !.pinnedPiecesDirty = b.pinnedPiecesDirty,
                                !.playedBoardStates = b.playedBoardStates]
  BY <1>2, Zenon DEF ChecksFound
<1>4. /\ y.pieces = x.pieces /\ y.allPieces = x.allPieces
      /\ y.kingIndex = x.kingIndex /\ y.colorToMove = x.colorToMove
  BY <1>1, <1>3 DEF IsBoard
<1> QED BY <1>3, <1>4 DEF ChecksSeen

-----------------------------------------------------------------------------
(***************************************************************************)
(* The four views of who stands where, while pieces change places.         *)
(***************************************************************************)

Rearranged(b, x, gone, put) ==
  LET us == b.colorToMove
  IN /\ x.pieces \in Men
     /\ \A c \in Colors, p \in PieceTypes, s \in Squares :
          s \in x.pieces[c][p] <=> \/ c = us /\ s \in DOMAIN put /\ put[s] = p
                                   \/ s \in b.pieces[c][p] /\ s \notin gone
     /\ x.friendlyPieces \in [Colors -> SUBSET Squares]
     /\ \A c \in Colors, s \in Squares :
          s \in x.friendlyPieces[c] <=> \/ c = us /\ s \in DOMAIN put
                                        \/ s \in b.friendlyPieces[c] /\ s \notin gone
     /\ x.allPieces = x.friendlyPieces[WHITE] \cup x.friendlyPieces[BLACK]
     /\ x.pieceIndexes \in [Squares -> EMPTY..KING]
     /\ \A s \in Squares :
          x.pieceIndexes[s] = IF s \in DOMAIN put THEN put[s]
                              ELSE IF s \in gone THEN EMPTY ELSE b.pieceIndexes[s]

WhoIsWhere(b) ==
  /\ OnePieceEach(b.pieces)
  /\ \A c \in Colors, s \in Squares : s \in b.friendlyPieces[c] <=> \E p \in PieceTypes : s \in b.pieces[c][p]
  /\ b.allPieces = b.friendlyPieces[WHITE] \cup b.friendlyPieces[BLACK]
  /\ \A c \in Colors, p \in PieceTypes : \A s \in b.pieces[c][p] : b.pieceIndexes[s] = p
  /\ \A s \in Squares \ b.allPieces : b.pieceIndexes[s] = EMPTY

KingsAre(b) == \A c \in Colors : b.pieces[c][KING] = {b.kingIndex[c]}

PlacesTyped(b) ==
  /\ b.pieces \in Men
  /\ b.friendlyPieces \in [Colors -> SUBSET Squares]
  /\ b.allPieces \in SUBSET Squares
  /\ b.pieceIndexes \in [Squares -> EMPTY..KING]
  /\ b.colorToMove \in Colors

\* There are two sides.
LEMMA ColorsTwo ==
  ASSUME NEW c \in Colors
  PROVE  /\ Opponent(c) \in Colors /\ Opponent(c) # c /\ Opponent(Opponent(c)) = c /\ WHITE \in Colors /\ BLACK \in Colors
         /\ \A d \in Colors : d = c \/ d = Opponent(c)
         /\ Colors = {WHITE, BLACK}
BY DEF Colors, Opponent, WHITE, BLACK

\* who stands on a square
LEMMA AllIs ==
  ASSUME NEW b, PlacesTyped(b), WhoIsWhere(b), NEW s \in Squares
  PROVE  s \in b.allPieces <=> \E c \in Colors, p \in PieceTypes : s \in b.pieces[c][p]
<1>1. s \in b.allPieces <=> \E c \in Colors : s \in b.friendlyPieces[c]
  BY Zenon DEF WhoIsWhere, Colors, WHITE, BLACK
<1> QED BY <1>1 DEF WhoIsWhere

\* Pieces that leave squares and stand on emptied ones keep the four views in
\* agreement.
LEMMA RearrangedAgrees ==
  ASSUME NEW b, PlacesTyped(b), WhoIsWhere(b), NEW x, x.colorToMove \in Colors,
         NEW gone, NEW put, DOMAIN put \subseteq Squares, \A s \in DOMAIN put : put[s] \in PieceTypes,
         \A s \in DOMAIN put : s \in b.allPieces => s \in gone,
         Rearranged(b, x, gone, put)
  PROVE  PlacesTyped(x) /\ WhoIsWhere(x)
<1> DEFINE us == b.colorToMove
<1>1. \A c \in Colors, p \in PieceTypes, s \in Squares :
          s \in x.pieces[c][p] <=> \/ c = us /\ s \in DOMAIN put /\ put[s] = p
                                   \/ s \in b.pieces[c][p] /\ s \notin gone
  BY Zenon DEF Rearranged
<1>2. \A c \in Colors, s \in Squares :
          s \in x.friendlyPieces[c] <=> \/ c = us /\ s \in DOMAIN put
                                        \/ s \in b.friendlyPieces[c] /\ s \notin gone
  BY Zenon DEF Rearranged
<1>3. \A s \in Squares :
          x.pieceIndexes[s] = IF s \in DOMAIN put THEN put[s]
                              ELSE IF s \in gone THEN EMPTY ELSE b.pieceIndexes[s]
  BY Zenon DEF Rearranged
<1>4. /\ x.pieces \in Men /\ x.friendlyPieces \in [Colors -> SUBSET Squares]
      /\ x.allPieces = x.friendlyPieces[WHITE] \cup x.friendlyPieces[BLACK]
      /\ x.pieceIndexes \in [Squares -> EMPTY..KING]
  BY Zenon DEF Rearranged
<1>5. us \in Colors
  BY DEF PlacesTyped
<1>6. \A c \in Colors, p \in PieceTypes, s \in Squares : s \in b.pieces[c][p] => s \in b.allPieces
  BY AllIs
<1>7. \A c \in Colors, p \in PieceTypes : \A s \in x.pieces[c][p] : s \in Squares
  BY <1>4 DEF Men
<1>8. OnePieceEach(b.pieces)
  BY DEF WhoIsWhere
<1> HIDE DEF us
<1>9. OnePieceEach(x.pieces)
  <2> SUFFICES ASSUME NEW c \in Colors, NEW d \in Colors, NEW p \in PieceTypes, NEW q \in PieceTypes,
                      NEW s \in x.pieces[c][p] \cap x.pieces[d][q]
               PROVE  c = d /\ p = q
    BY DEF OnePieceEach
  <2>1. s \in Squares
    BY <1>7
  <2>2. s \in DOMAIN put => s \notin b.pieces[c][p] \/ s \in gone
    BY <1>6, <2>1
  <2>3. s \in DOMAIN put => s \notin b.pieces[d][q] \/ s \in gone
    BY <1>6, <2>1
  <2>4. CASE s \in DOMAIN put
    BY <1>1, <2>1, <2>2, <2>3, <2>4
  <2>5. CASE s \notin DOMAIN put
    BY <1>1, <2>1, <2>5, <1>8 DEF OnePieceEach
  <2> QED BY <2>4, <2>5
<1>10. \A c \in Colors, s \in Squares : s \in x.friendlyPieces[c] <=> \E p \in PieceTypes : s \in x.pieces[c][p]
  <2> SUFFICES ASSUME NEW c \in Colors, NEW s \in Squares
               PROVE  s \in x.friendlyPieces[c] <=> \E p \in PieceTypes : s \in x.pieces[c][p]
    OBVIOUS
  <2>1. s \in b.friendlyPieces[c] <=> \E p \in PieceTypes : s \in b.pieces[c][p]
    BY DEF WhoIsWhere
  <2> QED BY <2>1, <1>1, <1>2
<1>11. \A c \in Colors, p \in PieceTypes : \A s \in x.pieces[c][p] : x.pieceIndexes[s] = p
  <2> SUFFICES ASSUME NEW c \in Colors, NEW p \in PieceTypes, NEW s \in x.pieces[c][p]
               PROVE  x.pieceIndexes[s] = p
    OBVIOUS
  <2>1. s \in Squares
    BY <1>7
  <2>2. s \in b.pieces[c][p] => b.pieceIndexes[s] = p
    BY DEF WhoIsWhere
  <2>3. s \in DOMAIN put => s \notin b.pieces[c][p] \/ s \in gone
    BY <1>6, <2>1
  <2> QED BY <2>1, <2>2, <2>3, <1>1, <1>3
<1>12. \A s \in Squares \ x.allPieces : x.pieceIndexes[s] = EMPTY
  <2> SUFFICES ASSUME NEW s \in Squares, s \notin x.allPieces
               PROVE  x.pieceIndexes[s] = EMPTY
    OBVIOUS
  <2>1. \A c \in Colors : s \notin x.friendlyPieces[c]
    BY <1>4, ColorsTwo, <1>5
  <2>2. s \notin DOMAIN put
    BY <2>1, <1>2, <1>5
  <2>3. s \in gone \/ \A c \in Colors : s \notin b.friendlyPieces[c]
    BY <2>1, <1>2
  <2>4. s \in gone \/ s \notin b.allPieces
    BY <2>3, ColorsTwo, <1>5 DEF WhoIsWhere
  <2>5. s \notin b.allPieces => b.pieceIndexes[s] = EMPTY
    BY DEF WhoIsWhere
  <2> QED BY <1>3, <2>2, <2>4, <2>5
<1>13. x.allPieces \in SUBSET Squares
  BY <1>4, ColorsTwo, <1>5
<1>14. PlacesTyped(x)
  BY <1>4, <1>13 DEF PlacesTyped
<1> QED
  BY <1>4, <1>9, <1>10, <1>11, <1>12, <1>14 DEF WhoIsWhere

-----------------------------------------------------------------------------
(***************************************************************************)
(* An ordinary move changes the places of at most three pieces.            *)
(***************************************************************************)

\* everything the lemmas on an ordinary move use of the move
OrdinaryFacts(b, m) ==
  LET us == b.colorToMove
      them == Opponent(us)
      cs == CaptureSquare(b, m)
  IN /\ m.from \in Squares /\ m.to \in Squares /\ m.from # m.to
     /\ m.source \in PieceTypes /\ m.attacked \in EMPTY..QUEEN
     /\ m.from \in b.pieces[us][m.source]
     /\ m.to \notin b.friendlyPieces[us]
     /\ m.attacked = EMPTY => m.to \notin b.allPieces
     /\ m.attacked # EMPTY => /\ m.attacked \in PieceTypes
                              /\ cs \in b.pieces[them][m.attacked]
                              /\ cs # m.from
                              /\ cs # m.to => m.to \notin b.allPieces
     /\ is_ep(m) => m.attacked # EMPTY /\ cs # m.to
     /\ is_promotion(m) => m.source = PAWN /\ m.type \in PieceTypes \ {PAWN, KING}

\* A piece on a square is the only one there, in every view.
LEMMA FriendIs ==
  ASSUME NEW b, PlacesTyped(b), WhoIsWhere(b), NEW c \in Colors, NEW p \in PieceTypes, NEW s \in b.pieces[c][p]
  PROVE  /\ s \in Squares /\ s \in b.friendlyPieces[c] /\ s \in b.allPieces
         /\ s \notin b.friendlyPieces[Opponent(c)]
         /\ \A d \in Colors, q \in PieceTypes : s \in b.pieces[d][q] => d = c /\ q = p
         /\ b.pieceIndexes[s] = p
<1>1. s \in Squares
  BY DEF PlacesTyped, Men
<1>2. \A d \in Colors, q \in PieceTypes : s \in b.pieces[d][q] => d = c /\ q = p
  BY DEF WhoIsWhere, OnePieceEach
<1>3. \A d \in Colors : s \in b.friendlyPieces[d] <=> d = c
  BY <1>1, <1>2 DEF WhoIsWhere
<1>4. s \in b.allPieces
  BY <1>1, AllIs
<1>5. b.pieceIndexes[s] = p
  BY DEF WhoIsWhere
<1> QED
  BY <1>1, <1>2, <1>3, <1>4, <1>5, ColorsTwo

\* What a move that fits a sound board says of the squares it uses.
LEMMA FactsOfOrdinary ==
  ASSUME NEW b, PlacesTyped(b), WhoIsWhere(b), EpSound(b), NEW m, MoveFits(b, m), OrdinaryFits(b, m), m.attacked # KING
  PROVE  OrdinaryFacts(b, m)
<1> DEFINE us == b.colorToMove
           them == Opponent(us)
           cs == CaptureSquare(b, m)
<1>1. us \in Colors /\ them \in Colors /\ us # them
  BY ColorsTwo DEF PlacesTyped
<1>2. /\ m.from \in Squares /\ m.to \in Squares /\ m.source \in PieceTypes /\ m.attacked \in EMPTY..KING
      /\ m.from \in b.pieces[us][m.source]
  BY DEF MoveFits
<1>3. /\ m.from # m.to
      /\ m.attacked = EMPTY => m.to \notin b.allPieces
      /\ m.attacked # EMPTY /\ m.type # TYPE_EP => m.to \in b.pieces[them][m.attacked]
      /\ m.type = TYPE_EP => m.source = PAWN /\ m.attacked = PAWN /\ m.to = b.epIndex /\ b.epIndex # 0
      /\ is_promotion(m) => m.source = PAWN
  BY DEF OrdinaryFits
<1>4. m.attacked \in EMPTY..QUEEN /\ (m.attacked # EMPTY => m.attacked \in PieceTypes)
  BY <1>2 DEF EMPTY, QUEEN, KING, PieceTypes, PAWN
<1>5. m.type = TYPE_EP => m.to \notin b.allPieces /\ cs \in b.pieces[them][PAWN] /\ cs # m.to
  <2> SUFFICES ASSUME m.type = TYPE_EP PROVE m.to \notin b.allPieces /\ cs \in b.pieces[them][PAWN] /\ cs # m.to
    OBVIOUS
  <2>1. m.to \notin b.allPieces /\ cs \in b.pieces[them][PAWN]
    BY <1>3 DEF EpSound, CaptureSquare, is_ep
  <2>2. cs \in b.allPieces
    BY <2>1, <1>1, FriendIs DEF PieceTypes, PAWN, KING
  <2> QED BY <2>1, <2>2
<1>6. m.type # TYPE_EP => cs = m.to
  BY DEF CaptureSquare, is_ep
<1>7. m.attacked # EMPTY => cs \in b.pieces[them][m.attacked]
  BY <1>3, <1>5, <1>6
<1>8. m.from \in b.friendlyPieces[us] /\ m.from \notin b.friendlyPieces[them]
  BY <1>1, <1>2, FriendIs
<1>9. m.attacked # EMPTY => cs \in b.friendlyPieces[them] /\ cs \notin b.friendlyPieces[us]
  BY <1>1, <1>4, <1>7, FriendIs, ColorsTwo
<1>10. m.to \notin b.friendlyPieces[us]
  BY <1>1, <1>3, <1>5, <1>6, <1>9 DEF WhoIsWhere, Colors, WHITE, BLACK
<1>11. is_promotion(m) => m.type \in PieceTypes \ {PAWN, KING}
  BY DEF is_promotion, PromotionTypes, PieceTypes, PAWN, KING, NIGHT, BISHOP, ROOK, QUEEN
<1>13. is_ep(m) => m.attacked # EMPTY /\ cs # m.to
  BY <1>3, <1>5 DEF is_ep, EMPTY, PAWN
<1> HIDE DEF us, them, cs
<1>12. m.attacked # EMPTY => cs # m.from /\ (cs # m.to => m.to \notin b.allPieces)
  BY <1>5, <1>6, <1>8, <1>9
<1> QED
  BY <1>2, <1>3, <1>4, <1>7, <1>10, <1>11, <1>12, <1>13 DEF OrdinaryFacts, us, them, cs

\* The piece that a move puts down.
LEMMA PlacedIs ==
  ASSUME NEW b, NEW m, OrdinaryFacts(b, m)
  PROVE  /\ Placed(m) \in PieceTypes
         /\ ~is_promotion(m) => Placed(m) = m.source
         /\ is_promotion(m) => Placed(m) = m.type /\ m.source = PAWN /\ m.type # PAWN /\ m.type # KING /\ m.type \in PieceTypes
  BY DEF Placed, OrdinaryFacts

\* doMove as a rearrangement of the pieces.
LEMMA OrdinaryRearranges ==
  ASSUME NEW b, PlacesTyped(b), WhoIsWhere(b), NEW m, OrdinaryFacts(b, m), NEW x, IsBoard(b), x = DoOrdinaryMove(b, m)
  PROVE  Rearranged(b, x, {m.from} \cup Captured(b, m), [s \in {m.to} |-> Placed(m)])
<1> DEFINE us == b.colorToMove
           them == Opponent(us)
           cs == CaptureSquare(b, m)
           gone == {m.from} \cup Captured(b, m)
           put == [s \in {m.to} |-> Placed(m)]
<1>1. us \in Colors /\ them \in Colors /\ us # them /\ Colors = {us, them}
  BY ColorsTwo DEF PlacesTyped
<1>2. /\ m.from \in Squares /\ m.to \in Squares /\ m.from # m.to
      /\ m.source \in PieceTypes /\ m.attacked \in EMPTY..QUEEN
      /\ m.from \in b.pieces[us][m.source]
      /\ m.to \notin b.friendlyPieces[us]
      /\ m.attacked = EMPTY => m.to \notin b.allPieces
      /\ m.attacked # EMPTY => /\ m.attacked \in PieceTypes
                               /\ cs \in b.pieces[them][m.attacked]
                               /\ cs # m.from
                               /\ cs # m.to => m.to \notin b.allPieces
      /\ is_promotion(m) => m.source = PAWN /\ m.type \in PieceTypes \ {PAWN, KING}
  BY DEF OrdinaryFacts
<1>3. x.pieces = PiecesAfter(b, m) /\ x.friendlyPieces = FriendlyAfter(b, m) /\ x.pieceIndexes = IndexesAfter(b, m)
      /\ x.allPieces = FriendlyAfter(b, m)[WHITE] \cup FriendlyAfter(b, m)[BLACK]
  <2>1. OrdinaryResult(b, m, x)
    BY OrdinaryFields, Zenon
  <2> QED BY <2>1, Zenon DEF OrdinaryResult
<1>4. DOMAIN put = {m.to} /\ put[m.to] = Placed(m)
  OBVIOUS
<1>5. \A s : s \in gone <=> s = m.from \/ (m.attacked # EMPTY /\ s = cs)
  BY DEF Captured
<1>6. \A c \in Colors, p \in PieceTypes : b.pieces[c][p] \in SUBSET Squares
  BY DEF PlacesTyped, Men
<1>7. b.pieces \in [Colors -> [PieceTypes -> SUBSET Squares]]
  BY DEF PlacesTyped, Men
<1>8. \A d \in Colors, q \in PieceTypes : m.from \in b.pieces[d][q] => d = us /\ q = m.source
  BY <1>1, <1>2, FriendIs
<1>9. m.attacked # EMPTY => \A d \in Colors, q \in PieceTypes : cs \in b.pieces[d][q] => d = them /\ q = m.attacked
  BY <1>1, <1>2, FriendIs
<1>10. \A q \in PieceTypes : m.to \notin b.pieces[us][q]
  BY <1>1, <1>2 DEF WhoIsWhere
<1>11. m.attacked # EMPTY => cs \in Squares
  BY <1>1, <1>2, <1>6
<1> DEFINE moved == [b.pieces EXCEPT ![us][m.source] = @ (+) ({m.from} (+) {m.to})]
           placed == IF is_promotion(m)
                THEN [moved EXCEPT ![us][PAWN] = @ (+) {m.to}, ![us][m.type] = @ \cup {m.to}]
                ELSE moved
           after == IF m.attacked = EMPTY THEN placed
                    ELSE [placed EXCEPT ![them][m.attacked] = @ (+) {cs}]
<1>12. x.pieces = after
  BY <1>3 DEF PiecesAfter
<1>13. PAWN \in PieceTypes
  BY DEF PAWN, PieceTypes, KING
<1> HIDE DEF us, them, cs, gone, put
<1>14. moved \in [Colors -> [PieceTypes -> SUBSET Squares]]
       /\ \A c \in Colors, p \in PieceTypes : \A s : s \in moved[c][p] <=>
             IF c = us /\ p = m.source THEN s = m.to \/ (s \in b.pieces[c][p] /\ s # m.from) ELSE s \in b.pieces[c][p]
  BY <1>1, <1>2, <1>7, <1>10 DEF (+)
<1> HIDE DEF moved
<1>15. placed \in [Colors -> [PieceTypes -> SUBSET Squares]]
       /\ \A c \in Colors, p \in PieceTypes : \A s : s \in placed[c][p] <=>
             (c = us /\ p = Placed(m) /\ s = m.to) \/ (s \in b.pieces[c][p] /\ s # m.from)
  <2>1. CASE ~is_promotion(m)
    BY <2>1, <1>1, <1>2, <1>8, <1>14, PlacedIs
  <2>2. CASE is_promotion(m)
    <3>1. m.source = PAWN /\ m.type \in PieceTypes /\ m.type # PAWN /\ Placed(m) = m.type
      BY <2>2, <1>2 DEF Placed
    <3>2. placed = [moved EXCEPT ![us][PAWN] = @ (+) {m.to}, ![us][m.type] = @ \cup {m.to}]
      BY <2>2
    <3>3. placed \in [Colors -> [PieceTypes -> SUBSET Squares]]
          /\ \A c \in Colors, p \in PieceTypes : \A s : s \in placed[c][p] <=>
               IF c = us /\ p = PAWN THEN (s \in moved[c][p] /\ s # m.to) \/ (s = m.to /\ s \notin moved[c][p])
               ELSE (c = us /\ p = m.type /\ s = m.to) \/ s \in moved[c][p]
      BY <3>1, <3>2, <1>1, <1>2, <1>13, <1>14 DEF (+)
    <3> QED BY <3>1, <3>3, <1>1, <1>2, <1>8, <1>10, <1>13, <1>14
  <2> QED BY <2>1, <2>2
<1> HIDE DEF placed
<1>16. after \in [Colors -> [PieceTypes -> SUBSET Squares]]
       /\ \A c \in Colors, p \in PieceTypes : \A s : s \in after[c][p] <=>
             (c = us /\ p = Placed(m) /\ s = m.to) \/ (s \in b.pieces[c][p] /\ s # m.from /\ (m.attacked # EMPTY => s # cs))
  <2>1. CASE m.attacked = EMPTY
    BY <2>1, <1>15
  <2>2. CASE m.attacked # EMPTY
    <3>1. after = [placed EXCEPT ![them][m.attacked] = @ (+) {cs}]
      BY <2>2
    <3>2. cs \in placed[them][m.attacked] /\ m.attacked \in PieceTypes /\ cs \in Squares
      BY <2>2, <1>1, <1>2, <1>11, <1>15
    <3>3. cs \in b.pieces[them][m.attacked]
      BY <2>2, <1>2
    <3> HIDE DEF after
    <3>4. after \in [Colors -> [PieceTypes -> SUBSET Squares]]
          /\ \A c \in Colors, p \in PieceTypes : \A s : s \in after[c][p] <=>
               s \in placed[c][p] /\ ~(c = them /\ p = m.attacked /\ s = cs)
      BY <3>1, <3>2, <1>1, <1>15 DEF (+)
    <3>5. \A c \in Colors, p \in PieceTypes : cs \in b.pieces[c][p] => c = them /\ p = m.attacked
      BY <2>2, <1>9
    <3> QED BY <3>4, <3>5, <2>2, <1>1, <1>15
  <2> QED BY <2>1, <2>2
<1> HIDE DEF after
<1>17. x.pieces \in Men
  BY <1>12, <1>16 DEF Men
<1>18. \A c \in Colors, p \in PieceTypes, s \in Squares :
          s \in x.pieces[c][p] <=> \/ c = us /\ s \in DOMAIN put /\ put[s] = p
                                   \/ s \in b.pieces[c][p] /\ s \notin gone
  BY <1>4, <1>5, <1>12, <1>16
<1>19. x.friendlyPieces = [b.friendlyPieces EXCEPT ![us] = @ (+) ({m.from} (+) {m.to}), ![them] = @ (+) Captured(b, m)]
  BY <1>3 DEF FriendlyAfter, us, them
<1>20. \A s : s \in Captured(b, m) <=> m.attacked # EMPTY /\ s = cs
  BY DEF Captured, cs
<1>21. m.from \in b.friendlyPieces[us] /\ m.from \notin b.friendlyPieces[them]
  BY <1>1, <1>2, FriendIs DEF us, them
<1>22. m.attacked # EMPTY => cs \in b.friendlyPieces[them] /\ cs \notin b.friendlyPieces[us]
  BY <1>1, <1>2, FriendIs, ColorsTwo DEF us, them
<1>23. x.friendlyPieces \in [Colors -> SUBSET Squares]
       /\ \A c \in Colors, s \in Squares :
          s \in x.friendlyPieces[c] <=> \/ c = us /\ s = m.to
                                        \/ s \in b.friendlyPieces[c] /\ s # m.from /\ (m.attacked # EMPTY => s # cs)
  <2>1. b.friendlyPieces \in [Colors -> SUBSET Squares]
    BY DEF PlacesTyped
  <2> DEFINE t == [b.friendlyPieces EXCEPT ![us] = @ (+) ({m.from} (+) {m.to})]
  <2>2. t \in [Colors -> SUBSET Squares]
        /\ \A c \in Colors : \A s : s \in t[c] <=> (c = us /\ s = m.to) \/ (s \in b.friendlyPieces[c] /\ s # m.from)
    BY <2>1, <1>1, <1>2, <1>21 DEF (+)
  <2>3. x.friendlyPieces = [t EXCEPT ![them] = @ (+) Captured(b, m)]
    BY <1>19, <1>1, <2>1
  <2> HIDE DEF t
  <2>4. \A s \in Captured(b, m) : s \in t[them] /\ s \in Squares
    BY <2>2, <1>1, <1>2, <1>11, <1>20, <1>22
  <2>5. x.friendlyPieces \in [Colors -> SUBSET Squares]
        /\ \A c \in Colors : \A s : s \in x.friendlyPieces[c] <=> s \in t[c] /\ ~(c = them /\ s \in Captured(b, m))
    BY <2>2, <2>3, <2>4, <1>1 DEF (+)
  <2> QED BY <2>2, <2>5, <1>1, <1>20, <1>22
<1>24. x.allPieces = x.friendlyPieces[WHITE] \cup x.friendlyPieces[BLACK]
  BY <1>3
<1>25. x.pieceIndexes \in [Squares -> EMPTY..KING]
       /\ \A s \in Squares :
          x.pieceIndexes[s] = IF s = m.to THEN Placed(m)
                              ELSE IF s = m.from \/ (m.attacked # EMPTY /\ s = cs) THEN EMPTY ELSE b.pieceIndexes[s]
  <2> DEFINE t == [b.pieceIndexes EXCEPT ![m.from] = EMPTY, ![m.to] = Placed(m)]
  <2>1. x.pieceIndexes = IF is_ep(m) THEN [t EXCEPT ![cs] = EMPTY] ELSE t
    BY <1>3 DEF IndexesAfter, cs
  <2>2. b.pieceIndexes \in [Squares -> EMPTY..KING] /\ Placed(m) \in EMPTY..KING /\ EMPTY \in EMPTY..KING
    BY PlacedIs DEF PlacesTyped, PieceTypes, EMPTY, KING, PAWN
  <2>3. t \in [Squares -> EMPTY..KING] /\ \A s \in Squares : t[s] = IF s = m.to THEN Placed(m) ELSE IF s = m.from THEN EMPTY ELSE b.pieceIndexes[s]
    BY <2>2, <1>2
  <2>4. ~is_ep(m) => cs = m.to
    BY DEF cs, CaptureSquare
  <2> HIDE DEF t
  <2>5. CASE ~is_ep(m)
    BY <2>1, <2>3, <2>4, <2>5
  <2>6. CASE is_ep(m) /\ m.attacked # EMPTY /\ cs # m.to
    BY <2>1, <2>3, <2>6, <1>11, <2>2
  <2>7. is_ep(m) => cs # m.to /\ m.attacked # EMPTY
    BY DEF OrdinaryFacts, cs
  <2> QED BY <2>5, <2>6, <2>7
<1>26. \A s : s \in DOMAIN put <=> s = m.to
  BY <1>4
<1> QED
  BY <1>17, <1>18, <1>23, <1>24, <1>25, <1>26, <1>4, <1>5 DEF Rearranged, us, put, gone

-----------------------------------------------------------------------------
(***************************************************************************)
(* Castling: the king and the rook change places.                          *)
(***************************************************************************)

CastlingKeyAfter(b, m) ==
  LET us == b.colorToMove
      c == CastledSquares(b, m)
      rights == getKingMovedCastlingRights(b.castlingRights, us)
  IN b.zobristKey (+) PieceKey(m.from, us, KING) (+) PieceKey(m.to, us, KING)
               (+) PieceKey(c.rookFrom, us, ROOK) (+) PieceKey(c.rookTo, us, ROOK)
               (+) EpKey(b.epIndex) (+) SideKey
               (+) CastlingKey(b.castlingRights) (+) CastlingKey(rights)

CastlingFriendly(b, m) ==
  [b.friendlyPieces EXCEPT ![b.colorToMove] = @ (+) (CastledSquares(b, m).king (+) CastledSquares(b, m).rook)]

CastlingIndexes(b, m) ==
  LET c == CastledSquares(b, m)
  IN [s \in Squares |->
       CASE s = m.to -> KING [] s = c.rookTo -> ROOK
         [] s \in {m.from, c.rookFrom} \ {m.to, c.rookTo} -> EMPTY
         [] OTHER -> b.pieceIndexes[s]]

CastlingPieces(b, m) ==
  [b.pieces EXCEPT ![b.colorToMove][KING] = @ (+) CastledSquares(b, m).king,
                   ![b.colorToMove][ROOK] = @ (+) CastledSquares(b, m).rook]

CastlingResult(b, m, x) ==
  LET us == b.colorToMove
  IN /\ IsBoard(x)
     /\ x.history = Append(b.history, Entry(b, m))
     /\ x.pieces = CastlingPieces(b, m)
     /\ x.friendlyPieces = CastlingFriendly(b, m)
     /\ x.allPieces = CastlingFriendly(b, m)[WHITE] \cup CastlingFriendly(b, m)[BLACK]
     /\ x.pieceIndexes = CastlingIndexes(b, m)
     /\ x.kingIndex = [b.kingIndex EXCEPT ![us] = m.to]
     /\ x.colorToMove = Opponent(us)
     /\ x.epIndex = 0 /\ x.castlingRights = getKingMovedCastlingRights(b.castlingRights, us)
     /\ x.castlingConfig = b.castlingConfig /\ x.materialKey = b.materialKey
     /\ x.material_factor = b.material_factor /\ x.zobristKey = CastlingKeyAfter(b, m)
     /\ x.pawnZobristKey = b.pawnZobristKey
     /\ x.pinnedPieces = b.pinnedPieces /\ x.discoveredPieces = b.discoveredPieces
     /\ x.pinnedPiecesDirty = TRUE
     /\ x.lastCaptureOrPawnMoveBefore = b.lastCaptureOrPawnMoveBefore + 1
     /\ x.playedBoardStates = inc(b.playedBoardStates, CastlingKeyAfter(b, m))

CastlingChecksFound(x) ==
  \E y : /\ x.checkingPieces = checkingPiecesFull(y)
         /\ y.pieces = x.pieces /\ y.allPieces = x.allPieces
         /\ y.kingIndex = x.kingIndex /\ y.colorToMove = x.colorToMove

\* doCastling960, field by field.
LEMMA CastlingFields ==
  ASSUME NEW b, IsBoard(b), b.pieces \in Men, b.colorToMove \in Colors, NEW m, NEW x, x = doCastling960(b, m)
  PROVE  CastlingResult(b, m, x) /\ CastlingChecksFound(x)
<1> DEFINE w == pushHistoryValues(b, m)
           us == b.colorToMove
           c == CastledSquares(b, m)
           king == c.king
           rook == c.rook
           friendly == CastlingFriendly(b, m)
           all == friendly[WHITE] \cup friendly[BLACK]
           key == CastlingKeyAfter(b, m)
           them == Opponent(us)
           indexes == CastlingIndexes(b, m)
           rights == getKingMovedCastlingRights(b.castlingRights, us)
           to == m.to
           y == [w EXCEPT
                  !.pieces[us][KING] = @ (+) king, !.pieces[us][ROOK] = @ (+) rook,
                  !.friendlyPieces = friendly,
                  !.allPieces = all, !.pieceIndexes = indexes,
                  !.kingIndex[us] = to, !.colorToMove = them, !.epIndex = 0,
                  !.castlingRights = rights, !.zobristKey = key,
                  !.lastCaptureOrPawnMoveBefore = @ + 1]
           checks == checkingPiecesFull(y)
<1>1. x = [y EXCEPT !.checkingPieces = checks, !.pinnedPiecesDirty = TRUE,
                    !.playedBoardStates = inc(@, key)]
  BY DEF doCastling960, CastlingKeyAfter, CastlingFriendly, CastlingIndexes
<1>2. PICK v : v = w
  OBVIOUS
<1>3. PICK z : z = y
  OBVIOUS
<1>4. z = [v EXCEPT
                  !.pieces[us][KING] = @ (+) king, !.pieces[us][ROOK] = @ (+) rook,
                  !.friendlyPieces = friendly,
                  !.allPieces = all, !.pieceIndexes = indexes,
                  !.kingIndex[us] = to, !.colorToMove = them, !.epIndex = 0,
                  !.castlingRights = rights, !.zobristKey = key,
                  !.lastCaptureOrPawnMoveBefore = @ + 1]
  BY <1>2, <1>3
<1>5. /\ checks = checkingPiecesFull(z)
      /\ x = [z EXCEPT !.checkingPieces = checks, !.pinnedPiecesDirty = TRUE,
                       !.playedBoardStates = inc(@, key)]
  BY <1>1, <1>3
<1>6. v.history = Append(b.history, Entry(b, m)) /\ IsBoard(v)
  BY <1>2, PushedFields
<1>7. /\ v.kingIndex = b.kingIndex /\ v.castlingConfig = b.castlingConfig /\ v.pieces = b.pieces
      /\ v.pawnZobristKey = b.pawnZobristKey /\ v.checkingPieces = b.checkingPieces
      /\ v.pinnedPieces = b.pinnedPieces /\ v.discoveredPieces = b.discoveredPieces
      /\ v.pinnedPiecesDirty = b.pinnedPiecesDirty /\ v.materialKey = b.materialKey
      /\ v.material_factor = b.material_factor
      /\ v.lastCaptureOrPawnMoveBefore = b.lastCaptureOrPawnMoveBefore
      /\ v.playedBoardStates = b.playedBoardStates
  BY <1>2, PushedFields
<1>0. us \in Colors /\ v.pieces \in [Colors -> [PieceTypes -> SUBSET Squares]] /\ KING \in PieceTypes /\ ROOK \in PieceTypes /\ KING # ROOK
  BY <1>7 DEF Men, PieceTypes, KING, PAWN, ROOK
<1> HIDE DEF w, us, friendly, all, key, them, indexes, rights, y, checks, king, rook, c, to
<1>8. /\ IsBoard(z)
      /\ z.friendlyPieces = friendly
      /\ z.allPieces = all /\ z.pieceIndexes = indexes
      /\ z.colorToMove = them /\ z.epIndex = 0
      /\ z.castlingRights = rights
      /\ z.zobristKey = key
      /\ z.lastCaptureOrPawnMoveBefore = v.lastCaptureOrPawnMoveBefore + 1
  BY <1>4, <1>6, <1>7 DEF IsBoard
<1>9. /\ z.history = v.history /\ z.castlingConfig = v.castlingConfig /\ z.materialKey = v.materialKey
      /\ z.material_factor = v.material_factor /\ z.pawnZobristKey = v.pawnZobristKey
      /\ z.pinnedPieces = v.pinnedPieces
      /\ z.discoveredPieces = v.discoveredPieces
      /\ z.playedBoardStates = v.playedBoardStates
      /\ z.kingIndex = [v.kingIndex EXCEPT ![us] = to]
  BY <1>4, <1>6, <1>7 DEF IsBoard
<1>15. z.pieces = [v.pieces EXCEPT ![us][KING] = @ (+) king, ![us][ROOK] = @ (+) rook]
  BY <1>0, <1>4, <1>6 DEF IsBoard
<1>10. /\ IsBoard(x) /\ x.checkingPieces = checks /\ x.pinnedPiecesDirty = TRUE
       /\ x.playedBoardStates = inc(z.playedBoardStates, key)
  BY <1>5, <1>8, <1>9 DEF IsBoard
<1>11. /\ x.pieces = z.pieces /\ x.friendlyPieces = z.friendlyPieces /\ x.allPieces = z.allPieces
       /\ x.pieceIndexes = z.pieceIndexes /\ x.colorToMove = z.colorToMove /\ x.epIndex = z.epIndex
       /\ x.castlingRights = z.castlingRights /\ x.materialKey = z.materialKey
       /\ x.material_factor = z.material_factor /\ x.zobristKey = z.zobristKey
       /\ x.pawnZobristKey = z.pawnZobristKey /\ x.kingIndex = z.kingIndex
       /\ x.lastCaptureOrPawnMoveBefore = z.lastCaptureOrPawnMoveBefore
       /\ x.history = z.history /\ x.castlingConfig = z.castlingConfig
       /\ x.pinnedPieces = z.pinnedPieces /\ x.discoveredPieces = z.discoveredPieces
  BY <1>5, <1>8 DEF IsBoard
<1>12. CastlingChecksFound(x)
  BY <1>5, <1>10, <1>11, Zenon DEF CastlingChecksFound
<1>13. CastlingResult(b, m, x)
  <2>1. /\ IsBoard(x) /\ x.history = Append(b.history, Entry(b, m))
        /\ x.castlingConfig = b.castlingConfig /\ x.materialKey = b.materialKey
        /\ x.material_factor = b.material_factor /\ x.pawnZobristKey = b.pawnZobristKey
        /\ x.pinnedPieces = b.pinnedPieces /\ x.discoveredPieces = b.discoveredPieces
        /\ x.lastCaptureOrPawnMoveBefore = b.lastCaptureOrPawnMoveBefore + 1
    BY <1>6, <1>7, <1>8, <1>9, <1>10, <1>11
  <2>2. /\ x.friendlyPieces = friendly
      /\ x.allPieces = all /\ x.pieceIndexes = indexes
      /\ x.colorToMove = them /\ x.epIndex = 0
      /\ x.castlingRights = rights
      /\ x.zobristKey = key
      /\ x.pinnedPiecesDirty = TRUE
      /\ x.playedBoardStates = inc(b.playedBoardStates, key)
    BY <1>7, <1>8, <1>9, <1>10, <1>11
  <2>3. x.kingIndex = [b.kingIndex EXCEPT ![us] = to]
    BY <1>7, <1>9, <1>11
  <2>4. x.pieces = CastlingPieces(b, m)
    BY <1>7, <1>11, <1>15, Zenon DEF CastlingPieces, us, king, rook, c
  <2> QED
    BY <2>1, <2>2, <2>3, <2>4, Zenon DEF CastlingResult, us, friendly, all, key, them, indexes, rights, to
<1> QED BY <1>12, <1>13

CastlingFacts(b, m) ==
  LET us == b.colorToMove
      c == CastledSquares(b, m)
  IN /\ m.from \in b.pieces[us][KING] /\ m.source = KING
     /\ b.pieces[us][KING] = {m.from}
     /\ c = [king |-> {m.from} (+) {m.to}, rook |-> {c.rookFrom} (+) {c.rookTo},
             rookFrom |-> c.rookFrom, rookTo |-> c.rookTo]
     /\ c.rookFrom \in b.pieces[us][ROOK]
     /\ m.to \in Squares /\ c.rookTo \in Squares /\ m.to # c.rookTo
     /\ \A s \in {m.to, c.rookTo} : s \in b.allPieces => s \in {m.from, c.rookFrom}
     /\ m.attacked = EMPTY
     /\ \E r \in b.castlingRights : OwnerOf(r) = us /\ c.rookFrom = b.castlingConfig.rook[r]
           /\ m.to = KING_TO[r] /\ c.rookTo = ROOK_TO[r]

\* A right is known by the square that its king goes to.
LEMMA TargetsDiffer ==
  ASSUME NEW r \in Rights
  PROVE  /\ KING_TO[r] \in Squares /\ ROOK_TO[r] \in Squares
         /\ \A q \in Rights : KING_TO[r] # ROOK_TO[q]
         /\ \A q \in Rights : KING_TO[q] = KING_TO[r] => q = r
         /\ RightOfTarget(KING_TO[r]) = r
<1>1. \A q \in Rights : KING_TO[q] = CASE q = 8 -> 1 [] q = 4 -> 5 [] q = 2 -> 57 [] OTHER -> 61
  BY Zenon DEF KING_TO
<1>2. \A q \in Rights : ROOK_TO[q] = CASE q = 8 -> 2 [] q = 4 -> 4 [] q = 2 -> 58 [] OTHER -> 60
  BY Zenon DEF ROOK_TO
<1>3. /\ KING_TO[r] \in Squares /\ ROOK_TO[r] \in Squares
      /\ \A q \in Rights : KING_TO[r] # ROOK_TO[q]
      /\ \A q \in Rights : KING_TO[q] = KING_TO[r] => q = r
  BY <1>1, <1>2 DEF Rights, Squares
<1>4. RightOfTarget(KING_TO[r]) = r
  BY <1>3 DEF RightOfTarget
<1> QED BY <1>3, <1>4

\* What a castling move that fits a sound board says of the squares it uses.
LEMMA FactsOfCastling ==
  ASSUME NEW b, PlacesTyped(b), WhoIsWhere(b), KingsAre(b), RightsSound(b), b.castlingRights \in SUBSET Rights,
         NEW m, MoveFits(b, m), CastlingFits(b, m)
  PROVE  CastlingFacts(b, m)
<1> DEFINE us == b.colorToMove
           c == CastledSquares(b, m)
<1>1. m.source = KING /\ m.attacked = EMPTY /\ m.from \in b.pieces[us][KING]
  BY DEF CastlingFits, MoveFits
<1>2. PICK r \in b.castlingRights :
       /\ OwnerOf(r) = us
       /\ m.to = KING_TO[r]
       /\ {KING_TO[r], ROOK_TO[r]} \cap b.allPieces \subseteq {b.castlingConfig.king[OwnerOf(r)], b.castlingConfig.rook[r]}
  BY DEF CastlingFits
<1>3. us \in Colors
  BY DEF PlacesTyped
<1>4. b.pieces[us][KING] = {b.kingIndex[us]}
  BY <1>3 DEF KingsAre
<1>5. m.from = b.kingIndex[us]
  BY <1>1, <1>4
<1>6. r \in Rights
  BY <1>2
<1>7. RightOfTarget(m.to) = r /\ KING_TO[r] # ROOK_TO[r] /\ KING_TO[r] \in Squares /\ ROOK_TO[r] \in Squares
  BY <1>2, <1>6, TargetsDiffer
<1>8. c = [king |-> {m.from} (+) {m.to}, rook |-> {b.castlingConfig.rook[r]} (+) {ROOK_TO[r]},
           rookFrom |-> b.castlingConfig.rook[r], rookTo |-> ROOK_TO[r]]
  BY <1>7 DEF CastledSquares
<1>9. b.castlingConfig.king[us] = b.kingIndex[us] /\ b.castlingConfig.rook[r] \in b.pieces[us][ROOK]
  BY <1>2 DEF RightsSound
<1> HIDE DEF c, us
<1>10. c.rookFrom = b.castlingConfig.rook[r] /\ c.rookTo = ROOK_TO[r]
  BY <1>8
<1>11. \A s \in {m.to, c.rookTo} : s \in b.allPieces => s \in {m.from, c.rookFrom}
  BY <1>2, <1>5, <1>9, <1>10
<1>12. \E q \in b.castlingRights : OwnerOf(q) = us /\ c.rookFrom = b.castlingConfig.rook[q]
           /\ m.to = KING_TO[q] /\ c.rookTo = ROOK_TO[q]
  BY <1>2, <1>10
<1>13. m.to \in Squares /\ c.rookTo \in Squares /\ m.to # c.rookTo
  BY <1>2, <1>7, <1>10
<1>14. c = [king |-> {m.from} (+) {m.to}, rook |-> {c.rookFrom} (+) {c.rookTo},
             rookFrom |-> c.rookFrom, rookTo |-> c.rookTo]
  BY <1>8, <1>10
<1> QED
  BY <1>1, <1>4, <1>5, <1>9, <1>10, <1>11, <1>12, <1>13, <1>14 DEF CastlingFacts, c, us

\* doCastling960 as a rearrangement of the pieces.
LEMMA CastlingRearranges ==
  ASSUME NEW b, IsBoard(b), PlacesTyped(b), WhoIsWhere(b), NEW m, CastlingFacts(b, m), NEW x, x = doCastling960(b, m)
  PROVE  Rearranged(b, x, {m.from, CastledSquares(b, m).rookFrom},
                    [s \in {m.to, CastledSquares(b, m).rookTo} |-> IF s = m.to THEN KING ELSE ROOK])
<1> DEFINE us == b.colorToMove
           rf == CastledSquares(b, m).rookFrom
           rt == CastledSquares(b, m).rookTo
           king == CastledSquares(b, m).king
           rook == CastledSquares(b, m).rook
           gone == {m.from, rf}
           put == [s \in {m.to, rt} |-> IF s = m.to THEN KING ELSE ROOK]
<1>1. us \in Colors /\ b.pieces \in Men /\ Opponent(us) \in Colors /\ Opponent(us) # us
  BY ColorsTwo DEF PlacesTyped
<1>2. CastlingResult(b, m, x)
  BY <1>1, CastlingFields, Zenon
<1>3. /\ x.pieces = CastlingPieces(b, m)
      /\ x.friendlyPieces = CastlingFriendly(b, m)
      /\ x.allPieces = CastlingFriendly(b, m)[WHITE] \cup CastlingFriendly(b, m)[BLACK]
      /\ x.pieceIndexes = CastlingIndexes(b, m)
  BY <1>2, Zenon DEF CastlingResult
<1>4. /\ king = {m.from} (+) {m.to} /\ rook = {rf} (+) {rt}
  <2> DEFINE c == CastledSquares(b, m)
  <2>1. c = [king |-> {m.from} (+) {m.to}, rook |-> {c.rookFrom} (+) {c.rookTo},
             rookFrom |-> c.rookFrom, rookTo |-> c.rookTo]
    BY Zenon DEF CastlingFacts
  <2> HIDE DEF c
  <2>2. c.king = {m.from} (+) {m.to} /\ c.rook = {c.rookFrom} (+) {c.rookTo}
    BY <2>1
  <2> QED BY <2>2 DEF c
<1>5. /\ m.from \in b.pieces[us][KING]
      /\ b.pieces[us][KING] = {m.from}
      /\ rf \in b.pieces[us][ROOK]
      /\ m.to \in Squares /\ rt \in Squares /\ m.to # rt
      /\ \A s \in {m.to, rt} : s \in b.allPieces => s \in {m.from, rf}
  BY DEF CastlingFacts
<1>6. KING \in PieceTypes /\ ROOK \in PieceTypes /\ KING # ROOK
  BY DEF PieceTypes, KING, PAWN, ROOK
<1>7. \A d \in Colors, q \in PieceTypes : m.from \in b.pieces[d][q] => d = us /\ q = KING
  BY <1>1, <1>5, <1>6, FriendIs
<1>8. \A d \in Colors, q \in PieceTypes : rf \in b.pieces[d][q] => d = us /\ q = ROOK
  BY <1>1, <1>5, <1>6, FriendIs
<1>9. m.from # rf /\ m.from \in Squares /\ rf \in Squares
  BY <1>1, <1>5, <1>6, <1>7, FriendIs
<1>10. m.from \in b.friendlyPieces[us] /\ rf \in b.friendlyPieces[us]
       /\ m.from \notin b.friendlyPieces[Opponent(us)] /\ rf \notin b.friendlyPieces[Opponent(us)]
  BY <1>1, <1>5, <1>6, FriendIs
<1>11. \A d \in Colors, q \in PieceTypes, s \in {m.to, rt} : s \in b.pieces[d][q] => s \in {m.from, rf}
  BY <1>5, AllIs
<1>12. \A d \in Colors, s \in {m.to, rt} : s \in b.friendlyPieces[d] => s \in {m.from, rf}
  BY <1>5 DEF WhoIsWhere, Colors, WHITE, BLACK
<1>13. x.pieces = [b.pieces EXCEPT ![us][KING] = @ (+) king, ![us][ROOK] = @ (+) rook]
  BY <1>3, Zenon DEF CastlingPieces
<1>14. x.friendlyPieces = [b.friendlyPieces EXCEPT ![us] = @ (+) (king (+) rook)]
  BY <1>3, Zenon DEF CastlingFriendly
<1>15. \A s \in Squares : x.pieceIndexes[s] =
       CASE s = m.to -> KING [] s = rt -> ROOK
         [] s \in {m.from, rf} \ {m.to, rt} -> EMPTY
         [] OTHER -> b.pieceIndexes[s]
  BY <1>3, Zenon DEF CastlingIndexes
<1>16. x.pieceIndexes = [s \in Squares |-> x.pieceIndexes[s]]
  BY <1>3 DEF CastlingIndexes
<1>17. /\ \A s : s \in DOMAIN put <=> s = m.to \/ s = rt
       /\ put[m.to] = KING /\ put[rt] = ROOK
  BY <1>5
<1>18. b.pieces \in [Colors -> [PieceTypes -> SUBSET Squares]] /\ b.friendlyPieces \in [Colors -> SUBSET Squares]
       /\ b.pieceIndexes \in [Squares -> EMPTY..KING]
  BY DEF PlacesTyped, Men
<1> HIDE DEF us, rf, rt, king, rook, put
<1>19. \A s : s \in king <=> (s = m.from /\ s # m.to) \/ (s = m.to /\ s # m.from)
  BY <1>4 DEF (+)
<1>20. \A s : s \in rook <=> (s = rf /\ s # rt) \/ (s = rt /\ s # rf)
  BY <1>4 DEF (+)
<1>21. x.pieces \in [Colors -> [PieceTypes -> SUBSET Squares]]
       /\ \A c \in Colors, p \in PieceTypes : \A s :
            s \in x.pieces[c][p] <=> IF c = us /\ p = KING THEN (s \in b.pieces[c][p]) # (s \in king)
                                     ELSE IF c = us /\ p = ROOK THEN (s \in b.pieces[c][p]) # (s \in rook)
                                     ELSE s \in b.pieces[c][p]
  <2>1. king \in SUBSET Squares /\ rook \in SUBSET Squares
    BY <1>5, <1>9, <1>19, <1>20
  <2>2. PICK t : t = [b.pieces EXCEPT ![us][KING] = @ (+) king]
    OBVIOUS
  <2>3. /\ t \in [Colors -> [PieceTypes -> SUBSET Squares]]
        /\ \A c \in Colors, p \in PieceTypes : \A s :
             s \in t[c][p] <=> IF c = us /\ p = KING THEN (s \in b.pieces[c][p]) # (s \in king)
                               ELSE s \in b.pieces[c][p]
    BY <1>1, <1>6, <1>18, <2>1, <2>2 DEF (+)
  <2>4. x.pieces = [t EXCEPT ![us][ROOK] = @ (+) rook]
    BY <1>13, <2>2
  <2>5. /\ x.pieces \in [Colors -> [PieceTypes -> SUBSET Squares]]
        /\ \A c \in Colors, p \in PieceTypes : \A s :
             s \in x.pieces[c][p] <=> IF c = us /\ p = ROOK THEN (s \in t[c][p]) # (s \in rook)
                                      ELSE s \in t[c][p]
    BY <1>1, <1>6, <2>1, <2>3, <2>4 DEF (+)
  <2> QED BY <1>6, <2>3, <2>5
<1>22. \A c \in Colors, p \in PieceTypes, s \in Squares :
          s \in x.pieces[c][p] <=> \/ c = us /\ s \in DOMAIN put /\ put[s] = p
                                   \/ s \in b.pieces[c][p] /\ s \notin gone
  <2> SUFFICES ASSUME NEW c \in Colors, NEW p \in PieceTypes, NEW s \in Squares
               PROVE  s \in x.pieces[c][p] <=> \/ c = us /\ s \in DOMAIN put /\ put[s] = p
                                               \/ s \in b.pieces[c][p] /\ s \notin gone
    OBVIOUS
  <2>1. CASE c = us /\ p = KING
    BY <2>1, <1>5, <1>6, <1>9, <1>17, <1>19, <1>21
  <2>2. CASE c = us /\ p = ROOK
    BY <2>2, <1>1, <1>5, <1>6, <1>8, <1>9, <1>7, <1>11, <1>17, <1>20, <1>21
  <2>3. CASE ~(c = us /\ p = KING) /\ ~(c = us /\ p = ROOK)
    BY <2>3, <1>7, <1>8, <1>17, <1>21
  <2> QED BY <2>1, <2>2, <2>3
<1>23. x.friendlyPieces \in [Colors -> SUBSET Squares]
       /\ \A c \in Colors, s \in Squares :
          s \in x.friendlyPieces[c] <=> \/ c = us /\ s \in DOMAIN put
                                        \/ s \in b.friendlyPieces[c] /\ s \notin gone
  <2>1. king \in SUBSET Squares /\ rook \in SUBSET Squares
    BY <1>5, <1>9, <1>19, <1>20
  <2>2. x.friendlyPieces \in [Colors -> SUBSET Squares]
        /\ \A c \in Colors : \A s : s \in x.friendlyPieces[c] <=>
              IF c = us THEN (s \in b.friendlyPieces[us]) # ((s \in king) # (s \in rook)) ELSE s \in b.friendlyPieces[c]
    BY <1>1, <1>14, <1>18, <2>1 DEF (+)
  <2>3. \A s \in Squares : ((s \in b.friendlyPieces[us]) # ((s \in king) # (s \in rook)))
           <=> (s = m.to \/ s = rt) \/ (s \in b.friendlyPieces[us] /\ s \notin gone)
    BY <1>1, <1>5, <1>9, <1>10, <1>12, <1>19, <1>20
  <2>4. \A c \in Colors : c # us => m.from \notin b.friendlyPieces[c] /\ rf \notin b.friendlyPieces[c]
    BY <1>1, <1>10, ColorsTwo DEF us
  <2> QED BY <1>17, <2>2, <2>3, <2>4
<1>24. x.pieceIndexes \in [Squares -> EMPTY..KING]
       /\ \A s \in Squares :
          x.pieceIndexes[s] = IF s \in DOMAIN put THEN put[s]
                              ELSE IF s \in gone THEN EMPTY ELSE b.pieceIndexes[s]
  <2>1. \A s \in Squares :
          x.pieceIndexes[s] = IF s \in DOMAIN put THEN put[s]
                              ELSE IF s \in gone THEN EMPTY ELSE b.pieceIndexes[s]
    BY <1>5, <1>15, <1>17
  <2>2. \A s \in Squares : x.pieceIndexes[s] \in EMPTY..KING
    BY <1>17, <1>18, <2>1 DEF EMPTY, KING, ROOK
  <2> QED BY <1>16, <2>1, <2>2
<1>25. x.allPieces = x.friendlyPieces[WHITE] \cup x.friendlyPieces[BLACK]
  BY <1>3
<1>26. x.pieces \in Men
  BY <1>21 DEF Men
<1> QED
  BY <1>22, <1>23, <1>24, <1>25, <1>26, Zenon DEF Rearranged, us, put, gone, rf, rt

-----------------------------------------------------------------------------
(***************************************************************************)
(* What undoMove leaves in every field of the board.                       *)
(***************************************************************************)

\* what all three ways of taking back do to the fields
PoppedResult(x, w) ==
  LET h == x.history[Len(x.history)]
  IN /\ IsBoard(w)
     /\ w.history = SubSeq(x.history, 1, Len(x.history) - 1)
     /\ w.castlingRights = h.castlingRights /\ w.epIndex = h.epIndex
     /\ w.zobristKey = h.zobristKey /\ w.checkingPieces = h.checkingPieces
     /\ w.pinnedPieces = h.pinnedPieces /\ w.discoveredPieces = h.discoveredPieces
     /\ w.lastCaptureOrPawnMoveBefore = h.lastCaptureOrPawnMoveBefore
     /\ w.pinnedPiecesDirty = FALSE
     /\ w.playedBoardStates = dec(x.playedBoardStates, x.zobristKey)
     /\ w.castlingConfig = x.castlingConfig

PlacesKept(x, w) ==
  /\ w.pieces = x.pieces /\ w.friendlyPieces = x.friendlyPieces
  /\ w.allPieces = x.allPieces /\ w.pieceIndexes = x.pieceIndexes
  /\ w.kingIndex = x.kingIndex
  /\ w.materialKey = x.materialKey /\ w.material_factor = x.material_factor
  /\ w.pawnZobristKey = x.pawnZobristKey

\* popHistoryValues takes the last entry back.
LEMMA PoppedFields ==
  ASSUME NEW x, IsBoard(x), NEW w, w = Popped(x)
  PROVE  PoppedResult(x, w) /\ PlacesKept(x, w) /\ w.colorToMove = x.colorToMove
<1>1. PICK u : u = [x EXCEPT !.playedBoardStates = dec(@, x.zobristKey)]
  OBVIOUS
<1>2. PICK v : v = popHistoryValues(u)
  OBVIOUS
<1>3. w = [v EXCEPT !.pinnedPiecesDirty = FALSE]
  BY <1>1, <1>2 DEF Popped
<1> DEFINE h == x.history[Len(x.history)]
<1>4. /\ IsBoard(u) /\ u.playedBoardStates = dec(x.playedBoardStates, x.zobristKey)
      /\ u.history = x.history /\ u.castlingConfig = x.castlingConfig
      /\ PlacesKept(x, u) /\ u.colorToMove = x.colorToMove
  BY <1>1 DEF IsBoard, PlacesKept
<1>5. v = [u EXCEPT
        !.history = SubSeq(@, 1, Len(@) - 1),
        !.castlingRights = h.castlingRights, !.epIndex = h.epIndex,
        !.zobristKey = h.zobristKey, !.checkingPieces = h.checkingPieces,
        !.pinnedPieces = h.pinnedPieces, !.discoveredPieces = h.discoveredPieces,
        !.lastCaptureOrPawnMoveBefore = h.lastCaptureOrPawnMoveBefore]
  BY <1>2, <1>4 DEF popHistoryValues
<1> HIDE DEF h
<1>6. /\ IsBoard(v) /\ v.playedBoardStates = u.playedBoardStates
      /\ v.history = SubSeq(u.history, 1, Len(u.history) - 1) /\ v.castlingConfig = u.castlingConfig
      /\ v.castlingRights = h.castlingRights /\ v.epIndex = h.epIndex
      /\ v.zobristKey = h.zobristKey /\ v.checkingPieces = h.checkingPieces
      /\ v.pinnedPieces = h.pinnedPieces /\ v.discoveredPieces = h.discoveredPieces
      /\ v.lastCaptureOrPawnMoveBefore = h.lastCaptureOrPawnMoveBefore
  BY <1>4, <1>5 DEF IsBoard
<1>7. PlacesKept(u, v) /\ v.colorToMove = u.colorToMove
  BY <1>4, <1>5 DEF IsBoard, PlacesKept
<1>8. /\ IsBoard(w) /\ w.playedBoardStates = v.playedBoardStates
      /\ w.history = v.history /\ w.castlingConfig = v.castlingConfig
      /\ w.castlingRights = v.castlingRights /\ w.epIndex = v.epIndex
      /\ w.zobristKey = v.zobristKey /\ w.checkingPieces = v.checkingPieces
      /\ w.pinnedPieces = v.pinnedPieces /\ w.discoveredPieces = v.discoveredPieces
      /\ w.lastCaptureOrPawnMoveBefore = v.lastCaptureOrPawnMoveBefore
      /\ w.pinnedPiecesDirty = FALSE
  BY <1>3, <1>6 DEF IsBoard
<1>9. PlacesKept(v, w) /\ w.colorToMove = v.colorToMove
  BY <1>3, <1>6 DEF IsBoard, PlacesKept
<1>10. PlacesKept(x, w) /\ w.colorToMove = x.colorToMove
  BY <1>4, <1>7, <1>9 DEF PlacesKept
<1>11. PoppedResult(x, w)
  BY <1>4, <1>6, <1>8 DEF PoppedResult, h
<1> QED BY <1>10, <1>11

UndoneSquares(x, m) ==
  IF m.attacked = EMPTY THEN {}
  ELSE {IF is_ep(m) THEN m.to + Forward(x.colorToMove) ELSE m.to}

UndonePieces(x, m) ==
  LET them == x.colorToMove
      us == Opponent(them)
      moved == [x.pieces EXCEPT ![us][m.source] = @ (+) ({m.from} (+) {m.to})]
      placed == IF is_promotion(m)
                THEN [moved EXCEPT ![us][PAWN] = @ (+) {m.to}, ![us][m.type] = @ (+) {m.to}]
                ELSE moved
  IN IF m.attacked = EMPTY THEN placed
     ELSE [placed EXCEPT ![them][m.attacked] = @ \cup UndoneSquares(x, m)]

UndoneFriendly(x, m) ==
  [x.friendlyPieces EXCEPT ![Opponent(x.colorToMove)] = @ (+) ({m.from} (+) {m.to}),
                           ![x.colorToMove] = @ \cup UndoneSquares(x, m)]

UndoneIndexes(x, m) ==
  [s \in Squares |->
          IF s \in UndoneSquares(x, m) THEN m.attacked
          ELSE IF s = m.from THEN m.source ELSE IF s = m.to THEN EMPTY ELSE x.pieceIndexes[s]]

UndoneMaterial(x, m) ==
  LET them == x.colorToMove
      us == Opponent(them)
      demoted == IF is_promotion(m)
                 THEN AddMaterial(AddMaterial(x.materialKey, us, m.type, -1), us, PAWN, 1)
                 ELSE x.materialKey
  IN IF m.attacked = EMPTY THEN demoted ELSE AddMaterial(demoted, them, m.attacked, 1)

UndonePawnKey(x, m) ==
  LET them == x.colorToMove
      us == Opponent(them)
  IN x.pawnZobristKey
          (+) (IF m.source = PAWN THEN PieceKey(m.from, us, PAWN) ELSE {})
          (+) (IF m.source = PAWN /\ ~is_promotion(m) THEN PieceKey(m.to, us, PAWN) ELSE {})
          (+) (IF m.attacked = PAWN THEN UNION {PieceKey(s, them, PAWN) : s \in UndoneSquares(x, m)} ELSE {})

UndoneFactor(x, m) ==
  LET them == x.colorToMove
      us == Opponent(them)
  IN [x.material_factor EXCEPT
        ![us] = @ - (IF is_promotion(m) THEN PHASE[m.type] ELSE 0),
        ![them] = @ + PHASE[m.attacked]]

UndoneResult(x, m, y) ==
  LET us == Opponent(x.colorToMove)
  IN /\ PoppedResult(x, y)
     /\ y.pieces = UndonePieces(x, m) /\ y.friendlyPieces = UndoneFriendly(x, m)
     /\ y.allPieces = UndoneFriendly(x, m)[WHITE] \cup UndoneFriendly(x, m)[BLACK]
     /\ y.pieceIndexes = UndoneIndexes(x, m)
     /\ y.kingIndex = [x.kingIndex EXCEPT ![us] = IF m.source = KING THEN m.from ELSE @]
     /\ y.colorToMove = us
     /\ y.materialKey = UndoneMaterial(x, m)
     /\ y.material_factor = UndoneFactor(x, m)
     /\ y.pawnZobristKey = UndonePawnKey(x, m)

\* undoMove, field by field, for a move that did not castle.
LEMMA UndoneFields ==
  ASSUME NEW x, IsBoard(x), x.material_factor \in [Colors -> Int], x.colorToMove \in Colors,
         NEW m, NEW y, y = UndoOrdinaryMove(x, m)
  PROVE  UndoneResult(x, m, y)
<1> DEFINE them == x.colorToMove
           us == Opponent(them)
           friendly == UndoneFriendly(x, m)
           all == friendly[WHITE] \cup friendly[BLACK]
           pieces == UndonePieces(x, m)
           indexes == UndoneIndexes(x, m)
           material == UndoneMaterial(x, m)
           up == IF is_promotion(m) THEN PHASE[m.type] ELSE 0
           down == PHASE[m.attacked]
           pk1 == IF m.source = PAWN THEN PieceKey(m.from, us, PAWN) ELSE {}
           pk2 == IF m.source = PAWN /\ ~is_promotion(m) THEN PieceKey(m.to, us, PAWN) ELSE {}
           pk3 == IF m.attacked = PAWN THEN UNION {PieceKey(s, them, PAWN) : s \in UndoneSquares(x, m)} ELSE {}
<1>1. PICK w : w = Popped(x)
  OBVIOUS
<1>2. PICK v : v = [w EXCEPT
       !.pieces = pieces, !.friendlyPieces = friendly, !.allPieces = all, !.pieceIndexes = indexes,
       !.kingIndex[us] = IF m.source = KING THEN m.from ELSE @,
       !.materialKey = material,
       !.material_factor[us] = @ - up,
       !.material_factor[them] = @ + down,
       !.pawnZobristKey = @ (+) pk1 (+) pk2 (+) pk3]
  OBVIOUS
<1>3. y = [v EXCEPT !.colorToMove = Opponent(@)]
  <2>1. UndoOrdinaryMove(x, m) = changeSideToMove([Popped(x) EXCEPT
       !.pieces = pieces, !.friendlyPieces = friendly, !.allPieces = all, !.pieceIndexes = indexes,
       !.kingIndex[us] = IF m.source = KING THEN m.from ELSE @,
       !.materialKey = material,
       !.material_factor[us] = @ - up,
       !.material_factor[them] = @ + down,
       !.pawnZobristKey = @ (+) pk1 (+) pk2 (+) pk3])
    BY Zenon DEF UndoOrdinaryMove, UndoneFriendly, UndonePieces, UndoneIndexes, UndoneMaterial, UndoneSquares
  <2> HIDE DEF pieces, friendly, all, indexes, material, up, down, pk1, pk2, pk3, us, them
  <2> QED BY <2>1, <1>1, <1>2 DEF changeSideToMove
<1>4. PoppedResult(x, w) /\ PlacesKept(x, w) /\ w.colorToMove = x.colorToMove
  BY <1>1, PoppedFields
<1>5. them \in Colors /\ us \in Colors /\ us # them
  BY ColorsTwo
<1>6. w.material_factor \in [Colors -> Int]
  BY <1>4 DEF PlacesKept
<1>7. IsBoard(w)
  BY <1>4 DEF PoppedResult
<1> DEFINE pk == x.pawnZobristKey (+) pk1 (+) pk2 (+) pk3
           king == [x.kingIndex EXCEPT ![us] = IF m.source = KING THEN m.from ELSE @]
           factor == UndoneFactor(x, m)
<1>8. pk = UndonePawnKey(x, m)
  BY DEF UndonePawnKey
<1>9. UndoneFactor(x, m) = [x.material_factor EXCEPT ![us] = @ - up, ![them] = @ + down]
  BY DEF UndoneFactor
<1> HIDE DEF them, us, friendly, all, pieces, indexes, material, up, down, pk1, pk2, pk3, factor
<1>10. /\ IsBoard(v)
       /\ v.pieces = pieces /\ v.friendlyPieces = friendly /\ v.allPieces = all
       /\ v.pieceIndexes = indexes /\ v.materialKey = material
       /\ v.pawnZobristKey = w.pawnZobristKey (+) pk1 (+) pk2 (+) pk3
       /\ v.kingIndex = [w.kingIndex EXCEPT ![us] = IF m.source = KING THEN m.from ELSE @]
  BY <1>2, <1>7 DEF IsBoard
<1>11. v.material_factor = [w.material_factor EXCEPT ![us] = @ - up, ![them] = @ + down]
  BY <1>2, <1>5, <1>6, <1>7 DEF IsBoard
<1>12. /\ v.history = w.history /\ v.castlingRights = w.castlingRights /\ v.epIndex = w.epIndex
       /\ v.zobristKey = w.zobristKey /\ v.checkingPieces = w.checkingPieces
       /\ v.pinnedPieces = w.pinnedPieces /\ v.discoveredPieces = w.discoveredPieces
       /\ v.lastCaptureOrPawnMoveBefore = w.lastCaptureOrPawnMoveBefore
       /\ v.pinnedPiecesDirty = w.pinnedPiecesDirty
       /\ v.playedBoardStates = w.playedBoardStates
       /\ v.castlingConfig = w.castlingConfig /\ v.colorToMove = w.colorToMove
  BY <1>2, <1>7 DEF IsBoard
<1>13. /\ IsBoard(y) /\ PlacesKept(v, y) /\ y.colorToMove = Opponent(v.colorToMove)
  BY <1>3, <1>10 DEF IsBoard, PlacesKept
<1>14. /\ y.history = v.history /\ y.castlingRights = v.castlingRights /\ y.epIndex = v.epIndex
       /\ y.zobristKey = v.zobristKey /\ y.checkingPieces = v.checkingPieces
       /\ y.pinnedPieces = v.pinnedPieces /\ y.discoveredPieces = v.discoveredPieces
       /\ y.lastCaptureOrPawnMoveBefore = v.lastCaptureOrPawnMoveBefore
       /\ y.pinnedPiecesDirty = v.pinnedPiecesDirty
       /\ y.playedBoardStates = v.playedBoardStates
       /\ y.castlingConfig = v.castlingConfig
  BY <1>3, <1>10 DEF IsBoard
<1>15. PoppedResult(x, y)
  BY <1>4, <1>12, <1>13, <1>14 DEF PoppedResult
<1>16. y.material_factor = UndoneFactor(x, m)
  BY <1>4, <1>9, <1>11, <1>13, Zenon DEF PlacesKept
<1>17. /\ y.pieces = pieces /\ y.friendlyPieces = friendly /\ y.allPieces = all
       /\ y.pieceIndexes = indexes /\ y.materialKey = material
       /\ y.pawnZobristKey = pk
       /\ y.kingIndex = [x.kingIndex EXCEPT ![us] = IF m.source = KING THEN m.from ELSE @]
  BY <1>4, <1>10, <1>13, Zenon DEF PlacesKept
<1>18. y.colorToMove = us
  BY <1>4, <1>12, <1>13 DEF us, them
<1> QED
  BY <1>8, <1>15, <1>16, <1>17, <1>18, Zenon DEF UndoneResult, friendly, all, pieces, indexes, material, us, them

UncastledResult(x, m, y) ==
  LET us == Opponent(x.colorToMove)
      c == CastledSquares(x, m)
      friendly == [x.friendlyPieces EXCEPT ![us] = @ (+) (c.king (+) c.rook)]
  IN /\ PoppedResult(x, y)
     /\ y.pieces = [x.pieces EXCEPT ![us][KING] = @ (+) c.king, ![us][ROOK] = @ (+) c.rook]
     /\ y.friendlyPieces = friendly
     /\ y.allPieces = friendly[WHITE] \cup friendly[BLACK]
     /\ y.pieceIndexes = [s \in Squares |->
          CASE s = m.from -> KING [] s = c.rookFrom -> ROOK
            [] s \in {m.to, c.rookTo} \ {m.from, c.rookFrom} -> EMPTY
            [] OTHER -> x.pieceIndexes[s]]
     /\ y.kingIndex = [x.kingIndex EXCEPT ![us] = m.from]
     /\ y.colorToMove = us
     /\ y.materialKey = x.materialKey /\ y.material_factor = x.material_factor
     /\ y.pawnZobristKey = x.pawnZobristKey

\* undoCastling960, field by field.
LEMMA UncastledFields ==
  ASSUME NEW x, IsBoard(x), x.pieces \in Men, x.colorToMove \in Colors, NEW m, NEW y, y = undoCastling960(x, m)
  PROVE  UncastledResult(x, m, y)
<1> DEFINE us == Opponent(x.colorToMove)
           c == CastledSquares(x, m)
           ck == c.king
           cr == c.rook
           friendly == [x.friendlyPieces EXCEPT ![us] = @ (+) (c.king (+) c.rook)]
           all == friendly[WHITE] \cup friendly[BLACK]
           indexes == [s \in Squares |->
          CASE s = m.from -> KING [] s = c.rookFrom -> ROOK
            [] s \in {m.to, c.rookTo} \ {m.from, c.rookFrom} -> EMPTY
            [] OTHER -> x.pieceIndexes[s]]
           from == m.from
<1>1. PICK w : w = Popped(x)
  OBVIOUS
<1>2. PICK v : v = [w EXCEPT
       !.pieces[us][KING] = @ (+) ck, !.pieces[us][ROOK] = @ (+) cr,
       !.friendlyPieces = friendly,
       !.allPieces = all,
       !.pieceIndexes = indexes,
       !.kingIndex[us] = from]
  OBVIOUS
<1>3. y = [v EXCEPT !.colorToMove = Opponent(@)]
  BY <1>1, <1>2 DEF undoCastling960, changeSideToMove
<1>4. PoppedResult(x, w) /\ PlacesKept(x, w) /\ w.colorToMove = x.colorToMove
  BY <1>1, PoppedFields
<1>5. us \in Colors /\ KING \in PieceTypes /\ ROOK \in PieceTypes
  BY ColorsTwo DEF PieceTypes, PAWN, KING, ROOK
<1>6. w.pieces \in [Colors -> [PieceTypes -> SUBSET Squares]]
  BY <1>4 DEF PlacesKept, Men
<1>7. IsBoard(w)
  BY <1>4 DEF PoppedResult
<1> HIDE DEF us, friendly, all, indexes, c, from, ck, cr
<1>10. /\ IsBoard(v)
       /\ v.friendlyPieces = friendly /\ v.allPieces = all
       /\ v.pieceIndexes = indexes
       /\ v.kingIndex = [w.kingIndex EXCEPT ![us] = from]
       /\ v.materialKey = w.materialKey /\ v.material_factor = w.material_factor
       /\ v.pawnZobristKey = w.pawnZobristKey
  BY <1>2, <1>7 DEF IsBoard
<1>11. v.pieces = [w.pieces EXCEPT ![us][KING] = @ (+) ck, ![us][ROOK] = @ (+) cr]
  BY <1>2, <1>5, <1>6, <1>7 DEF IsBoard
<1>12. /\ v.history = w.history /\ v.castlingRights = w.castlingRights /\ v.epIndex = w.epIndex
       /\ v.zobristKey = w.zobristKey /\ v.checkingPieces = w.checkingPieces
       /\ v.pinnedPieces = w.pinnedPieces /\ v.discoveredPieces = w.discoveredPieces
       /\ v.lastCaptureOrPawnMoveBefore = w.lastCaptureOrPawnMoveBefore
       /\ v.pinnedPiecesDirty = w.pinnedPiecesDirty
       /\ v.playedBoardStates = w.playedBoardStates
       /\ v.castlingConfig = w.castlingConfig /\ v.colorToMove = w.colorToMove
  BY <1>2, <1>7 DEF IsBoard
<1>13. /\ IsBoard(y) /\ PlacesKept(v, y) /\ y.colorToMove = Opponent(v.colorToMove)
  BY <1>3, <1>10 DEF IsBoard, PlacesKept
<1>14. /\ y.history = v.history /\ y.castlingRights = v.castlingRights /\ y.epIndex = v.epIndex
       /\ y.zobristKey = v.zobristKey /\ y.checkingPieces = v.checkingPieces
       /\ y.pinnedPieces = v.pinnedPieces /\ y.discoveredPieces = v.discoveredPieces
       /\ y.lastCaptureOrPawnMoveBefore = v.lastCaptureOrPawnMoveBefore
       /\ y.pinnedPiecesDirty = v.pinnedPiecesDirty
       /\ y.playedBoardStates = v.playedBoardStates
       /\ y.castlingConfig = v.castlingConfig
  BY <1>3, <1>10 DEF IsBoard
<1>15. PoppedResult(x, y)
  BY <1>4, <1>12, <1>13, <1>14 DEF PoppedResult
<1>17. /\ y.friendlyPieces = friendly /\ y.allPieces = all
       /\ y.pieceIndexes = indexes
       /\ y.kingIndex = [x.kingIndex EXCEPT ![us] = from]
       /\ y.pieces = [x.pieces EXCEPT ![us][KING] = @ (+) ck, ![us][ROOK] = @ (+) cr]
       /\ y.materialKey = x.materialKey /\ y.material_factor = x.material_factor
       /\ y.pawnZobristKey = x.pawnZobristKey
  BY <1>4, <1>10, <1>11, <1>13, Zenon DEF PlacesKept
<1>18. y.colorToMove = us
  BY <1>4, <1>12, <1>13 DEF us
<1> QED
  BY <1>15, <1>17, <1>18, Zenon DEF UncastledResult, friendly, all, indexes, us, c, from, ck, cr

-----------------------------------------------------------------------------
(***************************************************************************)
(* The material key: two counts packed in one number, with a carry.        *)
(***************************************************************************)

Added(key, dl, dh) ==
  [low |-> (key.low + dl) % HALF, high |-> (key.high + dh + (key.low + dl) \div HALF) % HALF]

Delta(color, piece, n, c) == IF c = color THEN n * VALUES[piece] ELSE 0

\* A material key is two halves.
LEMMA MaterialKeyIs ==
  ASSUME NEW key
  PROVE  key \in MaterialKeys <=> /\ key = [low |-> key.low, high |-> key.high]
                                  /\ key.low \in 0..(HALF - 1) /\ key.high \in 0..(HALF - 1)
  BY DEF MaterialKeys

\* The size of a half.
LEMMA HalfIs == HALF \in Int /\ HALF > 0
  BY DEF HALF

\* Remainder and carry of two additions are those of one.
LEMMA CarryTwice ==
  ASSUME NEW x \in Int, NEW y \in Int, NEW h \in Int, h > 0
  PROVE  /\ ((x % h) + y) % h = (x + y) % h
         /\ ((x % h) + y) \div h + x \div h = (x + y) \div h
         /\ x % h \in 0..(h - 1) /\ x \div h \in Int
         /\ x \in 0..(h - 1) => x % h = x /\ x \div h = 0
  OBVIOUS

\* One material change as an addition to both halves.
LEMMA AddMaterialIs ==
  ASSUME NEW key \in MaterialKeys, NEW c \in Colors, NEW p \in PAWN..QUEEN, NEW n \in Int
  PROVE  /\ AddMaterial(key, c, p, n) = Added(key, Delta(c, p, n, WHITE), Delta(c, p, n, BLACK))
         /\ Delta(c, p, n, WHITE) \in Int /\ Delta(c, p, n, BLACK) \in Int
         /\ Delta(c, p, -n, WHITE) = -Delta(c, p, n, WHITE) /\ Delta(c, p, -n, BLACK) = -Delta(c, p, n, BLACK)
<1>1. VALUES[p] \in {1, 16, 128, 1024, 8192}
  BY DEF VALUES, PAWN, NIGHT, BISHOP, ROOK, QUEEN
<1>2. c = WHITE \/ c = BLACK
  BY ColorsTwo
<1>3. WHITE # BLACK
  BY DEF WHITE, BLACK
<1>4. n * VALUES[p] \in Int /\ (-n) * VALUES[p] = -(n * VALUES[p])
  BY <1>1
<1>5. key.low \in Int /\ key.high \in Int
  BY MaterialKeyIs, HalfIs
<1> DEFINE v == n * VALUES[p]
<1>6. AddMaterial(key, c, p, n) =
        [low |-> (IF c = WHITE THEN key.low + v ELSE key.low) % HALF,
         high |-> (key.high + (IF c = BLACK THEN v ELSE 0) + ((IF c = WHITE THEN key.low + v ELSE key.low) \div HALF)) % HALF]
  BY DEF AddMaterial
<1>7. Delta(c, p, n, WHITE) = (IF c = WHITE THEN v ELSE 0) /\ Delta(c, p, n, BLACK) = (IF c = BLACK THEN v ELSE 0)
  BY <1>2, <1>3 DEF Delta
<1> HIDE DEF v
<1>8. v \in Int
  BY <1>4 DEF v
<1>9. AddMaterial(key, c, p, n) = Added(key, Delta(c, p, n, WHITE), Delta(c, p, n, BLACK))
  BY <1>2, <1>3, <1>5, <1>6, <1>7, <1>8 DEF Added
<1> QED
  BY <1>1, <1>2, <1>4, <1>7, <1>8, <1>9 DEF Delta

\* Additions to a key add up.
LEMMA AddedTwice ==
  ASSUME NEW key \in MaterialKeys, NEW a \in Int, NEW b \in Int, NEW c \in Int, NEW d \in Int
  PROVE  /\ Added(key, a, b) \in MaterialKeys
         /\ Added(Added(key, a, b), c, d) = Added(key, a + c, b + d)
         /\ Added(key, 0, 0) = key
<1> DEFINE x == key.low
           y == key.high
<1>1. x \in 0..(HALF - 1) /\ y \in 0..(HALF - 1) /\ key = [low |-> x, high |-> y]
  BY MaterialKeyIs
<1>2. HALF \in Int /\ HALF > 0
  BY HalfIs
<1> HIDE DEF x, y
<1>3. x \in Int /\ y \in Int
  BY <1>1, <1>2
<1> DEFINE l == (x + a) % HALF
           q == (x + a) \div HALF
           h == (y + b + q) % HALF
           r == (l + c) \div HALF
           t == (x + (a + c)) \div HALF
<1>4. Added(key, a, b) = [low |-> l, high |-> h]
  BY DEF Added, x, y
<1>5. /\ l \in 0..(HALF - 1) /\ q \in Int
  BY <1>2, <1>3, CarryTwice
<1>6. h \in 0..(HALF - 1)
  <2> HIDE DEF q
  <2> QED BY <1>2, <1>3, <1>5, CarryTwice
<1>7. [low |-> l, high |-> h] \in MaterialKeys
  <2> HIDE DEF l, h
  <2> QED BY <1>5, <1>6 DEF MaterialKeys
<1>8. Added(key, 0, 0) = key
  BY <1>1, <1>2, <1>3, CarryTwice DEF Added, x, y
<1>9. (l + c) % HALF = (x + (a + c)) % HALF /\ r + q = t /\ r \in Int /\ t \in Int
  <2>1. x + a \in Int /\ (x + a) + c = x + (a + c)
    BY <1>3
  <2>2. /\ (((x + a) % HALF) + c) % HALF = ((x + a) + c) % HALF
        /\ (((x + a) % HALF) + c) \div HALF + (x + a) \div HALF = ((x + a) + c) \div HALF
    <3>1. \A z, w \in Int : /\ ((z % HALF) + w) % HALF = (z + w) % HALF
                            /\ ((z % HALF) + w) \div HALF + z \div HALF = (z + w) \div HALF
      <4> TAKE z \in Int, w \in Int
      <4> DEFINE g == HALF
      <4>1. g \in Int /\ g > 0
        BY <1>2
      <4> HIDE DEF g
      <4>2. /\ ((z % g) + w) % g = (z + w) % g
            /\ ((z % g) + w) \div g + z \div g = (z + w) \div g
        BY <4>1
      <4> QED BY <4>2 DEF g
    <3> QED BY <2>1, <3>1
  <2>3. r \in Int /\ t \in Int
    <3>1. l + c \in Int /\ x + (a + c) \in Int
      BY <1>2, <1>3, <1>5
    <3> HIDE DEF l
    <3> QED BY <1>2, <3>1, CarryTwice
  <2> QED BY <2>1, <2>2, <2>3
<1>10. (h + d + r) % HALF = (y + (b + d) + t) % HALF
  <2> HIDE DEF q, r, t, l
  <2>1. y + b + q \in Int /\ d + r \in Int /\ h \in Int
    BY <1>2, <1>3, <1>5, <1>6, <1>9
  <2>2. (((y + b + q) % HALF) + (d + r)) % HALF = ((y + b + q) + (d + r)) % HALF
    BY <1>2, <2>1, CarryTwice
  <2>3. (y + b + q) + (d + r) = y + (b + d) + t
    BY <1>3, <1>5, <1>9
  <2>4. h + d + r = ((y + b + q) % HALF) + (d + r)
    <3> HIDE DEF h
    <3>1. h + d + r = h + (d + r)
      BY <2>1, <1>9
    <3> QED BY <3>1 DEF h
  <2> QED BY <2>2, <2>3, <2>4
<1> HIDE DEF l, h
<1>11. Added([low |-> l, high |-> h], c, d) = [low |-> (l + c) % HALF, high |-> (h + d + r) % HALF]
  BY DEF Added
<1>12. Added(key, a + c, b + d) = [low |-> (x + (a + c)) % HALF, high |-> (y + (b + d) + t) % HALF]
  BY DEF Added, x, y
<1> QED
  BY <1>4, <1>7, <1>8, <1>9, <1>10, <1>11, <1>12

StepOf(k, x, y, c, p) ==
  /\ AddMaterial(Added(k, x, y), c, p, 1) = Added(k, x + Delta(c, p, 1, WHITE), y + Delta(c, p, 1, BLACK))
  /\ AddMaterial(Added(k, x, y), c, p, -1) = Added(k, x + Delta(c, p, -1, WHITE), y + Delta(c, p, -1, BLACK))
  /\ Delta(c, p, 1, WHITE) \in Int /\ Delta(c, p, 1, BLACK) \in Int
  /\ Added(k, x, y) \in MaterialKeys
  /\ Delta(c, p, -1, WHITE) = -Delta(c, p, 1, WHITE) /\ Delta(c, p, -1, BLACK) = -Delta(c, p, 1, BLACK)

\* What is added to a material key adds up.
LEMMA MaterialSteps ==
  ASSUME NEW k \in MaterialKeys, NEW x \in Int, NEW y \in Int, NEW c \in Colors, NEW p \in PAWN..QUEEN
  PROVE  StepOf(k, x, y, c, p)
<1>1. Added(k, x, y) \in MaterialKeys
  BY AddedTwice
<1>2. -1 \in Int /\ 1 \in Int
  OBVIOUS
<1>3. ASSUME NEW n \in Int
      PROVE  /\ AddMaterial(Added(k, x, y), c, p, n) = Added(k, x + Delta(c, p, n, WHITE), y + Delta(c, p, n, BLACK))
             /\ Delta(c, p, n, WHITE) \in Int /\ Delta(c, p, n, BLACK) \in Int
  <2>1. /\ AddMaterial(Added(k, x, y), c, p, n) = Added(Added(k, x, y), Delta(c, p, n, WHITE), Delta(c, p, n, BLACK))
        /\ Delta(c, p, n, WHITE) \in Int /\ Delta(c, p, n, BLACK) \in Int
    BY <1>1, AddMaterialIs
  <2>2. Added(Added(k, x, y), Delta(c, p, n, WHITE), Delta(c, p, n, BLACK))
          = Added(k, x + Delta(c, p, n, WHITE), y + Delta(c, p, n, BLACK))
    BY <2>1, AddedTwice
  <2> QED BY <2>1, <2>2
<1>4. Delta(c, p, -1, WHITE) = -Delta(c, p, 1, WHITE) /\ Delta(c, p, -1, BLACK) = -Delta(c, p, 1, BLACK)
  BY <1>1, <1>2, AddMaterialIs
<1> QED BY <1>1, <1>2, <1>3, <1>4 DEF StepOf

\* Adding for a move and subtracting again for its undoing.
LEMMA MaterialBack ==
  ASSUME NEW k \in MaterialKeys, NEW c \in Colors, NEW d \in Colors, NEW e \in Colors,
         NEW p \in PAWN..QUEEN, NEW q \in PAWN..QUEEN, NEW r \in PAWN..QUEEN
  PROVE  /\ AddMaterial(k, c, p, -1) \in MaterialKeys
         /\ AddMaterial(AddMaterial(k, c, p, 1), d, q, -1) \in MaterialKeys
         /\ AddMaterial(AddMaterial(AddMaterial(k, c, p, 1), d, q, -1), e, r, -1) \in MaterialKeys
         /\ AddMaterial(AddMaterial(k, c, p, -1), c, p, 1) = k
         /\ AddMaterial(AddMaterial(AddMaterial(AddMaterial(AddMaterial(AddMaterial(
              k, c, p, 1), d, q, -1), e, r, -1), c, p, -1), d, q, 1), e, r, 1) = k
         /\ AddMaterial(AddMaterial(AddMaterial(AddMaterial(
              k, c, p, 1), d, q, -1), c, p, -1), d, q, 1) = k
<1>1. \A x, y \in Int, f \in Colors, s \in PAWN..QUEEN :
         /\ AddMaterial(Added(k, x, y), f, s, 1) = Added(k, x + Delta(f, s, 1, WHITE), y + Delta(f, s, 1, BLACK))
         /\ AddMaterial(Added(k, x, y), f, s, -1) = Added(k, x + Delta(f, s, -1, WHITE), y + Delta(f, s, -1, BLACK))
         /\ Added(k, x, y) \in MaterialKeys
         /\ Delta(f, s, 1, WHITE) \in Int /\ Delta(f, s, 1, BLACK) \in Int
         /\ Delta(f, s, -1, WHITE) = -Delta(f, s, 1, WHITE) /\ Delta(f, s, -1, BLACK) = -Delta(f, s, 1, BLACK)
  <2>1. \A x, y \in Int, f \in Colors, s \in PAWN..QUEEN : StepOf(k, x, y, f, s)
    BY MaterialSteps
  <2> QED BY <2>1 DEF StepOf
<1>2. Added(k, 0, 0) = k
  BY AddedTwice
<1>3. PICK a1 \in Int, b1 \in Int : a1 = Delta(c, p, 1, WHITE) /\ b1 = Delta(c, p, 1, BLACK)
  BY <1>1
<1>4. PICK a2 \in Int, b2 \in Int : a2 = Delta(d, q, 1, WHITE) /\ b2 = Delta(d, q, 1, BLACK)
  BY <1>1
<1>5. PICK a3 \in Int, b3 \in Int : a3 = Delta(e, r, 1, WHITE) /\ b3 = Delta(e, r, 1, BLACK)
  BY <1>1
<1>6. \A x, y \in Int :
         /\ x + a1 \in Int /\ x + a2 \in Int /\ x + a3 \in Int /\ y + b1 \in Int /\ y + b2 \in Int /\ y + b3 \in Int
         /\ x - a1 \in Int /\ x - a2 \in Int /\ x - a3 \in Int /\ y - b1 \in Int /\ y - b2 \in Int /\ y - b3 \in Int
         /\ AddMaterial(Added(k, x, y), c, p, 1) = Added(k, x + a1, y + b1)
         /\ AddMaterial(Added(k, x, y), c, p, -1) = Added(k, x - a1, y - b1)
         /\ AddMaterial(Added(k, x, y), d, q, 1) = Added(k, x + a2, y + b2)
         /\ AddMaterial(Added(k, x, y), d, q, -1) = Added(k, x - a2, y - b2)
         /\ AddMaterial(Added(k, x, y), e, r, 1) = Added(k, x + a3, y + b3)
         /\ AddMaterial(Added(k, x, y), e, r, -1) = Added(k, x - a3, y - b3)
         /\ Added(k, x, y) \in MaterialKeys
  <2> TAKE x \in Int, y \in Int
  <2>1. x + (-a1) = x - a1 /\ x + (-a2) = x - a2 /\ x + (-a3) = x - a3
        /\ y + (-b1) = y - b1 /\ y + (-b2) = y - b2 /\ y + (-b3) = y - b3
    OBVIOUS
  <2>2. /\ AddMaterial(Added(k, x, y), c, p, 1) = Added(k, x + a1, y + b1)
        /\ AddMaterial(Added(k, x, y), c, p, -1) = Added(k, x - a1, y - b1)
    BY <1>1, <1>3, <2>1
  <2>3. /\ AddMaterial(Added(k, x, y), d, q, 1) = Added(k, x + a2, y + b2)
        /\ AddMaterial(Added(k, x, y), d, q, -1) = Added(k, x - a2, y - b2)
    BY <1>1, <1>4, <2>1
  <2>4. /\ AddMaterial(Added(k, x, y), e, r, 1) = Added(k, x + a3, y + b3)
        /\ AddMaterial(Added(k, x, y), e, r, -1) = Added(k, x - a3, y - b3)
    BY <1>1, <1>5, <2>1
  <2>5. Added(k, x, y) \in MaterialKeys
    BY <1>1
  <2> QED BY <2>2, <2>3, <2>4, <2>5
<1>7. /\ AddMaterial(k, c, p, -1) = Added(k, 0 - a1, 0 - b1)
      /\ AddMaterial(k, c, p, 1) = Added(k, 0 + a1, 0 + b1)
  BY <1>2, <1>6
<1>8. /\ AddMaterial(k, c, p, -1) \in MaterialKeys
      /\ AddMaterial(AddMaterial(k, c, p, -1), c, p, 1) = k
  BY <1>2, <1>6, <1>7
<1>9. /\ AddMaterial(AddMaterial(k, c, p, 1), d, q, -1) \in MaterialKeys
      /\ AddMaterial(AddMaterial(AddMaterial(k, c, p, 1), d, q, -1), e, r, -1) \in MaterialKeys
      /\ AddMaterial(AddMaterial(AddMaterial(AddMaterial(AddMaterial(AddMaterial(
           k, c, p, 1), d, q, -1), e, r, -1), c, p, -1), d, q, 1), e, r, 1) = k
      /\ AddMaterial(AddMaterial(AddMaterial(AddMaterial(
           k, c, p, 1), d, q, -1), c, p, -1), d, q, 1) = k
  <2> DEFINE x1 == 0 + a1
             x2 == x1 - a2
             x3 == x2 - a3
             x4 == x3 - a1
             x5 == x4 + a2
             x6 == x5 + a3
             y1 == 0 + b1
             y2 == y1 - b2
             y3 == y2 - b3
             y4 == y3 - b1
             y5 == y4 + b2
             y6 == y5 + b3
             z4 == x2 - a1
             z5 == z4 + a2
             w4 == y2 - b1
             w5 == w4 + b2
  <2>1. x6 = 0 /\ y6 = 0 /\ z5 = 0 /\ w5 = 0
    OBVIOUS
  <2>2. /\ x1 \in Int /\ x2 \in Int /\ x3 \in Int /\ x4 \in Int /\ x5 \in Int /\ z4 \in Int
        /\ y1 \in Int /\ y2 \in Int /\ y3 \in Int /\ y4 \in Int /\ y5 \in Int /\ w4 \in Int
    OBVIOUS
  <2> HIDE DEF x1, y1
  <2>3. AddMaterial(AddMaterial(k, c, p, 1), d, q, -1) = Added(k, x2, y2)
    BY <1>6, <1>7, <2>2 DEF x1, y1
  <2> HIDE DEF x2, y2
  <2>4. AddMaterial(Added(k, x2, y2), e, r, -1) = Added(k, x3, y3)
    BY <1>6, <2>2
  <2>5. AddMaterial(Added(k, x2, y2), c, p, -1) = Added(k, z4, w4)
    BY <1>6, <2>2
  <2> HIDE DEF x3, y3, z4, w4
  <2>6. AddMaterial(Added(k, x3, y3), c, p, -1) = Added(k, x4, y4)
    BY <1>6, <2>2
  <2>7. AddMaterial(Added(k, z4, w4), d, q, 1) = Added(k, z5, w5)
    BY <1>6, <2>2
  <2> HIDE DEF x4, y4, z5, w5
  <2>8. AddMaterial(Added(k, x4, y4), d, q, 1) = Added(k, x5, y5)
    BY <1>6, <2>2
  <2> HIDE DEF x5, y5
  <2>9. AddMaterial(Added(k, x5, y5), e, r, 1) = Added(k, x6, y6)
    BY <1>6, <2>2
  <2> HIDE DEF x6, y6
  <2>10. Added(k, x2, y2) \in MaterialKeys /\ Added(k, x3, y3) \in MaterialKeys
    BY <1>6, <2>2
  <2> QED
    BY <1>2, <2>1, <2>3, <2>4, <2>5, <2>6, <2>7, <2>8, <2>9, <2>10
<1> QED BY <1>8, <1>9

-----------------------------------------------------------------------------
(***************************************************************************)
(* What an ordinary move changed, undoMove changes back.                   *)
(***************************************************************************)

\* what is used of the places after an ordinary move
OrdinaryPlaces(b, x, m) ==
  /\ x.colorToMove = Opponent(b.colorToMove)
  /\ Rearranged(b, x, {m.from} \cup Captured(b, m), [s \in {m.to} |-> Placed(m)])

\* undoMove empties the square that the move captured on.
LEMMA UndoneSquaresAre ==
  ASSUME NEW b, NEW x, NEW m, b.colorToMove \in Colors, x.colorToMove = Opponent(b.colorToMove)
  PROVE  UndoneSquares(x, m) = Captured(b, m)
  BY ColorsTwo DEF UndoneSquares, Captured, CaptureSquare

\* The pieces are back where they stood,
LEMMA PiecesBack ==
  ASSUME NEW b, PlacesTyped(b), WhoIsWhere(b), NEW m, OrdinaryFacts(b, m), NEW x, OrdinaryPlaces(b, x, m)
  PROVE  UndonePieces(x, m) = b.pieces
<1> DEFINE us == Opponent(x.colorToMove)
           them == x.colorToMove
           cs == CaptureSquare(b, m)
           taken == UndoneSquares(x, m)
<1>1. us \in Colors /\ them \in Colors /\ us # them /\ Colors = {us, them} /\ us = b.colorToMove /\ them = Opponent(b.colorToMove)
  BY ColorsTwo DEF PlacesTyped, OrdinaryPlaces
<1>2. /\ m.from \in Squares /\ m.to \in Squares /\ m.from # m.to
      /\ m.source \in PieceTypes
      /\ m.from \in b.pieces[us][m.source]
      /\ m.to \notin b.friendlyPieces[us]
      /\ m.attacked = EMPTY => m.to \notin b.allPieces
      /\ m.attacked # EMPTY => /\ m.attacked \in PieceTypes
                               /\ cs \in b.pieces[them][m.attacked]
                               /\ cs # m.from
      /\ is_promotion(m) => m.source = PAWN /\ m.type \in PieceTypes \ {PAWN, KING}
  BY <1>1 DEF OrdinaryFacts
<1>3. /\ x.colorToMove = them /\ x.pieces \in [Colors -> [PieceTypes -> SUBSET Squares]]
      /\ b.pieces \in [Colors -> [PieceTypes -> SUBSET Squares]]
  BY DEF OrdinaryPlaces, Rearranged, PlacesTyped, Men
<1>4. taken = Captured(b, m)
  BY <1>1, <1>3, UndoneSquaresAre
<1>5. \A c \in Colors, p \in PieceTypes, s \in Squares :
          s \in x.pieces[c][p] <=> \/ c = us /\ s = m.to /\ Placed(m) = p
                                   \/ s \in b.pieces[c][p] /\ s # m.from /\ ~(m.attacked # EMPTY /\ s = cs)
  BY <1>1 DEF Captured, OrdinaryPlaces, Rearranged
<1>6. \A d \in Colors, q \in PieceTypes : m.from \in b.pieces[d][q] => d = us /\ q = m.source
  BY <1>1, <1>2, FriendIs
<1>7. m.attacked # EMPTY => /\ cs \in Squares
                            /\ \A d \in Colors, q \in PieceTypes : cs \in b.pieces[d][q] => d = them /\ q = m.attacked
  BY <1>1, <1>2, FriendIs
<1>8. \A q \in PieceTypes : m.to \notin b.pieces[us][q]
  BY <1>1, <1>2 DEF WhoIsWhere
<1>9. PAWN \in PieceTypes /\ Placed(m) \in PieceTypes
      /\ (~is_promotion(m) => Placed(m) = m.source)
      /\ (is_promotion(m) => Placed(m) = m.type /\ m.source = PAWN /\ m.type # PAWN /\ m.type \in PieceTypes)
  BY PlacedIs DEF PAWN, PieceTypes, KING
<1> DEFINE moved == [x.pieces EXCEPT ![us][m.source] = @ (+) ({m.from} (+) {m.to})]
           placed == IF is_promotion(m)
                THEN [moved EXCEPT ![us][PAWN] = @ (+) {m.to}, ![us][m.type] = @ (+) {m.to}]
                ELSE moved
           after == IF m.attacked = EMPTY THEN placed
                    ELSE [placed EXCEPT ![them][m.attacked] = @ \cup taken]
<1>10. UndonePieces(x, m) = after
  BY Zenon DEF UndonePieces
<1> HIDE DEF us, them, cs, taken
<1>11. moved \in [Colors -> [PieceTypes -> SUBSET Squares]]
       /\ \A c \in Colors, p \in PieceTypes : \A s : s \in moved[c][p] <=>
             IF c = us /\ p = m.source THEN (s \in x.pieces[c][p]) # (s = m.from \/ s = m.to) ELSE s \in x.pieces[c][p]
  BY <1>1, <1>2, <1>3 DEF (+)
<1> HIDE DEF moved
<1>12. placed \in [Colors -> [PieceTypes -> SUBSET Squares]]
       /\ \A c \in Colors, p \in PieceTypes, s \in Squares : s \in placed[c][p] <=>
             s \in b.pieces[c][p] /\ ~(m.attacked # EMPTY /\ s = cs)
  <2>1. CASE ~is_promotion(m)
    <3>1. placed = moved /\ Placed(m) = m.source
      BY <2>1, <1>9
    <3>2. \A c \in Colors, p \in PieceTypes, s \in Squares : s \in moved[c][p] <=>
             s \in b.pieces[c][p] /\ ~(m.attacked # EMPTY /\ s = cs)
      <4> SUFFICES ASSUME NEW c \in Colors, NEW p \in PieceTypes, NEW s \in Squares
                   PROVE  s \in moved[c][p] <=> s \in b.pieces[c][p] /\ ~(m.attacked # EMPTY /\ s = cs)
        OBVIOUS
      <4>1. CASE c = us /\ p = m.source
        BY <4>1, <3>1, <1>2, <1>5, <1>8, <1>11, <1>7, <1>1
      <4>2. CASE ~(c = us /\ p = m.source)
        BY <4>2, <3>1, <1>5, <1>6, <1>11
      <4> QED BY <4>1, <4>2
    <3> QED BY <3>1, <3>2, <1>11
  <2>2. CASE is_promotion(m)
    <3>1. m.source = PAWN /\ m.type \in PieceTypes /\ m.type # PAWN /\ Placed(m) = m.type
      BY <2>2, <1>9
    <3>2. placed = [moved EXCEPT ![us][PAWN] = @ (+) {m.to}, ![us][m.type] = @ (+) {m.to}]
      BY <2>2
    <3> HIDE DEF placed
    <3>3. placed \in [Colors -> [PieceTypes -> SUBSET Squares]]
          /\ \A c \in Colors, p \in PieceTypes : \A s : s \in placed[c][p] <=>
               IF c = us /\ (p = PAWN \/ p = m.type) THEN (s \in moved[c][p]) # (s = m.to)
               ELSE s \in moved[c][p]
      <4>1. PICK t : t = [moved EXCEPT ![us][PAWN] = @ (+) {m.to}]
        OBVIOUS
      <4>2. t \in [Colors -> [PieceTypes -> SUBSET Squares]]
            /\ \A c \in Colors, p \in PieceTypes : \A s : s \in t[c][p] <=>
               IF c = us /\ p = PAWN THEN (s \in moved[c][p]) # (s = m.to) ELSE s \in moved[c][p]
        BY <4>1, <1>1, <1>2, <1>9, <1>11 DEF (+)
      <4>3. placed = [t EXCEPT ![us][m.type] = @ (+) {m.to}]
        BY <3>1, <3>2, <4>1, <1>1, <1>9, <1>11
      <4>4. placed \in [Colors -> [PieceTypes -> SUBSET Squares]]
            /\ \A c \in Colors, p \in PieceTypes : \A s : s \in placed[c][p] <=>
               IF c = us /\ p = m.type THEN (s \in t[c][p]) # (s = m.to) ELSE s \in t[c][p]
        BY <4>2, <4>3, <1>1, <1>2, <3>1 DEF (+)
      <4> QED BY <4>2, <4>4, <3>1
    <3>4. \A c \in Colors, p \in PieceTypes, s \in Squares : s \in placed[c][p] <=>
             s \in b.pieces[c][p] /\ ~(m.attacked # EMPTY /\ s = cs)
      <4> SUFFICES ASSUME NEW c \in Colors, NEW p \in PieceTypes, NEW s \in Squares
                   PROVE  s \in placed[c][p] <=> s \in b.pieces[c][p] /\ ~(m.attacked # EMPTY /\ s = cs)
        OBVIOUS
      <4>1. CASE c = us /\ p = PAWN
        BY <4>1, <3>1, <3>3, <1>1, <1>2, <1>5, <1>7, <1>8, <1>11
      <4>2. CASE c = us /\ p = m.type
        BY <4>2, <3>1, <3>3, <1>2, <1>5, <1>6, <1>8, <1>11
      <4>3. CASE ~(c = us /\ (p = PAWN \/ p = m.type))
        BY <4>3, <3>1, <3>3, <1>5, <1>6, <1>11
      <4> QED BY <4>1, <4>2, <4>3
    <3> QED BY <3>3, <3>4
  <2> QED BY <2>1, <2>2
<1> HIDE DEF placed
<1>13. after \in [Colors -> [PieceTypes -> SUBSET Squares]]
       /\ \A c \in Colors, p \in PieceTypes, s \in Squares : s \in after[c][p] <=> s \in b.pieces[c][p]
  <2>1. CASE m.attacked = EMPTY
    BY <2>1, <1>12
  <2>2. CASE m.attacked # EMPTY
    <3>1. after = [placed EXCEPT ![them][m.attacked] = @ \cup {cs}]
      BY <2>2, <1>4 DEF Captured, cs
    <3> HIDE DEF after
    <3>2. after \in [Colors -> [PieceTypes -> SUBSET Squares]]
          /\ \A c \in Colors, p \in PieceTypes : \A s : s \in after[c][p] <=>
               s \in placed[c][p] \/ (c = them /\ p = m.attacked /\ s = cs)
      BY <3>1, <2>2, <1>1, <1>2, <1>7, <1>12
    <3> QED BY <3>2, <2>2, <1>2, <1>7, <1>12
  <2> QED BY <2>1, <2>2
<1> HIDE DEF after
<1>14. \A c \in Colors, p \in PieceTypes : after[c][p] = b.pieces[c][p]
  BY <1>3, <1>13
<1>15. after = b.pieces
  BY <1>3, <1>13, <1>14
<1> QED BY <1>10, <1>15

\* as are the squares of both sides,
LEMMA FriendlyBack ==
  ASSUME NEW b, PlacesTyped(b), WhoIsWhere(b), NEW m, OrdinaryFacts(b, m), NEW x, OrdinaryPlaces(b, x, m)
  PROVE  UndoneFriendly(x, m) = b.friendlyPieces
<1> DEFINE us == Opponent(x.colorToMove)
           them == x.colorToMove
           cs == CaptureSquare(b, m)
           taken == UndoneSquares(x, m)
<1>1. us \in Colors /\ them \in Colors /\ us # them /\ Colors = {us, them} /\ us = b.colorToMove /\ them = Opponent(b.colorToMove)
  BY ColorsTwo DEF PlacesTyped, OrdinaryPlaces
<1>2. /\ m.from \in Squares /\ m.to \in Squares /\ m.from # m.to
      /\ m.source \in PieceTypes
      /\ m.from \in b.pieces[us][m.source]
      /\ m.to \notin b.friendlyPieces[us]
      /\ m.attacked = EMPTY => m.to \notin b.allPieces
      /\ m.attacked # EMPTY => /\ m.attacked \in PieceTypes
                               /\ cs \in b.pieces[them][m.attacked]
                               /\ cs # m.from
  BY <1>1 DEF OrdinaryFacts
<1>3. /\ x.friendlyPieces \in [Colors -> SUBSET Squares]
      /\ b.friendlyPieces \in [Colors -> SUBSET Squares]
  BY DEF OrdinaryPlaces, Rearranged, PlacesTyped
<1>4. taken = Captured(b, m)
  BY <1>1, UndoneSquaresAre
<1>5. \A s : s \in taken <=> m.attacked # EMPTY /\ s = cs
  BY <1>4 DEF Captured
<1>6. \A c \in Colors, s \in Squares :
          s \in x.friendlyPieces[c] <=> \/ c = us /\ s = m.to
                                        \/ s \in b.friendlyPieces[c] /\ s # m.from /\ s \notin taken
  BY <1>1, <1>4 DEF OrdinaryPlaces, Rearranged
<1>7. m.from \in b.friendlyPieces[us] /\ m.from \notin b.friendlyPieces[them]
  BY <1>1, <1>2, FriendIs
<1>8. m.attacked # EMPTY => cs \in Squares /\ cs \in b.friendlyPieces[them] /\ cs \notin b.friendlyPieces[us]
  BY <1>1, <1>2, FriendIs, ColorsTwo
<1>9. UndoneFriendly(x, m) = [x.friendlyPieces EXCEPT ![us] = @ (+) ({m.from} (+) {m.to}), ![them] = @ \cup taken]
  BY Zenon DEF UndoneFriendly
<1> HIDE DEF us, them, cs, taken
<1>10. PICK t : t = [x.friendlyPieces EXCEPT ![us] = @ (+) ({m.from} (+) {m.to})]
  OBVIOUS
<1>11. t \in [Colors -> SUBSET Squares]
       /\ \A c \in Colors : \A s : s \in t[c] <=>
            IF c = us THEN (s \in x.friendlyPieces[c]) # (s = m.from \/ s = m.to) ELSE s \in x.friendlyPieces[c]
  BY <1>1, <1>2, <1>3, <1>10 DEF (+)
<1>12. PICK u : u = [t EXCEPT ![them] = @ \cup taken]
  OBVIOUS
<1>13. u \in [Colors -> SUBSET Squares]
       /\ \A c \in Colors : \A s : s \in u[c] <=> s \in t[c] \/ (c = them /\ s \in taken)
  BY <1>1, <1>5, <1>8, <1>11, <1>12
<1>14. UndoneFriendly(x, m) = u
  BY <1>1, <1>3, <1>9, <1>10, <1>12
<1>15. \A c \in Colors, s \in Squares : s \in u[c] <=> s \in b.friendlyPieces[c]
  <2> SUFFICES ASSUME NEW c \in Colors, NEW s \in Squares PROVE s \in u[c] <=> s \in b.friendlyPieces[c]
    OBVIOUS
  <2>1. CASE c = us
    BY <2>1, <1>1, <1>2, <1>5, <1>6, <1>7, <1>8, <1>11, <1>13
  <2>2. CASE c = them
    BY <2>2, <1>1, <1>2, <1>5, <1>6, <1>7, <1>8, <1>11, <1>13
  <2> QED BY <2>1, <2>2, <1>1
<1>16. \A c \in Colors : u[c] = b.friendlyPieces[c]
  BY <1>3, <1>13, <1>15
<1> QED
  BY <1>3, <1>13, <1>14, <1>16

\* and the kind of piece on every square.
LEMMA IndexesBack ==
  ASSUME NEW b, PlacesTyped(b), WhoIsWhere(b), NEW m, OrdinaryFacts(b, m), NEW x, OrdinaryPlaces(b, x, m)
  PROVE  UndoneIndexes(x, m) = b.pieceIndexes
<1> DEFINE us == b.colorToMove
           them == Opponent(us)
           cs == CaptureSquare(b, m)
           taken == UndoneSquares(x, m)
<1>1. us \in Colors /\ them \in Colors /\ us # them
  BY ColorsTwo DEF PlacesTyped, OrdinaryPlaces
<1>2. /\ m.from \in Squares /\ m.to \in Squares /\ m.from # m.to
      /\ m.source \in PieceTypes
      /\ m.from \in b.pieces[us][m.source]
      /\ m.attacked = EMPTY => m.to \notin b.allPieces
      /\ m.attacked # EMPTY => /\ m.attacked \in PieceTypes
                               /\ cs \in b.pieces[them][m.attacked]
                               /\ cs # m.from
                               /\ cs # m.to => m.to \notin b.allPieces
  BY <1>1 DEF OrdinaryFacts
<1>3. taken = Captured(b, m)
  BY <1>1, UndoneSquaresAre DEF OrdinaryPlaces
<1>4. \A s : s \in taken <=> m.attacked # EMPTY /\ s = cs
  BY <1>3 DEF Captured
<1>5. b.pieceIndexes \in [Squares -> EMPTY..KING]
  BY DEF PlacesTyped
<1>6. \A s \in Squares : s # m.to /\ s # m.from /\ s \notin taken => x.pieceIndexes[s] = b.pieceIndexes[s]
  BY <1>3 DEF OrdinaryPlaces, Rearranged
<1>7. b.pieceIndexes[m.from] = m.source
  BY <1>1, <1>2, FriendIs
<1>8. m.attacked # EMPTY => cs \in Squares /\ b.pieceIndexes[cs] = m.attacked
  BY <1>1, <1>2, FriendIs
<1>9. m.to \notin b.allPieces => b.pieceIndexes[m.to] = EMPTY
  BY <1>2 DEF WhoIsWhere
<1>10. UndoneIndexes(x, m) =
         [s \in Squares |-> IF s \in taken THEN m.attacked ELSE IF s = m.from THEN m.source ELSE IF s = m.to THEN EMPTY ELSE x.pieceIndexes[s]]
  BY Zenon DEF UndoneIndexes
<1> HIDE DEF us, them, cs, taken
<1>11. \A s \in Squares : (IF s \in taken THEN m.attacked ELSE IF s = m.from THEN m.source ELSE IF s = m.to THEN EMPTY ELSE x.pieceIndexes[s]) = b.pieceIndexes[s]
  <2> SUFFICES ASSUME NEW s \in Squares
               PROVE (IF s \in taken THEN m.attacked ELSE IF s = m.from THEN m.source ELSE IF s = m.to THEN EMPTY ELSE x.pieceIndexes[s]) = b.pieceIndexes[s]
    OBVIOUS
  <2>1. CASE s \in taken
    BY <2>1, <1>2, <1>4, <1>8
  <2>2. CASE s = m.from /\ s \notin taken
    BY <2>2, <1>2, <1>7
  <2>3. CASE s = m.to /\ s \notin taken
    BY <2>3, <1>2, <1>4, <1>9
  <2>4. CASE s # m.to /\ s # m.from /\ s \notin taken
    BY <2>4, <1>6
  <2> QED BY <2>1, <2>2, <2>3, <2>4
<1> QED
  BY <1>5, <1>10, <1>11

\* What is xored in twice is gone.
LEMMA XorTwice ==
  ASSUME NEW k, NEW a, NEW c, NEW d
  PROVE  /\ (k (+) a) (+) a = k
         /\ (k (+) (a (+) c (+) d)) (+) a (+) c (+) d = k
  BY DEF (+)

\* The key of the pawns is back.
LEMMA PawnKeyBack ==
  ASSUME NEW b, b.colorToMove \in Colors, NEW m, NEW x, x.colorToMove = Opponent(b.colorToMove),
         x.pawnZobristKey = b.pawnZobristKey (+) PawnKeyChange(b, m), EMPTY # PAWN
  PROVE  UndonePawnKey(x, m) = b.pawnZobristKey
<1> DEFINE us == Opponent(x.colorToMove)
           k1 == IF m.source = PAWN THEN PieceKey(m.from, us, PAWN) ELSE {}
           k2 == IF m.source = PAWN /\ ~is_promotion(m) THEN PieceKey(m.to, us, PAWN) ELSE {}
           k3 == IF m.attacked = PAWN THEN UNION {PieceKey(s, x.colorToMove, PAWN) : s \in UndoneSquares(x, m)} ELSE {}
<1>1. us = b.colorToMove /\ x.colorToMove = Opponent(b.colorToMove)
  BY ColorsTwo
<1>2. m.attacked = PAWN => UndoneSquares(x, m) = {CaptureSquare(b, m)}
  BY UndoneSquaresAre DEF Captured
<1>3. k3 = IF m.attacked = PAWN THEN PieceKey(CaptureSquare(b, m), Opponent(b.colorToMove), PAWN) ELSE {}
  BY <1>1, <1>2
<1>4. PawnKeyChange(b, m) = k1 (+) k2 (+) k3
  <2> HIDE DEF k3
  <2> QED BY <1>1, <1>3 DEF PawnKeyChange
<1>5. UndonePawnKey(x, m) = x.pawnZobristKey (+) k1 (+) k2 (+) k3
  BY Zenon DEF UndonePawnKey
<1> HIDE DEF k1, k2, k3
<1> QED
  BY <1>4, <1>5, XorTwice

\* The material factors are back.
LEMMA FactorBack ==
  ASSUME NEW b, b.colorToMove \in Colors, b.material_factor \in [Colors -> Int],
         NEW m, m.attacked \in EMPTY..KING, is_promotion(m) => m.type \in EMPTY..KING,
         NEW x, x.colorToMove = Opponent(b.colorToMove), x.material_factor = FactorAfter(b, m)
  PROVE  UndoneFactor(x, m) = b.material_factor
<1> DEFINE us == Opponent(x.colorToMove)
           them == x.colorToMove
           up == IF is_promotion(m) THEN PHASE[m.type] ELSE 0
           down == PHASE[m.attacked]
<1>1. us = b.colorToMove /\ them = Opponent(b.colorToMove) /\ us \in Colors /\ them \in Colors /\ us # them /\ Colors = {us, them}
  BY ColorsTwo
<1>2. \A p \in EMPTY..KING : PHASE[p] \in Int
  BY DEF PHASE
<1>3. up \in Int /\ down \in Int
  BY <1>2
<1>4. UndoneFactor(x, m) = [x.material_factor EXCEPT ![us] = @ - up, ![them] = @ + down]
  BY Zenon DEF UndoneFactor
<1>5. x.material_factor = [b.material_factor EXCEPT ![us] = @ + up, ![them] = @ - down]
  BY <1>1 DEF FactorAfter
<1> HIDE DEF us, them, up, down
<1> QED
  BY <1>1, <1>3, <1>4, <1>5

-----------------------------------------------------------------------------
(***************************************************************************)
(* A move taken back gives the same board.                                 *)
(***************************************************************************)

IsSequence(s) == s \in Seq({s[i] : i \in DOMAIN s})

\* What was appended to a sequence is taken off again.
LEMMA AppendedBack ==
  ASSUME NEW s, IsSequence(s), NEW e
  PROVE  /\ IsSequence(Append(s, e))
         /\ Len(Append(s, e)) = Len(s) + 1 /\ Len(s) \in Nat
         /\ Append(s, e)[Len(s) + 1] = e
         /\ \A i \in 1..Len(s) : Append(s, e)[i] = s[i]
         /\ SubSeq(Append(s, e), 1, Len(s) + 1 - 1) = s
<1> DEFINE S == {s[i] : i \in DOMAIN s} \cup {e}
           t == Append(s, e)
<1>1. s \in Seq(S) /\ e \in S
  BY DEF IsSequence
<1> HIDE DEF S
<1>2. /\ t \in Seq(S) /\ Len(t) = Len(s) + 1 /\ Len(s) \in Nat /\ t[Len(s) + 1] = e
      /\ \A i \in 1..Len(s) : t[i] = s[i]
  BY <1>1
<1>3. SubSeq(t, 1, Len(s) + 1 - 1) = s
  BY <1>2, <1>1
<1>4. IsSequence(t)
  <2> HIDE DEF t
  <2>1. t = [i \in 1..Len(t) |-> t[i]] /\ Len(t) \in Nat /\ DOMAIN t = 1..Len(t)
    BY <1>2
  <2> DEFINE T == {t[i] : i \in DOMAIN t}
  <2>2. \A i \in 1..Len(t) : t[i] \in T
    BY <2>1
  <2> HIDE DEF T
  <2>3. t \in Seq(T)
    BY <2>1, <2>2
  <2> QED BY <2>3 DEF IsSequence, T
<1> QED BY <1>2, <1>3, <1>4

\* two boards that differ at most in the pins
ExceptPins(x, z) ==
  /\ IsBoard(x) /\ IsBoard(z)
  /\ x.pieces = z.pieces /\ x.friendlyPieces = z.friendlyPieces
  /\ x.allPieces = z.allPieces /\ x.pieceIndexes = z.pieceIndexes
  /\ x.kingIndex = z.kingIndex /\ x.colorToMove = z.colorToMove
  /\ x.epIndex = z.epIndex /\ x.castlingRights = z.castlingRights
  /\ x.castlingConfig = z.castlingConfig /\ x.materialKey = z.materialKey
  /\ x.material_factor = z.material_factor /\ x.zobristKey = z.zobristKey
  /\ x.pawnZobristKey = z.pawnZobristKey /\ x.checkingPieces = z.checkingPieces
  /\ x.lastCaptureOrPawnMoveBefore = z.lastCaptureOrPawnMoveBefore
  /\ x.history = z.history /\ x.playedBoardStates = z.playedBoardStates

\* what is kept of a board in a state of the search
Kept(b) ==
  /\ IsBoard(b) /\ PlacesTyped(b) /\ WhoIsWhere(b) /\ KingsAre(b)
  /\ b.kingIndex \in [Colors -> Squares]
  /\ b.materialKey \in MaterialKeys /\ b.material_factor \in [Colors -> Int]
  /\ IsSequence(b.history)

\* what a move leaves in the history and the table
Recorded(b, m, z) ==
  /\ z.history = Append(b.history, Entry(b, m))
  /\ z.castlingConfig = b.castlingConfig
  /\ dec(z.playedBoardStates, z.zobristKey) = b.playedBoardStates

RecordRestored(b, y) ==
  /\ IsBoard(y) /\ y.history = b.history
  /\ y.castlingRights = b.castlingRights /\ y.epIndex = b.epIndex
  /\ y.zobristKey = b.zobristKey /\ y.checkingPieces = b.checkingPieces
  /\ y.pinnedPieces = b.pinnedPieces /\ y.discoveredPieces = b.discoveredPieces
  /\ y.lastCaptureOrPawnMoveBefore = b.lastCaptureOrPawnMoveBefore
  /\ y.pinnedPiecesDirty = b.pinnedPiecesDirty
  /\ y.playedBoardStates = b.playedBoardStates
  /\ y.castlingConfig = b.castlingConfig

\* The fields kept in the history, and the table of repetitions, are back.
LEMMA RecordBack ==
  ASSUME NEW b, IsSequence(b.history), b.pinnedPiecesDirty = FALSE, NEW m, NEW z, Recorded(b, m, z),
         NEW x, ExceptPins(x, z), NEW y, PoppedResult(x, y)
  PROVE  RecordRestored(b, y)
<1> DEFINE e == Entry(b, m)
<1>1. x.history = Append(b.history, e) /\ x.castlingConfig = b.castlingConfig
      /\ dec(x.playedBoardStates, x.zobristKey) = b.playedBoardStates
  BY DEF Recorded, ExceptPins
<1>2. /\ e.castlingRights = b.castlingRights /\ e.epIndex = b.epIndex
      /\ e.zobristKey = b.zobristKey /\ e.checkingPieces = b.checkingPieces
      /\ e.pinnedPieces = b.pinnedPieces /\ e.discoveredPieces = b.discoveredPieces
      /\ e.lastCaptureOrPawnMoveBefore = b.lastCaptureOrPawnMoveBefore
  BY DEF Entry
<1> HIDE DEF e
<1>3. Len(x.history) = Len(b.history) + 1 /\ x.history[Len(x.history)] = e
      /\ SubSeq(x.history, 1, Len(x.history) - 1) = b.history
  BY <1>1, AppendedBack
<1> QED
  BY <1>1, <1>2, <1>3 DEF PoppedResult, RecordRestored

\* Boards with equal fields are equal.
LEMMA SameFields ==
  ASSUME NEW b, IsBoard(b), NEW y, IsBoard(y),
         y.pieces = b.pieces /\ y.friendlyPieces = b.friendlyPieces,
         y.allPieces = b.allPieces /\ y.pieceIndexes = b.pieceIndexes,
         y.kingIndex = b.kingIndex /\ y.colorToMove = b.colorToMove,
         y.epIndex = b.epIndex /\ y.castlingRights = b.castlingRights,
         y.castlingConfig = b.castlingConfig /\ y.materialKey = b.materialKey,
         y.material_factor = b.material_factor /\ y.zobristKey = b.zobristKey,
         y.pawnZobristKey = b.pawnZobristKey /\ y.checkingPieces = b.checkingPieces,
         y.pinnedPieces = b.pinnedPieces /\ y.discoveredPieces = b.discoveredPieces,
         y.pinnedPiecesDirty = b.pinnedPiecesDirty,
         y.lastCaptureOrPawnMoveBefore = b.lastCaptureOrPawnMoveBefore,
         y.history = b.history /\ y.playedBoardStates = b.playedBoardStates
  PROVE  y = b
  BY DEF IsBoard

\* The material key is back.
LEMMA MaterialUndone ==
  ASSUME NEW b, b.colorToMove \in Colors, b.materialKey \in MaterialKeys, NEW m, OrdinaryFacts(b, m),
         NEW x, x.colorToMove = Opponent(b.colorToMove), x.materialKey = MaterialAfter(b, m)
  PROVE  UndoneMaterial(x, m) = b.materialKey
<1> DEFINE us == b.colorToMove
           them == Opponent(us)
           k == b.materialKey
<1>1. us \in Colors /\ them \in Colors /\ Opponent(x.colorToMove) = us /\ x.colorToMove = them
  BY ColorsTwo
<1>2. /\ m.attacked # EMPTY => m.attacked \in PAWN..QUEEN
      /\ is_promotion(m) => m.type \in PAWN..QUEEN
      /\ PAWN \in PAWN..QUEEN
  BY DEF OrdinaryFacts, EMPTY, PAWN, QUEEN, PieceTypes, KING
<1>3. UndoneMaterial(x, m) =
        LET demoted == IF is_promotion(m)
                 THEN AddMaterial(AddMaterial(x.materialKey, us, m.type, -1), us, PAWN, 1)
                 ELSE x.materialKey
        IN IF m.attacked = EMPTY THEN demoted ELSE AddMaterial(demoted, them, m.attacked, 1)
  BY <1>1 DEF UndoneMaterial
<1>4. x.materialKey =
        LET promoted == IF is_promotion(m)
                  THEN AddMaterial(AddMaterial(k, us, m.type, 1), us, PAWN, -1)
                  ELSE k
        IN IF m.attacked = EMPTY THEN promoted ELSE AddMaterial(promoted, them, m.attacked, -1)
  BY DEF MaterialAfter
<1> HIDE DEF us, them, k
<1>5. k \in MaterialKeys
  BY DEF k
<1>6. CASE m.attacked = EMPTY /\ ~is_promotion(m)
  BY <1>3, <1>4, <1>6 DEF k
<1>7. CASE m.attacked # EMPTY /\ ~is_promotion(m)
  BY <1>1, <1>2, <1>5, <1>7, MaterialBack, <1>3, <1>4 DEF k
<1>8. CASE m.attacked = EMPTY /\ is_promotion(m)
  BY <1>1, <1>2, <1>5, <1>8, MaterialBack, <1>3, <1>4 DEF k
<1>9. CASE m.attacked # EMPTY /\ is_promotion(m)
  BY <1>1, <1>2, <1>5, <1>9, MaterialBack, <1>3, <1>4 DEF k
<1> QED BY <1>6, <1>7, <1>8, <1>9

\* an ordinary move taken back
LEMMA OrdinaryUndone ==
  ASSUME NEW b, Kept(b), b.pinnedPiecesDirty = FALSE, NEW m, OrdinaryFacts(b, m),
         NEW z, z = DoOrdinaryMove(b, m), dec(z.playedBoardStates, z.zobristKey) = b.playedBoardStates,
         NEW x, ExceptPins(x, z)
  PROVE  UndoOrdinaryMove(x, m) = b
<1>1. PICK y : y = UndoOrdinaryMove(x, m)
  OBVIOUS
<1>2. /\ IsBoard(b) /\ PlacesTyped(b) /\ WhoIsWhere(b) /\ KingsAre(b)
      /\ b.kingIndex \in [Colors -> Squares]
      /\ b.materialKey \in MaterialKeys /\ b.material_factor \in [Colors -> Int]
      /\ IsSequence(b.history) /\ b.colorToMove \in Colors
  BY DEF Kept, PlacesTyped
<1>3. OrdinaryResult(b, m, z)
  BY <1>2, OrdinaryFields, Zenon
<1>4. /\ z.history = Append(b.history, Entry(b, m))
      /\ z.kingIndex = [b.kingIndex EXCEPT ![b.colorToMove] = IF m.source = KING THEN m.to ELSE @]
      /\ z.colorToMove = Opponent(b.colorToMove)
      /\ z.castlingConfig = b.castlingConfig /\ z.materialKey = MaterialAfter(b, m)
      /\ z.material_factor = FactorAfter(b, m)
      /\ z.pawnZobristKey = b.pawnZobristKey (+) PawnKeyChange(b, m)
  BY <1>3, Zenon DEF OrdinaryResult
<1>5. Rearranged(b, z, {m.from} \cup Captured(b, m), [s \in {m.to} |-> Placed(m)])
  BY <1>2, OrdinaryRearranges, Zenon
<1>6. IsBoard(x) /\ IsBoard(z)
  BY DEF ExceptPins
<1>7. /\ x.kingIndex = [b.kingIndex EXCEPT ![b.colorToMove] = IF m.source = KING THEN m.to ELSE @]
      /\ x.colorToMove = Opponent(b.colorToMove)
      /\ x.materialKey = MaterialAfter(b, m)
      /\ x.material_factor = FactorAfter(b, m)
      /\ x.pawnZobristKey = b.pawnZobristKey (+) PawnKeyChange(b, m)
  BY <1>4 DEF ExceptPins
<1>8. OrdinaryPlaces(b, x, m)
  BY <1>5, <1>7 DEF OrdinaryPlaces, Rearranged, ExceptPins
<1>9. Recorded(b, m, z)
  BY <1>4 DEF Recorded
<1>10. m.attacked \in EMPTY..KING /\ (is_promotion(m) => m.type \in EMPTY..KING) /\ EMPTY # PAWN
  BY DEF OrdinaryFacts, EMPTY, PAWN, QUEEN, PieceTypes, KING
<1>11. x.material_factor \in [Colors -> Int] /\ x.colorToMove \in Colors
  <2>1. \A p \in EMPTY..KING : PHASE[p] \in Int
    BY DEF PHASE
  <2> DEFINE up == IF is_promotion(m) THEN PHASE[m.type] ELSE 0
             down == PHASE[m.attacked]
  <2>2. up \in Int /\ down \in Int
    BY <1>10, <2>1
  <2>3. x.material_factor = [b.material_factor EXCEPT ![b.colorToMove] = @ + up, ![Opponent(b.colorToMove)] = @ - down]
    BY <1>7 DEF FactorAfter
  <2> HIDE DEF up, down
  <2>4. Opponent(b.colorToMove) \in Colors
    BY <1>2, ColorsTwo
  <2> QED BY <1>2, <1>7, <2>2, <2>3, <2>4
<1>12. UndoneResult(x, m, y)
  BY <1>1, <1>6, <1>11, UndoneFields
<1>13. Opponent(x.colorToMove) = b.colorToMove
  BY <1>2, <1>7, ColorsTwo
<1>14. /\ PoppedResult(x, y)
       /\ y.pieces = UndonePieces(x, m) /\ y.friendlyPieces = UndoneFriendly(x, m)
       /\ y.allPieces = UndoneFriendly(x, m)[WHITE] \cup UndoneFriendly(x, m)[BLACK]
       /\ y.pieceIndexes = UndoneIndexes(x, m)
       /\ y.kingIndex = [x.kingIndex EXCEPT ![b.colorToMove] = IF m.source = KING THEN m.from ELSE @]
       /\ y.colorToMove = b.colorToMove
       /\ y.materialKey = UndoneMaterial(x, m)
       /\ y.material_factor = UndoneFactor(x, m)
       /\ y.pawnZobristKey = UndonePawnKey(x, m)
  BY <1>12, <1>13 DEF UndoneResult
<1>15. y.pieces = b.pieces /\ y.friendlyPieces = b.friendlyPieces /\ y.pieceIndexes = b.pieceIndexes
  <2>1. y.pieces = b.pieces
    BY <1>2, <1>8, <1>14, PiecesBack, Zenon
  <2>2. y.friendlyPieces = b.friendlyPieces
    BY <1>2, <1>8, <1>14, FriendlyBack, Zenon
  <2>3. y.pieceIndexes = b.pieceIndexes
    BY <1>2, <1>8, <1>14, IndexesBack, Zenon
  <2> QED BY <2>1, <2>2, <2>3
<1>16. y.allPieces = b.allPieces
  BY <1>2, <1>8, <1>14, FriendlyBack DEF WhoIsWhere
<1>17. y.kingIndex = b.kingIndex
  BY <1>2, <1>7, <1>14 DEF KingsAre, OrdinaryFacts
<1>18. y.materialKey = b.materialKey
  BY <1>2, <1>7, <1>14, MaterialUndone
<1>19. y.material_factor = b.material_factor
  BY <1>2, <1>7, <1>10, <1>14, FactorBack
<1>20. y.pawnZobristKey = b.pawnZobristKey
  BY <1>2, <1>7, <1>10, <1>14, PawnKeyBack
<1>21. /\ IsBoard(y) /\ y.history = b.history
       /\ y.castlingRights = b.castlingRights /\ y.epIndex = b.epIndex
       /\ y.zobristKey = b.zobristKey /\ y.checkingPieces = b.checkingPieces
       /\ y.pinnedPieces = b.pinnedPieces /\ y.discoveredPieces = b.discoveredPieces
       /\ y.lastCaptureOrPawnMoveBefore = b.lastCaptureOrPawnMoveBefore
       /\ y.pinnedPiecesDirty = b.pinnedPiecesDirty
       /\ y.playedBoardStates = b.playedBoardStates
       /\ y.castlingConfig = b.castlingConfig
  <2>1. RecordRestored(b, y)
    BY <1>2, <1>9, <1>14, RecordBack
  <2> QED BY <2>1, Zenon DEF RecordRestored
<1>22. y = b
  BY <1>2, <1>14, <1>15, <1>16, <1>17, <1>18, <1>19, <1>20, <1>21, SameFields
<1> QED BY <1>1, <1>22

\* castling taken back
LEMMA CastlingUndone ==
  ASSUME NEW b, Kept(b), b.pinnedPiecesDirty = FALSE, NEW m, CastlingFacts(b, m),
         NEW z, z = doCastling960(b, m), dec(z.playedBoardStates, z.zobristKey) = b.playedBoardStates,
         NEW x, ExceptPins(x, z)
  PROVE  undoCastling960(x, m) = b
<1> DEFINE us == b.colorToMove
           them == Opponent(us)
           rf == CastledSquares(b, m).rookFrom
           rt == CastledSquares(b, m).rookTo
           gone == {m.from, rf}
           put == [s \in {m.to, rt} |-> IF s = m.to THEN KING ELSE ROOK]
           king == CastledSquares(b, m).king
           rook == CastledSquares(b, m).rook
<1>1. PICK y : y = undoCastling960(x, m)
  OBVIOUS
<1>2. /\ IsBoard(b) /\ PlacesTyped(b) /\ WhoIsWhere(b) /\ KingsAre(b)
      /\ b.kingIndex \in [Colors -> Squares]
      /\ IsSequence(b.history) /\ us \in Colors /\ b.pieces \in Men
  BY DEF Kept, PlacesTyped
<1>3. CastlingResult(b, m, z)
  BY <1>2, CastlingFields, Zenon
<1>4. /\ z.history = Append(b.history, Entry(b, m))
      /\ z.kingIndex = [b.kingIndex EXCEPT ![us] = m.to]
      /\ z.colorToMove = them
      /\ z.castlingConfig = b.castlingConfig /\ z.materialKey = b.materialKey
      /\ z.material_factor = b.material_factor
      /\ z.pawnZobristKey = b.pawnZobristKey
  BY <1>3, Zenon DEF CastlingResult
<1>5. Rearranged(b, z, gone, put)
  BY <1>2, CastlingRearranges, Zenon
<1>6. IsBoard(x) /\ IsBoard(z)
  BY DEF ExceptPins
<1>7. /\ x.kingIndex = [b.kingIndex EXCEPT ![us] = m.to]
      /\ x.colorToMove = them
      /\ x.castlingConfig = b.castlingConfig /\ x.materialKey = b.materialKey
      /\ x.material_factor = b.material_factor
      /\ x.pawnZobristKey = b.pawnZobristKey
  BY <1>4 DEF ExceptPins
<1>8. Rearranged(b, x, gone, put)
  <2> HIDE DEF gone, put
  <2> QED BY <1>5 DEF Rearranged, ExceptPins
<1>9. Recorded(b, m, z)
  BY <1>4 DEF Recorded
<1>10. CastledSquares(x, m) = CastledSquares(b, m)
  BY <1>7 DEF CastledSquares
<1>11. /\ m.from \in b.pieces[us][KING]
      /\ b.pieces[us][KING] = {m.from}
      /\ rf \in b.pieces[us][ROOK]
      /\ m.to \in Squares /\ rt \in Squares /\ m.to # rt
      /\ \A s \in {m.to, rt} : s \in b.allPieces => s \in {m.from, rf}
  BY DEF CastlingFacts
<1>12. KING \in PieceTypes /\ ROOK \in PieceTypes /\ KING # ROOK
  BY DEF PieceTypes, KING, PAWN, ROOK
<1>13. king = {m.from} (+) {m.to} /\ rook = {rf} (+) {rt}
  <2> DEFINE c == CastledSquares(b, m)
  <2>1. c = [king |-> {m.from} (+) {m.to}, rook |-> {c.rookFrom} (+) {c.rookTo},
             rookFrom |-> c.rookFrom, rookTo |-> c.rookTo]
    BY Zenon DEF CastlingFacts
  <2> HIDE DEF c
  <2>2. c.king = {m.from} (+) {m.to} /\ c.rook = {c.rookFrom} (+) {c.rookTo}
    BY <2>1
  <2> QED BY <2>2 DEF c
<1>14. \A d \in Colors, q \in PieceTypes : m.from \in b.pieces[d][q] => d = us /\ q = KING
  BY <1>2, <1>11, <1>12, FriendIs
<1>15. \A d \in Colors, q \in PieceTypes : rf \in b.pieces[d][q] => d = us /\ q = ROOK
  BY <1>2, <1>11, <1>12, FriendIs
<1>16. /\ m.from # rf /\ m.from \in Squares /\ rf \in Squares
       /\ b.pieceIndexes[m.from] = KING /\ b.pieceIndexes[rf] = ROOK
       /\ m.from \in b.friendlyPieces[us] /\ rf \in b.friendlyPieces[us]
  BY <1>2, <1>11, <1>12, <1>14, FriendIs
<1>17. \A d \in Colors, q \in PieceTypes, s \in {m.to, rt} : s \in b.pieces[d][q] => s \in {m.from, rf}
  BY <1>2, <1>11, AllIs
<1>18. \A d \in Colors, s \in {m.to, rt} : s \in b.friendlyPieces[d] => s \in {m.from, rf}
  BY <1>2, <1>11 DEF WhoIsWhere, Colors, WHITE, BLACK
<1>19. /\ x.pieces \in [Colors -> [PieceTypes -> SUBSET Squares]]
       /\ b.pieces \in [Colors -> [PieceTypes -> SUBSET Squares]]
       /\ x.friendlyPieces \in [Colors -> SUBSET Squares]
       /\ b.friendlyPieces \in [Colors -> SUBSET Squares]
       /\ b.pieceIndexes \in [Squares -> EMPTY..KING]
  BY <1>2, <1>8 DEF Rearranged, PlacesTyped, Men
<1>20. /\ \A s : s \in DOMAIN put <=> s = m.to \/ s = rt
       /\ put[m.to] = KING /\ put[rt] = ROOK
  BY <1>11
<1> HIDE DEF put
<1>21. \A c \in Colors, p \in PieceTypes, s \in Squares :
          s \in x.pieces[c][p] <=> \/ c = us /\ ((s = m.to /\ p = KING) \/ (s = rt /\ p = ROOK))
                                   \/ s \in b.pieces[c][p] /\ s # m.from /\ s # rf
  BY <1>8, <1>20 DEF Rearranged
<1>22. \A c \in Colors, s \in Squares :
          s \in x.friendlyPieces[c] <=> \/ c = us /\ (s = m.to \/ s = rt)
                                        \/ s \in b.friendlyPieces[c] /\ s # m.from /\ s # rf
  BY <1>8, <1>20 DEF Rearranged
<1>23. \A s \in Squares : s # m.to /\ s # rt /\ s # m.from /\ s # rf => x.pieceIndexes[s] = b.pieceIndexes[s]
  BY <1>8, <1>20 DEF Rearranged
<1>24. UncastledResult(x, m, y)
  BY <1>1, <1>2, <1>6, <1>7, <1>8, ColorsTwo, UncastledFields DEF Rearranged
<1>25. Opponent(x.colorToMove) = us
  BY <1>2, <1>7, ColorsTwo
<1>26. /\ PoppedResult(x, y)
       /\ y.pieces = [x.pieces EXCEPT ![us][KING] = @ (+) king, ![us][ROOK] = @ (+) rook]
       /\ y.friendlyPieces = [x.friendlyPieces EXCEPT ![us] = @ (+) (king (+) rook)]
       /\ y.allPieces = y.friendlyPieces[WHITE] \cup y.friendlyPieces[BLACK]
       /\ y.pieceIndexes = [s \in Squares |->
          CASE s = m.from -> KING [] s = rf -> ROOK
            [] s \in {m.to, rt} \ {m.from, rf} -> EMPTY
            [] OTHER -> x.pieceIndexes[s]]
       /\ y.kingIndex = [x.kingIndex EXCEPT ![us] = m.from]
       /\ y.colorToMove = us
       /\ y.materialKey = x.materialKey /\ y.material_factor = x.material_factor
       /\ y.pawnZobristKey = x.pawnZobristKey
  <2> HIDE DEF us
  <2> QED BY <1>24, <1>25, <1>10 DEF UncastledResult
<1> HIDE DEF us, them, rf, rt, king, rook, gone
<1>27. \A s : s \in king <=> (s = m.from /\ s # m.to) \/ (s = m.to /\ s # m.from)
  BY <1>13 DEF (+)
<1>28. \A s : s \in rook <=> (s = rf /\ s # rt) \/ (s = rt /\ s # rf)
  BY <1>13 DEF (+)
<1>29. king \in SUBSET Squares /\ rook \in SUBSET Squares
  BY <1>11, <1>16, <1>27, <1>28
<1>30. y.pieces = b.pieces
  <2>1. PICK t : t = [x.pieces EXCEPT ![us][KING] = @ (+) king]
    OBVIOUS
  <2>2. /\ t \in [Colors -> [PieceTypes -> SUBSET Squares]]
        /\ \A c \in Colors, p \in PieceTypes : \A s :
             s \in t[c][p] <=> IF c = us /\ p = KING THEN (s \in x.pieces[c][p]) # (s \in king)
                               ELSE s \in x.pieces[c][p]
    BY <1>2, <1>12, <1>19, <1>29, <2>1 DEF (+)
  <2>3. PICK u : u = y.pieces
    OBVIOUS
  <2>5. u = [t EXCEPT ![us][ROOK] = @ (+) rook]
    BY <1>26, <2>1, <2>3
  <2>4. /\ u \in [Colors -> [PieceTypes -> SUBSET Squares]]
        /\ \A c \in Colors, p \in PieceTypes : \A s :
             s \in u[c][p] <=> IF c = us /\ p = ROOK THEN (s \in t[c][p]) # (s \in rook)
                               ELSE s \in t[c][p]
    BY <1>2, <1>12, <1>29, <2>2, <2>5 DEF (+)
  <2>6. \A c \in Colors, p \in PieceTypes, s \in Squares : s \in u[c][p] <=> s \in b.pieces[c][p]
    <3> SUFFICES ASSUME NEW c \in Colors, NEW p \in PieceTypes, NEW s \in Squares
                 PROVE s \in u[c][p] <=> s \in b.pieces[c][p]
      OBVIOUS
    <3>1. CASE c = us /\ p = KING
      BY <3>1, <1>11, <1>12, <1>14, <1>15, <1>16, <1>21, <1>27, <2>2, <2>4
    <3>2. CASE c = us /\ p = ROOK
      BY <3>2, <1>2, <1>11, <1>12, <1>14, <1>15, <1>16, <1>17, <1>21, <1>28, <2>2, <2>4
    <3>3. CASE ~(c = us /\ p = KING) /\ ~(c = us /\ p = ROOK)
      BY <3>3, <1>14, <1>15, <1>21, <2>2, <2>4
    <3> QED BY <3>1, <3>2, <3>3
  <2>7. \A c \in Colors, p \in PieceTypes : u[c][p] = b.pieces[c][p]
    <3> TAKE c \in Colors, p \in PieceTypes
    <3>1. u[c][p] \in SUBSET Squares /\ b.pieces[c][p] \in SUBSET Squares
      BY <1>19, <2>4
    <3> QED BY <2>6, <3>1
  <2> QED BY <1>19, <2>3, <2>4, <2>7
<1>31. y.friendlyPieces = b.friendlyPieces
  <2>1. y.friendlyPieces \in [Colors -> SUBSET Squares]
        /\ \A c \in Colors : \A s : s \in y.friendlyPieces[c] <=>
              IF c = us THEN (s \in x.friendlyPieces[us]) # ((s \in king) # (s \in rook)) ELSE s \in x.friendlyPieces[c]
    BY <1>2, <1>19, <1>26, <1>29 DEF (+)
  <2>2. \A s \in Squares : s \in y.friendlyPieces[us] <=> s \in b.friendlyPieces[us]
    BY <1>2, <1>11, <1>16, <1>18, <1>22, <1>27, <1>28, <2>1
  <2>3. \A c \in Colors, s \in Squares : c # us => (s \in y.friendlyPieces[c] <=> s \in b.friendlyPieces[c])
    BY <1>2, <1>12, <1>11, FriendIs, ColorsTwo, <1>22, <2>1
  <2>4. \A c \in Colors : y.friendlyPieces[c] = b.friendlyPieces[c]
    BY <1>19, <2>1, <2>2, <2>3
  <2> QED BY <1>19, <2>1, <2>4
<1>32. y.allPieces = b.allPieces
  <2>1. b.allPieces = b.friendlyPieces[WHITE] \cup b.friendlyPieces[BLACK]
    BY <1>2 DEF WhoIsWhere
  <2> QED BY <2>1, <1>26, <1>31
<1>33. y.pieceIndexes = b.pieceIndexes
  <2>1. \A s \in Squares : y.pieceIndexes[s] = b.pieceIndexes[s]
    <3> SUFFICES ASSUME NEW s \in Squares PROVE y.pieceIndexes[s] = b.pieceIndexes[s]
      OBVIOUS
    <3>1. y.pieceIndexes[s] = CASE s = m.from -> KING [] s = rf -> ROOK
            [] s \in {m.to, rt} \ {m.from, rf} -> EMPTY
            [] OTHER -> x.pieceIndexes[s]
      BY <1>26
    <3>2. s \notin b.allPieces => b.pieceIndexes[s] = EMPTY
      BY <1>2 DEF WhoIsWhere
    <3> QED BY <3>1, <3>2, <1>11, <1>16, <1>23
  <2>2. y.pieceIndexes = [s \in Squares |-> y.pieceIndexes[s]]
    BY <1>26
  <2> QED BY <1>19, <2>1, <2>2
<1>34. y.kingIndex = b.kingIndex
  <2>1. m.from = b.kingIndex[us]
    BY <1>2, <1>11 DEF KingsAre
  <2> QED BY <1>2, <1>7, <1>26, <2>1
<1>35. y.materialKey = b.materialKey /\ y.material_factor = b.material_factor /\ y.pawnZobristKey = b.pawnZobristKey
  BY <1>7, <1>26
<1>36. /\ IsBoard(y) /\ y.history = b.history
       /\ y.castlingRights = b.castlingRights /\ y.epIndex = b.epIndex
       /\ y.zobristKey = b.zobristKey /\ y.checkingPieces = b.checkingPieces
       /\ y.pinnedPieces = b.pinnedPieces /\ y.discoveredPieces = b.discoveredPieces
       /\ y.lastCaptureOrPawnMoveBefore = b.lastCaptureOrPawnMoveBefore
       /\ y.pinnedPiecesDirty = b.pinnedPiecesDirty
       /\ y.playedBoardStates = b.playedBoardStates
       /\ y.castlingConfig = b.castlingConfig
  <2>1. RecordRestored(b, y)
    BY <1>2, <1>9, <1>26, RecordBack
  <2> QED BY <2>1, Zenon DEF RecordRestored
<1>37. y = b
  BY <1>2, <1>26, <1>30, <1>31, <1>32, <1>33, <1>34, <1>35, <1>36, SameFields DEF us
<1> QED BY <1>1, <1>37

\* what a null move does to the fields
NullResult(b, z) ==
  LET key == b.zobristKey (+) SideKey (+) EpKey(b.epIndex)
  IN /\ IsBoard(z)
     /\ z.history = Append(b.history, Entry(b, NO_MOVE))
     /\ PlacesKept(b, z)
     /\ z.colorToMove = Opponent(b.colorToMove)
     /\ z.epIndex = 0 /\ z.castlingRights = b.castlingRights
     /\ z.castlingConfig = b.castlingConfig
     /\ z.zobristKey = key
     /\ z.checkingPieces = b.checkingPieces
     /\ z.pinnedPieces = b.pinnedPieces /\ z.discoveredPieces = b.discoveredPieces
     /\ z.pinnedPiecesDirty = b.pinnedPiecesDirty
     /\ z.lastCaptureOrPawnMoveBefore = b.lastCaptureOrPawnMoveBefore
     /\ z.playedBoardStates = inc(b.playedBoardStates, key)

\* doNullMove, field by field.
LEMMA NullFields ==
  ASSUME NEW b, IsBoard(b), b.pinnedPiecesDirty = FALSE, NEW z, z = doNullMove(b)
  PROVE  NullResult(b, z)
<1> DEFINE key == b.zobristKey (+) SideKey (+) EpKey(b.epIndex)
<1>1. RefreshPins(b) = b
  BY DEF RefreshPins
<1>2. PICK w : w = pushHistoryValues(b, NO_MOVE)
  OBVIOUS
<1>3. PICK v : v = [w EXCEPT !.colorToMove = Opponent(@)]
  OBVIOUS
<1>4. z = [v EXCEPT !.zobristKey = key, !.epIndex = 0, !.playedBoardStates = inc(@, key)]
  BY <1>1, <1>2, <1>3 DEF doNullMove, changeSideToMove
<1>5. IsBoard(w) /\ w.history = Append(b.history, Entry(b, NO_MOVE))
  BY <1>2, PushedFields
<1>6. /\ PlacesKept(b, w) /\ w.colorToMove = b.colorToMove
      /\ w.epIndex = b.epIndex /\ w.castlingRights = b.castlingRights
      /\ w.castlingConfig = b.castlingConfig
      /\ w.checkingPieces = b.checkingPieces
      /\ w.pinnedPieces = b.pinnedPieces /\ w.discoveredPieces = b.discoveredPieces
      /\ w.pinnedPiecesDirty = b.pinnedPiecesDirty
      /\ w.lastCaptureOrPawnMoveBefore = b.lastCaptureOrPawnMoveBefore
      /\ w.playedBoardStates = b.playedBoardStates
  BY <1>2, PushedFields DEF PlacesKept
<1>7. /\ IsBoard(v) /\ v.history = w.history
      /\ PlacesKept(w, v) /\ v.colorToMove = Opponent(w.colorToMove)
      /\ v.castlingRights = w.castlingRights
      /\ v.castlingConfig = w.castlingConfig
      /\ v.checkingPieces = w.checkingPieces
      /\ v.pinnedPieces = w.pinnedPieces /\ v.discoveredPieces = w.discoveredPieces
      /\ v.pinnedPiecesDirty = w.pinnedPiecesDirty
      /\ v.lastCaptureOrPawnMoveBefore = w.lastCaptureOrPawnMoveBefore
      /\ v.playedBoardStates = w.playedBoardStates
  BY <1>3, <1>5 DEF IsBoard, PlacesKept
<1> HIDE DEF key
<1>8. /\ IsBoard(z) /\ z.history = v.history
      /\ PlacesKept(v, z) /\ z.colorToMove = v.colorToMove
      /\ z.castlingRights = v.castlingRights
      /\ z.castlingConfig = v.castlingConfig
      /\ z.checkingPieces = v.checkingPieces
      /\ z.pinnedPieces = v.pinnedPieces /\ z.discoveredPieces = v.discoveredPieces
      /\ z.pinnedPiecesDirty = v.pinnedPiecesDirty
      /\ z.lastCaptureOrPawnMoveBefore = v.lastCaptureOrPawnMoveBefore
      /\ z.playedBoardStates = inc(v.playedBoardStates, key)
      /\ z.zobristKey = key /\ z.epIndex = 0
  BY <1>4, <1>7 DEF IsBoard, PlacesKept
<1>9. PlacesKept(b, z)
  BY <1>6, <1>7, <1>8 DEF PlacesKept
<1> QED
  BY <1>5, <1>6, <1>7, <1>8, <1>9 DEF NullResult, key

\* a null move taken back
LEMMA NullUndone ==
  ASSUME NEW b, Kept(b), b.pinnedPiecesDirty = FALSE,
         NEW z, z = doNullMove(b), dec(z.playedBoardStates, z.zobristKey) = b.playedBoardStates,
         NEW x, ExceptPins(x, z)
  PROVE  undoNullMove(x) = b
<1>1. PICK y : y = undoNullMove(x)
  OBVIOUS
<1>2. IsBoard(b) /\ IsSequence(b.history) /\ b.colorToMove \in Colors
  BY DEF Kept, PlacesTyped
<1>3. NullResult(b, z)
  BY <1>2, NullFields
<1>4. Recorded(b, NO_MOVE, z)
  BY <1>3 DEF NullResult, Recorded
<1>5. PICK w : w = Popped(x)
  OBVIOUS
<1>6. y = [w EXCEPT !.colorToMove = Opponent(@)]
  BY <1>1, <1>5 DEF undoNullMove, changeSideToMove
<1>7. IsBoard(x) /\ PlacesKept(b, x) /\ x.colorToMove = Opponent(b.colorToMove)
  BY <1>3 DEF NullResult, ExceptPins, PlacesKept
<1>8. PoppedResult(x, w) /\ PlacesKept(x, w) /\ w.colorToMove = x.colorToMove
  BY <1>5, <1>7, PoppedFields
<1>9. IsBoard(y) /\ PlacesKept(w, y) /\ y.colorToMove = Opponent(w.colorToMove)
  BY <1>6, <1>8 DEF PoppedResult, IsBoard, PlacesKept
<1>10. PoppedResult(x, y)
  BY <1>6, <1>8 DEF PoppedResult, IsBoard
<1>11. PlacesKept(b, y)
  BY <1>7, <1>8, <1>9 DEF PlacesKept
<1>12. y.colorToMove = b.colorToMove
  BY <1>2, <1>7, <1>8, <1>9, ColorsTwo
<1>13. /\ IsBoard(y) /\ y.history = b.history
       /\ y.castlingRights = b.castlingRights /\ y.epIndex = b.epIndex
       /\ y.zobristKey = b.zobristKey /\ y.checkingPieces = b.checkingPieces
       /\ y.pinnedPieces = b.pinnedPieces /\ y.discoveredPieces = b.discoveredPieces
       /\ y.lastCaptureOrPawnMoveBefore = b.lastCaptureOrPawnMoveBefore
       /\ y.pinnedPiecesDirty = b.pinnedPiecesDirty
       /\ y.playedBoardStates = b.playedBoardStates
       /\ y.castlingConfig = b.castlingConfig
  <2>1. RecordRestored(b, y)
    BY <1>2, <1>4, <1>10, RecordBack
  <2> QED BY <2>1, Zenon DEF RecordRestored
<1>14. y = b
  BY <1>11, <1>2, <1>12, <1>13, SameFields DEF PlacesKept
<1> QED BY <1>1, <1>14

-----------------------------------------------------------------------------
(***************************************************************************)
(* Every move that the generator makes fits the board.                     *)
(***************************************************************************)

Sound(b) ==
  /\ Kept(b)
  /\ b.epIndex \in Squares /\ b.castlingRights \in SUBSET Rights
  /\ EpSound(b) /\ RightsSound(b) /\ ChecksClear(b)

\* what the generator relies on
LEMMA GeneratorSees ==
  ASSUME NEW b, Sound(b)
  PROVE  /\ b.colorToMove \in Colors /\ Opponent(b.colorToMove) \in Colors
         /\ \A p \in PieceTypes : \A s \in Ours(b, p) : s \in Squares /\ s \in b.allPieces
         /\ \A s \in Empties(b) : s \in Squares /\ s \notin b.allPieces
         /\ \A s \in Enemies(b) : /\ s \in Squares /\ s \in b.allPieces /\ s \notin b.friendlyPieces[b.colorToMove]
                                  /\ b.pieceIndexes[s] \in PieceTypes
                                  /\ s \in b.pieces[Opponent(b.colorToMove)][b.pieceIndexes[s]]
<1> DEFINE us == b.colorToMove
           them == Opponent(us)
<1>1. PlacesTyped(b) /\ WhoIsWhere(b)
  BY DEF Sound, Kept
<1>2. us \in Colors /\ them \in Colors /\ Opponent(them) = us
  BY <1>1, ColorsTwo DEF PlacesTyped
<1> HIDE DEF us, them
<1>3. \A p \in PieceTypes : \A s \in Ours(b, p) : s \in Squares /\ s \in b.allPieces
  BY <1>1, <1>2, FriendIs DEF Ours, us
<1>4. \A s \in Empties(b) : s \in Squares /\ s \notin b.allPieces
  BY DEF Empties
<1>5. \A s \in Enemies(b) : /\ s \in Squares /\ s \in b.allPieces /\ s \notin b.friendlyPieces[us]
                            /\ b.pieceIndexes[s] \in PieceTypes
                            /\ s \in b.pieces[them][b.pieceIndexes[s]]
  <2> TAKE s \in Enemies(b)
  <2>1. s \in b.friendlyPieces[them]
    BY DEF Enemies, them, us
  <2>2. s \in Squares
    BY <1>1, <1>2, <2>1 DEF PlacesTyped
  <2>3. PICK p \in PieceTypes : s \in b.pieces[them][p]
    BY <1>1, <1>2, <2>1, <2>2 DEF WhoIsWhere
  <2> QED BY <1>1, <1>2, <2>3, FriendIs
<1> QED BY <1>2, <1>3, <1>4, <1>5 DEF us, them

MoveOK(b, m) == MoveFits(b, m) /\ (is_castling(m) => CastlingFits(b, m)) /\ (~is_castling(m) => OrdinaryFits(b, m))

\* The types of moves and of pieces differ.
LEMMA TypesDiffer ==
  /\ ~(TYPE_NORMAL \in PromotionTypes) /\ TYPE_NORMAL # TYPE_EP /\ TYPE_NORMAL # TYPE_CASTLING
  /\ ~(TYPE_EP \in PromotionTypes) /\ TYPE_EP # TYPE_CASTLING /\ ~(TYPE_CASTLING \in PromotionTypes)
  /\ EMPTY \in EMPTY..KING /\ EMPTY \notin PieceTypes
  /\ \A p \in PieceTypes : p \in EMPTY..KING /\ p # EMPTY
  /\ PAWN \in PieceTypes /\ KING \in PieceTypes /\ PAWN # KING
  /\ \A p \in NIGHT..QUEEN : p \in PieceTypes /\ p # PAWN /\ p # KING
  /\ \A p \in BISHOP..QUEEN : p \in NIGHT..QUEEN
BY DEF TYPE_NORMAL, TYPE_EP, TYPE_CASTLING, PromotionTypes, EMPTY, PAWN, NIGHT, BISHOP, ROOK, QUEEN, KING, PieceTypes

\* a quiet or capturing move of type normal of a piece other than a pawn
LEMMA PlainFits ==
  ASSUME NEW b, Sound(b), NEW p \in PieceTypes, p # PAWN, NEW from \in Ours(b, p), NEW to \in Squares
  PROVE  /\ to \in Empties(b) => MoveOK(b, create_move(from, to, p))
         /\ to \in Enemies(b) => MoveOK(b, create_attack(from, to, p, b.pieceIndexes[to]))
<1>1. from \in Squares /\ from \in b.allPieces /\ from \in b.pieces[b.colorToMove][p]
  BY GeneratorSees DEF Ours
<1>2. ASSUME NEW a \in EMPTY..KING, a = EMPTY => to \notin b.allPieces,
             a # EMPTY => to \in b.pieces[Opponent(b.colorToMove)][a], from # to
      PROVE  MoveOK(b, create_attack(from, to, p, a))
  <2>1. PICK m : m = create_attack(from, to, p, a)
    OBVIOUS
  <2>2. m.from = from /\ m.to = to /\ m.source = p /\ m.attacked = a /\ m.type = TYPE_NORMAL
    BY <2>1 DEF create_attack
  <2>3. OrdinaryFits(b, m)
    BY <1>2, <2>2, TypesDiffer DEF OrdinaryFits, EpFits, is_promotion
  <2> QED BY <1>1, <2>1, <2>2, <2>3, TypesDiffer DEF MoveOK, MoveFits, is_castling
<1>3. to \in Empties(b) => MoveOK(b, create_move(from, to, p))
  <2> SUFFICES ASSUME to \in Empties(b) PROVE MoveOK(b, create_attack(from, to, p, EMPTY))
    BY DEF create_move
  <2>1. to \notin b.allPieces
    BY GeneratorSees
  <2> QED BY <1>1, <1>2, <2>1, TypesDiffer
<1>4. to \in Enemies(b) => MoveOK(b, create_attack(from, to, p, b.pieceIndexes[to]))
  <2> SUFFICES ASSUME to \in Enemies(b) PROVE MoveOK(b, create_attack(from, to, p, b.pieceIndexes[to]))
    OBVIOUS
  <2>1. /\ to \notin b.friendlyPieces[b.colorToMove]
        /\ b.pieceIndexes[to] \in PieceTypes
        /\ to \in b.pieces[Opponent(b.colorToMove)][b.pieceIndexes[to]]
    BY GeneratorSees
  <2>2. from \in b.friendlyPieces[b.colorToMove]
    BY <1>1, FriendIs DEF Sound, Kept, PlacesTyped
  <2> QED BY <1>2, <2>1, <2>2, TypesDiffer
<1> QED BY <1>3, <1>4

\* The quiet moves of the pieces fit,
LEMMA addMovesFit ==
  ASSUME NEW b, Sound(b), NEW p \in NIGHT..QUEEN, NEW froms, froms \subseteq Ours(b, p),
         NEW possible, possible \subseteq Empties(b), NEW m \in addMoves(b, p, froms, possible)
  PROVE  MoveOK(b, m)
<1>1. PICK from \in froms : m \in {create_move(from, to, p) : to \in Reach(b, p, from) \cap possible}
  BY DEF addMoves
<1>2. PICK to \in Reach(b, p, from) \cap possible : m = create_move(from, to, p)
  BY <1>1
<1>3. p \in PieceTypes /\ p # PAWN /\ from \in Ours(b, p) /\ to \in Empties(b)
  BY TypesDiffer
<1>4. to \in Squares
  BY <1>3, GeneratorSees
<1> QED BY <1>2, <1>3, <1>4, PlainFits

\* and so do their captures.
LEMMA addAttacksFit ==
  ASSUME NEW b, Sound(b), NEW p \in NIGHT..QUEEN, NEW froms, froms \subseteq Ours(b, p),
         NEW possible, possible \subseteq Enemies(b), NEW m \in addAttacks(b, p, froms, possible)
  PROVE  MoveOK(b, m)
<1>1. PICK from \in froms : m \in {create_attack(from, to, p, b.pieceIndexes[to]) : to \in Reach(b, p, from) \cap possible}
  BY DEF addAttacks
<1>2. PICK to \in Reach(b, p, from) \cap possible : m = create_attack(from, to, p, b.pieceIndexes[to])
  BY <1>1
<1>3. p \in PieceTypes /\ p # PAWN /\ from \in Ours(b, p) /\ to \in Enemies(b)
  BY TypesDiffer
<1>4. to \in Squares
  BY <1>3, GeneratorSees
<1> QED BY <1>2, <1>3, <1>4, PlainFits

\* Any move of a pawn but en passant, from what the generator knows of it.
LEMMA PawnFits ==
  ASSUME NEW b, Sound(b), NEW from \in Ours(b, PAWN), NEW to \in Squares, to # from,
         NEW a \in EMPTY..KING, a = EMPTY => to \notin b.allPieces,
         a # EMPTY => to \in b.pieces[Opponent(b.colorToMove)][a],
         NEW t \in {TYPE_NORMAL} \cup PromotionTypes,
         t = TYPE_NORMAL /\ IN_BETWEEN[from][to] # {} =>
           /\ IN_BETWEEN[from][to] = {from + Forward(b.colorToMove)}
           /\ to = from + 2 * Forward(b.colorToMove)
           /\ from + Forward(b.colorToMove) \in Empties(b)
           /\ a = EMPTY
  PROVE  MoveOK(b, [from |-> from, to |-> to, source |-> PAWN, attacked |-> a, type |-> t])
<1>1. PICK m : m = [from |-> from, to |-> to, source |-> PAWN, attacked |-> a, type |-> t]
  OBVIOUS
<1>2. m.from = from /\ m.to = to /\ m.source = PAWN /\ m.attacked = a /\ m.type = t
  BY <1>1
<1>3. from \in Squares /\ from \in b.pieces[b.colorToMove][PAWN]
  BY GeneratorSees, TypesDiffer DEF Ours
<1>4. t # TYPE_EP /\ t # TYPE_CASTLING /\ (t \in PromotionTypes <=> t # TYPE_NORMAL)
  BY TypesDiffer
<1>5. EpFits(b, m)
  BY <1>2, <1>4 DEF EpFits, is_promotion, Empties
<1>6. OrdinaryFits(b, m)
  BY <1>2, <1>4, <1>5, TypesDiffer DEF OrdinaryFits, is_promotion
<1> QED BY <1>1, <1>2, <1>3, <1>4, <1>6, TypesDiffer DEF MoveOK, MoveFits, is_castling

\* The quiet moves of the pawns fit,
LEMMA addPawnMovesFit ==
  ASSUME NEW b, Sound(b), NEW pawns, pawns \subseteq Ours(b, PAWN),
         NEW possible, possible \subseteq Empties(b), NEW m \in addPawnMoves(b, pawns, possible)
  PROVE  MoveOK(b, m)
<1> DEFINE us == b.colorToMove
           step == Forward(us)
<1>1. us \in Colors
  BY GeneratorSees
<1>2. step \in Int /\ step # 0 /\ 2 * step \in Int /\ 2 * step # 0
  BY DEF Forward
<1>3. \/ \E s \in pawns : s + step \in possible /\ m = create_move(s, s + step, PAWN)
      \/ \E s \in pawns : s + 2 * step \in possible /\ s + step \in Empties(b) /\ m = create_move(s, s + 2 * step, PAWN)
  BY DEF addPawnMoves
<1>4. \A s \in pawns : s \in Squares /\ s \in Int /\ s \in Ours(b, PAWN)
  BY GeneratorSees, TypesDiffer DEF Squares
<1>5. \A s \in possible : s \in Squares /\ s \notin b.allPieces
  BY GeneratorSees
<1>6. EMPTY \in EMPTY..KING /\ TYPE_NORMAL \in {TYPE_NORMAL} \cup PromotionTypes
  BY TypesDiffer
<1> HIDE DEF us, step
<1>7. ASSUME NEW s \in pawns, s + step \in possible, m = create_move(s, s + step, PAWN)
      PROVE  MoveOK(b, m)
  BY <1>2, <1>4, <1>5, <1>7, <1>1, PawnStepClear, <1>6, PawnFits DEF step, create_move, create_attack
<1>8. ASSUME NEW s \in pawns, s + 2 * step \in possible, s + step \in Empties(b), m = create_move(s, s + 2 * step, PAWN)
      PROVE  MoveOK(b, m)
  BY <1>2, <1>4, <1>5, <1>8, <1>1, PawnDoubleStep, <1>6, PawnFits DEF step, create_move, create_attack, us
<1> QED BY <1>3, <1>7, <1>8

\* so do their captures and promotions,
LEMMA addPawnAttacksFit ==
  ASSUME NEW b, Sound(b), NEW pawns, pawns \subseteq Ours(b, PAWN),
         NEW enemies, enemies \subseteq Enemies(b), NEW empties, empties \subseteq Empties(b),
         NEW m \in addPawnAttacksAndPromotions(b, pawns, enemies, empties)
  PROVE  MoveOK(b, m)
<1> DEFINE us == b.colorToMove
           step == Forward(us)
           a(t) == b.pieceIndexes[t]
<1>1. us \in Colors
  BY GeneratorSees
<1>2. step \in Int /\ step # 0
  BY DEF Forward
<1>3. \/ \E s \in pawns : \E t \in PAWN_ATTACKS[us][s] \cap enemies : m = create_attack(s, t, PAWN, a(t))
      \/ \E s \in pawns : \E promo \in PromotionTypes, t \in PAWN_ATTACKS[us][s] \cap enemies : m = create_promotion_attack(promo, s, t, a(t))
      \/ \E s \in pawns, promo \in PromotionTypes : s + step \in empties /\ m = create_promotion_attack(promo, s, s + step, EMPTY)
  <2> DEFINE last == PromotionRank(us)
             targets(s) == PAWN_ATTACKS[us][s] \cap enemies
  <2> DEFINE S1 == UNION {{create_attack(s, t, PAWN, a(t)) : t \in targets(s)} : s \in pawns \ last}
             S2 == UNION {{create_promotion_attack(promo, s, t, a(t)) : promo \in PromotionTypes, t \in targets(s)} : s \in pawns \cap last}
             S3 == {create_promotion_attack(promo, s, s + step, EMPTY) :
                    promo \in PromotionTypes, s \in {q \in pawns \cap last : q + step \in empties}}
  <2>1. m \in S1 \/ m \in S2 \/ m \in S3
    BY DEF addPawnAttacksAndPromotions
  <2> HIDE DEF last, a, us, step, S1, S2, S3
  <2>2. CASE m \in S1
    <3>1. PICK s \in pawns \ last : m \in {create_attack(s, t, PAWN, a(t)) : t \in targets(s)}
      BY <2>2 DEF S1
    <3>2. PICK t \in targets(s) : m = create_attack(s, t, PAWN, a(t))
      BY <3>1
    <3>3. s \in pawns /\ t \in PAWN_ATTACKS[us][s] \cap enemies
      OBVIOUS
    <3> QED BY <3>2, <3>3
  <2>3. CASE m \in S2
    <3>1. PICK s \in pawns \cap last : m \in {create_promotion_attack(promo, s, t, a(t)) : promo \in PromotionTypes, t \in targets(s)}
      BY <2>3 DEF S2
    <3>2. PICK promo \in PromotionTypes, t \in targets(s) : m = create_promotion_attack(promo, s, t, a(t))
      BY <3>1
    <3>3. s \in pawns /\ t \in PAWN_ATTACKS[us][s] \cap enemies
      OBVIOUS
    <3> QED BY <3>2, <3>3
  <2>4. CASE m \in S3
    <3>1. PICK promo \in PromotionTypes, s \in {q \in pawns \cap last : q + step \in empties} : m = create_promotion_attack(promo, s, s + step, EMPTY)
      BY <2>4 DEF S3
    <3> QED BY <3>1
  <2> QED BY <2>1, <2>2, <2>3, <2>4
<1>4. \A s \in pawns : s \in Squares /\ s \in Int /\ s \in Ours(b, PAWN)
  BY GeneratorSees, TypesDiffer DEF Squares
<1>5. \A s \in empties : s \in Squares /\ s \notin b.allPieces
  BY GeneratorSees
<1>6. /\ EMPTY \in EMPTY..KING /\ TYPE_NORMAL \in {TYPE_NORMAL} \cup PromotionTypes
      /\ \A p \in PromotionTypes : p \in {TYPE_NORMAL} \cup PromotionTypes /\ p # TYPE_NORMAL
  BY TypesDiffer
<1>7. \A t \in enemies : a(t) \in EMPTY..KING /\ a(t) # EMPTY /\ t \in b.pieces[Opponent(b.colorToMove)][a(t)]
  BY GeneratorSees, TypesDiffer
<1> HIDE DEF us, step, a
<1>8. \A s \in pawns : \A t \in PAWN_ATTACKS[us][s] \cap enemies : t \in Squares /\ t # s /\ IN_BETWEEN[s][t] = {}
  BY <1>1, <1>4, PawnCaptureClear
<1>9. ASSUME NEW s \in pawns, NEW t \in PAWN_ATTACKS[us][s] \cap enemies, NEW y \in {TYPE_NORMAL} \cup PromotionTypes,
             m = [from |-> s, to |-> t, source |-> PAWN, attacked |-> a(t), type |-> y]
      PROVE  MoveOK(b, m)
  BY <1>4, <1>7, <1>8, <1>9, PawnFits
<1>10. ASSUME NEW s \in pawns, NEW t \in PAWN_ATTACKS[us][s] \cap enemies, m = create_attack(s, t, PAWN, a(t))
       PROVE  MoveOK(b, m)
  BY <1>6, <1>9, <1>10 DEF create_attack
<1>11. ASSUME NEW s \in pawns, NEW promo \in PromotionTypes, NEW t \in PAWN_ATTACKS[us][s] \cap enemies,
              m = create_promotion_attack(promo, s, t, a(t))
       PROVE  MoveOK(b, m)
  BY <1>6, <1>9, <1>11 DEF create_promotion_attack
<1>12. ASSUME NEW s \in pawns, NEW promo \in PromotionTypes, s + step \in empties,
              m = create_promotion_attack(promo, s, s + step, EMPTY)
       PROVE  MoveOK(b, m)
  BY <1>2, <1>4, <1>5, <1>12, <1>6, PawnFits DEF create_promotion_attack
<1> QED BY <1>3, <1>10, <1>11, <1>12

\* and so does taking en passant.
LEMMA addEpAttacksFit ==
  ASSUME NEW b, Sound(b), NEW m \in addEpAttacks(b)
  PROVE  MoveOK(b, m)
<1> DEFINE us == b.colorToMove
           them == Opponent(us)
           ep == b.epIndex
<1>1. us \in Colors /\ them \in Colors
  BY GeneratorSees
<1>2. ep # 0 /\ \E s \in Ours(b, PAWN) \cap PAWN_ATTACKS[them][ep] : m = create_ep(s, ep)
  BY DEF addEpAttacks
<1>3. PICK s \in Ours(b, PAWN) \cap PAWN_ATTACKS[them][ep] : m = create_ep(s, ep)
  BY <1>2
<1>4. s \in Squares /\ s \in b.pieces[us][PAWN] /\ s \in b.allPieces
  BY GeneratorSees, TypesDiffer DEF Ours
<1>5. ep \in Squares /\ ep \notin b.allPieces
  BY <1>2 DEF Sound, EpSound
<1>6. m.from = s /\ m.to = ep /\ m.source = PAWN /\ m.attacked = PAWN /\ m.type = TYPE_EP
  BY <1>3 DEF create_ep
<1>7. IN_BETWEEN[ep][s] = {} /\ IN_BETWEEN[s][ep] = {}
  BY <1>1, <1>5, PawnCaptureClear
<1>8. EpFits(b, m)
  BY <1>6, <1>7 DEF EpFits
<1>9. OrdinaryFits(b, m)
  BY <1>2, <1>4, <1>5, <1>6, <1>8, TypesDiffer DEF OrdinaryFits, is_promotion
<1> QED BY <1>4, <1>5, <1>6, <1>9, TypesDiffer DEF MoveOK, MoveFits, is_castling

\* The side to move has one king.
LEMMA KingStands ==
  ASSUME NEW b, Sound(b)
  PROVE  OurKing(b) \in Ours(b, KING) /\ Ours(b, KING) = {OurKing(b)}
  BY GeneratorSees DEF Sound, Kept, KingsAre, OurKing, Ours

\* The king moves and castlings fit,
LEMMA addKingMovesFit ==
  ASSUME NEW b, Sound(b), NEW m \in addKingMoves(b)
  PROVE  MoveOK(b, m)
<1> DEFINE king == OurKing(b)
<1>1. king \in Ours(b, KING) /\ king \in b.pieces[b.colorToMove][KING] /\ king \in Squares
  BY KingStands, GeneratorSees, TypesDiffer DEF Ours
<1> HIDE DEF king
<1>2. \/ \E to \in SafeKingSquares(b, Empties(b)) : m = create_move(king, to, KING)
      \/ \E to \in getCastlingIndexes(b.colorToMove, b.castlingRights) :
           isValidCastlingMove(b, king, to) /\ m = create_castling(king, to)
  BY DEF addKingMoves, king
<1>3. ASSUME NEW to \in SafeKingSquares(b, Empties(b)), m = create_move(king, to, KING)
      PROVE  MoveOK(b, m)
  BY GeneratorSees, <1>1, <1>3, PlainFits, TypesDiffer DEF SafeKingSquares
<1>4. ASSUME NEW to \in getCastlingIndexes(b.colorToMove, b.castlingRights),
             isValidCastlingMove(b, king, to), m = create_castling(king, to)
      PROVE  MoveOK(b, m)
  <2>1. PICK r \in b.castlingRights \cap RightsOf(b.colorToMove) : to = KING_TO[r]
    BY DEF getCastlingIndexes
  <2>2. r \in Rights /\ OwnerOf(r) = b.colorToMove
    BY GeneratorSees, ColorsTwo, <2>1 DEF Sound, RightsOf, OwnerOf, Rights, WHITE, BLACK
  <2>3. RightOfTarget(to) = r /\ KING_TO[r] \in Squares
    BY <2>1, <2>2, TargetsDiffer
  <2> DEFINE home == {b.castlingConfig.king[OwnerOf(r)], b.castlingConfig.rook[r]}
             others == b.allPieces \ home
  <2>4. others \cap KingWay(b.castlingConfig, r) = {} /\ others \cap RookWay(b.castlingConfig, r) = {}
    BY <1>4, <2>3 DEF isValidCastlingMove
  <2>5. KING_TO[r] \in KingWay(b.castlingConfig, r) /\ ROOK_TO[r] \in RookWay(b.castlingConfig, r)
    BY DEF KingWay, RookWay
  <2>6. {KING_TO[r], ROOK_TO[r]} \cap b.allPieces \subseteq home
    BY <2>4, <2>5
  <2> HIDE DEF others
  <2>7. m.from = king /\ m.to = to /\ m.source = KING /\ m.attacked = EMPTY /\ m.type = TYPE_CASTLING
    BY <1>4 DEF create_castling
  <2>8. CastlingFits(b, m)
    BY <2>1, <2>2, <2>6, <2>7 DEF CastlingFits
  <2> QED BY <1>1, <2>1, <2>3, <2>7, <2>8, TypesDiffer DEF MoveOK, MoveFits, is_castling
<1> QED BY <1>2, <1>3, <1>4

\* and so do the captures of the king.
LEMMA addKingAttacksFit ==
  ASSUME NEW b, Sound(b), NEW m \in addKingAttacks(b)
  PROVE  MoveOK(b, m)
<1> DEFINE king == OurKing(b)
<1>1. king \in Ours(b, KING)
  BY KingStands
<1>2. PICK to \in SafeKingSquares(b, Enemies(b)) : m = create_attack(king, to, KING, b.pieceIndexes[to])
  BY DEF addKingAttacks
<1> HIDE DEF king
<1>3. to \in Enemies(b) /\ to \in Squares
  BY GeneratorSees DEF SafeKingSquares
<1> QED BY <1>1, <1>2, <1>3, PlainFits, TypesDiffer

\* A pinned piece of ours is one of its kind.
LEMMA PinnedAre ==
  ASSUME NEW b, Sound(b), NEW types, types \subseteq PieceTypes, NEW s \in PinnedOurs(b, types)
  PROVE  b.pieceIndexes[s] \in types /\ {s} \subseteq Ours(b, b.pieceIndexes[s])
<1>1. s \in b.friendlyPieces[b.colorToMove] /\ b.pieceIndexes[s] \in types
  BY DEF PinnedOurs
<1>2. PlacesTyped(b) /\ WhoIsWhere(b) /\ b.colorToMove \in Colors
  BY GeneratorSees DEF Sound, Kept
<1>3. s \in Squares
  BY <1>1, <1>2 DEF PlacesTyped
<1>4. PICK p \in PieceTypes : s \in b.pieces[b.colorToMove][p]
  BY <1>1, <1>2, <1>3 DEF WhoIsWhere
<1> QED BY <1>1, <1>2, <1>4, FriendIs DEF Ours

\* The moves that are made out of check fit.
LEMMA NotInCheckFits ==
  ASSUME NEW b, Sound(b), NEW m \in generateNotInCheckMoves(b) \cup generateNotInCheckAttacks(b)
  PROVE  MoveOK(b, m)
<1>1. /\ \A p : Unpinned(b, p) \subseteq Ours(b, p)
      /\ \A X : Empties(b) \cap X \subseteq Empties(b)
      /\ \A X : Enemies(b) \cap X \subseteq Enemies(b)
      /\ Empties(b) \subseteq Empties(b) /\ Enemies(b) \subseteq Enemies(b)
      /\ {} \subseteq Empties(b)
  BY DEF Unpinned
<1>2. {PAWN} \subseteq PieceTypes /\ BISHOP..QUEEN \subseteq PieceTypes /\ \A p \in BISHOP..QUEEN : p \in NIGHT..QUEEN
  BY TypesDiffer
<1>3. \A s \in PinnedOurs(b, {PAWN}) : {s} \subseteq Ours(b, PAWN)
  BY <1>2, PinnedAre
<1>4. \A s \in PinnedOurs(b, BISHOP..QUEEN) : b.pieceIndexes[s] \in NIGHT..QUEEN /\ {s} \subseteq Ours(b, b.pieceIndexes[s])
  BY <1>2, PinnedAre
<1>5. CASE m \in generateNotInCheckMoves(b)
  <2>1. \/ m \in addKingMoves(b)
        \/ \E p \in NIGHT..QUEEN : m \in addMoves(b, p, Unpinned(b, p), Empties(b))
        \/ m \in addPawnMoves(b, Unpinned(b, PAWN), Empties(b))
        \/ \E s \in PinnedOurs(b, {PAWN}) : m \in addPawnMoves(b, {s}, Empties(b) \cap PinLine(b, s))
        \/ \E s \in PinnedOurs(b, BISHOP..QUEEN) :
             m \in addMoves(b, b.pieceIndexes[s], {s}, Empties(b) \cap PinLine(b, s))
    BY <1>5 DEF generateNotInCheckMoves
  <2> QED BY <1>1, <1>3, <1>4, <2>1, addKingMovesFit, addMovesFit, addPawnMovesFit
<1>6. CASE m \in generateNotInCheckAttacks(b)
  <2>1. \/ m \in addEpAttacks(b)
        \/ m \in addKingAttacks(b)
        \/ m \in addPawnAttacksAndPromotions(b, Unpinned(b, PAWN), Enemies(b), Empties(b))
        \/ \E p \in NIGHT..QUEEN : m \in addAttacks(b, p, Unpinned(b, p), Enemies(b))
        \/ \E s \in PinnedOurs(b, {PAWN}) :
             m \in addPawnAttacksAndPromotions(b, {s}, Enemies(b) \cap PinLine(b, s), {})
        \/ \E s \in PinnedOurs(b, BISHOP..QUEEN) :
             m \in addAttacks(b, b.pieceIndexes[s], {s}, Enemies(b) \cap PinLine(b, s))
    BY <1>6 DEF generateNotInCheckAttacks
  <2> QED BY <1>1, <1>3, <1>4, <2>1, addEpAttacksFit, addKingAttacksFit, addAttacksFit, addPawnAttacksFit
<1> QED BY <1>5, <1>6

\* One checking piece is the checker.
LEMMA CheckerIs ==
  ASSUME NEW b, Sound(b), Cardinality(b.checkingPieces) = 1
  PROVE  Checker(b) \in b.checkingPieces
<1>1. b.checkingPieces \subseteq Squares
  BY GeneratorSees DEF Sound, ChecksClear, Enemies
<1>2. IsFiniteSet(b.checkingPieces)
  <2>1. IsFiniteSet(Squares)
    <3>1. 0 \in Int /\ 63 \in Int
      OBVIOUS
    <3>2. IsFiniteSet(0..63)
      BY ONLY <3>1, FS_Interval, Zenon
    <3> QED BY <3>2, Zenon DEF Squares
  <2>2. b.checkingPieces \in SUBSET Squares
    BY <1>1
  <2> QED BY <2>1, <2>2, FS_Subset
<1>3. PICK x : b.checkingPieces = {x}
  BY <1>2, FS_Singleton
<1>4. x <= x
  BY <1>1, <1>3 DEF Squares
<1> QED BY <1>3, <1>4 DEF Checker, Least

\* The squares between two squares are on the board.
LEMMA BetweenOnBoard ==
  ASSUME NEW r \in Squares, NEW t \in Squares
  PROVE  IN_BETWEEN[r][t] \subseteq Squares
<1> DEFINE lo == IF r < t THEN r ELSE t
           hi == IF r < t THEN t ELSE r
<1>1. IN_BETWEEN[r][t] = IF LINE_STEP[r][t] = 0 THEN {} ELSE {x \in (lo + 1)..(hi - 1) : (x - lo) % LINE_STEP[r][t] = 0}
  BY DEF IN_BETWEEN
<1>2. lo \in Squares /\ hi \in Squares
  OBVIOUS
<1> HIDE DEF lo, hi
<1>3. (lo + 1)..(hi - 1) \subseteq Squares
  BY <1>2 DEF Squares
<1> QED BY <1>1, <1>3

\* Nothing stands between the king and the slider that checks it.
LEMMA BetweenClear ==
  ASSUME NEW b, Sound(b), Cardinality(b.checkingPieces) = 1, b.pieceIndexes[Checker(b)] \notin {PAWN, NIGHT}
  PROVE  IN_BETWEEN[OurKing(b)][Checker(b)] \subseteq Empties(b)
<1> DEFINE king == OurKing(b)
           s == Checker(b)
<1>1. s \in b.checkingPieces
  BY CheckerIs
<1>2. s \in Squares /\ IN_BETWEEN[king][s] \cap b.allPieces = {}
  BY <1>1, GeneratorSees DEF Sound, ChecksClear, Enemies, OurKing
<1>3. king \in Squares
  BY KingStands, GeneratorSees, TypesDiffer
<1> HIDE DEF king, s
<1>4. IN_BETWEEN[king][s] \subseteq Squares
  BY <1>2, <1>3, BetweenOnBoard
<1> QED BY <1>2, <1>4 DEF Empties, king, s

\* The moves that are made in check fit.
LEMMA InCheckFits ==
  ASSUME NEW b, Sound(b), Cardinality(b.checkingPieces) = 1,
         NEW m, \/ b.pieceIndexes[Checker(b)] \notin {PAWN, NIGHT} /\ m \in generateOutOfSlidingCheckMoves(b)
                \/ m \in generateOutOfCheckAttacks(b)
  PROVE  MoveOK(b, m)
<1>1. /\ \A p : Unpinned(b, p) \subseteq Ours(b, p)
      /\ PushTargets(b) \subseteq Empties(b)
  BY DEF Unpinned, PushTargets
<1>2. b.checkingPieces \subseteq Enemies(b)
  BY DEF Sound, ChecksClear, Enemies
<1>3. CASE b.pieceIndexes[Checker(b)] \notin {PAWN, NIGHT} /\ m \in generateOutOfSlidingCheckMoves(b)
  <2> DEFINE between == IN_BETWEEN[OurKing(b)][Checker(b)]
  <2>1. \/ m \in addKingMoves(b)
        \/ \E p \in NIGHT..QUEEN : m \in addMoves(b, p, Unpinned(b, p), between)
        \/ m \in addPawnMoves(b, Unpinned(b, PAWN), between)
    BY <1>3 DEF generateOutOfSlidingCheckMoves
  <2>2. between \subseteq Empties(b)
    BY <1>3, BetweenClear
  <2> HIDE DEF between
  <2> QED BY <1>1, <2>1, <2>2, addKingMovesFit, addMovesFit, addPawnMovesFit
<1>4. CASE m \in generateOutOfCheckAttacks(b)
  BY <1>4, <1>1, <1>2, addEpAttacksFit, addKingAttacksFit, addAttacksFit, addPawnAttacksFit DEF
     generateOutOfCheckAttacks
<1> QED BY <1>3, <1>4

\* Every move that the generator makes fits the board it was made for.
LEMMA GeneratorFits ==
  ASSUME NEW b, Sound(b), NEW m \in generateMoves(b) \cup generateAttacks(b)
  PROVE  MoveOK(b, m)
<1>1. CASE b.checkingPieces = {}
  <2>1. generateMoves(b) = generateNotInCheckMoves(b) /\ generateAttacks(b) = generateNotInCheckAttacks(b)
    BY <1>1, FS_EmptySet DEF generateMoves, generateAttacks
  <2> QED BY <2>1, NotInCheckFits
<1>2. CASE b.checkingPieces # {} /\ Cardinality(b.checkingPieces) = 1
  BY <1>2, addKingMovesFit, InCheckFits DEF generateMoves, generateAttacks
<1>3. CASE b.checkingPieces # {} /\ Cardinality(b.checkingPieces) # 1
  BY <1>3, addKingMovesFit, addKingAttacksFit DEF generateMoves, generateAttacks
<1> QED BY <1>1, <1>2, <1>3

-----------------------------------------------------------------------------
(***************************************************************************)
(* The keys of positions, and that their slots are slots of the table.     *)
(***************************************************************************)

PositionKeys == SUBSET (0..974)

KeysHaveSlots == \A key \in PositionKeys : natural_slot(key) \in Slots

-----------------------------------------------------------------------------
(***************************************************************************)
(* The boards after a move are sound.                                      *)
(***************************************************************************)

\* refreshing the pins changes the pins
LEMMA RefreshKeeps ==
  ASSUME NEW b, IsBoard(b), b.pinnedPiecesDirty \in BOOLEAN
  PROVE  /\ ExceptPins(RefreshPins(b), b) /\ RefreshPins(b).pinnedPiecesDirty = FALSE
         /\ RefreshPins(RefreshPins(b)) = RefreshPins(b)
<1>1. CASE b.pinnedPiecesDirty = FALSE
  BY <1>1 DEF RefreshPins, ExceptPins
<1>2. CASE b.pinnedPiecesDirty = TRUE
  <2> DEFINE lone == [c \in Colors |-> LoneBlockers(b, c)]
             P == UNION {lone[c] \cap b.friendlyPieces[c] : c \in Colors}
             D == UNION {lone[c] \cap b.friendlyPieces[Opponent(c)] : c \in Colors}
  <2>1. PICK v : v = [b EXCEPT !.pinnedPieces = P, !.discoveredPieces = D]
    OBVIOUS
  <2>2. setPinnedAndDiscoPieces(b) = v
    BY <2>1, Zenon DEF setPinnedAndDiscoPieces
  <2> HIDE DEF P, D
  <2>3. PICK w : w = [v EXCEPT !.pinnedPiecesDirty = FALSE]
    OBVIOUS
  <2>4. RefreshPins(b) = w
    BY <1>2, <2>2, <2>3 DEF RefreshPins
  <2>5. ExceptPins(v, b)
    BY <2>1 DEF ExceptPins, IsBoard
  <2>6. w.pinnedPiecesDirty = FALSE /\ IsBoard(w)
    BY <2>3, <2>5 DEF ExceptPins, IsBoard
  <2>7. ExceptPins(w, b)
    BY <2>3, <2>5, <2>6 DEF ExceptPins, IsBoard
  <2>8. RefreshPins(w) = w
    BY <2>6 DEF RefreshPins
  <2> QED BY <2>4, <2>6, <2>7, <2>8
<1> QED BY <1>1, <1>2

\* A sound board stays so while its pins change.
LEMMA SoundExceptPins ==
  ASSUME NEW b, Sound(b), NEW x, ExceptPins(x, b)
  PROVE  Sound(x)
<1>1. IsBoard(x)
  BY DEF ExceptPins
<1>2. PlacesTyped(x)
  BY DEF ExceptPins, Sound, Kept, PlacesTyped
<1>3. WhoIsWhere(x)
  BY DEF ExceptPins, Sound, Kept, WhoIsWhere
<1>4. KingsAre(x) /\ x.kingIndex \in [Colors -> Squares]
  BY DEF ExceptPins, Sound, Kept, KingsAre
<1>5. x.materialKey \in MaterialKeys /\ x.material_factor \in [Colors -> Int] /\ IsSequence(x.history)
  BY DEF ExceptPins, Sound, Kept
<1>6. EpSound(x)
  BY DEF ExceptPins, Sound, EpSound
<1>7. RightsSound(x)
  BY DEF ExceptPins, Sound, RightsSound
<1>8. ChecksClear(x)
  BY DEF ExceptPins, Sound, ChecksClear
<1>9. x.epIndex \in Squares /\ x.castlingRights \in SUBSET Rights
  BY DEF ExceptPins, Sound
<1> QED BY <1>1, <1>2, <1>3, <1>4, <1>5, <1>6, <1>7, <1>8, <1>9 DEF Sound, Kept

\* what a move that fits is
LEMMA FactsOfMove ==
  ASSUME NEW b, Sound(b), NEW m, MoveOK(b, m), m.attacked # KING
  PROVE  /\ is_castling(m) => CastlingFacts(b, m)
         /\ ~is_castling(m) => OrdinaryFacts(b, m)
<1>1. is_castling(m) => CastlingFacts(b, m)
  BY FactsOfCastling DEF Sound, Kept, MoveOK
<1>2. ~is_castling(m) => OrdinaryFacts(b, m)
  BY FactsOfOrdinary DEF Sound, Kept, MoveOK
<1> QED BY <1>1, <1>2

\* A slider sees only over empty squares.
LEMMA SlidersSee ==
  ASSUME NEW occupied, NEW king, NEW s, s \in rook_moves(king, occupied) \/ s \in bishop_moves(king, occupied) \/ s \in queen_moves(king, occupied)
  PROVE  IN_BETWEEN[king][s] \cap occupied = {}
<1>1. s \in rook_moves(king, occupied) \/ s \in bishop_moves(king, occupied)
  BY DEF queen_moves
<1>2. s \in rook_moves(king, occupied) => IN_BETWEEN[king][s] \cap occupied = {}
  BY DEF rook_moves, Unblocked
<1>3. s \in bishop_moves(king, occupied) => IN_BETWEEN[king][s] \cap occupied = {}
  BY DEF bishop_moves, Unblocked
<1> QED BY <1>1, <1>2, <1>3

\* a checking piece is an enemy piece, and nothing stands before a slider
LEMMA CheckersSeen ==
  ASSUME NEW x, PlacesTyped(x), WhoIsWhere(x), NEW y,
         y.pieces = x.pieces, y.allPieces = x.allPieces, y.kingIndex = x.kingIndex, y.colorToMove = x.colorToMove,
         NEW s, s \in checkingPiecesFull(y) \/ \E p \in PieceTypes : s \in checkingPiecesByPiece(y, p)
  PROVE  /\ s \in x.friendlyPieces[Opponent(x.colorToMove)]
         /\ x.pieceIndexes[s] \notin {PAWN, NIGHT} =>
              IN_BETWEEN[x.kingIndex[x.colorToMove]][s] \cap x.allPieces = {}
<1> DEFINE them == Opponent(x.colorToMove)
           king == x.kingIndex[x.colorToMove]
           line == IN_BETWEEN[king][s] \cap x.allPieces
<1>1. them \in Colors
  BY ColorsTwo DEF PlacesTyped
<1>2. /\ PAWN \in PieceTypes /\ NIGHT \in PieceTypes /\ BISHOP \in PieceTypes /\ ROOK \in PieceTypes /\ QUEEN \in PieceTypes
      /\ \A p \in PieceTypes : p \in {PAWN, NIGHT, BISHOP, ROOK, QUEEN, KING}
      /\ PAWN # NIGHT /\ PAWN # BISHOP /\ PAWN # ROOK /\ PAWN # QUEEN /\ PAWN # KING
      /\ NIGHT # BISHOP /\ NIGHT # ROOK /\ NIGHT # QUEEN /\ NIGHT # KING
      /\ BISHOP # ROOK /\ BISHOP # QUEEN /\ BISHOP # KING /\ ROOK # QUEEN /\ ROOK # KING /\ QUEEN # KING
  BY DEF PieceTypes, PAWN, NIGHT, BISHOP, ROOK, QUEEN, KING
<1> HIDE DEF them, king
<1>3. ASSUME s \in checkingPiecesFull(y)
      PROVE  \E p \in PieceTypes : s \in x.pieces[them][p] /\ (p \notin {PAWN, NIGHT} => line = {})
  <2>1. s \in Attackers(king, x.colorToMove, x.pieces[them], x.allPieces)
    BY <1>3 DEF checkingPiecesFull, king, them
  <2>2. \/ s \in x.pieces[them][NIGHT]
        \/ (s \in x.pieces[them][ROOK] \/ s \in x.pieces[them][QUEEN]) /\ s \in rook_moves(king, x.allPieces)
        \/ (s \in x.pieces[them][BISHOP] \/ s \in x.pieces[them][QUEEN]) /\ s \in bishop_moves(king, x.allPieces)
        \/ s \in x.pieces[them][PAWN]
    BY <2>1 DEF Attackers
  <2> HIDE DEF line
  <2>3. s \in rook_moves(king, x.allPieces) \/ s \in bishop_moves(king, x.allPieces) => line = {}
    BY SlidersSee DEF line
  <2> QED BY <1>2, <2>2, <2>3
<1>4. ASSUME NEW p \in PieceTypes, s \in checkingPiecesByPiece(y, p)
      PROVE  s \in x.pieces[them][p] /\ (p \notin {PAWN, NIGHT} => line = {})
  <2>0. checkingPiecesByPiece(y, p) = x.pieces[them][p] \cap
         (CASE p = PAWN   -> PAWN_ATTACKS[x.colorToMove][king]
                 [] p = NIGHT  -> KNIGHT_MOVES[king]
                 [] p = BISHOP -> bishop_moves(king, x.allPieces)
                 [] p = ROOK   -> rook_moves(king, x.allPieces)
                 [] p = QUEEN  -> queen_moves(king, x.allPieces)
                 [] OTHER          -> {})
    BY DEF checkingPiecesByPiece, them, king
  <2>1. s \in x.pieces[them][p]
    BY <1>4, <2>0
  <2>2. p = BISHOP => s \in bishop_moves(king, x.allPieces)
    BY <1>2, <1>4, <2>0
  <2>3. p = ROOK => s \in rook_moves(king, x.allPieces)
    BY <1>2, <1>4, <2>0
  <2>4. p = QUEEN => s \in queen_moves(king, x.allPieces)
    BY <1>2, <1>4, <2>0
  <2>5. p # KING
    BY <1>2, <1>4, <2>0
  <2> HIDE DEF line
  <2>6. s \in rook_moves(king, x.allPieces) \/ s \in bishop_moves(king, x.allPieces) \/ s \in queen_moves(king, x.allPieces) => line = {}
    BY SlidersSee DEF line
  <2> QED BY <1>2, <2>1, <2>2, <2>3, <2>4, <2>5, <2>6
<1>5. PICK p \in PieceTypes : s \in x.pieces[them][p] /\ (p \notin {PAWN, NIGHT} => line = {})
  BY <1>3, <1>4
<1>6. s \in x.friendlyPieces[them] /\ x.pieceIndexes[s] = p
  BY <1>1, <1>5, FriendIs
<1> QED BY <1>5, <1>6 DEF them, king

\* A right whose rook has moved or been captured is dropped, as long as no later
\* right has the same rook.
LEMMA RightsLost ==
  ASSUME NEW rights, rights \subseteq Rights, NEW sq, NEW cfg, NEW r \in getRookMovedOrAttackedCastlingRights(rights, sq, cfg)
  PROVE  /\ r \in rights
         /\ (\A q \in Rights : q > r => cfg.rook[q] # cfg.rook[r]) => cfg.rook[r] # sq
<1> DEFINE lost == {q \in Rights : cfg.rook[q] = sq}
<1>1. r \in rights /\ r \notin {q \in lost : \A p \in lost : p <= q}
  BY DEF getRookMovedOrAttackedCastlingRights
<1>2. ASSUME \A q \in Rights : q > r => cfg.rook[q] # cfg.rook[r], cfg.rook[r] = sq
      PROVE  FALSE
  <2>1. r \in lost
    BY <1>1, <1>2
  <2>2. \A p \in lost : p <= r
    BY <1>1, <1>2 DEF Rights
  <2> QED BY <1>1, <2>1, <2>2
<1> QED BY <1>1, <1>2

\* The rights that are left after a move.
LEMMA RightsAfterAre ==
  ASSUME NEW b, b.castlingRights \subseteq Rights, b.colorToMove \in Colors, NEW m, NEW r \in RightsAfter(b, m)
  PROVE  /\ r \in b.castlingRights
         /\ m.source = KING => OwnerOf(r) # b.colorToMove
         /\ (\A q \in Rights : q > r => b.castlingConfig.rook[q] # b.castlingConfig.rook[r]) =>
              /\ m.source = ROOK => b.castlingConfig.rook[r] # m.from
              /\ m.attacked = ROOK => b.castlingConfig.rook[r] # m.to
<1> DEFINE moved == CASE m.source = ROOK -> getRookMovedOrAttackedCastlingRights(
                                         b.castlingRights, m.from, b.castlingConfig)
                 [] m.source = KING -> getKingMovedCastlingRights(b.castlingRights, b.colorToMove)
                 [] OTHER           -> b.castlingRights
<1>0. ROOK # KING
  BY DEF ROOK, KING
<1>1. /\ m.source = ROOK => moved = getRookMovedOrAttackedCastlingRights(b.castlingRights, m.from, b.castlingConfig)
      /\ m.source = KING => moved = b.castlingRights \ RightsOf(b.colorToMove)
      /\ m.source # ROOK /\ m.source # KING => moved = b.castlingRights
  BY <1>0 DEF getKingMovedCastlingRights
<1>2. IF m.attacked = ROOK THEN r \in getRookMovedOrAttackedCastlingRights(moved, m.to, b.castlingConfig) ELSE r \in moved
  BY DEF RightsAfter
<1> HIDE DEF moved
<1>3. moved \subseteq b.castlingRights
  BY <1>1, RightsLost
<1>4. moved \subseteq Rights
  BY <1>3
<1>5. r \in moved
  BY <1>2, <1>4, RightsLost
<1>6. m.source = KING => OwnerOf(r) # b.colorToMove
  BY <1>1, <1>4, <1>5 DEF RightsOf, OwnerOf, Rights, Colors, WHITE, BLACK
<1>7. (\A q \in Rights : q > r => b.castlingConfig.rook[q] # b.castlingConfig.rook[r]) =>
        (m.source = ROOK => b.castlingConfig.rook[r] # m.from)
  BY <1>1, <1>5, RightsLost
<1>8. (\A q \in Rights : q > r => b.castlingConfig.rook[q] # b.castlingConfig.rook[r]) =>
        (m.attacked = ROOK => b.castlingConfig.rook[r] # m.to)
  BY <1>2, <1>4, RightsLost
<1> QED BY <1>3, <1>5, <1>6, <1>7, <1>8

\* What doMove does to a sound board.
LEMMA OrdinarySays ==
  ASSUME NEW b, Sound(b), NEW m, NEW x, x = DoOrdinaryMove(b, m)
  PROVE  OrdinaryResult(b, m, x) /\ IsBoard(b) /\ b.colorToMove \in Colors
<1>1. IsBoard(b) /\ b.colorToMove \in Colors
  BY DEF Sound, Kept, PlacesTyped
<1> QED BY <1>1, OrdinaryFields

\* The four views agree after the move.
LEMMA OrdinaryPlacesSound ==
  ASSUME NEW b, Sound(b), NEW m, OrdinaryFacts(b, m), NEW x, x = DoOrdinaryMove(b, m)
  PROVE  PlacesTyped(x) /\ WhoIsWhere(x)
<1> DEFINE gone == {m.from} \cup Captured(b, m)
           put == [s \in {m.to} |-> Placed(m)]
<1>1. Rearranged(b, x, gone, put)
  BY OrdinaryRearranges DEF Sound, Kept
<1>2. x.colorToMove \in Colors
  <2>1. OrdinaryResult(b, m, x) /\ b.colorToMove \in Colors
    BY OrdinarySays
  <2>2. x.colorToMove = Opponent(b.colorToMove)
    BY <2>1 DEF OrdinaryResult
  <2> QED BY <2>1, <2>2, ColorsTwo
<1>3. DOMAIN put = {m.to} /\ put[m.to] = Placed(m) /\ Placed(m) \in PieceTypes /\ m.to \in Squares
  BY PlacedIs DEF OrdinaryFacts
<1>4. m.to \in b.allPieces => m.to \in gone
  BY DEF OrdinaryFacts, Captured
<1> HIDE DEF gone, put
<1>5. DOMAIN put \subseteq Squares /\ (\A s \in DOMAIN put : put[s] \in PieceTypes)
      /\ (\A s \in DOMAIN put : s \in b.allPieces => s \in gone)
  BY <1>3, <1>4
<1> QED BY <1>1, <1>2, <1>5, RearrangedAgrees DEF Sound, Kept

\* Who stands where after the move.
LEMMA OrdinaryStands ==
  ASSUME NEW b, Sound(b), NEW m, OrdinaryFacts(b, m), NEW x, x = DoOrdinaryMove(b, m),
         NEW c \in Colors, NEW p \in PieceTypes, NEW s \in Squares
  PROVE  s \in x.pieces[c][p] <=>
           \/ c = b.colorToMove /\ s = m.to /\ Placed(m) = p
           \/ s \in b.pieces[c][p] /\ s # m.from /\ s \notin Captured(b, m)
<1> DEFINE gone == {m.from} \cup Captured(b, m)
           put == [t \in {m.to} |-> Placed(m)]
<1>1. Rearranged(b, x, gone, put)
  BY OrdinaryRearranges DEF Sound, Kept
<1>2. s \in x.pieces[c][p] <=> \/ c = b.colorToMove /\ s \in DOMAIN put /\ put[s] = p
                               \/ s \in b.pieces[c][p] /\ s \notin gone
  BY <1>1 DEF Rearranged
<1> QED BY <1>2

\* Each side still has one king, unless a king was captured.
LEMMA OrdinaryKings ==
  ASSUME NEW b, Sound(b), NEW m, OrdinaryFacts(b, m), NEW x, x = DoOrdinaryMove(b, m)
  PROVE  KingsAre(x) /\ x.kingIndex \in [Colors -> Squares]
<1> DEFINE us == b.colorToMove
           them == Opponent(us)
<1>1. x.kingIndex = [b.kingIndex EXCEPT ![us] = IF m.source = KING THEN m.to ELSE @]
  <2>1. OrdinaryResult(b, m, x)
    BY OrdinarySays
  <2> QED BY <2>1 DEF OrdinaryResult
<1>2. us \in Colors /\ them \in Colors /\ us # them /\ \A c \in Colors : c = us \/ c = them
  BY ColorsTwo DEF Sound, Kept, PlacesTyped
<1>3. b.kingIndex \in [Colors -> Squares] /\ m.to \in Squares /\ m.from \in Squares
  BY DEF Sound, Kept, OrdinaryFacts
<1>4. x.kingIndex \in [Colors -> Squares]
  BY <1>1, <1>2, <1>3
<1>5. x.kingIndex[them] = b.kingIndex[them] /\ x.kingIndex[us] = IF m.source = KING THEN m.to ELSE b.kingIndex[us]
  BY <1>1, <1>2, <1>3
<1>6. \A c \in Colors : b.pieces[c][KING] = {b.kingIndex[c]}
  BY DEF Sound, Kept, KingsAre
<1>7. x.pieces[us][KING] \subseteq Squares /\ x.pieces[them][KING] \subseteq Squares
  BY <1>2, OrdinaryPlacesSound, TypesDiffer DEF PlacesTyped, Men
<1>8. m.source = KING <=> Placed(m) = KING
  BY PlacedIs, TypesDiffer
<1>9. \A s \in Captured(b, m) : s \in b.pieces[them][m.attacked] /\ m.attacked \in PieceTypes /\ m.attacked # KING
  BY DEF Captured, OrdinaryFacts, QUEEN, KING, EMPTY
<1>10. m.from \in b.pieces[us][m.source] /\ m.source \in PieceTypes
  BY DEF OrdinaryFacts
<1>11. PlacesTyped(b) /\ WhoIsWhere(b)
  BY DEF Sound, Kept
<1> HIDE DEF us, them
<1>12. \A s : s \in x.pieces[us][KING] <=> s = x.kingIndex[us]
  <2> TAKE s
  <2>1. s \in x.pieces[us][KING] => s \in Squares
    BY <1>7
  <2>2. x.kingIndex[us] \in Squares
    BY <1>2, <1>4
  <2>3. s \in Squares => (s \in x.pieces[us][KING] <=>
           \/ s = m.to /\ m.source = KING
           \/ s = b.kingIndex[us] /\ s # m.from /\ s \notin Captured(b, m))
    BY <1>2, <1>6, <1>8, OrdinaryStands, TypesDiffer DEF us
  <2>4. b.kingIndex[us] \notin Captured(b, m)
    BY <1>2, <1>6, <1>9, <1>11, FriendIs, TypesDiffer
  <2>5. m.source = KING => m.from = b.kingIndex[us]
    BY <1>2, <1>6, <1>10
  <2>6. m.source # KING => m.from # b.kingIndex[us]
    BY <1>2, <1>6, <1>10, <1>11, FriendIs, TypesDiffer
  <2> QED BY <1>5, <2>1, <2>2, <2>3, <2>4, <2>5, <2>6
<1>13. \A s : s \in x.pieces[them][KING] <=> s = x.kingIndex[them]
  <2> TAKE s
  <2>1. s \in x.pieces[them][KING] => s \in Squares
    BY <1>7
  <2>2. b.kingIndex[them] \in Squares
    BY <1>2, <1>3
  <2>3. s \in Squares => (s \in x.pieces[them][KING] <=> s = b.kingIndex[them] /\ s # m.from /\ s \notin Captured(b, m))
    BY <1>2, <1>6, OrdinaryStands, TypesDiffer DEF us
  <2>4. b.kingIndex[them] \notin Captured(b, m)
    BY <1>2, <1>6, <1>9, <1>11, FriendIs, TypesDiffer
  <2>5. m.from # b.kingIndex[them]
    BY <1>2, <1>6, <1>10, <1>11, FriendIs, TypesDiffer
  <2> QED BY <1>5, <2>1, <2>2, <2>3, <2>4, <2>5
<1>14. x.pieces[us][KING] = {x.kingIndex[us]} /\ x.pieces[them][KING] = {x.kingIndex[them]}
  BY <1>12, <1>13
<1> QED BY <1>2, <1>4, <1>14 DEF KingsAre

\* The material counts stay in their range.
LEMMA OrdinaryMaterial ==
  ASSUME NEW b, Sound(b), NEW m, OrdinaryFacts(b, m), NEW x, x = DoOrdinaryMove(b, m)
  PROVE  x.materialKey \in MaterialKeys /\ x.material_factor \in [Colors -> Int]
<1> DEFINE us == b.colorToMove
           them == Opponent(us)
<1>1. x.materialKey = MaterialAfter(b, m) /\ x.material_factor = FactorAfter(b, m)
  <2>1. OrdinaryResult(b, m, x)
    BY OrdinarySays
  <2> QED BY <2>1 DEF OrdinaryResult
<1>2. us \in Colors /\ them \in Colors /\ us # them
  BY ColorsTwo DEF Sound, Kept, PlacesTyped
<1>3. b.materialKey \in MaterialKeys /\ b.material_factor \in [Colors -> Int]
  BY DEF Sound, Kept
<1>4. m.attacked # EMPTY => m.attacked \in PAWN..QUEEN
  BY DEF OrdinaryFacts, EMPTY, PAWN, QUEEN
<1>5. is_promotion(m) => m.type \in PAWN..QUEEN
  BY DEF OrdinaryFacts, PieceTypes, PAWN, QUEEN, KING
<1>6. PAWN \in PAWN..QUEEN
  BY DEF PAWN, QUEEN
<1> HIDE DEF us, them
<1>7. \A k \in MaterialKeys, c \in Colors, p \in PAWN..QUEEN : AddMaterial(k, c, p, -1) \in MaterialKeys
  BY MaterialBack
<1>8. \A k \in MaterialKeys, c \in Colors, p \in PAWN..QUEEN :
        AddMaterial(AddMaterial(k, c, p, 1), c, PAWN, -1) \in MaterialKeys
  BY <1>6, MaterialBack
<1>9. MaterialAfter(b, m) \in MaterialKeys
  BY <1>2, <1>3, <1>4, <1>5, <1>7, <1>8 DEF MaterialAfter, us, them
<1>10. m.attacked \in EMPTY..KING /\ (is_promotion(m) => m.type \in EMPTY..KING)
  BY DEF OrdinaryFacts, EMPTY, QUEEN, KING, PieceTypes, PAWN
<1>11. \A p \in EMPTY..KING : PHASE[p] \in Int
  BY DEF PHASE
<1>12. FactorAfter(b, m) \in [Colors -> Int]
  <2>1. PICK g \in Int : g = IF is_promotion(m) THEN PHASE[m.type] ELSE 0
    BY <1>10, <1>11
  <2>2. PICK a \in Int : a = PHASE[m.attacked]
    BY <1>10, <1>11
  <2>3. FactorAfter(b, m) = [b.material_factor EXCEPT ![us] = @ + g, ![them] = @ - a]
    BY <2>1, <2>2 DEF FactorAfter, us, them
  <2> QED BY <1>2, <1>3, <2>3
<1> QED BY <1>1, <1>9, <1>12

\* After the move a pawn stands behind the en-passant square.
LEMMA OrdinaryEp ==
  ASSUME NEW b, Sound(b), NEW m, OrdinaryFacts(b, m), OrdinaryFits(b, m), NEW x, x = DoOrdinaryMove(b, m)
  PROVE  x.epIndex \in Squares /\ EpSound(x)
<1> DEFINE us == b.colorToMove
           over == m.from + Forward(us)
<1>1. x.epIndex = EpAfter(b, m) /\ x.colorToMove = Opponent(us)
  <2>1. OrdinaryResult(b, m, x)
    BY OrdinarySays
  <2> QED BY <2>1 DEF OrdinaryResult
<1>2. us \in Colors /\ Opponent(Opponent(us)) = us
  BY ColorsTwo DEF Sound, Kept, PlacesTyped
<1>3. CASE x.epIndex = 0
  BY <1>3 DEF EpSound, Squares
<1>4. CASE x.epIndex # 0
  <2>1. m.source = PAWN /\ ~is_promotion(m) /\ IN_BETWEEN[m.from][m.to] # {} /\ x.epIndex = Least(IN_BETWEEN[m.from][m.to])
    BY <1>1, <1>4 DEF EpAfter
  <2>2. IN_BETWEEN[m.from][m.to] = {over} /\ m.to = m.from + 2 * Forward(us) /\ over \in Squares \ b.allPieces /\ m.attacked = EMPTY
    BY <2>1 DEF OrdinaryFits, EpFits
  <2>3. over <= over
    BY <2>2 DEF Squares
  <2>4. x.epIndex = over
    BY <2>1, <2>2, <2>3 DEF Least
  <2>5. over + Forward(us) = m.to /\ over # m.to
    BY <2>2 DEF OrdinaryFacts, Squares, Forward
  <2>6. m.to \in Squares /\ Placed(m) = PAWN
    BY <2>1, PlacedIs DEF OrdinaryFacts
  <2> HIDE DEF us, over
  <2>7. m.to \in x.pieces[us][PAWN]
    BY <1>2, <2>6, OrdinaryStands, TypesDiffer DEF us
  <2>8. over \notin x.allPieces
    BY <2>2, AllIs, <2>5, OrdinaryStands, OrdinaryPlacesSound DEF Sound, Kept
  <2>9. Opponent(x.colorToMove) = us
    BY <1>1, <1>2 DEF us
  <2> QED BY <2>2, <2>4, <2>5, <2>7, <2>8, <2>9 DEF EpSound
<1> QED BY <1>3, <1>4

\* After the move every right that is left still has its king and its rook.
LEMMA OrdinaryRights ==
  ASSUME NEW b, Sound(b), NEW m, OrdinaryFacts(b, m), OrdinaryFits(b, m), NEW x, x = DoOrdinaryMove(b, m)
  PROVE  x.castlingRights \in SUBSET Rights /\ RightsSound(x)
<1> DEFINE us == b.colorToMove
           them == Opponent(us)
<1>1. x.castlingRights = RightsAfter(b, m) /\ x.castlingConfig = b.castlingConfig
      /\ x.kingIndex = [b.kingIndex EXCEPT ![us] = IF m.source = KING THEN m.to ELSE @]
  <2>1. OrdinaryResult(b, m, x)
    BY OrdinarySays
  <2> QED BY <2>1 DEF OrdinaryResult
<1>2. us \in Colors /\ them \in Colors /\ us # them /\ \A c \in Colors : c = us \/ c = them
  BY ColorsTwo DEF Sound, Kept, PlacesTyped
<1>3. b.castlingRights \subseteq Rights
  BY DEF Sound
<1>4. x.castlingRights \in SUBSET Rights
  BY <1>1, <1>2, <1>3, RightsAfterAre
<1>5. ASSUME NEW r \in x.castlingRights
      PROVE  /\ x.castlingConfig.king[OwnerOf(r)] = x.kingIndex[OwnerOf(r)]
             /\ x.castlingConfig.rook[r] \in x.pieces[OwnerOf(r)][ROOK]
             /\ \A q \in Rights : q > r => x.castlingConfig.rook[q] # x.castlingConfig.rook[r]
  <2> DEFINE o == OwnerOf(r)
             k == b.castlingConfig.rook[r]
  <2>1. r \in RightsAfter(b, m) /\ r \in b.castlingRights
    BY <1>1, <1>2, <1>3, RightsAfterAre
  <2>2. /\ b.castlingConfig.king[o] = b.kingIndex[o]
        /\ k \in b.pieces[o][ROOK]
        /\ \A q \in Rights : q > r => b.castlingConfig.rook[q] # k
    BY <2>1 DEF Sound, RightsSound
  <2>3. /\ m.source = KING => o # us
        /\ m.source = ROOK => k # m.from
        /\ m.attacked = ROOK => k # m.to
    BY <1>2, <1>3, <2>1, <2>2, RightsAfterAre
  <2>4. o \in Colors /\ ROOK \in PieceTypes
    BY DEF OwnerOf, Colors, WHITE, BLACK, ROOK, PieceTypes, PAWN, KING
  <2> HIDE DEF o, k, us, them
  <2>5. x.kingIndex[o] = b.kingIndex[o]
    BY <1>1, <2>3, <2>4 DEF Sound, Kept
  <2>6. PlacesTyped(b) /\ WhoIsWhere(b) /\ m.from \in b.pieces[us][m.source] /\ m.source \in PieceTypes
    BY DEF Sound, Kept, OrdinaryFacts, us
  <2>7. k # m.from
    BY <1>2, <2>2, <2>3, <2>4, <2>6, FriendIs
  <2>8. k \notin Captured(b, m)
    <3> SUFFICES ASSUME k \in Captured(b, m) PROVE FALSE
      OBVIOUS
    <3>1. k = CaptureSquare(b, m) /\ m.attacked \in PieceTypes /\ k \in b.pieces[them][m.attacked]
      BY DEF Captured, OrdinaryFacts, us, them
    <3>2. m.attacked = ROOK
      BY <1>2, <2>2, <2>4, <2>6, <3>1, FriendIs
    <3>3. ~is_ep(m)
      BY <3>2 DEF OrdinaryFits, is_ep, ROOK, PAWN
    <3>4. k = m.to
      BY <3>1, <3>3 DEF CaptureSquare
    <3> QED BY <2>3, <3>2, <3>4
  <2>9. k \in Squares
    BY <2>2, <2>4, <2>6, FriendIs
  <2>10. k \in x.pieces[o][ROOK]
    BY <2>2, <2>4, <2>7, <2>8, <2>9, OrdinaryStands
  <2> QED BY <1>1, <2>2, <2>5, <2>10 DEF o, k
<1> QED BY <1>4, <1>5 DEF RightsSound

\* After the move every checking slider sees the king.
LEMMA OrdinaryChecksClear ==
  ASSUME NEW b, Sound(b), NEW m, OrdinaryFacts(b, m), NEW x, x = DoOrdinaryMove(b, m)
  PROVE  ChecksClear(x) /\ x.pinnedPiecesDirty \in BOOLEAN
<1>1. PICK y : /\ x.checkingPieces = ChecksAfter(y, m, m.from \in b.discoveredPieces)
               /\ x.pinnedPiecesDirty = PinsMayChange(y, m.source, ChangedSquares(b, m))
               /\ y.pieces = x.pieces /\ y.allPieces = x.allPieces
               /\ y.kingIndex = x.kingIndex /\ y.colorToMove = x.colorToMove
  <2>1. ChecksSeen(b, m, x)
    BY OrdinarySays, OrdinaryChecks, SMTT(30)
  <2> QED BY <2>1, Zenon DEF ChecksSeen
<1>2. m.source \in PieceTypes
  BY DEF OrdinaryFacts
<1>3. \A s \in x.checkingPieces : s \in checkingPiecesFull(y) \/ \E p \in PieceTypes : s \in checkingPiecesByPiece(y, p)
  BY <1>1, <1>2 DEF ChecksAfter
<1>4. PlacesTyped(x) /\ WhoIsWhere(x)
  BY OrdinaryPlacesSound
<1>5. ChecksClear(x)
  BY <1>1, <1>3, <1>4, CheckersSeen DEF ChecksClear
<1>6. x.pinnedPiecesDirty \in BOOLEAN
  BY <1>1, Zenon DEF PinsMayChange
<1> QED BY <1>5, <1>6

\* The board after an ordinary move is sound.
LEMMA OrdinarySound ==
  ASSUME NEW b, Sound(b), NEW m, OrdinaryFacts(b, m), OrdinaryFits(b, m), NEW x, x = DoOrdinaryMove(b, m)
  PROVE  Sound(x) /\ x.pinnedPiecesDirty \in BOOLEAN
<1>1. IsBoard(x) /\ x.history = Append(b.history, Entry(b, m))
  <2>1. OrdinaryResult(b, m, x)
    BY OrdinarySays
  <2> QED BY <2>1 DEF OrdinaryResult
<1>2. IsSequence(x.history)
  BY <1>1, AppendedBack DEF Sound, Kept
<1>3. Kept(x)
  BY <1>1, <1>2, OrdinaryPlacesSound, OrdinaryKings, OrdinaryMaterial DEF Kept
<1> QED BY <1>3, OrdinaryEp, OrdinaryRights, OrdinaryChecksClear DEF Sound

-----------------------------------------------------------------------------
(***************************************************************************)
(* The board after castling, and after a null move, is sound.              *)
(***************************************************************************)

\* What doCastling960 does to a sound board.
LEMMA CastlingSays ==
  ASSUME NEW b, Sound(b), NEW m, NEW x, x = doCastling960(b, m)
  PROVE  CastlingResult(b, m, x) /\ CastlingChecksFound(x) /\ b.colorToMove \in Colors
<1>1. IsBoard(b) /\ b.colorToMove \in Colors /\ b.pieces \in Men
  BY DEF Sound, Kept, PlacesTyped
<1> QED BY <1>1, CastlingFields

\* who stands where after a castling
CastlingPut(b, m) == [s \in {m.to, CastledSquares(b, m).rookTo} |-> IF s = m.to THEN KING ELSE ROOK]
CastlingGone(b, m) == {m.from, CastledSquares(b, m).rookFrom}

\* The king and the rook change places.
LEMMA CastlingMoves ==
  ASSUME NEW b, Sound(b), NEW m, CastlingFacts(b, m), NEW x, x = doCastling960(b, m)
  PROVE  Rearranged(b, x, CastlingGone(b, m), CastlingPut(b, m))
  BY CastlingRearranges DEF Sound, Kept, CastlingPut, CastlingGone

\* The four views agree after castling.
LEMMA CastlingPlacesSound ==
  ASSUME NEW b, Sound(b), NEW m, CastlingFacts(b, m), NEW x, x = doCastling960(b, m)
  PROVE  PlacesTyped(x) /\ WhoIsWhere(x)
<1> DEFINE gone == CastlingGone(b, m)
           put == CastlingPut(b, m)
<1>1. Rearranged(b, x, gone, put)
  BY CastlingMoves
<1>2. x.colorToMove \in Colors
  <2>1. CastlingResult(b, m, x) /\ b.colorToMove \in Colors
    BY CastlingSays
  <2>2. x.colorToMove = Opponent(b.colorToMove)
    BY <2>1 DEF CastlingResult
  <2> QED BY <2>1, <2>2, ColorsTwo
<1>3. /\ DOMAIN put \subseteq Squares
      /\ \A s \in DOMAIN put : s \in b.allPieces => s \in gone
  BY DEF CastlingFacts, CastlingPut, CastlingGone
<1>4. \A s \in DOMAIN put : put[s] \in PieceTypes
  BY DEF CastlingPut, PieceTypes, PAWN, ROOK, KING
<1> HIDE DEF gone, put
<1> QED BY <1>1, <1>2, <1>3, <1>4, RearrangedAgrees DEF Sound, Kept

\* Who stands where after castling.
LEMMA CastlingStands ==
  ASSUME NEW b, Sound(b), NEW m, CastlingFacts(b, m), NEW x, x = doCastling960(b, m),
         NEW c \in Colors, NEW p \in PieceTypes, NEW s \in Squares
  PROVE  s \in x.pieces[c][p] <=>
           \/ c = b.colorToMove /\ s = m.to /\ p = KING
           \/ c = b.colorToMove /\ s = CastledSquares(b, m).rookTo /\ p = ROOK
           \/ s \in b.pieces[c][p] /\ s \notin CastlingGone(b, m)
<1>1. s \in x.pieces[c][p] <=> \/ c = b.colorToMove /\ s \in DOMAIN CastlingPut(b, m) /\ CastlingPut(b, m)[s] = p
                               \/ s \in b.pieces[c][p] /\ s \notin CastlingGone(b, m)
  BY CastlingMoves DEF Rearranged
<1>2. m.to # CastledSquares(b, m).rookTo /\ KING # ROOK
  BY DEF CastlingFacts, KING, ROOK
<1>3. s \in DOMAIN CastlingPut(b, m) /\ CastlingPut(b, m)[s] = p <=>
        \/ s = m.to /\ p = KING
        \/ s = CastledSquares(b, m).rookTo /\ p = ROOK
  BY <1>2 DEF CastlingPut
<1> QED BY <1>1, <1>3

\* The kings after castling.
LEMMA CastlingKings ==
  ASSUME NEW b, Sound(b), NEW m, CastlingFacts(b, m), NEW x, x = doCastling960(b, m)
  PROVE  /\ KingsAre(x) /\ x.kingIndex \in [Colors -> Squares]
         /\ x.kingIndex[Opponent(b.colorToMove)] = b.kingIndex[Opponent(b.colorToMove)]
         /\ \A p \in PieceTypes : \A s \in b.pieces[Opponent(b.colorToMove)][p] :
              s \in x.pieces[Opponent(b.colorToMove)][p]
<1> DEFINE us == b.colorToMove
           them == Opponent(us)
           c == CastledSquares(b, m)
<1>1. CastlingResult(b, m, x) /\ us \in Colors
  BY CastlingSays
<1>2. x.kingIndex = [b.kingIndex EXCEPT ![us] = m.to]
  BY <1>1 DEF CastlingResult
<1>3. us \in Colors /\ them \in Colors /\ us # them /\ \A d \in Colors : d = us \/ d = them
  BY <1>1, ColorsTwo
<1>4. b.kingIndex \in [Colors -> Squares] /\ PlacesTyped(b) /\ WhoIsWhere(b) /\ \A d \in Colors : b.pieces[d][KING] = {b.kingIndex[d]}
  BY DEF Sound, Kept, KingsAre
<1>5. m.to \in Squares /\ m.from \in b.pieces[us][KING] /\ c.rookFrom \in b.pieces[us][ROOK]
  BY DEF CastlingFacts
<1>6. KING \in PieceTypes /\ ROOK \in PieceTypes /\ KING # ROOK
  BY DEF KING, ROOK, PieceTypes, PAWN
<1>7. CastlingGone(b, m) = {m.from, c.rookFrom}
  BY DEF CastlingGone
<1> HIDE DEF us, them, c
<1>8. x.kingIndex \in [Colors -> Squares] /\ x.kingIndex[us] = m.to /\ x.kingIndex[them] = b.kingIndex[them]
  BY <1>2, <1>3, <1>4, <1>5
<1>9. \A p \in PieceTypes : \A s \in b.pieces[them][p] : s \in Squares /\ s # m.from /\ s # c.rookFrom
  BY <1>3, <1>4, <1>5, <1>6, FriendIs
<1>10. \A p \in PieceTypes : \A s \in b.pieces[them][p] : s \in x.pieces[them][p]
  BY <1>3, <1>7, <1>9, CastlingStands
<1>11. x.pieces[us][KING] \subseteq Squares /\ x.pieces[them][KING] \subseteq Squares
  BY <1>3, <1>6, CastlingPlacesSound DEF PlacesTyped, Men
<1>12. b.kingIndex[us] = m.from
  BY <1>3, <1>4, <1>5
<1>13. \A s \in Squares : s \in x.pieces[us][KING] <=> s = m.to
  BY <1>3, <1>4, <1>6, <1>7, <1>12, CastlingStands DEF us
<1>14. \A s \in Squares : s \in x.pieces[them][KING] => s = b.kingIndex[them]
  BY <1>3, <1>4, <1>6, CastlingStands DEF us
<1>15. b.kingIndex[them] \in x.pieces[them][KING]
  BY <1>3, <1>4, <1>6, <1>10
<1>16. x.pieces[us][KING] = {x.kingIndex[us]} /\ x.pieces[them][KING] = {x.kingIndex[them]}
  BY <1>5, <1>8, <1>11, <1>13, <1>14, <1>15
<1> QED BY <1>3, <1>8, <1>10, <1>16 DEF KingsAre, them, us

\* The board after castling is sound.
LEMMA CastlingSound ==
  ASSUME NEW b, Sound(b), NEW m, CastlingFacts(b, m), NEW x, x = doCastling960(b, m)
  PROVE  Sound(x) /\ x.pinnedPiecesDirty \in BOOLEAN
<1> DEFINE us == b.colorToMove
           them == Opponent(us)
<1>1. CastlingResult(b, m, x) /\ us \in Colors
  BY CastlingSays
<1>2. /\ IsBoard(x) /\ x.history = Append(b.history, Entry(b, m))
      /\ x.epIndex = 0 /\ x.castlingRights = getKingMovedCastlingRights(b.castlingRights, us)
      /\ x.castlingConfig = b.castlingConfig /\ x.materialKey = b.materialKey
      /\ x.material_factor = b.material_factor /\ x.pinnedPiecesDirty = TRUE
  BY <1>1 DEF CastlingResult
<1>3. IsSequence(x.history)
  BY <1>2, AppendedBack DEF Sound, Kept
<1>4. PlacesTyped(x) /\ WhoIsWhere(x)
  BY CastlingPlacesSound
<1>5. Kept(x)
  BY <1>2, <1>3, <1>4, CastlingKings DEF Sound, Kept
<1>6. x.epIndex \in Squares /\ EpSound(x)
  BY <1>2 DEF EpSound, Squares
<1>7. b.castlingRights \subseteq Rights
  BY DEF Sound
<1>8. x.castlingRights \in SUBSET Rights
  BY <1>2, <1>7 DEF getKingMovedCastlingRights
<1>9. RightsSound(x)
  <2> SUFFICES ASSUME NEW r \in x.castlingRights
               PROVE  /\ x.castlingConfig.king[OwnerOf(r)] = x.kingIndex[OwnerOf(r)]
                      /\ x.castlingConfig.rook[r] \in x.pieces[OwnerOf(r)][ROOK]
                      /\ \A q \in Rights : q > r => x.castlingConfig.rook[q] # x.castlingConfig.rook[r]
    BY DEF RightsSound
  <2>1. r \in b.castlingRights /\ r \in Rights /\ r \notin RightsOf(us)
    BY <1>2, <1>7 DEF getKingMovedCastlingRights
  <2>2. OwnerOf(r) = them
    BY <1>1, <2>1 DEF OwnerOf, Rights, RightsOf, Opponent, Colors, WHITE, BLACK
  <2>3. /\ b.castlingConfig.king[them] = b.kingIndex[them]
        /\ b.castlingConfig.rook[r] \in b.pieces[them][ROOK]
        /\ \A q \in Rights : q > r => b.castlingConfig.rook[q] # b.castlingConfig.rook[r]
    BY <2>1, <2>2 DEF Sound, RightsSound
  <2>4. ROOK \in PieceTypes
    BY DEF ROOK, PieceTypes, PAWN, KING
  <2>5. x.kingIndex[them] = b.kingIndex[them] /\ \A s \in b.pieces[them][ROOK] : s \in x.pieces[them][ROOK]
    BY <2>4, CastlingKings
  <2> HIDE DEF us, them
  <2> QED BY <1>2, <2>2, <2>3, <2>5
<1>10. ChecksClear(x)
  <2>1. CastlingChecksFound(x)
    BY CastlingSays
  <2>2. PICK y : /\ x.checkingPieces = checkingPiecesFull(y)
                 /\ y.pieces = x.pieces /\ y.allPieces = x.allPieces
                 /\ y.kingIndex = x.kingIndex /\ y.colorToMove = x.colorToMove
    BY <2>1, Zenon DEF CastlingChecksFound
  <2> QED BY <1>4, <2>2, CheckersSeen DEF ChecksClear
<1> QED BY <1>2, <1>5, <1>6, <1>8, <1>9, <1>10 DEF Sound

\* The board after a null move is sound.
LEMMA NullSound ==
  ASSUME NEW b, Sound(b), b.pinnedPiecesDirty = FALSE, b.checkingPieces = {}, NEW x, x = doNullMove(b)
  PROVE  Sound(x) /\ x.pinnedPiecesDirty \in BOOLEAN
<1>1. NullResult(b, x)
  <2>1. IsBoard(b)
    BY DEF Sound, Kept
  <2> QED BY <2>1, NullFields
<1>2. /\ IsBoard(x) /\ x.history = Append(b.history, Entry(b, NO_MOVE))
      /\ PlacesKept(b, x) /\ x.colorToMove = Opponent(b.colorToMove)
      /\ x.epIndex = 0 /\ x.castlingRights = b.castlingRights
      /\ x.castlingConfig = b.castlingConfig /\ x.checkingPieces = b.checkingPieces
      /\ x.pinnedPiecesDirty = b.pinnedPiecesDirty
  BY <1>1 DEF NullResult
<1>3. x.colorToMove \in Colors
  BY <1>2, ColorsTwo DEF Sound, Kept, PlacesTyped
<1>4. IsSequence(x.history)
  BY <1>2, AppendedBack DEF Sound, Kept
<1>5. PlacesTyped(x)
  BY <1>2, <1>3 DEF Sound, Kept, PlacesTyped, PlacesKept
<1>6. WhoIsWhere(x)
  BY <1>2 DEF Sound, Kept, WhoIsWhere, PlacesKept
<1>7. KingsAre(x) /\ x.kingIndex \in [Colors -> Squares] /\ x.materialKey \in MaterialKeys /\ x.material_factor \in [Colors -> Int]
  BY <1>2 DEF Sound, Kept, KingsAre, PlacesKept
<1>8. x.epIndex \in Squares /\ EpSound(x) /\ x.castlingRights \in SUBSET Rights
  BY <1>2 DEF Sound, EpSound, Squares
<1>9. RightsSound(x)
  BY <1>2 DEF Sound, RightsSound, PlacesKept
<1>10. ChecksClear(x)
  BY <1>2 DEF ChecksClear
<1> QED BY <1>2, <1>4, <1>5, <1>6, <1>7, <1>8, <1>9, <1>10 DEF Sound, Kept

-----------------------------------------------------------------------------
(***************************************************************************)
(* A board set up from a well-formed FEN is sound.                         *)
(***************************************************************************)

NewFriendly(fen) == [c \in Colors |-> UNION {fen.pieces[c][p] : p \in PieceTypes}]
NewKings(fen) == [c \in Colors |-> Least(fen.pieces[c][KING])]
NewIndexes(fen) ==
  [s \in Squares |->
     IF s \in NewFriendly(fen)[WHITE] \cup NewFriendly(fen)[BLACK]
     THEN CHOOSE p \in PieceTypes : s \in fen.pieces[WHITE][p] \cup fen.pieces[BLACK][p]
     ELSE EMPTY]
NewBareKey(fen) ==
  XorOfPieces(fen.pieces, PieceTypes) (+) EpKey(fen.epIndex)
                   (+) (IF fen.colorToMove = WHITE THEN SideKey ELSE {})
NewTable(fen) ==
  inc(dec(inc(EmptyTable, NewBareKey(fen) (+) CastlingKey({})), NewBareKey(fen) (+) CastlingKey({})),
      NewBareKey(fen) (+) CastlingKey(fen.castlingRights))
NewBoard(fen) ==
  [pieces |-> fen.pieces, friendlyPieces |-> NewFriendly(fen),
   allPieces |-> NewFriendly(fen)[WHITE] \cup NewFriendly(fen)[BLACK],
   pieceIndexes |-> NewIndexes(fen), kingIndex |-> NewKings(fen),
   colorToMove |-> fen.colorToMove, epIndex |-> fen.epIndex,
   castlingRights |-> fen.castlingRights,
   castlingConfig |-> detectCastlingConfig(NewIndexes(fen), NewKings(fen)),
   materialKey |-> calculateMaterialKey(fen.pieces),
   material_factor |-> Popcounts(fen.pieces, PHASE),
   zobristKey |-> NewBareKey(fen) (+) CastlingKey(fen.castlingRights),
   pawnZobristKey |-> XorOfPieces(fen.pieces, {PAWN}),
   checkingPieces |-> {}, pinnedPieces |-> {}, discoveredPieces |-> {},
   pinnedPiecesDirty |-> FALSE,
   lastCaptureOrPawnMoveBefore |-> fen.halfmoves, history |-> <<>>,
   playedBoardStates |-> NewTable(fen)]

\* what a new board holds
NewResult(fen, x) ==
  /\ IsBoard(x) /\ x.pinnedPiecesDirty = FALSE /\ x.history = <<>>
  /\ x.pieces = fen.pieces /\ x.friendlyPieces = NewFriendly(fen)
  /\ x.allPieces = NewFriendly(fen)[WHITE] \cup NewFriendly(fen)[BLACK]
  /\ x.pieceIndexes = NewIndexes(fen) /\ x.kingIndex = NewKings(fen)
  /\ x.colorToMove = fen.colorToMove /\ x.epIndex = fen.epIndex
  /\ x.castlingRights = fen.castlingRights
  /\ x.castlingConfig = detectCastlingConfig(NewIndexes(fen), NewKings(fen))
  /\ x.materialKey = calculateMaterialKey(fen.pieces)
  /\ x.material_factor = Popcounts(fen.pieces, PHASE)
  /\ x.zobristKey = NewBareKey(fen) (+) CastlingKey(fen.castlingRights)
  /\ x.pawnZobristKey = XorOfPieces(fen.pieces, {PAWN})
  /\ x.playedBoardStates = NewTable(fen)

NewChecks(x) ==
  \E y : /\ x.checkingPieces = checkingPiecesFull(y)
         /\ y.pieces = x.pieces /\ y.allPieces = x.allPieces
         /\ y.kingIndex = x.kingIndex /\ y.colorToMove = x.colorToMove

\* getNewCB, field by field.
LEMMA NewFields ==
  ASSUME NEW fen, NEW x, x = getNewCB(fen)
  PROVE  NewResult(fen, x) /\ NewChecks(x)
<1>1. PICK w : w = NewBoard(fen)
  OBVIOUS
<1>2. PICK v : v = [w EXCEPT !.checkingPieces = checkingPiecesFull(w)]
  OBVIOUS
<1>3. x = setPinnedAndDiscoPieces([NewBoard(fen) EXCEPT !.checkingPieces = checkingPiecesFull(NewBoard(fen))])
  BY Zenon DEF getNewCB, NewBoard, NewFriendly, NewKings, NewIndexes, NewBareKey, NewTable
<1>4. x = setPinnedAndDiscoPieces(v)
  BY <1>1, <1>2, <1>3, Zenon
<1> DEFINE lone == [c \in Colors |-> LoneBlockers(v, c)]
           P == UNION {lone[c] \cap v.friendlyPieces[c] : c \in Colors}
           D == UNION {lone[c] \cap v.friendlyPieces[Opponent(c)] : c \in Colors}
<1>5. x = [v EXCEPT !.pinnedPieces = P, !.discoveredPieces = D]
  BY <1>4, Zenon DEF setPinnedAndDiscoPieces
<1> HIDE DEF P, D
<1>6. /\ IsBoard(w) /\ w.pinnedPiecesDirty = FALSE /\ w.history = <<>>
      /\ w.pieces = fen.pieces /\ w.friendlyPieces = NewFriendly(fen)
      /\ w.allPieces = NewFriendly(fen)[WHITE] \cup NewFriendly(fen)[BLACK]
      /\ w.pieceIndexes = NewIndexes(fen) /\ w.kingIndex = NewKings(fen)
      /\ w.colorToMove = fen.colorToMove /\ w.epIndex = fen.epIndex
      /\ w.castlingRights = fen.castlingRights
      /\ w.castlingConfig = detectCastlingConfig(NewIndexes(fen), NewKings(fen))
      /\ w.materialKey = calculateMaterialKey(fen.pieces)
      /\ w.material_factor = Popcounts(fen.pieces, PHASE)
      /\ w.zobristKey = NewBareKey(fen) (+) CastlingKey(fen.castlingRights)
      /\ w.pawnZobristKey = XorOfPieces(fen.pieces, {PAWN})
      /\ w.playedBoardStates = NewTable(fen)
  BY <1>1 DEF NewBoard, IsBoard
<1>7. /\ IsBoard(v) /\ v.checkingPieces = checkingPiecesFull(w)
      /\ v.pinnedPiecesDirty = w.pinnedPiecesDirty /\ v.history = w.history
      /\ v.pieces = w.pieces /\ v.friendlyPieces = w.friendlyPieces
      /\ v.allPieces = w.allPieces
      /\ v.pieceIndexes = w.pieceIndexes /\ v.kingIndex = w.kingIndex
      /\ v.colorToMove = w.colorToMove /\ v.epIndex = w.epIndex
      /\ v.castlingRights = w.castlingRights /\ v.castlingConfig = w.castlingConfig
      /\ v.materialKey = w.materialKey /\ v.material_factor = w.material_factor
      /\ v.zobristKey = w.zobristKey /\ v.pawnZobristKey = w.pawnZobristKey
      /\ v.playedBoardStates = w.playedBoardStates
  BY <1>2, <1>6 DEF IsBoard
<1>8. /\ IsBoard(x) /\ x.checkingPieces = v.checkingPieces
      /\ x.pinnedPiecesDirty = v.pinnedPiecesDirty /\ x.history = v.history
      /\ x.pieces = v.pieces /\ x.friendlyPieces = v.friendlyPieces
      /\ x.allPieces = v.allPieces
      /\ x.pieceIndexes = v.pieceIndexes /\ x.kingIndex = v.kingIndex
      /\ x.colorToMove = v.colorToMove /\ x.epIndex = v.epIndex
      /\ x.castlingRights = v.castlingRights /\ x.castlingConfig = v.castlingConfig
      /\ x.materialKey = v.materialKey /\ x.material_factor = v.material_factor
      /\ x.zobristKey = v.zobristKey /\ x.pawnZobristKey = v.pawnZobristKey
      /\ x.playedBoardStates = v.playedBoardStates
  BY <1>5, <1>7 DEF IsBoard
<1>9. NewResult(fen, x)
  BY <1>6, <1>7, <1>8, Zenon DEF NewResult
<1>10. NewChecks(x)
  BY <1>7, <1>8, Zenon DEF NewChecks
<1> QED BY <1>9, <1>10

-----------------------------------------------------------------------------
(***************************************************************************)
(* The keys of the positions, and the counts of the material.              *)
(***************************************************************************)

\* every key is made of numbers of the stream
LEMMA KeysMade ==
  /\ \A a, c \in PositionKeys : a (+) c \in PositionKeys
  /\ \A s \in Squares, c \in Colors, p \in PieceTypes : PieceKey(s, c, p) \in PositionKeys
  /\ \A rights : CastlingKey(rights) \in PositionKeys
  /\ \A s \in Squares : EpKey(s) \in PositionKeys
  /\ SideKey \in PositionKeys /\ {} \in PositionKeys
<1>1. \A a, c \in PositionKeys : a (+) c \in PositionKeys
  BY DEF PositionKeys, (+)
<1>2. ASSUME NEW s \in Squares, NEW c \in Colors, NEW p \in PieceTypes
      PROVE  PieceKey(s, c, p) \in PositionKeys
  <2>1. 14 * s + 7 * c + p \in 0..974
    BY DEF Squares, Colors, PieceTypes, WHITE, BLACK, PAWN, NIGHT, BISHOP, ROOK, QUEEN, KING
  <2> QED BY <2>1 DEF PieceKey, PositionKeys
<1>3. ASSUME NEW rights PROVE CastlingKey(rights) \in PositionKeys
  BY DEF CastlingKey, PositionKeys
<1>4. ASSUME NEW s \in Squares PROVE EpKey(s) \in PositionKeys
  BY DEF EpKey, PositionKeys, Squares
<1>5. SideKey \in PositionKeys /\ {} \in PositionKeys
  BY DEF SideKey, PositionKeys
<1> QED BY <1>1, <1>2, <1>3, <1>4, <1>5

\* The numbers of the pieces make a key,
LEMMA XorMade ==
  ASSUME NEW pieces \in Men, NEW types, types \subseteq PieceTypes
  PROVE  XorOfPieces(pieces, types) \in PositionKeys
<1>1. ASSUME NEW c \in Colors, NEW p \in types, NEW s \in pieces[c][p]
      PROVE  14 * s + 7 * c + p \in 0..974
  <2>1. s \in Squares /\ p \in PieceTypes
    BY DEF Men
  <2> QED
    BY <2>1 DEF Squares, Colors, PieceTypes, WHITE, BLACK, PAWN, NIGHT, BISHOP, ROOK, QUEEN, KING
<1>2. ASSUME NEW k \in XorOfPieces(pieces, types)
      PROVE  k \in 0..974
  <2>1. PICK c \in Colors, p \in types : k \in {14 * s + 7 * c + p : s \in pieces[c][p]}
    BY <1>2 DEF XorOfPieces
  <2>2. PICK s \in pieces[c][p] : k = 14 * s + 7 * c + p
    BY <2>1
  <2> QED BY <1>1, <2>2
<1> QED BY <1>2 DEF PositionKeys

\* so does what an ordinary move leaves,
LEMMA OrdinaryKeyMade ==
  ASSUME NEW b, Sound(b), b.zobristKey \in PositionKeys, NEW m, OrdinaryFacts(b, m), OrdinaryFits(b, m)
  PROVE  OrdinaryKey(b, m) \in PositionKeys
<1>1. /\ b.colorToMove \in Colors /\ Opponent(b.colorToMove) \in Colors
      /\ b.epIndex \in Squares /\ b.pieces \in Men
  BY ColorsTwo DEF Sound, Kept, PlacesTyped
<1>2. /\ m.from \in Squares /\ m.to \in Squares /\ m.source \in PieceTypes
      /\ m.attacked # EMPTY => m.attacked \in PieceTypes /\ CaptureSquare(b, m) \in b.pieces[Opponent(b.colorToMove)][m.attacked]
  BY DEF OrdinaryFacts
<1>3. m.attacked # EMPTY => CaptureSquare(b, m) \in Squares
  BY <1>1, <1>2 DEF Men
<1>4. Placed(m) \in PieceTypes
  BY PlacedIs
<1>5. PieceKeyChange(b, m) \in PositionKeys
  BY <1>1, <1>2, <1>3, <1>4, KeysMade DEF PieceKeyChange
<1>6. CastlingKey(b.castlingRights) \in PositionKeys /\ CastlingKey(RightsAfter(b, m)) \in PositionKeys
  BY KeysMade
<1>7. EpAfter(b, m) \in Squares
  <2>1. PICK x : x = DoOrdinaryMove(b, m)
    OBVIOUS
  <2>2. x.epIndex \in Squares
    BY <2>1, OrdinaryEp
  <2>3. OrdinaryResult(b, m, x)
    BY <2>1, OrdinarySays
  <2> QED BY <2>2, <2>3 DEF OrdinaryResult
<1> QED BY <1>1, <1>5, <1>6, <1>7, KeysMade DEF OrdinaryKey

\* what castling leaves,
LEMMA CastlingKeyMade ==
  ASSUME NEW b, Sound(b), b.zobristKey \in PositionKeys, NEW m, CastlingFacts(b, m)
  PROVE  CastlingKeyAfter(b, m) \in PositionKeys
<1> DEFINE us == b.colorToMove
           c == CastledSquares(b, m)
           rights == getKingMovedCastlingRights(b.castlingRights, us)
<1>1. us \in Colors /\ b.epIndex \in Squares /\ b.pieces \in Men
  BY DEF Sound, Kept, PlacesTyped
<1>2. /\ m.from \in Squares /\ m.to \in Squares /\ c.rookFrom \in Squares /\ c.rookTo \in Squares
  BY <1>1, TypesDiffer DEF CastlingFacts, Men, PieceTypes, PAWN, NIGHT, BISHOP, ROOK, QUEEN, KING
<1>3. KING \in PieceTypes /\ ROOK \in PieceTypes
  BY DEF PieceTypes, PAWN, NIGHT, BISHOP, ROOK, QUEEN, KING
<1>4. /\ PieceKey(m.from, us, KING) \in PositionKeys /\ PieceKey(m.to, us, KING) \in PositionKeys
      /\ PieceKey(c.rookFrom, us, ROOK) \in PositionKeys /\ PieceKey(c.rookTo, us, ROOK) \in PositionKeys
      /\ EpKey(b.epIndex) \in PositionKeys /\ SideKey \in PositionKeys
      /\ CastlingKey(b.castlingRights) \in PositionKeys /\ CastlingKey(rights) \in PositionKeys
  BY <1>1, <1>2, <1>3, KeysMade
<1>5. CastlingKeyAfter(b, m) =
        b.zobristKey (+) PieceKey(m.from, us, KING) (+) PieceKey(m.to, us, KING)
               (+) PieceKey(c.rookFrom, us, ROOK) (+) PieceKey(c.rookTo, us, ROOK)
               (+) EpKey(b.epIndex) (+) SideKey
               (+) CastlingKey(b.castlingRights) (+) CastlingKey(rights)
  BY Zenon DEF CastlingKeyAfter
<1> HIDE DEF us, c, rights
<1> QED BY <1>4, <1>5, KeysMade

\* and what a null move leaves.
LEMMA NullKeyMade ==
  ASSUME NEW b, Sound(b), b.zobristKey \in PositionKeys
  PROVE  b.zobristKey (+) SideKey (+) EpKey(b.epIndex) \in PositionKeys
<1>1. b.epIndex \in Squares
  BY DEF Sound
<1> QED BY <1>1, KeysMade

\* the material of a new board
LEMMA CountsAre ==
  ASSUME NEW S \in SUBSET Squares
  PROVE  IsFiniteSet(S) /\ Cardinality(S) \in Nat
<1>1. 0 \in Int /\ 63 \in Int
  OBVIOUS
<1>2. IsFiniteSet(Squares)
  BY ONLY <1>1, FS_Interval DEF Squares
<1> QED BY <1>2, FS_Subset, FS_CardinalityType

\* The counts of men are in their range.
LEMMA NewMaterial ==
  ASSUME NEW P \in Men
  PROVE  /\ calculateMaterialKey(P) \in MaterialKeys
         /\ Popcounts(P, PHASE) \in [Colors -> Int]
<1>1. \A c \in Colors, p \in PieceTypes : Cardinality(P[c][p]) \in Nat
  BY CountsAre DEF Men
<1>2. /\ PAWN \in PieceTypes /\ NIGHT \in PieceTypes /\ BISHOP \in PieceTypes
      /\ ROOK \in PieceTypes /\ QUEEN \in PieceTypes /\ WHITE \in Colors /\ BLACK \in Colors
  BY DEF PieceTypes, PAWN, NIGHT, BISHOP, ROOK, QUEEN, KING, WHITE, BLACK, Colors
<1>3. ASSUME NEW weight, \A p \in NIGHT..QUEEN : weight[p] \in Int
      PROVE  Popcounts(P, weight) \in [Colors -> Int]
  <2>1. ASSUME NEW c \in Colors, NEW p \in NIGHT..QUEEN
        PROVE  weight[p] * Cardinality(P[c][p]) \in Int
    BY <1>1, <1>3, TypesDiffer
  <2>2. NIGHT \in NIGHT..QUEEN /\ BISHOP \in NIGHT..QUEEN /\ ROOK \in NIGHT..QUEEN /\ QUEEN \in NIGHT..QUEEN
    BY DEF NIGHT, BISHOP, ROOK, QUEEN
  <2>3. \A a, b, c, d \in Int : a + b + c + d \in Int
    OBVIOUS
  <2> QED BY <2>1, <2>2, <2>3 DEF Popcounts
<1>4. /\ \A p \in NIGHT..QUEEN : VALUES[p] \in Int
      /\ \A p \in NIGHT..QUEEN : PHASE[p] \in Int
  BY DEF VALUES, PHASE, NIGHT, BISHOP, ROOK, QUEEN, KING, EMPTY, PAWN
<1>5. Popcounts(P, VALUES) \in [Colors -> Int] /\ Popcounts(P, PHASE) \in [Colors -> Int]
  BY <1>3, <1>4
<1> DEFINE half == [c \in Colors |-> Popcounts(P, VALUES)[c] + Cardinality(P[c][PAWN])]
<1>6. half[WHITE] \in Int /\ half[BLACK] \in Int
  BY <1>1, <1>2, <1>5
<1>7. calculateMaterialKey(P) = [low |-> half[WHITE] % HALF, high |-> (half[BLACK] + half[WHITE] \div HALF) % HALF]
  BY Zenon DEF calculateMaterialKey
<1> HIDE DEF half
<1>8. half[WHITE] % HALF \in 0..(HALF - 1) /\ (half[BLACK] + half[WHITE] \div HALF) % HALF \in 0..(HALF - 1)
  BY <1>6, HalfIs, CarryTwice
<1>9. calculateMaterialKey(P) \in MaterialKeys
  BY <1>7, <1>8 DEF MaterialKeys
<1> QED BY <1>5, <1>9

-----------------------------------------------------------------------------
(***************************************************************************)
(* The keys that the board's history keeps.                                *)
(***************************************************************************)

KeysOn(b) ==
  [i \in 1..(Len(b.history) + 1) |->
     IF i > Len(b.history) THEN b.zobristKey ELSE b.history[i].zobristKey]

\* They are a sequence that ends in the key of the board.
LEMMA KeysOnType ==
  ASSUME NEW b, IsSequence(b.history)
  PROVE  /\ Len(KeysOn(b)) = Len(b.history) + 1 /\ Len(b.history) \in Nat
         /\ KeysOn(b) # <<>>
         /\ KeysOn(b)[Len(KeysOn(b))] = b.zobristKey
         /\ \A i \in 1..Len(b.history) : KeysOn(b)[i] = b.history[i].zobristKey
         /\ IsSequence(KeysOn(b))
<1>1. Len(b.history) \in Nat
  BY DEF IsSequence
<1> DEFINE n == Len(b.history)
           k(i) == IF i > n THEN b.zobristKey ELSE b.history[i].zobristKey
<1>2. PICK s : s = [i \in 1..(n + 1) |-> k(i)]
  OBVIOUS
<1>3. KeysOn(b) = s
  BY <1>2, Zenon DEF KeysOn
<1>4. DOMAIN s = 1..(n + 1) /\ n + 1 \in Nat /\ \A i \in 1..(n + 1) : s[i] = k(i)
  BY <1>1, <1>2
<1>5. s \in Seq({s[i] : i \in DOMAIN s}) /\ Len(s) = n + 1
  BY <1>1, <1>2, <1>4
<1>6. s[n + 1] = b.zobristKey /\ \A i \in 1..n : s[i] = b.history[i].zobristKey
  BY <1>1, <1>4
<1>7. s # <<>>
  BY <1>5, <1>1
<1> QED BY <1>1, <1>3, <1>5, <1>6, <1>7 DEF IsSequence

\* A move pushes one key, and taking the last one off gives those before.
LEMMA KeysPushed ==
  ASSUME NEW b, IsSequence(b.history), NEW e, e.zobristKey = b.zobristKey,
         NEW x, x.history = Append(b.history, e)
  PROVE  /\ KeysOn(x) = Append(KeysOn(b), x.zobristKey)
         /\ SubSeq(KeysOn(x), 1, Len(KeysOn(x)) - 1) = KeysOn(b)
<1>1. /\ IsSequence(x.history) /\ Len(x.history) = Len(b.history) + 1 /\ Len(b.history) \in Nat
      /\ x.history[Len(b.history) + 1] = e
      /\ \A i \in 1..Len(b.history) : x.history[i] = b.history[i]
  BY AppendedBack
<1> DEFINE n == Len(b.history)
           s == KeysOn(b)
           t == KeysOn(x)
<1>2. /\ Len(s) = n + 1 /\ IsSequence(s) /\ s[n + 1] = b.zobristKey
      /\ \A i \in 1..n : s[i] = b.history[i].zobristKey
  BY KeysOnType
<1>3. /\ Len(t) = n + 2 /\ IsSequence(t) /\ t[n + 2] = x.zobristKey
      /\ \A i \in 1..(n + 1) : t[i] = x.history[i].zobristKey
  <2>1. /\ Len(t) = Len(x.history) + 1 /\ t[Len(t)] = x.zobristKey /\ IsSequence(t)
        /\ \A i \in 1..Len(x.history) : t[i] = x.history[i].zobristKey
    BY <1>1, KeysOnType
  <2> HIDE DEF t
  <2>2. Len(x.history) + 1 = n + 2
    BY <1>1
  <2> QED BY <1>1, <2>1, <2>2
<1>4. /\ IsSequence(Append(s, x.zobristKey))
      /\ Len(Append(s, x.zobristKey)) = n + 2
      /\ Append(s, x.zobristKey)[n + 2] = x.zobristKey
      /\ \A i \in 1..(n + 1) : Append(s, x.zobristKey)[i] = s[i]
      /\ SubSeq(Append(s, x.zobristKey), 1, n + 1) = s
  BY <1>1, <1>2, AppendedBack
<1> HIDE DEF s, t, n
<1>5. \A i \in 1..(n + 1) : t[i] = s[i]
  <2> TAKE i \in 1..(n + 1)
  <2>1. CASE i \in 1..n
    BY <1>1, <1>2, <1>3, <2>1 DEF n
  <2>2. CASE i = n + 1
    BY <1>1, <1>2, <1>3, <2>2 DEF n
  <2> QED BY <1>1, <2>1, <2>2 DEF n
<1>6. n \in Nat
  BY <1>1 DEF n
<1>7. t = Append(s, x.zobristKey)
  <2> DEFINE u == Append(s, x.zobristKey)
  <2>1. \A i \in 1..(n + 2) : t[i] = u[i]
    BY <1>3, <1>4, <1>5, <1>6
  <2>2. DOMAIN t = 1..(n + 2) /\ t = [i \in 1..(n + 2) |-> t[i]]
    BY <1>3, <1>6 DEF IsSequence
  <2>3. DOMAIN u = 1..(n + 2) /\ u = [i \in 1..(n + 2) |-> u[i]]
    <3>1. IsSequence(u) /\ Len(u) = n + 2
      BY <1>4
    <3> HIDE DEF u
    <3> QED BY <3>1, <1>6 DEF IsSequence
  <2> HIDE DEF u
  <2>4. [i \in 1..(n + 2) |-> t[i]] = [i \in 1..(n + 2) |-> u[i]]
    BY <2>1
  <2>5. t = u
    BY <2>2, <2>3, <2>4
  <2> QED BY <2>5 DEF u
<1> QED BY <1>3, <1>4, <1>6, <1>7 DEF s, t

-----------------------------------------------------------------------------
(***************************************************************************)
(* A board and the board that a move made of it.                           *)
(***************************************************************************)

\* the move m (NO_MOVE for the null move) leads from b to z
Leads(b, m, z) ==
  \/ m = NO_MOVE /\ z = doNullMove(b)
  \/ ~is_castling(m) /\ OrdinaryFacts(b, m) /\ z = DoOrdinaryMove(b, m)
  \/ is_castling(m) /\ CastlingFacts(b, m) /\ z = doCastling960(b, m)

\* x is, but for its pins, what a move made on b led to
Linked(b, x) ==
  /\ Sound(b) /\ b.pinnedPiecesDirty = FALSE
  /\ \E m, z : /\ Leads(b, m, z) /\ ExceptPins(x, z)
               /\ dec(z.playedBoardStates, z.zobristKey) = b.playedBoardStates

\* A move is not the null move.
LEMMA MovesAreNot ==
  ASSUME NEW b, NEW m
  PROVE  /\ OrdinaryFacts(b, m) => m # NO_MOVE
         /\ CastlingFacts(b, m) => m # NO_MOVE
<1>1. NO_MOVE.source = EMPTY /\ EMPTY \notin PieceTypes /\ KING \in PieceTypes
  BY TypesDiffer DEF NO_MOVE
<1>2. OrdinaryFacts(b, m) => m.source \in PieceTypes
  BY DEF OrdinaryFacts
<1>3. CastlingFacts(b, m) => m.source = KING
  BY Zenon DEF CastlingFacts
<1> QED BY <1>1, <1>2, <1>3

\* Every move is recorded in the history.
LEMMA LeadsRecords ==
  ASSUME NEW b, Sound(b), b.pinnedPiecesDirty = FALSE, NEW m, NEW z, Leads(b, m, z)
  PROVE  z.history = Append(b.history, Entry(b, m)) /\ IsBoard(z)
<1>0. IsBoard(b) /\ b.pieces \in Men /\ b.colorToMove \in Colors
  BY DEF Sound, Kept, PlacesTyped
<1>1. CASE m = NO_MOVE /\ z = doNullMove(b)
  <2>1. NullResult(b, z)
    BY <1>0, <1>1, NullFields
  <2> QED BY <1>1, <2>1, Zenon DEF NullResult
<1>2. CASE z = DoOrdinaryMove(b, m)
  <2>1. OrdinaryResult(b, m, z)
    BY <1>2, OrdinarySays
  <2> QED BY <2>1, Zenon DEF OrdinaryResult
<1>3. CASE z = doCastling960(b, m)
  <2>1. CastlingResult(b, m, z)
    BY <1>3, CastlingSays
  <2> QED BY <2>1, Zenon DEF CastlingResult
<1> QED BY <1>1, <1>2, <1>3 DEF Leads

\* what taking back a linked board gives
TakenBack(b, x) ==
  /\ IsSequence(x.history) /\ Len(x.history) = Len(b.history) + 1
  /\ x.history[Len(x.history)].move = NO_MOVE => undoNullMove(x) = b
  /\ x.history[Len(x.history)].move # NO_MOVE => undoMove(x, x.history[Len(x.history)].move) = b
  /\ KeysOn(x) = Append(KeysOn(b), x.zobristKey)
  /\ SubSeq(KeysOn(x), 1, Len(KeysOn(x)) - 1) = KeysOn(b)
  /\ dec(x.playedBoardStates, x.zobristKey) = b.playedBoardStates

\* What a move led to is taken back to the board before it.
LEMMA LinkedBack ==
  ASSUME NEW b, NEW x, Linked(b, x)
  PROVE  TakenBack(b, x)
<1>0. Sound(b) /\ b.pinnedPiecesDirty = FALSE /\ Kept(b)
  BY DEF Linked, Sound
<1>1. PICK m, z : /\ Leads(b, m, z) /\ ExceptPins(x, z)
                  /\ dec(z.playedBoardStates, z.zobristKey) = b.playedBoardStates
  BY Zenon DEF Linked
<1>2. z.history = Append(b.history, Entry(b, m))
  BY <1>0, <1>1, LeadsRecords
<1>3. /\ x.history = Append(b.history, Entry(b, m))
      /\ x.zobristKey = z.zobristKey /\ x.playedBoardStates = z.playedBoardStates
  BY <1>1, <1>2, Zenon DEF ExceptPins
<1>4. IsSequence(b.history)
  BY <1>0, Zenon DEF Kept
<1>5. Entry(b, m).zobristKey = b.zobristKey /\ Entry(b, m).move = m
  BY DEF Entry
<1>6. /\ KeysOn(x) = Append(KeysOn(b), x.zobristKey)
      /\ SubSeq(KeysOn(x), 1, Len(KeysOn(x)) - 1) = KeysOn(b)
  BY <1>3, <1>4, <1>5, KeysPushed
<1>7. /\ IsSequence(x.history) /\ Len(x.history) = Len(b.history) + 1
      /\ x.history[Len(b.history) + 1] = Entry(b, m)
  BY <1>3, <1>4, AppendedBack
<1>8. x.history[Len(x.history)].move = m
  BY <1>5, <1>7
<1>9. m = NO_MOVE => undoNullMove(x) = b
  BY <1>1, MovesAreNot, <1>0, NullUndone DEF Leads
<1>10. m # NO_MOVE => undoMove(x, m) = b
  <2>1. CASE ~is_castling(m) /\ m # NO_MOVE
    BY <1>1, <2>1, <1>0, OrdinaryUndone DEF Leads, undoMove
  <2>2. CASE is_castling(m) /\ m # NO_MOVE
    BY <1>1, <2>2, <1>0, CastlingUndone DEF Leads, undoMove
  <2> QED BY <2>1, <2>2
<1>11. dec(x.playedBoardStates, x.zobristKey) = b.playedBoardStates
  BY <1>1, <1>3
<1> QED BY <1>6, <1>7, <1>8, <1>9, <1>10, <1>11 DEF TakenBack

\* a board linked to b stays so while its pins change
LEMMA LinkedExceptPins ==
  ASSUME NEW b, NEW x, Linked(b, x), NEW y, ExceptPins(y, x)
  PROVE  Linked(b, y)
<1>1. PICK m, z : /\ Leads(b, m, z) /\ ExceptPins(x, z)
                  /\ dec(z.playedBoardStates, z.zobristKey) = b.playedBoardStates
  BY Zenon DEF Linked
<1>2. ExceptPins(y, z)
  BY <1>1 DEF ExceptPins
<1> QED BY <1>1, <1>2, Zenon DEF Linked

-----------------------------------------------------------------------------
\* the board after a move, and its key
LEMMA LeadsSound ==
  ASSUME NEW b, Sound(b), b.pinnedPiecesDirty = FALSE, NEW m, NEW z, Leads(b, m, z),
         m = NO_MOVE => b.checkingPieces = {},
         ~is_castling(m) /\ m # NO_MOVE => OrdinaryFits(b, m)
  PROVE  Sound(z) /\ z.pinnedPiecesDirty \in BOOLEAN
<1>1. CASE m = NO_MOVE
  <2>1. z = doNullMove(b)
    BY <1>1, MovesAreNot DEF Leads
  <2> QED BY <1>1, <2>1, NullSound
<1>2. CASE ~is_castling(m) /\ m # NO_MOVE
  BY <1>2, OrdinarySound DEF Leads
<1>3. CASE is_castling(m) /\ m # NO_MOVE
  BY <1>3, CastlingSound DEF Leads
<1> QED BY <1>1, <1>2, <1>3

\* Every move counts the key it leads to.
LEMMA LeadsCounts ==
  ASSUME NEW b, Sound(b), b.pinnedPiecesDirty = FALSE, b.zobristKey \in PositionKeys, NEW m, NEW z, Leads(b, m, z),
         ~is_castling(m) /\ m # NO_MOVE => OrdinaryFits(b, m)
  PROVE  z.zobristKey \in PositionKeys /\ z.playedBoardStates = inc(b.playedBoardStates, z.zobristKey)
<1>1. CASE m = NO_MOVE
  <2>1. z = doNullMove(b)
    BY <1>1, MovesAreNot DEF Leads
  <2>2. NullResult(b, z)
    BY <2>1, NullFields DEF Sound, Kept
  <2>3. z.zobristKey = b.zobristKey (+) SideKey (+) EpKey(b.epIndex) /\ z.playedBoardStates = inc(b.playedBoardStates, z.zobristKey)
    BY <2>2, Zenon DEF NullResult
  <2>4. b.zobristKey (+) SideKey (+) EpKey(b.epIndex) \in PositionKeys
    BY NullKeyMade
  <2> QED BY <2>3, <2>4
<1>2. CASE ~is_castling(m) /\ m # NO_MOVE
  <2>1. OrdinaryFacts(b, m) /\ z = DoOrdinaryMove(b, m)
    BY <1>2 DEF Leads
  <2>2. OrdinaryResult(b, m, z)
    BY <2>1, OrdinarySays
  <2>3. z.zobristKey = OrdinaryKey(b, m) /\ z.playedBoardStates = inc(b.playedBoardStates, z.zobristKey)
    BY <2>2, Zenon DEF OrdinaryResult
  <2>4. OrdinaryKey(b, m) \in PositionKeys
    BY <1>2, <2>1, OrdinaryKeyMade
  <2> QED BY <2>3, <2>4
<1>3. CASE is_castling(m) /\ m # NO_MOVE
  <2>1. CastlingFacts(b, m) /\ z = doCastling960(b, m)
    BY <1>3 DEF Leads
  <2>2. CastlingResult(b, m, z)
    BY <2>1, CastlingSays
  <2>3. z.zobristKey = CastlingKeyAfter(b, m) /\ z.playedBoardStates = inc(b.playedBoardStates, z.zobristKey)
    BY <2>2, Zenon DEF CastlingResult
  <2>4. CastlingKeyAfter(b, m) \in PositionKeys
    BY <2>1, CastlingKeyMade
  <2> QED BY <2>3, <2>4
<1> QED BY <1>1, <1>2, <1>3

-----------------------------------------------------------------------------
(***************************************************************************)
(* The move that leads to the next board.                                  *)
(***************************************************************************)

\* the move that is made is one that the board before it can make
MoveLeads(b, m, x) ==
  /\ Leads(b, m, x) /\ m # NO_MOVE
  /\ ~is_castling(m) => OrdinaryFits(b, m)

-----------------------------------------------------------------------------
(***************************************************************************)
(* Lines in files and ranks.                                               *)
(***************************************************************************)

Amid(x, y, z) == (x < y /\ y < z) \/ (z < y /\ y < x)

\* t lies on a line from a to b, between them
OnLine(a, t, b) ==
  \/ RankOf(b) = RankOf(a) /\ RankOf(t) = RankOf(a) /\ Amid(FileOf(a), FileOf(t), FileOf(b))
  \/ /\ \/ FileOf(b) = FileOf(a) /\ FileOf(t) = FileOf(a)
        \/ FileOf(b) - FileOf(a) = RankOf(b) - RankOf(a) /\ FileOf(t) - FileOf(a) = RankOf(t) - RankOf(a)
        \/ FileOf(b) - FileOf(a) = RankOf(a) - RankOf(b) /\ FileOf(t) - FileOf(a) = RankOf(a) - RankOf(t)
     /\ Amid(RankOf(a), RankOf(t), RankOf(b))

\* A square is its rank and its file.
LEMMA Coordinates ==
  ASSUME NEW a \in Squares
  PROVE  /\ RankOf(a) \in 0..7 /\ FileOf(a) \in 0..7 /\ a = 8 * RankOf(a) + FileOf(a)
         /\ \A r, f \in 0..7 : a = 8 * r + f => r = RankOf(a) /\ f = FileOf(a)
  BY DEF Squares, RankOf, FileOf

\* The lines by files and ranks.
LEMMA LineStepIs ==
  ASSUME NEW a \in Squares, NEW b \in Squares
  PROVE  /\ LINE_STEP[a][b] = LineStep(a, b) /\ LINE_STEP[a][b] \in {0, 1, 7, 8, 9}
         /\ LINE_STEP[a][b] = 1 <=> RankOf(a) = RankOf(b) /\ FileOf(a) # FileOf(b)
         /\ LINE_STEP[a][b] = 8 <=> FileOf(a) = FileOf(b) /\ RankOf(a) # RankOf(b)
         /\ LINE_STEP[a][b] = 9 <=> FileOf(b) - FileOf(a) = RankOf(b) - RankOf(a) /\ RankOf(a) # RankOf(b)
         /\ LINE_STEP[a][b] = 7 <=> FileOf(b) - FileOf(a) = RankOf(a) - RankOf(b) /\ RankOf(a) # RankOf(b)
<1>1. LINE_STEP[a][b] = LineStep(a, b)
  BY DEF LINE_STEP
<1>2. ASSUME NEW lo \in Squares, NEW hi \in Squares, lo < hi
      PROVE  /\ RankOf(lo) # RankOf(hi) /\ FileOf(lo) # FileOf(hi) =>
                  /\ (hi - lo) % 9 = 0 /\ FileOf(hi) > FileOf(lo) <=> FileOf(hi) - FileOf(lo) = RankOf(hi) - RankOf(lo)
                  /\ (hi - lo) % 7 = 0 /\ FileOf(hi) < FileOf(lo) <=> FileOf(hi) - FileOf(lo) = RankOf(lo) - RankOf(hi)
             /\ RankOf(lo) <= RankOf(hi)
  BY <1>2 DEF Squares, RankOf, FileOf
<1>3. ASSUME NEW lo \in Squares, NEW hi \in Squares, lo < hi, NEW step,
             step = IF RankOf(lo) = RankOf(hi) THEN 1
                    ELSE IF FileOf(lo) = FileOf(hi) THEN 8
                    ELSE IF (hi - lo) % 9 = 0 /\ FileOf(hi) > FileOf(lo) THEN 9
                    ELSE IF (hi - lo) % 7 = 0 /\ FileOf(hi) < FileOf(lo) THEN 7
                    ELSE 0
      PROVE  /\ step \in {0, 1, 7, 8, 9}
             /\ step = 1 <=> RankOf(lo) = RankOf(hi) /\ FileOf(lo) # FileOf(hi)
             /\ step = 8 <=> FileOf(lo) = FileOf(hi) /\ RankOf(lo) # RankOf(hi)
             /\ step = 9 <=> FileOf(hi) - FileOf(lo) = RankOf(hi) - RankOf(lo) /\ RankOf(lo) # RankOf(hi)
             /\ step = 7 <=> FileOf(hi) - FileOf(lo) = RankOf(lo) - RankOf(hi) /\ RankOf(lo) # RankOf(hi)
  BY <1>2, <1>3, Coordinates
<1>4. CASE a < b
  BY <1>1, <1>3, <1>4 DEF LineStep
<1>5. CASE b < a
  <2>1. /\ LINE_STEP[a][b] \in {0, 1, 7, 8, 9}
        /\ LINE_STEP[a][b] = 1 <=> RankOf(b) = RankOf(a) /\ FileOf(b) # FileOf(a)
        /\ LINE_STEP[a][b] = 8 <=> FileOf(b) = FileOf(a) /\ RankOf(b) # RankOf(a)
        /\ LINE_STEP[a][b] = 9 <=> FileOf(a) - FileOf(b) = RankOf(a) - RankOf(b) /\ RankOf(b) # RankOf(a)
        /\ LINE_STEP[a][b] = 7 <=> FileOf(a) - FileOf(b) = RankOf(b) - RankOf(a) /\ RankOf(b) # RankOf(a)
    <3>1. ~(a < b) /\ a # b
      BY <1>5 DEF Squares
    <3> QED BY <1>1, <1>3, <1>5, <3>1 DEF LineStep
  <2> QED BY <1>1, <2>1, Coordinates
<1>6. CASE a = b
  BY <1>1, <1>6, Coordinates DEF LineStep
<1> QED BY <1>4, <1>5, <1>6 DEF Squares

\* Lines have no direction.
LEMMA LinesBothWays ==
  ASSUME NEW a \in Squares, NEW b \in Squares
  PROVE  LINE_STEP[a][b] = LINE_STEP[b][a] /\ IN_BETWEEN[a][b] = IN_BETWEEN[b][a]
<1>1. LINE_STEP[a][b] = LINE_STEP[b][a]
  BY LineStepIs, Coordinates
<1>2. CASE a = b
  BY <1>2
<1>3. CASE a < b
  <2>1. ~(b < a)
    BY <1>3 DEF Squares
  <2> QED BY <1>1, <1>3, <2>1 DEF IN_BETWEEN
<1>4. CASE b < a
  <2>1. ~(a < b)
    BY <1>4 DEF Squares
  <2> QED BY <1>1, <1>4, <2>1 DEF IN_BETWEEN
<1> QED BY <1>1, <1>2, <1>3, <1>4 DEF Squares

\* The squares between by files and ranks.
LEMMA BetweenIs ==
  ASSUME NEW a \in Squares, NEW b \in Squares, NEW t
  PROVE  t \in IN_BETWEEN[a][b] <=> t \in Squares /\ OnLine(a, t, b)
<1>0. t \in IN_BETWEEN[a][b] => t \in Squares
  BY BetweenOnBoard
<1>1. ASSUME NEW x \in Squares, NEW y \in Squares, x < y, t \in Squares
      PROVE  t \in IN_BETWEEN[x][y] <=> OnLine(x, t, y)
  <2> DEFINE step == LINE_STEP[x][y]
  <2>1. IN_BETWEEN[x][y] = IF step = 0 THEN {} ELSE {s \in (x + 1)..(y - 1) : (s - x) % step = 0}
    BY <1>1 DEF IN_BETWEEN
  <2>2. /\ step \in {0, 1, 7, 8, 9}
        /\ step = 1 <=> RankOf(x) = RankOf(y) /\ FileOf(x) # FileOf(y)
        /\ step = 8 <=> FileOf(x) = FileOf(y) /\ RankOf(x) # RankOf(y)
        /\ step = 9 <=> FileOf(y) - FileOf(x) = RankOf(y) - RankOf(x) /\ RankOf(x) # RankOf(y)
        /\ step = 7 <=> FileOf(y) - FileOf(x) = RankOf(x) - RankOf(y) /\ RankOf(x) # RankOf(y)
    BY LineStepIs
  <2> HIDE DEF step
  <2> DEFINE fx == FileOf(x)
             rx == RankOf(x)
             fy == FileOf(y)
             ry == RankOf(y)
             ft == FileOf(t)
             rt == RankOf(t)
  <2>3. /\ fx \in 0..7 /\ rx \in 0..7 /\ fy \in 0..7 /\ ry \in 0..7 /\ ft \in 0..7 /\ rt \in 0..7
        /\ x = 8 * rx + fx /\ y = 8 * ry + fy /\ t = 8 * rt + ft
        /\ \A r, f \in 0..7 : t = 8 * r + f => r = rt /\ f = ft
        /\ step = 1 <=> rx = ry /\ fx # fy
        /\ step = 8 <=> fx = fy /\ rx # ry
        /\ step = 9 <=> fy - fx = ry - rx /\ rx # ry
        /\ step = 7 <=> fy - fx = rx - ry /\ rx # ry
    BY <1>1, <2>2, Coordinates
  <2>4. OnLine(x, t, y) <=>
          \/ ry = rx /\ rt = rx /\ Amid(fx, ft, fy)
          \/ /\ \/ fy = fx /\ ft = fx
                \/ fy - fx = ry - rx /\ ft - fx = rt - rx
                \/ fy - fx = rx - ry /\ ft - fx = rx - rt
             /\ Amid(rx, rt, ry)
    BY DEF OnLine
  <2> HIDE DEF fx, rx, fy, ry, ft, rt
  <2>5. CASE step = 0
    BY <2>1, <2>2, <2>3, <2>4, <2>5 DEF Amid
  <2>6. CASE step = 1
    BY <1>1, <2>1, <2>2, <2>3, <2>4, <2>6 DEF Amid
  <2>0. ASSUME NEW d \in {7, 8, 9}, step = d
        PROVE  /\ t \in IN_BETWEEN[x][y] <=> x < t /\ t < y /\ \E k \in 0..63 : t = x + d * k
    <3>1. IN_BETWEEN[x][y] = {s \in (x + 1)..(y - 1) : (s - x) % d = 0}
      BY <2>0, <2>1
    <3>2. t \in IN_BETWEEN[x][y] <=> x < t /\ t < y /\ (t - x) % d = 0
      BY <1>1, <3>1 DEF Squares
    <3>3. x < t => ((t - x) % d = 0 <=> \E k \in 0..63 : t = x + d * k)
      <4> SUFFICES ASSUME x < t PROVE (t - x) % d = 0 <=> \E k \in 0..63 : t = x + d * k
        OBVIOUS
      <4>1. PICK u : u = t - x
        OBVIOUS
      <4>2. u \in 1..63 /\ t = x + u
        BY <1>1, <4>1 DEF Squares
      <4>3. u % d = 0 => u = d * (u \div d) /\ u \div d \in 0..63
        BY <4>2
      <4>4. \A k \in 0..63 : u = d * k => u % d = 0
        BY <4>2
      <4>5. \A k \in 0..63 : t = x + d * k <=> u = d * k
        BY <1>1, <4>2 DEF Squares
      <4> QED BY <4>1, <4>3, <4>4, <4>5
    <3> QED BY <3>2, <3>3
  <2>7. CASE step = 8
    <3>1. t \in IN_BETWEEN[x][y] <=> x < t /\ t < y /\ \E k \in 0..63 : t = x + 8 * k
      BY <2>0, <2>7
    <3>2. \A k \in 0..63 : t = x + 8 * k => ft = fx
      BY <2>3
    <3>3. x < t /\ ft = fx => rt - rx \in 0..63 /\ t = x + 8 * (rt - rx)
      BY <2>3
    <3>4. t \in IN_BETWEEN[x][y] <=> x < t /\ t < y /\ ft = fx
      BY <3>1, <3>2, <3>3
    <3> QED BY <1>1, <2>2, <2>3, <2>4, <2>7, <3>4 DEF Amid
  <2>8. CASE step = 9
    <3>1. t \in IN_BETWEEN[x][y] <=> x < t /\ t < y /\ \E k \in 0..63 : t = x + 9 * k
      BY <2>0, <2>8
    <3>2. ASSUME x < t, t < y, NEW k \in 0..63, t = x + 9 * k PROVE ft - fx = rt - rx
      BY <2>3, <2>8, <3>2
    <3>3. x < t /\ ft - fx = rt - rx => rt - rx \in 0..63 /\ t = x + 9 * (rt - rx)
      BY <2>3
    <3>4. t \in IN_BETWEEN[x][y] <=> x < t /\ t < y /\ ft - fx = rt - rx
      BY <3>1, <3>2, <3>3
    <3> QED BY <1>1, <2>2, <2>3, <2>4, <2>8, <3>4 DEF Amid
  <2>9. CASE step = 7
    <3>1. t \in IN_BETWEEN[x][y] <=> x < t /\ t < y /\ \E k \in 0..63 : t = x + 7 * k
      BY <2>0, <2>9
    <3>2. ASSUME x < t, t < y, NEW k \in 0..63, t = x + 7 * k PROVE ft - fx = rx - rt
      BY <2>3, <2>9, <3>2
    <3>3. x < t /\ t < y /\ ft - fx = rx - rt => rt - rx \in 0..63 /\ t = x + 7 * (rt - rx)
      BY <2>3
    <3>4. t \in IN_BETWEEN[x][y] <=> x < t /\ t < y /\ ft - fx = rx - rt
      BY <3>1, <3>2, <3>3
    <3> QED BY <1>1, <2>2, <2>3, <2>4, <2>9, <3>4 DEF Amid
  <2> QED BY <2>2, <2>5, <2>6, <2>7, <2>8, <2>9
<1>2. CASE t \in Squares
  <2>1. CASE a < b
    BY <1>1, <1>2, <2>1
  <2>2. CASE b < a
    BY <1>1, <1>2, <2>2, LinesBothWays, Coordinates DEF OnLine, Amid
  <2>3. CASE a = b
    BY <2>3, <1>2, Coordinates DEF LINE_STEP, LineStep, IN_BETWEEN, OnLine, Amid
  <2> QED BY <2>1, <2>2, <2>3 DEF Squares
<1> QED BY <1>0, <1>2

-----------------------------------------------------------------------------
(***************************************************************************)
(* What attacks a square.                                                  *)
(***************************************************************************)

\* a piece of the colour c on s bears on t, were the board empty
Aims(p, c, s, t) ==
  CASE p = PAWN   -> t \in PAWN_ATTACKS[c][s]
    [] p = NIGHT  -> t \in KNIGHT_MOVES[s]
    [] p = BISHOP -> t \in bishop_moves_empty[s]
    [] p = ROOK   -> t \in rook_moves_empty[s]
    [] p = QUEEN  -> t \in queen_moves_empty[s]
    [] p = KING   -> t \in KING_MOVES[s]

\* one of the men on s attacks t, nothing of what is in the way standing between
Hits(men, c, types, s, t, occupied) ==
  \E p \in types : s \in men[c][p] /\ Aims(p, c, s, t) /\ IN_BETWEEN[s][t] \cap occupied = {}

\* The codes of the pieces.
LEMMA PieceCodes ==
  /\ PieceTypes = {PAWN, NIGHT, BISHOP, ROOK, QUEEN, KING}
  /\ PAWN..QUEEN = {PAWN, NIGHT, BISHOP, ROOK, QUEEN} /\ BISHOP..QUEEN = {BISHOP, ROOK, QUEEN}
  /\ NIGHT..QUEEN = {NIGHT, BISHOP, ROOK, QUEEN}
  /\ PAWN = 1 /\ NIGHT = 2 /\ BISHOP = 3 /\ ROOK = 4 /\ QUEEN = 5 /\ KING = 6
  BY DEF PieceTypes, PAWN, NIGHT, BISHOP, ROOK, QUEEN, KING

LEMMA AimsAre ==
  ASSUME NEW c, NEW s, NEW t
  PROVE  /\ Aims(PAWN, c, s, t) <=> t \in PAWN_ATTACKS[c][s]
         /\ Aims(NIGHT, c, s, t) <=> t \in KNIGHT_MOVES[s]
         /\ Aims(BISHOP, c, s, t) <=> t \in bishop_moves_empty[s]
         /\ Aims(ROOK, c, s, t) <=> t \in rook_moves_empty[s]
         /\ Aims(QUEEN, c, s, t) <=> t \in queen_moves_empty[s]
         /\ Aims(KING, c, s, t) <=> t \in KING_MOVES[s]
  BY DEF Aims, PAWN, NIGHT, BISHOP, ROOK, QUEEN, KING

\* A line has two ends.
LEMMA ReachBothWays ==
  ASSUME NEW s \in Squares, NEW t \in Squares, NEW c \in Colors
  PROVE  /\ t \in KNIGHT_MOVES[s] <=> s \in KNIGHT_MOVES[t]
         /\ t \in KING_MOVES[s] <=> s \in KING_MOVES[t]
         /\ t \in bishop_moves_empty[s] <=> s \in bishop_moves_empty[t]
         /\ t \in rook_moves_empty[s] <=> s \in rook_moves_empty[t]
         /\ t \in queen_moves_empty[s] <=> s \in queen_moves_empty[t]
         /\ t \in PAWN_ATTACKS[c][s] <=> s \in PAWN_ATTACKS[Opponent(c)][t]
<1>1. LINE_STEP[s][t] = LINE_STEP[t][s]
  BY LinesBothWays
<1>2. /\ t \in bishop_moves_empty[s] <=> s \in bishop_moves_empty[t]
      /\ t \in rook_moves_empty[s] <=> s \in rook_moves_empty[t]
  BY <1>1 DEF bishop_moves_empty, rook_moves_empty
<1>3. t \in queen_moves_empty[s] <=> s \in queen_moves_empty[t]
  BY <1>2 DEF queen_moves_empty
<1>4. /\ RankOf(s) \in Int /\ RankOf(t) \in Int /\ s \in Int /\ t \in Int
  <2>1. RankOf(s) \in 0..7 /\ RankOf(t) \in 0..7
    BY Coordinates
  <2>2. s \in Int /\ t \in Int
    BY DEF Squares
  <2> QED BY <2>1, <2>2
<1>5. IsKnightMove(s, t) <=> IsKnightMove(t, s)
  BY <1>4 DEF IsKnightMove
<1>6. IsKingMove(s, t) <=> IsKingMove(t, s)
  BY <1>4 DEF IsKingMove
<1>7. t \in PAWN_ATTACKS[c][s] <=> s \in PAWN_ATTACKS[Opponent(c)][t]
  <2>1. FileOf(s) \in Int /\ FileOf(t) \in Int /\ (t = s + 7 => (FileOf(t) # 7 <=> FileOf(s) # 0)) /\ (t = s + 9 => (FileOf(t) # 0 <=> FileOf(s) # 7))
          /\ (s = t + 7 => (FileOf(s) # 7 <=> FileOf(t) # 0)) /\ (s = t + 9 => (FileOf(s) # 0 <=> FileOf(t) # 7))
    BY DEF Squares, FileOf
  <2>2. s = t + 7 <=> t = s - 7
    BY <1>4
  <2>3. s = t + 9 <=> t = s - 9
    BY <1>4
  <2>4. t = s + 7 <=> s = t - 7
    BY <1>4
  <2>5. t = s + 9 <=> s = t - 9
    BY <1>4
  <2>6. CASE c = WHITE
    BY <2>6, ColorsTwo, <2>1, <2>4, <2>5 DEF PAWN_ATTACKS
  <2>7. CASE c # WHITE
    BY <2>7, ColorsTwo, <2>1, <2>2, <2>3 DEF PAWN_ATTACKS
  <2> QED BY <2>6, <2>7
<1>8. KNIGHT_MOVES[s] = {x \in Squares : IsKnightMove(s, x)} /\ KNIGHT_MOVES[t] = {x \in Squares : IsKnightMove(t, x)}
  BY DEF KNIGHT_MOVES
<1>9. KING_MOVES[s] = {x \in Squares : IsKingMove(s, x)} /\ KING_MOVES[t] = {x \in Squares : IsKingMove(t, x)}
  BY DEF KING_MOVES
<1> QED BY <1>2, <1>3, <1>5, <1>6, <1>7, <1>8, <1>9

\* The steps by files and ranks.
LEMMA StepsAre ==
  ASSUME NEW s \in Squares, NEW t \in Squares, NEW c \in Colors
  PROVE  /\ t \in KING_MOVES[s] <=> /\ s # t /\ FileOf(t) - FileOf(s) \in -1..1 /\ RankOf(t) - RankOf(s) \in -1..1
         /\ t \in KNIGHT_MOVES[s] <=> \/ FileOf(t) - FileOf(s) \in {-1, 1} /\ RankOf(t) - RankOf(s) \in {-2, 2}
                                      \/ FileOf(t) - FileOf(s) \in {-2, 2} /\ RankOf(t) - RankOf(s) \in {-1, 1}
         /\ t \in PAWN_ATTACKS[c][s] <=> /\ FileOf(t) - FileOf(s) \in {-1, 1}
                                         /\ RankOf(t) - RankOf(s) = IF c = WHITE THEN 1 ELSE -1
<1> DEFINE fs == FileOf(s)
           rs == RankOf(s)
           ft == FileOf(t)
           rt == RankOf(t)
<1>1. /\ fs \in 0..7 /\ rs \in 0..7 /\ ft \in 0..7 /\ rt \in 0..7 /\ s = 8 * rs + fs /\ t = 8 * rt + ft
  BY Coordinates
<1>2. t \in KING_MOVES[s] <=> IsKingMove(s, t)
  BY DEF KING_MOVES
<1>3. t \in KNIGHT_MOVES[s] <=> IsKnightMove(s, t)
  BY DEF KNIGHT_MOVES
<1>4. t \in PAWN_ATTACKS[c][s] <=> IF c = WHITE
        THEN \/ t = s + 7 /\ ft # 7
             \/ t = s + 9 /\ ft # 0
        ELSE \/ t = s - 7 /\ ft # 0
             \/ t = s - 9 /\ ft # 7
  BY DEF PAWN_ATTACKS
<1>5. IsKingMove(s, t) <=> (rs - rt = 0 /\ s - t \in {-1, 1}) \/ (rs - rt = 1 /\ s - t \in 7..9)
                             \/ (rs - rt = -1 /\ t - s \in 7..9)
  BY DEF IsKingMove
<1>6. IsKnightMove(s, t) <=> (rs - rt = 1 /\ s - t \in {6, 10}) \/ (rs - rt = -1 /\ t - s \in {6, 10})
                               \/ (rs - rt = 2 /\ s - t \in {15, 17}) \/ (rs - rt = -2 /\ t - s \in {15, 17})
  BY DEF IsKnightMove
<1> HIDE DEF fs, rs, ft, rt
<1>7. IsKingMove(s, t) <=> s # t /\ ft - fs \in -1..1 /\ rt - rs \in -1..1
  BY <1>1, <1>5
<1>8. IsKnightMove(s, t) <=> \/ ft - fs \in {-1, 1} /\ rt - rs \in {-2, 2}
                             \/ ft - fs \in {-2, 2} /\ rt - rs \in {-1, 1}
  BY <1>1, <1>6
<1>9. t \in PAWN_ATTACKS[c][s] <=> ft - fs \in {-1, 1} /\ rt - rs = IF c = WHITE THEN 1 ELSE -1
  BY <1>1, <1>4
<1> QED BY <1>2, <1>3, <1>7, <1>8, <1>9 DEF fs, rs, ft, rt

\* Nothing is between the ends of a step, or off the lines.
LEMMA StepsClear ==
  ASSUME NEW s \in Squares, NEW t \in Squares, NEW c \in Colors, NEW p \in {PAWN, NIGHT, KING}, Aims(p, c, s, t)
  PROVE  IN_BETWEEN[s][t] = {}
<1> SUFFICES ASSUME NEW x \in IN_BETWEEN[s][t] PROVE FALSE
  OBVIOUS
<1>1. x \in Squares /\ OnLine(s, x, t)
  BY BetweenIs
<1>2. /\ FileOf(s) \in 0..7 /\ RankOf(s) \in 0..7 /\ FileOf(t) \in 0..7 /\ RankOf(t) \in 0..7
      /\ FileOf(x) \in 0..7 /\ RankOf(x) \in 0..7
  BY <1>1, Coordinates
<1>3. \/ FileOf(t) - FileOf(s) \in -1..1 /\ RankOf(t) - RankOf(s) \in -1..1
      \/ FileOf(t) - FileOf(s) \in {-1, 1} /\ RankOf(t) - RankOf(s) \in {-2, 2}
      \/ FileOf(t) - FileOf(s) \in {-2, 2} /\ RankOf(t) - RankOf(s) \in {-1, 1}
  BY AimsAre, StepsAre, <1>2
<1> QED BY <1>1, <1>2, <1>3 DEF OnLine, Amid

\* Only sliding pieces look past a square, along a line.
LEMMA AimsFar ==
  ASSUME NEW s \in Squares, NEW t \in Squares, NEW c \in Colors, NEW p \in PieceTypes, Aims(p, c, s, t),
         IN_BETWEEN[s][t] # {}
  PROVE  p \in BISHOP..QUEEN
  BY StepsClear, PieceCodes

\* The squares between two squares are squares of the lines that leave either.
LEMMA BetweenLines ==
  ASSUME NEW a \in Squares, NEW b \in Squares, NEW t \in IN_BETWEEN[a][b]
  PROVE  /\ t \in Squares /\ t # a /\ t # b
         /\ t \in queen_moves_empty[a] /\ t \in queen_moves_empty[b] /\ b \in queen_moves_empty[a]
<1>1. t \in Squares /\ OnLine(a, t, b)
  BY BetweenIs
<1>2. /\ FileOf(a) \in 0..7 /\ RankOf(a) \in 0..7 /\ FileOf(b) \in 0..7 /\ RankOf(b) \in 0..7
      /\ FileOf(t) \in 0..7 /\ RankOf(t) \in 0..7
  BY <1>1, Coordinates
<1>3. t # a /\ t # b
  BY <1>1, <1>2 DEF OnLine, Amid
<1>4. LINE_STEP[a][t] \in {1, 7, 8, 9} /\ LINE_STEP[a][b] \in {1, 7, 8, 9} /\ LINE_STEP[b][t] \in {1, 7, 8, 9}
  BY <1>1, <1>2, LineStepIs DEF OnLine, Amid
<1> QED BY <1>1, <1>3, <1>4 DEF queen_moves_empty, rook_moves_empty, bishop_moves_empty

\* What is between a square and one that is between it and a third is between
\* it and the third.
LEMMA BetweenNearer ==
  ASSUME NEW k \in Squares, NEW s \in Squares, NEW f \in IN_BETWEEN[k][s], NEW t \in IN_BETWEEN[k][f]
  PROVE  t \in IN_BETWEEN[k][s]
<1>1. f \in Squares /\ OnLine(k, f, s)
  BY BetweenIs
<1>2. t \in Squares /\ OnLine(k, t, f)
  BY <1>1, BetweenIs
<1>3. /\ FileOf(k) \in 0..7 /\ RankOf(k) \in 0..7 /\ FileOf(s) \in 0..7 /\ RankOf(s) \in 0..7
      /\ FileOf(t) \in 0..7 /\ RankOf(t) \in 0..7 /\ FileOf(f) \in 0..7 /\ RankOf(f) \in 0..7
  BY <1>1, <1>2, Coordinates
<1>4. OnLine(k, t, s)
  BY <1>1, <1>2, <1>3 DEF OnLine, Amid
<1> QED BY <1>2, <1>4, BetweenIs

\* Two squares behind the same square are one, or one is before the other.
LEMMA BetweenBehind ==
  ASSUME NEW k \in Squares, NEW s \in Squares, NEW t \in Squares, NEW f, f \in IN_BETWEEN[k][s], f \in IN_BETWEEN[k][t]
  PROVE  t = s \/ t \in IN_BETWEEN[k][s] \/ s \in IN_BETWEEN[f][t]
<1>1. f \in Squares /\ OnLine(k, f, s) /\ OnLine(k, f, t)
  BY BetweenIs
<1>3. /\ FileOf(k) \in 0..7 /\ RankOf(k) \in 0..7 /\ FileOf(s) \in 0..7 /\ RankOf(s) \in 0..7
      /\ FileOf(t) \in 0..7 /\ RankOf(t) \in 0..7 /\ FileOf(f) \in 0..7 /\ RankOf(f) \in 0..7
      /\ s = 8 * RankOf(s) + FileOf(s) /\ t = 8 * RankOf(t) + FileOf(t)
  BY <1>1, Coordinates
<1>4. t = s \/ OnLine(k, t, s) \/ OnLine(f, s, t)
  BY <1>1, <1>3 DEF OnLine, Amid
<1> QED BY <1>1, <1>4, BetweenIs

\* The attackers that the tables find are the pieces that aim at the square
\* with nothing between.
LEMMA AttackersAre ==
  ASSUME NEW P \in Men, NEW c \in Colors, NEW t \in Squares, NEW occupied, NEW s, NEW men, men = P[c]
  PROVE  /\ s \in Attackers(t, Opponent(c), men, occupied) <=> Hits(P, c, PAWN..QUEEN, s, t, occupied)
         /\ s \in men[KING] \cap KING_MOVES[t] <=> Hits(P, c, {KING}, s, t, occupied)
<1>1. \A p \in PieceTypes : P[c][p] \subseteq Squares
  BY DEF Men
<1>2. Opponent(c) \in Colors /\ Opponent(Opponent(c)) = c
  BY ColorsTwo
<1>3. CASE s \notin Squares
  BY <1>1, <1>3, PieceCodes DEF Hits, Attackers
<1>4. CASE s \in Squares
  <2>1. IN_BETWEEN[t][s] = IN_BETWEEN[s][t]
    BY <1>4, LinesBothWays
  <2>2. /\ s \in KNIGHT_MOVES[t] <=> Aims(NIGHT, c, s, t)
        /\ s \in KING_MOVES[t] <=> Aims(KING, c, s, t)
        /\ s \in bishop_moves_empty[t] <=> Aims(BISHOP, c, s, t)
        /\ s \in rook_moves_empty[t] <=> Aims(ROOK, c, s, t)
        /\ s \in queen_moves_empty[t] <=> Aims(QUEEN, c, s, t)
        /\ s \in PAWN_ATTACKS[Opponent(c)][t] <=> Aims(PAWN, c, s, t)
    BY <1>2, <1>4, ReachBothWays, AimsAre
  <2>3. /\ Aims(NIGHT, c, s, t) => IN_BETWEEN[s][t] = {}
        /\ Aims(PAWN, c, s, t) => IN_BETWEEN[s][t] = {}
        /\ Aims(KING, c, s, t) => IN_BETWEEN[s][t] = {}
    BY <1>4, StepsClear
  <2> DEFINE clear == IN_BETWEEN[s][t] \cap occupied = {}
  <2>4. /\ s \in rook_moves(t, occupied) <=> Aims(ROOK, c, s, t) /\ clear
        /\ s \in bishop_moves(t, occupied) <=> Aims(BISHOP, c, s, t) /\ clear
    BY <2>1, <2>2 DEF rook_moves, bishop_moves, Unblocked
  <2>5. Aims(QUEEN, c, s, t) <=> Aims(ROOK, c, s, t) \/ Aims(BISHOP, c, s, t)
    BY <2>2 DEF queen_moves_empty
  <2>6. s \in Attackers(t, Opponent(c), men, occupied) <=>
          \/ s \in men[NIGHT] /\ s \in KNIGHT_MOVES[t]
          \/ (s \in men[ROOK] \/ s \in men[QUEEN]) /\ s \in rook_moves(t, occupied)
          \/ (s \in men[BISHOP] \/ s \in men[QUEEN]) /\ s \in bishop_moves(t, occupied)
          \/ s \in men[PAWN] /\ s \in PAWN_ATTACKS[Opponent(c)][t]
    BY DEF Attackers
  <2>7. Hits(P, c, PAWN..QUEEN, s, t, occupied) <=>
          \/ s \in men[PAWN] /\ Aims(PAWN, c, s, t) /\ clear
          \/ s \in men[NIGHT] /\ Aims(NIGHT, c, s, t) /\ clear
          \/ s \in men[BISHOP] /\ Aims(BISHOP, c, s, t) /\ clear
          \/ s \in men[ROOK] /\ Aims(ROOK, c, s, t) /\ clear
          \/ s \in men[QUEEN] /\ Aims(QUEEN, c, s, t) /\ clear
    BY PieceCodes DEF Hits
  <2>8. Hits(P, c, {KING}, s, t, occupied) <=> s \in men[KING] /\ Aims(KING, c, s, t) /\ clear
    BY DEF Hits
  <2>9. /\ Aims(NIGHT, c, s, t) => clear
        /\ Aims(PAWN, c, s, t) => clear
        /\ Aims(KING, c, s, t) => clear
    BY <2>3
  <2> HIDE DEF clear
  <2> QED BY <2>2, <2>4, <2>5, <2>6, <2>7, <2>8, <2>9
<1> QED BY <1>3, <1>4

\* A square is in check when one of the men hits it.
LEMMA CheckIs ==
  ASSUME NEW P \in Men, NEW c \in Colors, NEW t \in Squares, NEW occupied, NEW men, men = P[c]
  PROVE  /\ is_in_check_including_king(t, Opponent(c), men, occupied, TRUE) <=>
              \E s : Hits(P, c, PieceTypes, s, t, occupied)
         /\ is_in_check_including_king(t, Opponent(c), men, occupied, FALSE) <=>
              \E s : Hits(P, c, {PAWN, KING}, s, t, occupied)
         /\ is_in_check_super(t, Opponent(c), men, occupied) <=>
              \E s : Hits(P, c, PAWN..QUEEN, s, t, occupied)
<1>1. \A s : /\ s \in Attackers(t, Opponent(c), men, occupied) <=> Hits(P, c, PAWN..QUEEN, s, t, occupied)
             /\ s \in men[KING] \cap KING_MOVES[t] <=> Hits(P, c, {KING}, s, t, occupied)
  BY AttackersAre
<1>2. \A s : Hits(P, c, PieceTypes, s, t, occupied) <=> \/ Hits(P, c, PAWN..QUEEN, s, t, occupied)
                                                        \/ Hits(P, c, {KING}, s, t, occupied)
  BY PieceCodes DEF Hits
<1>3. \A s : Hits(P, c, {PAWN, KING}, s, t, occupied) <=> \/ Hits(P, c, {PAWN}, s, t, occupied)
                                                          \/ Hits(P, c, {KING}, s, t, occupied)
  BY DEF Hits
<1>4. \A s : s \in men[PAWN] \cap PAWN_ATTACKS[Opponent(c)][t] <=> Hits(P, c, {PAWN}, s, t, occupied)
  <2> TAKE s
  <2>1. CASE s \in Squares
    BY <2>1, ReachBothWays, AimsAre, ColorsTwo, StepsClear DEF Hits
  <2>2. CASE s \notin Squares
    BY <2>2, PieceCodes DEF Hits, Men
  <2> QED BY <2>1, <2>2
<1>5. is_in_check_super(t, Opponent(c), men, occupied) <=> \E s : Hits(P, c, PAWN..QUEEN, s, t, occupied)
  BY <1>1 DEF is_in_check_super
<1>6. men[KING] \cap KING_MOVES[t] # {} <=> \E s : Hits(P, c, {KING}, s, t, occupied)
  BY <1>1
<1>7. men[PAWN] \cap PAWN_ATTACKS[Opponent(c)][t] # {} <=> \E s : Hits(P, c, {PAWN}, s, t, occupied)
  BY <1>4
<1> QED BY <1>2, <1>3, <1>5, <1>6, <1>7 DEF is_in_check_including_king

-----------------------------------------------------------------------------
(***************************************************************************)
(* The tables and the laws of chess: a piece reaches by steps of files and *)
(* ranks what it aims at with nothing between.                             *)
(***************************************************************************)

\* The square n steps away.
LEMMA TargetIs ==
  ASSUME NEW s \in Squares, NEW x \in Int, NEW y \in Int, NEW n \in Int
  PROVE  /\ Target(s, <<x, y>>, n) = -1 \/ Target(s, <<x, y>>, n) \in Squares
         /\ \A t \in Squares : t = Target(s, <<x, y>>, n) <=> FileOf(t) = FileOf(s) + n * x /\ RankOf(t) = RankOf(s) + n * y
<1> DEFINE f == FileOf(s) + n * x
           r == RankOf(s) + n * y
<1>1. FileOf(s) \in 0..7 /\ RankOf(s) \in 0..7 /\ n * x \in Int /\ n * y \in Int
  BY Coordinates
<1>2. f \in Int /\ r \in Int
  BY <1>1
<1>3. Target(s, <<x, y>>, n) = IF f \in 0..7 /\ r \in 0..7 THEN 8 * r + f ELSE -1
  BY DEF Target
<1> HIDE DEF f, r
<1>4. CASE f \in 0..7 /\ r \in 0..7
  <2>1. 8 * r + f \in Squares
    BY <1>4 DEF Squares
  <2>2. \A t \in Squares : t = 8 * r + f <=> FileOf(t) = f /\ RankOf(t) = r
    BY <1>4, Coordinates
  <2> QED BY <1>3, <1>4, <2>1, <2>2 DEF f, r
<1>5. CASE ~(f \in 0..7 /\ r \in 0..7)
  BY <1>3, <1>5, Coordinates DEF Squares, f, r
<1> QED BY <1>4, <1>5

\* One step.
LEMMA StepIs ==
  ASSUME NEW s \in Squares, NEW t, NEW ds \in SUBSET (Int \X Int)
  PROVE  t \in Steps(s, ds) <=>
           t \in Squares /\ \E d \in ds : FileOf(t) = FileOf(s) + d[1] /\ RankOf(t) = RankOf(s) + d[2]
<1>1. ASSUME NEW d \in ds
      PROVE  /\ Target(s, d, 1) = -1 \/ Target(s, d, 1) \in Squares
             /\ t \in Squares => (t = Target(s, d, 1) <=> FileOf(t) = FileOf(s) + d[1] /\ RankOf(t) = RankOf(s) + d[2])
  <2>1. d = <<d[1], d[2]>> /\ d[1] \in Int /\ d[2] \in Int
    OBVIOUS
  <2>2. PICK x, y : x = d[1] /\ y = d[2]
    OBVIOUS
  <2>3. x \in Int /\ y \in Int /\ d = <<x, y>> /\ 1 * x = x /\ 1 * y = y
    BY <2>1, <2>2
  <2>4. /\ Target(s, <<x, y>>, 1) = -1 \/ Target(s, <<x, y>>, 1) \in Squares
        /\ t \in Squares => (t = Target(s, <<x, y>>, 1) <=> FileOf(t) = FileOf(s) + 1 * x /\ RankOf(t) = RankOf(s) + 1 * y)
    BY <2>3, TargetIs
  <2> QED BY <2>2, <2>3, <2>4
<1>2. -1 \notin Squares
  BY DEF Squares
<1> QED BY <1>1, <1>2 DEF Steps

\* The steps of the pawn, the knight and the king.
LEMMA StepsReach ==
  ASSUME NEW s \in Squares, NEW t, NEW c \in Colors, NEW occupied
  PROVE  /\ t \in Reached(c, PAWN, s, occupied) <=> t \in Squares /\ Aims(PAWN, c, s, t)
         /\ t \in Reached(c, NIGHT, s, occupied) <=> t \in Squares /\ Aims(NIGHT, c, s, t)
         /\ t \in Reached(c, KING, s, occupied) <=> t \in Squares /\ Aims(KING, c, s, t)
<1>1. /\ Reached(c, PAWN, s, occupied) = Steps(s, {<<1, Up(c)>>, <<-1, Up(c)>>})
      /\ Reached(c, NIGHT, s, occupied) = Steps(s, Jumps)
      /\ Reached(c, KING, s, occupied) = Steps(s, Straight \cup Diagonal)
  BY DEF Reached, PAWN, NIGHT, BISHOP, ROOK, QUEEN, KING
<1>2. FileOf(s) \in 0..7 /\ RankOf(s) \in 0..7
  BY Coordinates
<1>3. t \in Squares => FileOf(t) \in 0..7 /\ RankOf(t) \in 0..7 /\ (t = s <=> FileOf(t) = FileOf(s) /\ RankOf(t) = RankOf(s))
  BY <1>2, Coordinates
<1>4. Up(c) = (IF c = WHITE THEN 1 ELSE -1) /\ Up(c) \in Int
  BY DEF Up
<1>5. t \in Reached(c, PAWN, s, occupied) <=> t \in Squares /\ Aims(PAWN, c, s, t)
  <2>1. {<<1, Up(c)>>, <<-1, Up(c)>>} \in SUBSET (Int \X Int)
    BY <1>4
  <2>2. t \in Reached(c, PAWN, s, occupied) <=>
          /\ t \in Squares
          /\ \/ FileOf(t) = FileOf(s) + 1 /\ RankOf(t) = RankOf(s) + Up(c)
             \/ FileOf(t) = FileOf(s) + (-1) /\ RankOf(t) = RankOf(s) + Up(c)
    BY <2>1, StepIs, <1>1
  <2>3. t \in Squares => (Aims(PAWN, c, s, t) <=> FileOf(t) - FileOf(s) \in {-1, 1} /\ RankOf(t) - RankOf(s) = Up(c))
    BY <1>4, AimsAre, StepsAre
  <2> QED BY <1>2, <1>3, <1>4, <2>2, <2>3
<1>6. t \in Reached(c, NIGHT, s, occupied) <=> t \in Squares /\ Aims(NIGHT, c, s, t)
  <2>1. Jumps = {<<-2, -1>>, <<-2, 1>>, <<2, -1>>, <<2, 1>>, <<-1, -2>>, <<-1, 2>>, <<1, -2>>, <<1, 2>>}
    BY DEF Jumps
  <2>2. Jumps \in SUBSET (Int \X Int)
    BY <2>1
  <2>3. t \in Reached(c, NIGHT, s, occupied) <=>
          t \in Squares /\ \E d \in Jumps : FileOf(t) = FileOf(s) + d[1] /\ RankOf(t) = RankOf(s) + d[2]
    BY <2>2, StepIs, <1>1
  <2>4. t \in Squares => (Aims(NIGHT, c, s, t) <=>
          \/ (FileOf(t) - FileOf(s) \in {-1, 1} /\ RankOf(t) - RankOf(s) \in {-2, 2})
          \/ (FileOf(t) - FileOf(s) \in {-2, 2} /\ RankOf(t) - RankOf(s) \in {-1, 1}))
    BY AimsAre, StepsAre
  <2>5. (\E d \in Jumps : FileOf(t) = FileOf(s) + d[1] /\ RankOf(t) = RankOf(s) + d[2]) <=>
          \/ FileOf(t) = FileOf(s) + (-2) /\ RankOf(t) = RankOf(s) + (-1)
          \/ FileOf(t) = FileOf(s) + (-2) /\ RankOf(t) = RankOf(s) + 1
          \/ FileOf(t) = FileOf(s) + 2 /\ RankOf(t) = RankOf(s) + (-1)
          \/ FileOf(t) = FileOf(s) + 2 /\ RankOf(t) = RankOf(s) + 1
          \/ FileOf(t) = FileOf(s) + (-1) /\ RankOf(t) = RankOf(s) + (-2)
          \/ FileOf(t) = FileOf(s) + (-1) /\ RankOf(t) = RankOf(s) + 2
          \/ FileOf(t) = FileOf(s) + 1 /\ RankOf(t) = RankOf(s) + (-2)
          \/ FileOf(t) = FileOf(s) + 1 /\ RankOf(t) = RankOf(s) + 2
    BY <2>1
  <2> QED BY <1>2, <1>3, <2>3, <2>4, <2>5
<1>7. t \in Reached(c, KING, s, occupied) <=> t \in Squares /\ Aims(KING, c, s, t)
  <2>1. Straight \cup Diagonal = {<<1, 0>>, <<-1, 0>>, <<0, 1>>, <<0, -1>>, <<1, 1>>, <<1, -1>>, <<-1, 1>>, <<-1, -1>>}
    BY DEF Straight, Diagonal
  <2>2. Straight \cup Diagonal \in SUBSET (Int \X Int)
    BY <2>1
  <2>3. t \in Reached(c, KING, s, occupied) <=>
          t \in Squares /\ \E d \in Straight \cup Diagonal : FileOf(t) = FileOf(s) + d[1] /\ RankOf(t) = RankOf(s) + d[2]
    BY <2>2, StepIs, <1>1
  <2>4. t \in Squares => (Aims(KING, c, s, t) <=> s # t /\ FileOf(t) - FileOf(s) \in -1..1 /\ RankOf(t) - RankOf(s) \in -1..1)
    BY AimsAre, StepsAre
  <2>5. (\E d \in Straight \cup Diagonal : FileOf(t) = FileOf(s) + d[1] /\ RankOf(t) = RankOf(s) + d[2]) <=>
          \/ FileOf(t) = FileOf(s) + 1 /\ RankOf(t) = RankOf(s) + 0
          \/ FileOf(t) = FileOf(s) + (-1) /\ RankOf(t) = RankOf(s) + 0
          \/ FileOf(t) = FileOf(s) + 0 /\ RankOf(t) = RankOf(s) + 1
          \/ FileOf(t) = FileOf(s) + 0 /\ RankOf(t) = RankOf(s) + (-1)
          \/ FileOf(t) = FileOf(s) + 1 /\ RankOf(t) = RankOf(s) + 1
          \/ FileOf(t) = FileOf(s) + 1 /\ RankOf(t) = RankOf(s) + (-1)
          \/ FileOf(t) = FileOf(s) + (-1) /\ RankOf(t) = RankOf(s) + 1
          \/ FileOf(t) = FileOf(s) + (-1) /\ RankOf(t) = RankOf(s) + (-1)
    BY DEF Straight, Diagonal
  <2> QED BY <1>2, <1>3, <2>3, <2>4, <2>5
<1> QED BY <1>5, <1>6, <1>7

\* k steps forward, back, or none.
Stepped(k, z) == IF z = 1 THEN k ELSE IF z = 0 THEN 0 ELSE -k

\* A point between two others of a rank, a file or a diagonal.
Collinear(fs, rs, fu, ru, ft, rt) ==
  \/ rt = rs /\ ru = rs /\ Amid(fs, fu, ft)
  \/ /\ \/ ft = fs /\ fu = fs
        \/ ft - fs = rt - rs /\ fu - fs = ru - rs
        \/ ft - fs = rs - rt /\ fu - fs = rs - ru
     /\ Amid(rs, ru, rt)

\* n steps lead from one point of the board to another, and a third is a point of it.
LineOfSteps(fs, rs, fu, ru, ft, rt, x, y, n) ==
  /\ {fs, rs, fu, ru, ft, rt} \subseteq 0..7
  /\ x \in -1..1 /\ y \in -1..1 /\ (x # 0 \/ y # 0) /\ n \in 1..7
  /\ ft = fs + Stepped(n, x) /\ rt = rs + Stepped(n, y)

\* Between two points of a line are those of the steps from one to the other.
LEMMA StepsBetween ==
  ASSUME NEW fs, NEW rs, NEW fu, NEW ru, NEW ft, NEW rt, NEW x, NEW y, NEW n,
         LineOfSteps(fs, rs, fu, ru, ft, rt, x, y, n)
  PROVE  Collinear(fs, rs, fu, ru, ft, rt)
         <=> \E j \in 1..(n - 1) : fu = fs + Stepped(j, x) /\ ru = rs + Stepped(j, y)
<1>0. /\ fs \in 0..7 /\ rs \in 0..7 /\ fu \in 0..7 /\ ru \in 0..7 /\ ft \in 0..7 /\ rt \in 0..7
      /\ x \in -1..1 /\ y \in -1..1 /\ (x # 0 \/ y # 0) /\ n \in 1..7
  BY DEF LineOfSteps
<1>9. ft = fs + Stepped(n, x) /\ rt = rs + Stepped(n, y)
  BY DEF LineOfSteps
<1>1. CASE x = 1 /\ y = 1
  <2>1. ft = fs + n /\ rt = rs + n /\ \A j \in Int : Stepped(j, x) = j /\ Stepped(j, y) = j
    BY <1>1, <1>0, <1>9 DEF Stepped
  <2>2. ASSUME fu - fs \in 1..(n - 1), fu = fs + (fu - fs), ru = rs + (fu - fs)
        PROVE  \E j \in 1..(n - 1) : fu = fs + Stepped(j, x) /\ ru = rs + Stepped(j, y)
    <3> WITNESS fu - fs \in 1..(n - 1)
    <3> QED BY <1>0, <2>1, <2>2
  <2>3. Collinear(fs, rs, fu, ru, ft, rt) => fu - fs \in 1..(n - 1) /\ fu = fs + (fu - fs) /\ ru = rs + (fu - fs)
    BY <1>0, <2>1 DEF Amid, Collinear
  <2>4. ASSUME NEW j \in 1..(n - 1), fu = fs + Stepped(j, x), ru = rs + Stepped(j, y)
        PROVE  Collinear(fs, rs, fu, ru, ft, rt)
    BY <1>0, <2>4, <2>1 DEF Amid, Collinear
  <2> QED BY <2>2, <2>3, <2>4
<1>2. CASE x = 1 /\ y = 0
  <2>1. ft = fs + n /\ rt = rs /\ \A j \in Int : Stepped(j, x) = j /\ Stepped(j, y) = 0
    BY <1>2, <1>0, <1>9 DEF Stepped
  <2>2. ASSUME fu - fs \in 1..(n - 1), fu = fs + (fu - fs), ru = rs
        PROVE  \E j \in 1..(n - 1) : fu = fs + Stepped(j, x) /\ ru = rs + Stepped(j, y)
    <3> WITNESS fu - fs \in 1..(n - 1)
    <3> QED BY <1>0, <2>1, <2>2
  <2>3. Collinear(fs, rs, fu, ru, ft, rt) => fu - fs \in 1..(n - 1) /\ fu = fs + (fu - fs) /\ ru = rs
    BY <1>0, <2>1 DEF Amid, Collinear
  <2>4. ASSUME NEW j \in 1..(n - 1), fu = fs + Stepped(j, x), ru = rs + Stepped(j, y)
        PROVE  Collinear(fs, rs, fu, ru, ft, rt)
    BY <1>0, <2>4, <2>1 DEF Amid, Collinear
  <2> QED BY <2>2, <2>3, <2>4
<1>3. CASE x = 1 /\ y = -1
  <2>1. ft = fs + n /\ rt = rs - n /\ \A j \in Int : Stepped(j, x) = j /\ Stepped(j, y) = -j
    BY <1>3, <1>0, <1>9 DEF Stepped
  <2>2. ASSUME fu - fs \in 1..(n - 1), fu = fs + (fu - fs), ru = rs - (fu - fs)
        PROVE  \E j \in 1..(n - 1) : fu = fs + Stepped(j, x) /\ ru = rs + Stepped(j, y)
    <3> WITNESS fu - fs \in 1..(n - 1)
    <3> QED BY <1>0, <2>1, <2>2
  <2>3. Collinear(fs, rs, fu, ru, ft, rt) => fu - fs \in 1..(n - 1) /\ fu = fs + (fu - fs) /\ ru = rs - (fu - fs)
    BY <1>0, <2>1 DEF Amid, Collinear
  <2>4. ASSUME NEW j \in 1..(n - 1), fu = fs + Stepped(j, x), ru = rs + Stepped(j, y)
        PROVE  Collinear(fs, rs, fu, ru, ft, rt)
    BY <1>0, <2>4, <2>1 DEF Amid, Collinear
  <2> QED BY <2>2, <2>3, <2>4
<1>4. CASE x = 0 /\ y = 1
  <2>1. ft = fs /\ rt = rs + n /\ \A j \in Int : Stepped(j, x) = 0 /\ Stepped(j, y) = j
    BY <1>4, <1>0, <1>9 DEF Stepped
  <2>2. ASSUME ru - rs \in 1..(n - 1), fu = fs, ru = rs + (ru - rs)
        PROVE  \E j \in 1..(n - 1) : fu = fs + Stepped(j, x) /\ ru = rs + Stepped(j, y)
    <3> WITNESS ru - rs \in 1..(n - 1)
    <3> QED BY <1>0, <2>1, <2>2
  <2>3. Collinear(fs, rs, fu, ru, ft, rt) => ru - rs \in 1..(n - 1) /\ fu = fs /\ ru = rs + (ru - rs)
    BY <1>0, <2>1 DEF Amid, Collinear
  <2>4. ASSUME NEW j \in 1..(n - 1), fu = fs + Stepped(j, x), ru = rs + Stepped(j, y)
        PROVE  Collinear(fs, rs, fu, ru, ft, rt)
    BY <1>0, <2>4, <2>1 DEF Amid, Collinear
  <2> QED BY <2>2, <2>3, <2>4
<1>5. CASE x = 0 /\ y = -1
  <2>1. ft = fs /\ rt = rs - n /\ \A j \in Int : Stepped(j, x) = 0 /\ Stepped(j, y) = -j
    BY <1>5, <1>0, <1>9 DEF Stepped
  <2>2. ASSUME rs - ru \in 1..(n - 1), fu = fs, ru = rs - (rs - ru)
        PROVE  \E j \in 1..(n - 1) : fu = fs + Stepped(j, x) /\ ru = rs + Stepped(j, y)
    <3> WITNESS rs - ru \in 1..(n - 1)
    <3> QED BY <1>0, <2>1, <2>2
  <2>3. Collinear(fs, rs, fu, ru, ft, rt) => rs - ru \in 1..(n - 1) /\ fu = fs /\ ru = rs - (rs - ru)
    BY <1>0, <2>1 DEF Amid, Collinear
  <2>4. ASSUME NEW j \in 1..(n - 1), fu = fs + Stepped(j, x), ru = rs + Stepped(j, y)
        PROVE  Collinear(fs, rs, fu, ru, ft, rt)
    BY <1>0, <2>4, <2>1 DEF Amid, Collinear
  <2> QED BY <2>2, <2>3, <2>4
<1>6. CASE x = -1 /\ y = 1
  <2>1. ft = fs - n /\ rt = rs + n /\ \A j \in Int : Stepped(j, x) = -j /\ Stepped(j, y) = j
    BY <1>6, <1>0, <1>9 DEF Stepped
  <2>2. ASSUME fs - fu \in 1..(n - 1), fu = fs - (fs - fu), ru = rs + (fs - fu)
        PROVE  \E j \in 1..(n - 1) : fu = fs + Stepped(j, x) /\ ru = rs + Stepped(j, y)
    <3> WITNESS fs - fu \in 1..(n - 1)
    <3> QED BY <1>0, <2>1, <2>2
  <2>3. Collinear(fs, rs, fu, ru, ft, rt) => fs - fu \in 1..(n - 1) /\ fu = fs - (fs - fu) /\ ru = rs + (fs - fu)
    BY <1>0, <2>1 DEF Amid, Collinear
  <2>4. ASSUME NEW j \in 1..(n - 1), fu = fs + Stepped(j, x), ru = rs + Stepped(j, y)
        PROVE  Collinear(fs, rs, fu, ru, ft, rt)
    BY <1>0, <2>4, <2>1 DEF Amid, Collinear
  <2> QED BY <2>2, <2>3, <2>4
<1>7. CASE x = -1 /\ y = 0
  <2>1. ft = fs - n /\ rt = rs /\ \A j \in Int : Stepped(j, x) = -j /\ Stepped(j, y) = 0
    BY <1>7, <1>0, <1>9 DEF Stepped
  <2>2. ASSUME fs - fu \in 1..(n - 1), fu = fs - (fs - fu), ru = rs
        PROVE  \E j \in 1..(n - 1) : fu = fs + Stepped(j, x) /\ ru = rs + Stepped(j, y)
    <3> WITNESS fs - fu \in 1..(n - 1)
    <3> QED BY <1>0, <2>1, <2>2
  <2>3. Collinear(fs, rs, fu, ru, ft, rt) => fs - fu \in 1..(n - 1) /\ fu = fs - (fs - fu) /\ ru = rs
    BY <1>0, <2>1 DEF Amid, Collinear
  <2>4. ASSUME NEW j \in 1..(n - 1), fu = fs + Stepped(j, x), ru = rs + Stepped(j, y)
        PROVE  Collinear(fs, rs, fu, ru, ft, rt)
    BY <1>0, <2>4, <2>1 DEF Amid, Collinear
  <2> QED BY <2>2, <2>3, <2>4
<1>8. CASE x = -1 /\ y = -1
  <2>1. ft = fs - n /\ rt = rs - n /\ \A j \in Int : Stepped(j, x) = -j /\ Stepped(j, y) = -j
    BY <1>8, <1>0, <1>9 DEF Stepped
  <2>2. ASSUME fs - fu \in 1..(n - 1), fu = fs - (fs - fu), ru = rs - (fs - fu)
        PROVE  \E j \in 1..(n - 1) : fu = fs + Stepped(j, x) /\ ru = rs + Stepped(j, y)
    <3> WITNESS fs - fu \in 1..(n - 1)
    <3> QED BY <1>0, <2>1, <2>2
  <2>3. Collinear(fs, rs, fu, ru, ft, rt) => fs - fu \in 1..(n - 1) /\ fu = fs - (fs - fu) /\ ru = rs - (fs - fu)
    BY <1>0, <2>1 DEF Amid, Collinear
  <2>4. ASSUME NEW j \in 1..(n - 1), fu = fs + Stepped(j, x), ru = rs + Stepped(j, y)
        PROVE  Collinear(fs, rs, fu, ru, ft, rt)
    BY <1>0, <2>4, <2>1 DEF Amid, Collinear
  <2> QED BY <2>2, <2>3, <2>4
<1> QED BY <1>0, <1>1, <1>2, <1>3, <1>4, <1>5, <1>6, <1>7, <1>8

\* The squares on the way to the n-th square in a direction are those between.
LEMMA WayIs ==
  ASSUME NEW s \in Squares, NEW t \in Squares, NEW x \in -1..1, NEW y \in -1..1, x # 0 \/ y # 0, NEW n \in 1..7,
         t = Target(s, <<x, y>>, n), NEW u
  PROVE  u \in IN_BETWEEN[s][t] <=> u # -1 /\ \E j \in 1..(n - 1) : u = Target(s, <<x, y>>, j)
<1>1. \A k \in Int : k * x = Stepped(k, x) /\ k * y = Stepped(k, y)
  BY DEF Stepped
<1>2. ASSUME NEW v \in Squares, NEW j \in 1..7
      PROVE  v = Target(s, <<x, y>>, j) <=> FileOf(v) = FileOf(s) + Stepped(j, x) /\ RankOf(v) = RankOf(s) + Stepped(j, y)
  <2>1. v = Target(s, <<x, y>>, j) <=> FileOf(v) = FileOf(s) + j * x /\ RankOf(v) = RankOf(s) + j * y
    BY TargetIs
  <2> QED BY <2>1, <1>1
<1>3. FileOf(s) \in 0..7 /\ RankOf(s) \in 0..7 /\ FileOf(t) \in 0..7 /\ RankOf(t) \in 0..7
  BY Coordinates
<1>4. FileOf(t) = FileOf(s) + Stepped(n, x) /\ RankOf(t) = RankOf(s) + Stepped(n, y)
  BY <1>2
<1>5. CASE u \notin Squares
  BY TargetIs, <1>5, BetweenIs
<1>6. CASE u \in Squares
  <2>1. u # -1 /\ FileOf(u) \in 0..7 /\ RankOf(u) \in 0..7
    BY <1>6, Coordinates DEF Squares
  <2>2. u \in IN_BETWEEN[s][t] <=> OnLine(s, u, t)
    BY <1>6, BetweenIs
  <2>3. (\E j \in 1..(n - 1) : u = Target(s, <<x, y>>, j)) <=>
          \E j \in 1..(n - 1) : FileOf(u) = FileOf(s) + Stepped(j, x) /\ RankOf(u) = RankOf(s) + Stepped(j, y)
    BY <1>2, <1>6
  <2>4. OnLine(s, u, t) <=> \E j \in 1..(n - 1) : FileOf(u) = FileOf(s) + Stepped(j, x) /\ RankOf(u) = RankOf(s) + Stepped(j, y)
    <3>1. OnLine(s, u, t) <=> Collinear(FileOf(s), RankOf(s), FileOf(u), RankOf(u), FileOf(t), RankOf(t))
      BY DEF OnLine, Collinear
    <3>2. PICK fs, rs, ft, rt, fu, ru : /\ fs = FileOf(s) /\ rs = RankOf(s) /\ ft = FileOf(t) /\ rt = RankOf(t)
                                       /\ fu = FileOf(u) /\ ru = RankOf(u)
      OBVIOUS
    <3>3. /\ fs \in 0..7 /\ rs \in 0..7 /\ ft \in 0..7 /\ rt \in 0..7 /\ fu \in 0..7 /\ ru \in 0..7
          /\ ft = fs + Stepped(n, x) /\ rt = rs + Stepped(n, y)
      BY <1>3, <1>4, <2>1, <3>2
    <3>4. Collinear(fs, rs, fu, ru, ft, rt) <=> \E j \in 1..(n - 1) : fu = fs + Stepped(j, x) /\ ru = rs + Stepped(j, y)
      <4>1. LineOfSteps(fs, rs, fu, ru, ft, rt, x, y, n)
        BY <3>3 DEF LineOfSteps
      <4> QED BY ONLY <4>1, StepsBetween
    <3> QED BY <3>1, <3>2, <3>4
  <2> QED BY <2>1, <2>2, <2>3, <2>4
<1> QED BY <1>5, <1>6

\* The squares that a sliding piece reaches, one by one.
LEMMA SlideIs ==
  ASSUME NEW s, NEW t, NEW ds, NEW occupied
  PROVE  t \in Slides(occupied, s, ds) <=>
           \E d \in ds, n \in 1..7 :
             t = Target(s, d, n) /\ t # -1 /\ \A j \in 1..(n - 1) : Target(s, d, j) \notin occupied
<1> DEFINE Opens(d, n) == Target(s, d, n) # -1 /\ \A j \in 1..(n - 1) : Target(s, d, j) \notin occupied
           Way(d) == [n \in 1..7 |-> Target(s, d, n)]
           Ends(d) == {Way(d)[n] : n \in {k \in 1..7 : Way(d)[k] # -1 /\ \A j \in 1..(k - 1) : Way(d)[j] \notin occupied}}
<1>1. Slides(occupied, s, ds) = UNION {Ends(d) : d \in ds}
  BY DEF Slides
<1>2. ASSUME NEW d
      PROVE  t \in Ends(d) <=> \E n \in 1..7 : t = Target(s, d, n) /\ Opens(d, n)
  <2>1. \A n \in 1..7 : Way(d)[n] = Target(s, d, n)
    OBVIOUS
  <2>2. ASSUME NEW n \in 1..7 PROVE Opens(d, n) <=> Way(d)[n] # -1 /\ \A j \in 1..(n - 1) : Way(d)[j] \notin occupied
    BY <2>1
  <2> HIDE DEF Way, Opens
  <2> QED BY <2>1, <2>2
<1> HIDE DEF Ends
<1>3. t \in Slides(occupied, s, ds) <=> \E d \in ds : t \in Ends(d)
  BY <1>1
<1> QED BY <1>2, <1>3

\* A slide ends where its direction leads, with nothing on the way.
LEMMA SlideReach ==
  ASSUME NEW s \in Squares, NEW t, NEW ds, ds \subseteq (-1..1) \X (-1..1), <<0, 0>> \notin ds,
         NEW occupied, occupied \subseteq Squares
  PROVE  t \in Slides(occupied, s, ds) <=>
           /\ t \in Squares /\ \E d \in ds, n \in 1..7 : t = Target(s, d, n)
           /\ IN_BETWEEN[s][t] \cap occupied = {}
<1>1. ASSUME NEW d \in ds, NEW n \in 1..7, t = Target(s, d, n), t # -1
      PROVE  /\ t \in Squares
             /\ (\A j \in 1..(n - 1) : Target(s, d, j) \notin occupied) <=> IN_BETWEEN[s][t] \cap occupied = {}
  <2>1. d = <<d[1], d[2]>> /\ d[1] \in -1..1 /\ d[2] \in -1..1 /\ (d[1] # 0 \/ d[2] # 0)
    OBVIOUS
  <2>2. PICK x, y : x = d[1] /\ y = d[2]
    OBVIOUS
  <2>3. x \in -1..1 /\ y \in -1..1 /\ d = <<x, y>> /\ (x # 0 \/ y # 0) /\ x \in Int /\ y \in Int /\ n \in Int
    BY <2>1, <2>2
  <2>4. t = Target(s, <<x, y>>, n)
    BY <1>1, <2>3
  <2>5. t \in Squares
    BY <1>1, <2>3, <2>4, TargetIs
  <2>6. \A u : u \in IN_BETWEEN[s][t] <=> u # -1 /\ \E j \in 1..(n - 1) : u = Target(s, <<x, y>>, j)
    BY <2>3, <2>4, <2>5, WayIs
  <2>7. -1 \notin occupied
    BY DEF Squares
  <2>8. (\A j \in 1..(n - 1) : Target(s, <<x, y>>, j) \notin occupied) <=> IN_BETWEEN[s][t] \cap occupied = {}
    BY ONLY <2>6, <2>7, Zenon
  <2> QED BY <2>3, <2>5, <2>8
<1>2. -1 \notin Squares
  BY DEF Squares
<1> QED BY <1>1, <1>2, SlideIs

\* The rays along ranks and files, and along diagonals, lead to the lines.
LEMMA RaysAre ==
  ASSUME NEW s \in Squares, NEW t \in Squares
  PROVE  /\ (\E d \in Straight, n \in 1..7 : t = Target(s, d, n)) <=> t \in rook_moves_empty[s]
         /\ (\E d \in Diagonal, n \in 1..7 : t = Target(s, d, n)) <=> t \in bishop_moves_empty[s]
<1>8. PICK fs, rs, ft, rt : fs = FileOf(s) /\ rs = RankOf(s) /\ ft = FileOf(t) /\ rt = RankOf(t)
  OBVIOUS
<1>9. fs \in 0..7 /\ rs \in 0..7 /\ ft \in 0..7 /\ rt \in 0..7
  BY <1>8, Coordinates
<1> DEFINE To(x, y, n) == ft = fs + n * x /\ rt = rs + n * y
<1>2. \A x, y \in -1..1, n \in 1..7 : t = Target(s, <<x, y>>, n) <=> To(x, y, n)
  <2> SUFFICES ASSUME NEW x \in -1..1, NEW y \in -1..1, NEW n \in 1..7
               PROVE  t = Target(s, <<x, y>>, n) <=> To(x, y, n)
    OBVIOUS
  <2>1. x \in Int /\ y \in Int /\ n \in Int
    OBVIOUS
  <2>2. t = Target(s, <<x, y>>, n) <=> FileOf(t) = FileOf(s) + n * x /\ RankOf(t) = RankOf(s) + n * y
    BY <2>1, TargetIs
  <2> QED BY ONLY <2>2, <1>8
<1>3. 1 \in -1..1 /\ 0 \in -1..1 /\ -1 \in -1..1
  OBVIOUS
<1>4. (\E d \in Straight, n \in 1..7 : t = Target(s, d, n)) <=>
        \E n \in 1..7 : To(1, 0, n) \/ To(-1, 0, n) \/ To(0, 1, n) \/ To(0, -1, n)
  <2> HIDE DEF To
  <2>1. (\E d \in Straight, n \in 1..7 : t = Target(s, d, n)) <=>
          \E n \in 1..7 : t \in {Target(s, <<1, 0>>, n), Target(s, <<-1, 0>>, n), Target(s, <<0, 1>>, n), Target(s, <<0, -1>>, n)}
    BY Zenon DEF Straight
  <2>2. ASSUME NEW n \in 1..7
        PROVE  t \in {Target(s, <<1, 0>>, n), Target(s, <<-1, 0>>, n), Target(s, <<0, 1>>, n), Target(s, <<0, -1>>, n)} <=>
                 To(1, 0, n) \/ To(-1, 0, n) \/ To(0, 1, n) \/ To(0, -1, n)
    BY <1>2, <1>3
  <2> QED BY <2>1, <2>2
<1>5. (\E d \in Diagonal, n \in 1..7 : t = Target(s, d, n)) <=>
        \E n \in 1..7 : To(1, 1, n) \/ To(1, -1, n) \/ To(-1, 1, n) \/ To(-1, -1, n)
  <2> HIDE DEF To
  <2>1. (\E d \in Diagonal, n \in 1..7 : t = Target(s, d, n)) <=>
          \E n \in 1..7 : t \in {Target(s, <<1, 1>>, n), Target(s, <<1, -1>>, n), Target(s, <<-1, 1>>, n), Target(s, <<-1, -1>>, n)}
    BY Zenon DEF Diagonal
  <2>2. ASSUME NEW n \in 1..7
        PROVE  t \in {Target(s, <<1, 1>>, n), Target(s, <<1, -1>>, n), Target(s, <<-1, 1>>, n), Target(s, <<-1, -1>>, n)} <=>
                 To(1, 1, n) \/ To(1, -1, n) \/ To(-1, 1, n) \/ To(-1, -1, n)
    BY <1>2, <1>3
  <2> QED BY <2>1, <2>2
<1>6. t \in rook_moves_empty[s] <=>
        (FileOf(s) = FileOf(t) /\ RankOf(s) # RankOf(t)) \/ (RankOf(s) = RankOf(t) /\ FileOf(s) # FileOf(t))
  BY LineStepIs DEF rook_moves_empty
<1>7. t \in bishop_moves_empty[s] <=>
        /\ RankOf(s) # RankOf(t)
        /\ FileOf(t) - FileOf(s) = RankOf(t) - RankOf(s) \/ FileOf(t) - FileOf(s) = RankOf(s) - RankOf(t)
  BY LineStepIs DEF bishop_moves_empty
<1>10. (\E n \in 1..7 : To(1, 0, n) \/ To(-1, 0, n) \/ To(0, 1, n) \/ To(0, -1, n)) <=>
         (fs = ft /\ rs # rt) \/ (rs = rt /\ fs # ft)
  <2> DEFINE n == IF fs < ft THEN ft - fs ELSE IF ft < fs THEN fs - ft ELSE IF rs < rt THEN rt - rs ELSE rs - rt
  <2>1. ASSUME (fs = ft /\ rs # rt) \/ (rs = rt /\ fs # ft)
        PROVE  n \in 1..7 /\ (To(1, 0, n) \/ To(-1, 0, n) \/ To(0, 1, n) \/ To(0, -1, n))
    BY <1>9, <2>1
  <2>2. ASSUME NEW i \in 1..7, To(1, 0, i) \/ To(-1, 0, i) \/ To(0, 1, i) \/ To(0, -1, i)
        PROVE  (fs = ft /\ rs # rt) \/ (rs = rt /\ fs # ft)
    BY <1>9, <2>2
  <2> HIDE DEF To, n
  <2> QED BY <2>1, <2>2
<1>11. (\E n \in 1..7 : To(1, 1, n) \/ To(1, -1, n) \/ To(-1, 1, n) \/ To(-1, -1, n)) <=>
         rs # rt /\ (ft - fs = rt - rs \/ ft - fs = rs - rt)
  <2> DEFINE n == IF fs < ft THEN ft - fs ELSE fs - ft
  <2>1. ASSUME rs # rt /\ (ft - fs = rt - rs \/ ft - fs = rs - rt)
        PROVE  n \in 1..7 /\ (To(1, 1, n) \/ To(1, -1, n) \/ To(-1, 1, n) \/ To(-1, -1, n))
    BY <1>9, <2>1
  <2>2. ASSUME NEW i \in 1..7, To(1, 1, i) \/ To(1, -1, i) \/ To(-1, 1, i) \/ To(-1, -1, i)
        PROVE  rs # rt /\ (ft - fs = rt - rs \/ ft - fs = rs - rt)
    BY <1>9, <2>2
  <2> HIDE DEF To, n
  <2> QED BY <2>1, <2>2
<1> HIDE DEF To
<1> QED BY <1>4, <1>5, <1>6, <1>7, <1>8, <1>10, <1>11

\* Every piece reaches what it aims at with nothing between.
LEMMA ReachedIs ==
  ASSUME NEW s \in Squares, NEW t, NEW c \in Colors, NEW p \in PieceTypes, NEW occupied, occupied \subseteq Squares
  PROVE  t \in Reached(c, p, s, occupied) <=> t \in Squares /\ Aims(p, c, s, t) /\ IN_BETWEEN[s][t] \cap occupied = {}
<1>1. p \in {PAWN, NIGHT, KING} \/ p \in BISHOP..QUEEN
  BY PieceCodes
<1>2. CASE p \in {PAWN, NIGHT, KING}
  BY <1>2, StepsReach, StepsClear
<1>3. /\ Straight \subseteq (-1..1) \X (-1..1) /\ <<0, 0>> \notin Straight
      /\ Diagonal \subseteq (-1..1) \X (-1..1) /\ <<0, 0>> \notin Diagonal
  BY DEF Straight, Diagonal
<1>4. /\ t \in Slides(occupied, s, Straight) <=> t \in Squares /\ t \in rook_moves_empty[s] /\ IN_BETWEEN[s][t] \cap occupied = {}
      /\ t \in Slides(occupied, s, Diagonal) <=> t \in Squares /\ t \in bishop_moves_empty[s] /\ IN_BETWEEN[s][t] \cap occupied = {}
  <2>1. t \in Slides(occupied, s, Straight) <=>
          /\ t \in Squares /\ \E d \in Straight, n \in 1..7 : t = Target(s, d, n)
          /\ IN_BETWEEN[s][t] \cap occupied = {}
    BY <1>3, SlideReach
  <2>2. t \in Slides(occupied, s, Diagonal) <=>
          /\ t \in Squares /\ \E d \in Diagonal, n \in 1..7 : t = Target(s, d, n)
          /\ IN_BETWEEN[s][t] \cap occupied = {}
    BY <1>3, SlideReach
  <2>3. t \in Squares => /\ (\E d \in Straight, n \in 1..7 : t = Target(s, d, n)) <=> t \in rook_moves_empty[s]
                         /\ (\E d \in Diagonal, n \in 1..7 : t = Target(s, d, n)) <=> t \in bishop_moves_empty[s]
    BY RaysAre
  <2> QED BY ONLY <2>1, <2>2, <2>3, Zenon
<1>5. t \in Slides(occupied, s, Straight \cup Diagonal) <=>
        t \in Slides(occupied, s, Straight) \/ t \in Slides(occupied, s, Diagonal)
  BY SlideIs
<1>6. CASE p = BISHOP
  BY <1>4, <1>6, AimsAre DEF Reached, PAWN, NIGHT, BISHOP, ROOK, QUEEN, KING
<1>7. CASE p = ROOK
  BY <1>4, <1>7, AimsAre DEF Reached, PAWN, NIGHT, BISHOP, ROOK, QUEEN, KING
<1>8. CASE p = QUEEN
  <2>1. Reached(c, p, s, occupied) = Slides(occupied, s, Straight \cup Diagonal)
    BY <1>8 DEF Reached, PAWN, NIGHT, BISHOP, ROOK, QUEEN, KING
  <2>2. Aims(p, c, s, t) <=> t \in queen_moves_empty[s]
    BY <1>8, AimsAre
  <2>3. queen_moves_empty[s] = rook_moves_empty[s] \cup bishop_moves_empty[s]
    BY DEF queen_moves_empty
  <2> QED BY <1>4, <1>5, <2>1, <2>2, <2>3
<1>9. p \in BISHOP..QUEEN => p \in {BISHOP, ROOK, QUEEN}
  BY DEF BISHOP, ROOK, QUEEN
<1> QED BY <1>1, <1>2, <1>6, <1>7, <1>8, <1>9

-----------------------------------------------------------------------------
(***************************************************************************)
(* The steps of pawns on the board and in the laws.                        *)
(***************************************************************************)

\* The least of one square.
LEMMA LeastOfOne ==
  ASSUME NEW k \in Squares
  PROVE  Least({k}) = k
<1>1. \A s \in {k} : (\A t \in {k} : s <= t) <=> s = k
  BY DEF Squares
<1> QED BY <1>1 DEF Least

\* A pawn that takes does not go straight.
LEMMA TakesAslant ==
  ASSUME NEW c \in Colors, NEW t \in Squares, NEW s \in PAWN_ATTACKS[c][t]
  PROVE  t - s \notin {8, 16, -8, -16}
<1>1. s \in Squares /\ (s = t + 7 \/ s = t + 9 \/ s = t - 7 \/ s = t - 9)
  BY DEF PAWN_ATTACKS
<1> QED BY <1>1 DEF Squares

\* The pawn that is taken en passant.
LEMMA EpTarget ==
  ASSUME NEW t \in Squares, NEW c \in Colors, NEW s \in Squares, s = t + Forward(Opponent(c))
  PROVE  Target(t, <<0, -Up(c)>>, 1) = s
<1>1. -Up(c) \in Int /\ 0 \in Int /\ 1 \in Int /\ -Up(c) = (IF c = WHITE THEN -1 ELSE 1)
  BY DEF Up
<1>2. /\ RankOf(t) \in 0..7 /\ FileOf(t) \in 0..7 /\ t = 8 * RankOf(t) + FileOf(t)
      /\ s \in Squares
  BY Coordinates
<1>3. s = t + (IF c = WHITE THEN -8 ELSE 8)
  BY ColorsTwo DEF Forward, WHITE, BLACK, Opponent
<1>4. FileOf(s) = FileOf(t) /\ RankOf(s) = RankOf(t) + (IF c = WHITE THEN -1 ELSE 1)
  <2>1. CASE c = WHITE
    BY <1>2, <1>3, <2>1 DEF FileOf, RankOf, Squares
  <2>2. CASE c # WHITE
    BY <1>2, <1>3, <2>2 DEF FileOf, RankOf, Squares
  <2> QED BY <2>1, <2>2
<1>5. PICK y : y = -Up(c)
  OBVIOUS
<1>6. FileOf(s) = FileOf(t) + 1 * 0 /\ RankOf(s) = RankOf(t) + 1 * y
  BY <1>1, <1>2, <1>4, <1>5
<1> QED BY <1>1, <1>2, <1>5, <1>6, TargetIs

\* A double step is seen by both: the square behind it, and who stands beside it.
LEMMA DoubleStepIs ==
  ASSUME NEW c \in Colors, NEW s \in Squares, NEW t \in Squares, t = s + 2 * Forward(c), NEW e, e = s + Forward(c)
  PROVE  /\ e \in Squares /\ Target(t, <<0, -Up(c)>>, 1) = e
         /\ IN_BETWEEN[s][t] = {e} /\ Least({e}) = e
         /\ s - t \in {16, -16}
         /\ \A q : q \in Steps(t, {<<1, 0>>, <<-1, 0>>}) <=> q \in PAWN_ATTACKS[c][e]
<1>1. Forward(c) = (IF c = WHITE THEN 8 ELSE -8) /\ Up(c) = (IF c = WHITE THEN 1 ELSE -1)
      /\ Forward(Opponent(c)) = -Forward(c)
  BY ColorsTwo DEF Forward, Up, WHITE, BLACK, Opponent
<1>2. e \in Squares
  BY <1>1 DEF Squares
<1>3. IN_BETWEEN[s][t] = {e}
  BY PawnDoubleStep
<1>4. e = t + Forward(Opponent(c))
  BY <1>1 DEF Squares
<1>5. Target(t, <<0, -Up(c)>>, 1) = e
  BY <1>2, <1>4, EpTarget
<1>6. s - t \in {16, -16}
  <2>1. CASE c = WHITE
    BY <1>1, <2>1 DEF Squares
  <2>2. CASE c # WHITE
    <3>1. Forward(c) = -8
      BY <1>1, <2>2
    <3>2. s \in Int /\ t = s - 16
      BY <3>1 DEF Squares
    <3> QED BY <3>2
  <2> QED BY <2>1, <2>2
<1>7. FileOf(t) = FileOf(e) /\ RankOf(t) = RankOf(e) + (IF c = WHITE THEN 1 ELSE -1)
      /\ FileOf(e) \in 0..7 /\ RankOf(e) \in 0..7
  <2>1. t = e + (IF c = WHITE THEN 8 ELSE -8)
    BY <1>1 DEF Squares
  <2>2. CASE c = WHITE
    BY <1>2, <2>1, <2>2 DEF FileOf, RankOf, Squares
  <2>3. CASE c # WHITE
    BY <1>2, <2>1, <2>3 DEF FileOf, RankOf, Squares
  <2> QED BY <2>2, <2>3
<1>8. \A q \in Squares : q \in Steps(t, {<<1, 0>>, <<-1, 0>>}) <=> q \in PAWN_ATTACKS[c][e]
  <2> TAKE q \in Squares
  <2>1. {<<1, 0>>, <<-1, 0>>} \in SUBSET (Int \X Int)
    OBVIOUS
  <2>2. q \in Steps(t, {<<1, 0>>, <<-1, 0>>}) <=>
          \E d \in {<<1, 0>>, <<-1, 0>>} : FileOf(q) = FileOf(t) + d[1] /\ RankOf(q) = RankOf(t) + d[2]
    BY <2>1, StepIs
  <2>3. FileOf(q) \in 0..7 /\ RankOf(q) \in 0..7
    BY Coordinates
  <2>4. q \in PAWN_ATTACKS[c][e] <=> /\ FileOf(q) - FileOf(e) \in {-1, 1}
                                     /\ RankOf(q) - RankOf(e) = IF c = WHITE THEN 1 ELSE -1
    BY <1>2, StepsAre
  <2>5. (\E d \in {<<1, 0>>, <<-1, 0>>} : FileOf(q) = FileOf(t) + d[1] /\ RankOf(q) = RankOf(t) + d[2])
        <=> (FileOf(q) = FileOf(t) + 1 \/ FileOf(q) = FileOf(t) - 1) /\ RankOf(q) = RankOf(t) + 0
    BY <1>7, <2>3
  <2> QED BY <1>7, <2>2, <2>3, <2>4, <2>5
<1>9. \A q : q \in Steps(t, {<<1, 0>>, <<-1, 0>>}) => q \in Squares
  BY StepIs
<1>10. \A q : q \in PAWN_ATTACKS[c][e] => q \in Squares
  BY <1>2, PawnCaptureClear
<1> QED BY <1>2, <1>3, <1>5, <1>6, <1>8, <1>9, <1>10, LeastOfOne

\* The ways of a pawn on the board and in the laws.
LEMMA PawnWays ==
  ASSUME NEW c \in Colors, NEW s \in Squares, NEW t \in Squares, NEW n \in {1, 2}, t = s + n * Forward(c)
  PROVE  /\ RankOf(t) = RankOf(s) + n * Up(c) /\ FileOf(t) = FileOf(s)
         /\ Target(s, <<0, Up(c)>>, n) = t
         /\ n = 2 => s + Forward(c) \in Squares
<1>1. RankOf(s) \in 0..7 /\ FileOf(s) \in 0..7 /\ s = 8 * RankOf(s) + FileOf(s) /\ Up(c) \in Int
  BY Coordinates DEF Up
<1>2. RankOf(t) = RankOf(s) + n * Up(c) /\ FileOf(t) = FileOf(s) /\ (n = 2 => s + Forward(c) \in Squares)
  <2>1. CASE c = WHITE
    <3>1. Forward(c) = 8 /\ Up(c) = 1
      BY <2>1 DEF Forward, Up
    <3>2. CASE n = 1
      BY <3>1, <3>2, <1>1 DEF FileOf, RankOf, Squares
    <3>3. CASE n = 2
      BY <3>1, <3>3, <1>1 DEF FileOf, RankOf, Squares
    <3> QED BY <3>2, <3>3
  <2>2. CASE c # WHITE
    <3>1. Forward(c) = -8 /\ Up(c) = -1
      BY <2>2 DEF Forward, Up
    <3>2. CASE n = 1
      BY <3>1, <3>2, <1>1 DEF Squares, FileOf, RankOf
    <3>3. CASE n = 2
      BY <3>1, <3>3, <1>1 DEF Squares, FileOf, RankOf
    <3> QED BY <3>2, <3>3
  <2> QED BY <2>1, <2>2
<1>3. PICK y \in Int : y = Up(c)
  BY <1>1
<1>4. FileOf(t) = FileOf(s) + n * 0 /\ RankOf(t) = RankOf(s) + n * y
  BY <1>1, <1>2, <1>3
<1> QED BY <1>2, <1>3, <1>4, TargetIs

\* Ranks of pawns.
LEMMA PawnRanks ==
  ASSUME NEW c \in Colors, NEW s \in Squares
  PROVE  /\ s \in PromotionRank(c) <=> RankOf(s) + Up(c) = LastRank(c)
         /\ s \in HomeRank(c) <=> RankOf(s) = SecondRank(c)
         /\ s \in HomeRank(c) => RankOf(s) + 2 * Up(c) # LastRank(c) /\ s \notin PromotionRank(c)
<1>1. RankOf(s) \in 0..7
  BY Coordinates
<1> QED BY <1>1 DEF PromotionRank, HomeRank, Rank, LastRank, SecondRank, Up

\* How pawns step: they promote from the rank before the last, and only from
\* there, and step twice only from the rank they start on.
Marches(b, m) ==
  LET us == b.colorToMove
  IN m.source = PAWN /\ ~is_ep(m) =>
       /\ is_promotion(m) <=> m.from \in PromotionRank(us)
       /\ m.to = m.from + 2 * Forward(us) => m.from \in HomeRank(us)

\* Pawn moves keep to the ranks, pushes and captures alike,
LEMMA PawnsMarch ==
  ASSUME NEW b, b.colorToMove \in Colors, NEW pawns, pawns \subseteq Squares, NEW possible, NEW enemies, NEW empties,
         NEW m, m \in addPawnMoves(b, pawns, possible) \/ m \in addPawnAttacksAndPromotions(b, pawns, enemies, empties)
  PROVE  Marches(b, m)
<1> DEFINE us == b.colorToMove
           step == Forward(us)
           last == PromotionRank(us)
           a(t) == b.pieceIndexes[t]
<1>1. step \in {8, -8} /\ \A s \in pawns : s \in Squares /\ s \in Int
  BY DEF Forward, Squares
<1>2. \A s \in Squares : s \in HomeRank(us) => s \notin last
  BY DEF HomeRank, PromotionRank, Rank
<1>3. ASSUME NEW s \in pawns, NEW t, NEW k, NEW y \in {TYPE_NORMAL} \cup PromotionTypes,
             m = [from |-> s, to |-> t, source |-> PAWN, attacked |-> k, type |-> y],
             y \in PromotionTypes <=> s \in last, t = s + 2 * step => s \in HomeRank(us)
      PROVE  Marches(b, m)
  <2>1. m.from = s /\ m.to = t /\ m.type = y
    BY <1>3
  <2> HIDE DEF step
  <2> QED BY <1>3, <2>1 DEF Marches, is_promotion, step
<1>4. \A s \in pawns : \A t \in PAWN_ATTACKS[us][s] : t # s + 2 * step
  <2> TAKE s \in pawns
  <2> TAKE t \in PAWN_ATTACKS[us][s]
  <2>1. t \in PAWN_ATTACKS[us][s] => t \in Squares
    BY <1>1, PawnCaptureClear
  <2>2. t - s \notin {8, 16, -8, -16}
    BY <1>1, <2>1, ReachBothWays, ColorsTwo, TakesAslant
  <2> HIDE DEF step
  <2> QED BY <1>1, <2>1, <2>2 DEF Squares
<1>5. CASE m \in addPawnMoves(b, pawns, possible)
  <2>1. \/ \E s \in pawns \ last : m = create_move(s, s + step, PAWN)
        \/ \E s \in pawns \cap HomeRank(us) : m = create_move(s, s + 2 * step, PAWN)
    BY <1>5 DEF addPawnMoves
  <2>2. TYPE_NORMAL \in {TYPE_NORMAL} \cup PromotionTypes /\ TYPE_NORMAL \notin PromotionTypes
    BY TypesDiffer
  <2>3. \A s, t : create_move(s, t, PAWN) = [from |-> s, to |-> t, source |-> PAWN, attacked |-> EMPTY, type |-> TYPE_NORMAL]
    BY DEF create_move, create_attack
  <2>4. CASE \E s \in pawns \ last : m = create_move(s, s + step, PAWN)
    <3>1. PICK s \in pawns \ last : m = create_move(s, s + step, PAWN)
      BY <2>4
    <3>2. s \in pawns /\ s \notin last /\ s + step # s + 2 * step
      BY <1>1
    <3> HIDE DEF step, last, us
    <3> QED BY <1>3, <2>2, <2>3, <3>1, <3>2
  <2>5. CASE \E s \in pawns \cap HomeRank(us) : m = create_move(s, s + 2 * step, PAWN)
    <3>1. PICK s \in pawns \cap HomeRank(us) : m = create_move(s, s + 2 * step, PAWN)
      BY <2>5
    <3>2. s \in pawns /\ s \notin last /\ s \in HomeRank(us)
      BY <1>1, <1>2
    <3> HIDE DEF step, last, us
    <3> QED BY <1>3, <2>2, <2>3, <3>1, <3>2
  <2> QED BY <2>1, <2>4, <2>5
<1>6. CASE m \in addPawnAttacksAndPromotions(b, pawns, enemies, empties)
  <2> DEFINE targets(s) == PAWN_ATTACKS[us][s] \cap enemies
  <2> DEFINE S1 == UNION {{create_attack(s, t, PAWN, a(t)) : t \in targets(s)} : s \in pawns \ last}
             S2 == UNION {{create_promotion_attack(promo, s, t, a(t)) : promo \in PromotionTypes, t \in targets(s)} : s \in pawns \cap last}
             S3 == {create_promotion_attack(promo, s, s + step, EMPTY) :
                    promo \in PromotionTypes, s \in {q \in pawns \cap last : q + step \in empties}}
  <2>1. m \in S1 \/ m \in S2 \/ m \in S3
    BY <1>6 DEF addPawnAttacksAndPromotions
  <2>2. TYPE_NORMAL \notin PromotionTypes
    BY TypesDiffer
  <2>3. \A s \in pawns : s + step # s + 2 * step
    BY <1>1
  <2> HIDE DEF last, a, us, step, S1, S2, S3
  <2>4. CASE m \in S1
    <3>1. PICK s \in pawns \ last : m \in {create_attack(s, t, PAWN, a(t)) : t \in targets(s)}
      BY <2>4 DEF S1
    <3>2. PICK t \in targets(s) : m = create_attack(s, t, PAWN, a(t))
      BY <3>1
    <3> QED BY <1>3, <1>4, <2>2, <3>2 DEF create_attack
  <2>5. CASE m \in S2
    <3>1. PICK s \in pawns \cap last : m \in {create_promotion_attack(promo, s, t, a(t)) : promo \in PromotionTypes, t \in targets(s)}
      BY <2>5 DEF S2
    <3>2. PICK promo \in PromotionTypes, t \in targets(s) : m = create_promotion_attack(promo, s, t, a(t))
      BY <3>1
    <3> QED BY <1>3, <1>4, <3>2 DEF create_promotion_attack
  <2>6. CASE m \in S3
    <3>1. PICK promo \in PromotionTypes, s \in {q \in pawns \cap last : q + step \in empties} : m = create_promotion_attack(promo, s, s + step, EMPTY)
      BY <2>6 DEF S3
    <3> QED BY <1>3, <2>3, <3>1 DEF create_promotion_attack
  <2> QED BY <2>1, <2>4, <2>5, <2>6
<1> QED BY <1>5, <1>6

\* other moves have nothing to keep to,
LEMMA OthersMarch ==
  ASSUME NEW b, NEW m, m.source # PAWN \/ is_ep(m)
  PROVE  Marches(b, m)
BY DEF Marches

\* Every generated pawn steps so.
LEMMA GeneratorMarches ==
  ASSUME NEW b, Sound(b), NEW m \in generateMoves(b) \cup generateAttacks(b)
  PROVE  Marches(b, m)
<1> DEFINE byKing == m \in addKingMoves(b) \cup addKingAttacks(b) \cup addEpAttacks(b)
           byPiece == \E p \in NIGHT..QUEEN : \E froms, possible :
                        m \in addMoves(b, p, froms, possible) \/ m \in addAttacks(b, p, froms, possible)
           byPawn == \E pawns \in SUBSET Squares : \E possible, enemies, empties :
                       m \in addPawnMoves(b, pawns, possible) \/ m \in addPawnAttacksAndPromotions(b, pawns, enemies, empties)
<1>1. /\ Unpinned(b, PAWN) \in SUBSET Squares
      /\ \A s \in PinnedOurs(b, {PAWN}) : {s} \in SUBSET Squares
      /\ \A s \in PinnedOurs(b, BISHOP..QUEEN) : b.pieceIndexes[s] \in NIGHT..QUEEN
      /\ b.colorToMove \in Colors
  <2>1. \A s \in Ours(b, PAWN) : s \in Squares
    BY GeneratorSees, TypesDiffer
  <2>2. {PAWN} \subseteq PieceTypes
    BY TypesDiffer
  <2>3. \A s \in PinnedOurs(b, {PAWN}) : {s} \subseteq Ours(b, PAWN)
    BY <2>2, PinnedAre
  <2>4. \A s \in PinnedOurs(b, BISHOP..QUEEN) : b.pieceIndexes[s] \in NIGHT..QUEEN
    BY TypesDiffer DEF PinnedOurs
  <2>5. Unpinned(b, PAWN) \in SUBSET Squares
    BY <2>1 DEF Unpinned
  <2>6. \A s \in PinnedOurs(b, {PAWN}) : {s} \in SUBSET Squares
    BY <2>1, <2>3
  <2>7. b.colorToMove \in Colors
    BY GeneratorSees
  <2> QED BY <2>4, <2>5, <2>6, <2>7
<1>2. m \in generateNotInCheckMoves(b) => byKing \/ byPiece \/ byPawn
  <2> SUFFICES ASSUME m \in generateNotInCheckMoves(b) PROVE byKing \/ byPiece \/ byPawn
    OBVIOUS
  <2>1. \/ m \in addKingMoves(b)
        \/ \E p \in NIGHT..QUEEN : m \in addMoves(b, p, Unpinned(b, p), Empties(b))
        \/ m \in addPawnMoves(b, Unpinned(b, PAWN), Empties(b))
        \/ \E s \in PinnedOurs(b, {PAWN}) : m \in addPawnMoves(b, {s}, Empties(b) \cap PinLine(b, s))
        \/ \E s \in PinnedOurs(b, BISHOP..QUEEN) :
             m \in addMoves(b, b.pieceIndexes[s], {s}, Empties(b) \cap PinLine(b, s))
    BY DEF generateNotInCheckMoves
  <2> QED BY <1>1, <2>1
<1>3. m \in generateNotInCheckAttacks(b) => byKing \/ byPiece \/ byPawn
  <2> SUFFICES ASSUME m \in generateNotInCheckAttacks(b) PROVE byKing \/ byPiece \/ byPawn
    OBVIOUS
  <2>1. \/ m \in addEpAttacks(b)
        \/ m \in addKingAttacks(b)
        \/ m \in addPawnAttacksAndPromotions(b, Unpinned(b, PAWN), Enemies(b), Empties(b))
        \/ \E p \in NIGHT..QUEEN : m \in addAttacks(b, p, Unpinned(b, p), Enemies(b))
        \/ \E s \in PinnedOurs(b, {PAWN}) :
             m \in addPawnAttacksAndPromotions(b, {s}, Enemies(b) \cap PinLine(b, s), {})
        \/ \E s \in PinnedOurs(b, BISHOP..QUEEN) :
             m \in addAttacks(b, b.pieceIndexes[s], {s}, Enemies(b) \cap PinLine(b, s))
    BY DEF generateNotInCheckAttacks
  <2> QED BY <1>1, <2>1
<1>4. m \in generateOutOfSlidingCheckMoves(b) => byKing \/ byPiece \/ byPawn
  <2> SUFFICES ASSUME m \in generateOutOfSlidingCheckMoves(b) PROVE byKing \/ byPiece \/ byPawn
    OBVIOUS
  <2> DEFINE between == IN_BETWEEN[OurKing(b)][Checker(b)]
  <2>1. \/ m \in addKingMoves(b)
        \/ \E p \in NIGHT..QUEEN : m \in addMoves(b, p, Unpinned(b, p), between)
        \/ m \in addPawnMoves(b, Unpinned(b, PAWN), between)
    BY DEF generateOutOfSlidingCheckMoves
  <2> HIDE DEF between
  <2> QED BY <1>1, <2>1
<1>5. m \in generateOutOfCheckAttacks(b) => byKing \/ byPiece \/ byPawn
  <2> SUFFICES ASSUME m \in generateOutOfCheckAttacks(b) PROVE byKing \/ byPiece \/ byPawn
    OBVIOUS
  <2>1. \/ m \in addEpAttacks(b)
        \/ m \in addKingAttacks(b)
        \/ m \in addPawnAttacksAndPromotions(b, Unpinned(b, PAWN), b.checkingPieces, PushTargets(b))
        \/ \E p \in NIGHT..QUEEN : m \in addAttacks(b, p, Unpinned(b, p), b.checkingPieces)
    BY DEF generateOutOfCheckAttacks
  <2> QED BY <1>1, <2>1
<1>6. \/ m \in addKingMoves(b) \/ m \in addKingAttacks(b)
      \/ m \in generateNotInCheckMoves(b) \/ m \in generateNotInCheckAttacks(b)
      \/ m \in generateOutOfSlidingCheckMoves(b) \/ m \in generateOutOfCheckAttacks(b)
  BY FS_EmptySet DEF generateMoves, generateAttacks
<1>7. CASE byKing
  <2>1. m.source = KING \/ is_ep(m)
    BY <1>7 DEF addKingMoves, addKingAttacks, addEpAttacks, create_move, create_attack, create_castling, create_ep, is_ep
  <2> QED BY <2>1, OthersMarch, TypesDiffer
<1>8. CASE byPiece
  <2>1. PICK p \in NIGHT..QUEEN : \E froms, possible :
               m \in addMoves(b, p, froms, possible) \/ m \in addAttacks(b, p, froms, possible)
    BY <1>8
  <2>2. PICK froms, possible : m \in addMoves(b, p, froms, possible) \/ m \in addAttacks(b, p, froms, possible)
    BY <2>1
  <2>3. m.source = p
    BY <2>2 DEF addMoves, addAttacks, create_move, create_attack
  <2> QED BY <2>3, OthersMarch, TypesDiffer
<1>9. CASE byPawn
  <2>1. PICK pawns \in SUBSET Squares : \E possible, enemies, empties :
               m \in addPawnMoves(b, pawns, possible) \/ m \in addPawnAttacksAndPromotions(b, pawns, enemies, empties)
    BY <1>9
  <2>2. PICK possible, enemies, empties :
               m \in addPawnMoves(b, pawns, possible) \/ m \in addPawnAttacksAndPromotions(b, pawns, enemies, empties)
    BY <2>1
  <2> QED BY <1>1, <2>2, PawnsMarch
<1>10. byKing \/ byPiece \/ byPawn
  <2> HIDE DEF byPiece, byPawn
  <2> QED BY <1>2, <1>3, <1>4, <1>5, <1>6
<1> QED BY <1>7, <1>8, <1>9, <1>10

-----------------------------------------------------------------------------
(***************************************************************************)
(* The squares of castling.                                                *)
(***************************************************************************)

\* The two tables of castling squares agree.
LEMMA CornersAgree ==
  ASSUME NEW r \in Rights
  PROVE  /\ KingTo(r) = KING_TO[r] /\ RookTo(r) = ROOK_TO[r] /\ Owner(r) = OwnerOf(r)
         /\ (CHOOSE q \in {8, 4, 2, 1} : KingTo(q) = KING_TO[r]) = r
<1>1. \A q \in Rights : KingTo(q) = KING_TO[q] /\ RookTo(q) = ROOK_TO[q] /\ Owner(q) = OwnerOf(q)
  BY DEF Rights, KingTo, RookTo, KING_TO, ROOK_TO, Owner, OwnerOf
<1>2. \A q \in Rights : KING_TO[q] = KING_TO[r] => q = r
  BY TargetsDiffer
<1>3. \A q \in {8, 4, 2, 1} : KingTo(q) = KING_TO[r] <=> q = r
  BY <1>1, <1>2 DEF Rights
<1>4. r \in {8, 4, 2, 1}
  BY DEF Rights
<1> QED BY <1>1, <1>3, <1>4

\* On one rank the squares from one to another are the two and those between.
LEMMA SpanIs ==
  ASSUME NEW a \in Squares, NEW k \in Squares, RankOf(a) = RankOf(k)
  PROVE  Span(a, k) = {a, k} \cup IN_BETWEEN[a][k]
<1>1. /\ RankOf(a) \in 0..7 /\ FileOf(a) \in 0..7 /\ a = 8 * RankOf(a) + FileOf(a)
      /\ FileOf(k) \in 0..7 /\ k = 8 * RankOf(a) + FileOf(k)
  BY Coordinates
<1>2. \A t \in Squares : t \in IN_BETWEEN[a][k] <=> RankOf(t) = RankOf(a) /\ Amid(FileOf(a), FileOf(t), FileOf(k))
  <2> TAKE t \in Squares
  <2>1. t \in IN_BETWEEN[a][k] <=> OnLine(a, t, k)
    BY BetweenIs
  <2>2. ~Amid(RankOf(a), RankOf(t), RankOf(k))
    <3>1. RankOf(t) \in 0..7
      BY Coordinates
    <3> QED BY <1>1, <3>1 DEF Amid
  <2> QED BY <2>1, <2>2 DEF OnLine
<1>3. \A t \in Squares : RankOf(t) = RankOf(a) /\ Amid(FileOf(a), FileOf(t), FileOf(k)) <=> Amid(a, t, k)
  <2> TAKE t \in Squares
  <2>1. RankOf(t) \in 0..7 /\ FileOf(t) \in 0..7 /\ t = 8 * RankOf(t) + FileOf(t)
    BY Coordinates
  <2>2. PICK r, f, s, g, h : r = RankOf(a) /\ f = FileOf(a) /\ s = RankOf(t) /\ g = FileOf(t) /\ h = FileOf(k)
    OBVIOUS
  <2>3. /\ r \in 0..7 /\ f \in 0..7 /\ s \in 0..7 /\ g \in 0..7 /\ h \in 0..7
        /\ a = 8 * r + f /\ t = 8 * s + g /\ k = 8 * r + h
    BY <1>1, <2>1, <2>2
  <2>4. s = r /\ Amid(f, g, h) <=> Amid(a, t, k)
    BY ONLY <2>3 DEF Amid
  <2> QED BY <2>2, <2>4
<1>4. \A t \in Squares : t \in Span(a, k) <=> t \in {a, k} \/ Amid(a, t, k)
  BY DEF Span, Amid, Squares
<1>5. Span(a, k) \subseteq Squares
  BY DEF Span, Squares
<1>6. IN_BETWEEN[a][k] \subseteq Squares
  BY BetweenOnBoard
<1> QED BY <1>2, <1>3, <1>4, <1>5, <1>6

\* The last square of a set.
LEMMA Maximum ==
  ASSUME NEW T, T \subseteq Squares, T # {}
  PROVE  \E m \in T : \A t \in T : t <= m
<1> DEFINE U == {63 - t : t \in T}
<1>1. U \subseteq Nat /\ U # {}
  <2>1. \A t \in T : t \in 0..63
    BY DEF Squares
  <2>2. \A t \in 0..63 : 63 - t \in Nat
    OBVIOUS
  <2>3. U \subseteq Nat
    BY <2>1, <2>2
  <2> QED BY <2>3
<1>2. PICK u \in U : \A v \in U : u <= v
  BY <1>1, Minimum
<1>3. PICK m \in T : u = 63 - m
  BY <1>2
<1>4. \A t \in T : t <= m
  <2> TAKE t \in T
  <2>1. 63 - t \in U
    OBVIOUS
  <2>2. 63 - m <= 63 - t
    BY <1>2, <1>3, <2>1
  <2> QED BY <2>2 DEF Squares
<1> QED BY <1>3, <1>4

\* The rook that is found for a right stands on the rank of the king and of the
\* corner, when they share it.
LEMMA DetectedHome ==
  ASSUME NEW index, NEW king \in [Colors -> Squares], NEW r \in Rights,
         RankOf(king[OwnerOf(r)]) = RankOf(CORNER[r])
  PROVE  /\ RankOf(detectCastlingConfig(index, king).rook[r]) = RankOf(CORNER[r])
         /\ IF r \in {8, 2} THEN detectCastlingConfig(index, king).rook[r] <= king[OwnerOf(r)]
                             ELSE king[OwnerOf(r)] <= detectCastlingConfig(index, king).rook[r]
<1> DEFINE K(q) == king[OwnerOf(q)]
           Rooks(q) == {s \in Squares : /\ index[s] = ROOK
                                        /\ IF q \in {8, 2} THEN CORNER[q] <= s /\ s <= K(q)
                                                           ELSE K(q) <= s /\ s <= CORNER[q]}
           Found(q) == IF Rooks(q) = {} THEN CORNER[q]
                       ELSE IF q \in {8, 2} THEN CHOOSE s \in Rooks(q) : \A t \in Rooks(q) : t <= s
                       ELSE Least(Rooks(q))
<1>1. detectCastlingConfig(index, king) = [king |-> king, rook |-> [q \in Rights |-> Found(q)]]
  BY Zenon DEF detectCastlingConfig
<1>2. detectCastlingConfig(index, king).rook[r] = Found(r)
  BY <1>1
<1>3. K(r) \in Squares /\ CORNER[r] \in Squares
  BY DEF OwnerOf, Colors, WHITE, BLACK, CORNER, Rights, Squares
<1>4. PICK T : T = Rooks(r)
  OBVIOUS
<1>5. /\ T \subseteq Squares
      /\ \A s \in T : IF r \in {8, 2} THEN CORNER[r] <= s /\ s <= K(r) ELSE K(r) <= s /\ s <= CORNER[r]
  BY <1>4
<1>6. T = {} => Found(r) = CORNER[r]
  BY <1>4
<1>7. T # {} => Found(r) \in T
  <2>1. CASE T # {} /\ r \in {8, 2}
    BY <1>4, <2>1, <1>5, Maximum
  <2>2. CASE T # {} /\ r \notin {8, 2}
    <3>1. Found(r) = Least(T)
      BY <1>4, <2>2
    <3>2. \E s \in T : \A t \in T : s <= t
      <4>1. T \subseteq Nat
        BY <1>5 DEF Squares
      <4> QED BY <2>2, <4>1, Minimum
    <3> QED BY <3>1, <3>2 DEF Least
  <2> QED BY <2>1, <2>2
<1>8. PICK f : f = Found(r)
  OBVIOUS
<1>9. PICK k, c : k = K(r) /\ c = CORNER[r]
  OBVIOUS
<1>10. T = {} => f = c
  BY <1>6, <1>8, <1>9
<1>11. T # {} => f \in Squares /\ IF r \in {8, 2} THEN c <= f /\ f <= k ELSE k <= f /\ f <= c
  <2> SUFFICES ASSUME T # {} PROVE f \in Squares /\ IF r \in {8, 2} THEN c <= f /\ f <= k ELSE k <= f /\ f <= c
    OBVIOUS
  <2>1. f \in T
    BY <1>7, <1>8
  <2>2. f \in Squares /\ IF r \in {8, 2} THEN CORNER[r] <= f /\ f <= K(r) ELSE K(r) <= f /\ f <= CORNER[r]
    BY <1>5, <2>1, Zenon
  <2> QED BY <1>9, <2>2, Zenon
<1> HIDE DEF K, Rooks, Found
<1>12. k \in Squares /\ c \in Squares /\ RankOf(k) = RankOf(c)
  BY <1>3, <1>9 DEF K
<1>13. RankOf(f) = RankOf(c)
  <2>1. CASE T = {}
    BY <1>10, <2>1
  <2>2. CASE T # {}
    <3>1. f \in Squares /\ ((c <= f /\ f <= k) \/ (k <= f /\ f <= c))
      BY <1>11, <2>2
    <3> QED BY ONLY <1>12, <3>1 DEF RankOf, Squares
  <2> QED BY <2>1, <2>2
<1>14. IF r \in {8, 2} THEN f <= k ELSE k <= f
  <2>1. CASE T = {}
    <3>1. IF r \in {8, 2} THEN c \in {0, 56} ELSE c \in {7, 63}
      BY <1>9 DEF CORNER, Rights
    <3> QED BY <1>10, <1>12, <2>1, <3>1 DEF RankOf, Squares
  <2>2. CASE T # {}
    BY <1>11, <2>2
  <2> QED BY <2>1, <2>2
<1>15. f = detectCastlingConfig(index, king).rook[r] /\ k = king[OwnerOf(r)]
  BY <1>2, <1>8, <1>9 DEF K
<1> QED BY <1>9, <1>13, <1>14, <1>15, Zenon

-----------------------------------------------------------------------------
(***************************************************************************)
(* What the moves of the generator have in common.                         *)
(***************************************************************************)

\* a pinned piece moves along its pin, out of check
Held(b, from, to) == from \in b.pinnedPieces => b.checkingPieces = {} /\ to \in PinLine(b, from)

\* what the generator makes beside a move that fits
Makes(b, m) ==
  LET us == b.colorToMove
  IN /\ m = [from |-> m.from, to |-> m.to, source |-> m.source, attacked |-> m.attacked, type |-> m.type]
     /\ m.source = PAWN /\ m.attacked = EMPTY =>
          m.to = m.from + Forward(us) \/ (m.to = m.from + 2 * Forward(us) /\ ~is_promotion(m))
     /\ m.source = PAWN /\ m.attacked # EMPTY /\ ~is_ep(m) => m.to \in PAWN_ATTACKS[us][m.from]
     /\ is_ep(m) => m.from \in PAWN_ATTACKS[Opponent(us)][m.to]
     /\ m.source \in NIGHT..QUEEN => m.to \in Reach(b, m.source, m.from)
     /\ m.source = KING /\ ~is_castling(m) => m.to \in KING_MOVES[m.from]
     /\ is_castling(m) => /\ m.to \in getCastlingIndexes(us, b.castlingRights)
                          /\ isValidCastlingMove(b, m.from, m.to)
     /\ m.source # KING /\ ~is_ep(m) => /\ Held(b, m.from, m.to)
                                        /\ b.checkingPieces # {} /\ m.attacked # EMPTY => b.checkingPieces = {m.to}

\* The moves of the pieces,
LEMMA PiecesMake ==
  ASSUME NEW b, NEW p \in NIGHT..QUEEN, NEW froms, NEW possible, \A from \in froms, to \in possible : Held(b, from, to),
         NEW m, \/ m \in addMoves(b, p, froms, possible)
                \/ m \in addAttacks(b, p, froms, possible) /\ \A to \in possible : b.checkingPieces # {} => b.checkingPieces = {to}
  PROVE  Makes(b, m)
<1>0. \E from \in froms, to \in possible : \E a :
        to \in Reach(b, p, from) /\ m = create_attack(from, to, p, a) /\ (a # EMPTY /\ b.checkingPieces # {} => b.checkingPieces = {to})
  <2>1. CASE m \in addMoves(b, p, froms, possible)
    <3>1. PICK from \in froms : m \in {create_move(from, to, p) : to \in Reach(b, p, from) \cap possible}
      BY <2>1 DEF addMoves
    <3>2. PICK to \in Reach(b, p, from) \cap possible : m = create_move(from, to, p)
      BY <3>1
    <3> QED BY <3>2 DEF create_move
  <2>2. CASE m \in addAttacks(b, p, froms, possible) /\ \A to \in possible : b.checkingPieces # {} => b.checkingPieces = {to}
    <3>1. PICK from \in froms : m \in {create_attack(from, to, p, b.pieceIndexes[to]) : to \in Reach(b, p, from) \cap possible}
      BY <2>2 DEF addAttacks
    <3>2. PICK to \in Reach(b, p, from) \cap possible : m = create_attack(from, to, p, b.pieceIndexes[to])
      BY <3>1
    <3> QED BY <2>2, <3>2
  <2> QED BY <2>1, <2>2
<1>1. PICK from \in froms, to \in possible :
        \E a : to \in Reach(b, p, from) /\ m = create_attack(from, to, p, a) /\ (a # EMPTY /\ b.checkingPieces # {} => b.checkingPieces = {to})
  BY <1>0
<1>a. PICK a :
        to \in Reach(b, p, from) /\ m = create_attack(from, to, p, a) /\ (a # EMPTY /\ b.checkingPieces # {} => b.checkingPieces = {to})
  BY <1>1
<1>2. m = [from |-> from, to |-> to, source |-> p, attacked |-> a, type |-> TYPE_NORMAL]
  BY <1>a DEF create_attack
<1>3. m.from = from /\ m.to = to /\ m.source = p /\ m.attacked = a /\ m.type = TYPE_NORMAL
  BY <1>2
<1>4. m = [from |-> m.from, to |-> m.to, source |-> m.source, attacked |-> m.attacked, type |-> m.type]
  BY <1>2
<1>5. Held(b, m.from, m.to) /\ m.to \in Reach(b, m.source, m.from)
  BY <1>a, <1>3
<1> QED BY <1>a, <1>3, <1>4, <1>5, TypesDiffer DEF Makes, is_ep, is_castling

\* those of the pawns,
LEMMA PawnsMake ==
  ASSUME NEW b, b.colorToMove \in Colors, NEW pawns, pawns \subseteq Squares, NEW possible, NEW enemies, NEW empties,
         NEW m, \/ m \in addPawnMoves(b, pawns, possible) /\ \A s \in pawns, t \in possible : Held(b, s, t)
                \/ /\ m \in addPawnAttacksAndPromotions(b, pawns, enemies, empties)
                   /\ \A s \in pawns, t \in enemies \cup empties : Held(b, s, t)
                   /\ \A t \in enemies : b.pieceIndexes[t] # EMPTY /\ (b.checkingPieces # {} => b.checkingPieces = {t})
  PROVE  Makes(b, m)
<1> DEFINE us == b.colorToMove
           step == Forward(us)
           a(t) == b.pieceIndexes[t]
<1>1. step \in Int
  BY DEF Forward
<1>2. \A s \in pawns : s \in Int
  BY DEF Squares
<1>3. ASSUME NEW s \in pawns, NEW t, NEW y \in {TYPE_NORMAL} \cup PromotionTypes, Held(b, s, t),
             t = s + step \/ (t = s + 2 * step /\ y = TYPE_NORMAL),
             m = [from |-> s, to |-> t, source |-> PAWN, attacked |-> EMPTY, type |-> y]
      PROVE  Makes(b, m)
  <2>1. m.from = s /\ m.to = t /\ m.source = PAWN /\ m.attacked = EMPTY /\ m.type = y
    BY <1>3
  <2>2. m = [from |-> m.from, to |-> m.to, source |-> m.source, attacked |-> m.attacked, type |-> m.type]
    BY <1>3
  <2>3. ~(PAWN \in NIGHT..QUEEN) /\ PAWN # KING
    BY TypesDiffer
  <2> HIDE DEF step
  <2>4. m.to = m.from + step \/ (m.to = m.from + 2 * step /\ ~is_promotion(m))
    BY <1>3, <2>1, TypesDiffer DEF is_promotion
  <2>5. Held(b, m.from, m.to) /\ ~is_ep(m) /\ ~is_castling(m)
    BY <1>3, <2>1, TypesDiffer DEF is_ep, is_castling
  <2> QED BY <2>1, <2>2, <2>3, <2>4, <2>5 DEF Makes, step
<1>4. ASSUME NEW s \in pawns, NEW t \in PAWN_ATTACKS[us][s], NEW k, k # EMPTY, NEW y \in {TYPE_NORMAL} \cup PromotionTypes,
             Held(b, s, t), b.checkingPieces # {} => b.checkingPieces = {t},
             m = [from |-> s, to |-> t, source |-> PAWN, attacked |-> k, type |-> y]
      PROVE  Makes(b, m)
  <2>1. m.from = s /\ m.to = t /\ m.source = PAWN /\ m.attacked # EMPTY /\ m.type = y
    BY <1>4
  <2>2. m = [from |-> m.from, to |-> m.to, source |-> m.source, attacked |-> m.attacked, type |-> m.type]
    BY <1>4
  <2>3. ~(PAWN \in NIGHT..QUEEN) /\ PAWN # KING
    BY TypesDiffer
  <2>4. Held(b, m.from, m.to) /\ ~is_ep(m) /\ ~is_castling(m)
    BY <1>4, <2>1, TypesDiffer DEF is_ep, is_castling
  <2> QED BY <1>4, <2>1, <2>2, <2>3, <2>4 DEF Makes
<1>5. CASE m \in addPawnMoves(b, pawns, possible) /\ \A s \in pawns, t \in possible : Held(b, s, t)
  <2>1. \/ \E s \in pawns : s + step \in possible /\ m = create_move(s, s + step, PAWN)
        \/ \E s \in pawns : s + 2 * step \in possible /\ m = create_move(s, s + 2 * step, PAWN)
    BY <1>5 DEF addPawnMoves
  <2> HIDE DEF us, step
  <2>2. \E s \in pawns, t \in possible : (t = s + step \/ t = s + 2 * step) /\ m = create_move(s, t, PAWN)
    BY <2>1
  <2>3. PICK s \in pawns, t \in possible : (t = s + step \/ t = s + 2 * step) /\ m = create_move(s, t, PAWN)
    BY <2>2
  <2>4. Held(b, s, t) /\ TYPE_NORMAL \in {TYPE_NORMAL} \cup PromotionTypes
    BY <1>5
  <2>5. m = [from |-> s, to |-> t, source |-> PAWN, attacked |-> EMPTY, type |-> TYPE_NORMAL]
    BY <2>3 DEF create_move, create_attack
  <2> QED BY <1>3, <2>3, <2>4, <2>5
<1>6. CASE /\ m \in addPawnAttacksAndPromotions(b, pawns, enemies, empties)
           /\ \A s \in pawns, t \in enemies \cup empties : Held(b, s, t)
           /\ \A t \in enemies : a(t) # EMPTY /\ (b.checkingPieces # {} => b.checkingPieces = {t})
  <2> DEFINE last == PromotionRank(us)
             targets(s) == PAWN_ATTACKS[us][s] \cap enemies
  <2> DEFINE S1 == UNION {{create_attack(s, t, PAWN, a(t)) : t \in targets(s)} : s \in pawns \ last}
             S2 == UNION {{create_promotion_attack(promo, s, t, a(t)) : promo \in PromotionTypes, t \in targets(s)} : s \in pawns \cap last}
             S3 == {create_promotion_attack(promo, s, s + step, EMPTY) :
                    promo \in PromotionTypes, s \in {q \in pawns \cap last : q + step \in empties}}
  <2>1. m \in S1 \/ m \in S2 \/ m \in S3
    BY <1>6 DEF addPawnAttacksAndPromotions
  <2>0. /\ \A t \in enemies : a(t) # EMPTY /\ (b.checkingPieces # {} => b.checkingPieces = {t})
        /\ \A s \in pawns, t \in enemies \cup empties : Held(b, s, t)
    BY <1>6
  <2> HIDE DEF last, a, us, step, S1, S2, S3
  <2>2. CASE m \in S1
    <3>1. PICK s \in pawns \ last : m \in {create_attack(s, t, PAWN, a(t)) : t \in targets(s)}
      BY <2>2 DEF S1
    <3>2. PICK t \in targets(s) : m = create_attack(s, t, PAWN, a(t))
      BY <3>1
    <3> QED BY <1>4, <2>0, <3>2 DEF create_attack
  <2>3. CASE m \in S2
    <3>1. PICK s \in pawns \cap last : m \in {create_promotion_attack(promo, s, t, a(t)) : promo \in PromotionTypes, t \in targets(s)}
      BY <2>3 DEF S2
    <3>2. PICK promo \in PromotionTypes, t \in targets(s) : m = create_promotion_attack(promo, s, t, a(t))
      BY <3>1
    <3> QED BY <1>4, <2>0, <3>2 DEF create_promotion_attack
  <2>4. CASE m \in S3
    <3>1. PICK promo \in PromotionTypes, s \in {q \in pawns \cap last : q + step \in empties} : m = create_promotion_attack(promo, s, s + step, EMPTY)
      BY <2>4 DEF S3
    <3>2. PICK t \in empties : t = s + step
      BY <3>1
    <3>3. m = [from |-> s, to |-> t, source |-> PAWN, attacked |-> EMPTY, type |-> promo] /\ Held(b, s, t)
      BY <2>0, <3>1, <3>2 DEF create_promotion_attack
    <3> QED BY <1>3, <3>2, <3>3
  <2> QED BY <2>1, <2>2, <2>3, <2>4
<1> QED BY <1>5, <1>6

\* and those of the king and en passant.
LEMMA KingMakes ==
  ASSUME NEW b, NEW m, m \in addKingMoves(b) \cup addKingAttacks(b) \cup addEpAttacks(b)
  PROVE  Makes(b, m)
<1>1. CASE m \in addEpAttacks(b)
  <2>1. PICK s \in PAWN_ATTACKS[Opponent(b.colorToMove)][b.epIndex] : m = create_ep(s, b.epIndex)
    BY <1>1 DEF addEpAttacks
  <2>2. m = [from |-> s, to |-> b.epIndex, source |-> PAWN, attacked |-> PAWN, type |-> TYPE_EP]
    BY <2>1 DEF create_ep
  <2>3. m.from = s /\ m.to = b.epIndex /\ m.source = PAWN /\ m.attacked = PAWN /\ m.type = TYPE_EP
    BY <2>2
  <2>4. m = [from |-> m.from, to |-> m.to, source |-> m.source, attacked |-> m.attacked, type |-> m.type]
    BY <2>2
  <2> QED BY <2>1, <2>3, <2>4, TypesDiffer DEF Makes, is_castling, is_ep
<1>2. ASSUME NEW a, NEW to \in KING_MOVES[OurKing(b)], m = create_attack(OurKing(b), to, KING, a)
      PROVE  Makes(b, m)
  BY <1>2, TypesDiffer DEF create_attack, Makes, is_ep, is_castling
<1>3. CASE m \in addKingAttacks(b)
  BY <1>2, <1>3 DEF addKingAttacks, SafeKingSquares
<1>4. CASE m \in addKingMoves(b)
  <2>1. \/ \E to \in KING_MOVES[OurKing(b)] : m = create_attack(OurKing(b), to, KING, EMPTY)
        \/ \E to \in getCastlingIndexes(b.colorToMove, b.castlingRights) :
             isValidCastlingMove(b, OurKing(b), to) /\ m = create_castling(OurKing(b), to)
    BY <1>4 DEF addKingMoves, SafeKingSquares, create_move
  <2>2. ASSUME NEW to \in getCastlingIndexes(b.colorToMove, b.castlingRights),
               isValidCastlingMove(b, OurKing(b), to), m = create_castling(OurKing(b), to)
        PROVE  Makes(b, m)
    BY <2>2, TypesDiffer DEF create_castling, Makes, is_ep, is_castling
  <2> QED BY <1>2, <2>1, <2>2
<1> QED BY <1>1, <1>3, <1>4

\* So are all moves of the generator.
LEMMA GeneratorMakes ==
  ASSUME NEW b, Sound(b), NEW m \in generateMoves(b) \cup generateAttacks(b)
  PROVE  Makes(b, m)
<1> DEFINE only(t) == b.checkingPieces # {} => b.checkingPieces = {t}
           byKing == m \in addKingMoves(b) \cup addKingAttacks(b) \cup addEpAttacks(b)
           byPiece == \E p \in NIGHT..QUEEN : \E froms, possible :
                        /\ \A from \in froms, to \in possible : Held(b, from, to)
                        /\ \/ m \in addMoves(b, p, froms, possible)
                           \/ m \in addAttacks(b, p, froms, possible) /\ \A to \in possible : only(to)
           byPawn == \E pawns \in SUBSET Squares : \E possible, enemies, empties :
                       \/ m \in addPawnMoves(b, pawns, possible) /\ \A s \in pawns, t \in possible : Held(b, s, t)
                       \/ /\ m \in addPawnAttacksAndPromotions(b, pawns, enemies, empties)
                          /\ \A s \in pawns, t \in enemies \cup empties : Held(b, s, t)
                          /\ \A t \in enemies : b.pieceIndexes[t] # EMPTY /\ only(t)
<1>1. /\ Unpinned(b, PAWN) \in SUBSET Squares
      /\ \A s \in PinnedOurs(b, {PAWN}) : {s} \in SUBSET Squares
      /\ \A s \in PinnedOurs(b, BISHOP..QUEEN) : b.pieceIndexes[s] \in NIGHT..QUEEN
      /\ b.colorToMove \in Colors
  <2>1. \A s \in Ours(b, PAWN) : s \in Squares
    BY GeneratorSees, TypesDiffer
  <2>2. {PAWN} \subseteq PieceTypes
    BY TypesDiffer
  <2>3. \A s \in PinnedOurs(b, {PAWN}) : {s} \subseteq Ours(b, PAWN)
    BY <2>2, PinnedAre
  <2>4. \A s \in PinnedOurs(b, BISHOP..QUEEN) : b.pieceIndexes[s] \in NIGHT..QUEEN
    BY TypesDiffer DEF PinnedOurs
  <2>5. Unpinned(b, PAWN) \in SUBSET Squares
    BY <2>1 DEF Unpinned
  <2>6. \A s \in PinnedOurs(b, {PAWN}) : {s} \in SUBSET Squares
    BY <2>1, <2>3
  <2>7. b.colorToMove \in Colors
    BY GeneratorSees
  <2> QED BY <2>4, <2>5, <2>6, <2>7
<1>2. /\ \A t \in Enemies(b) : b.pieceIndexes[t] # EMPTY
      /\ \A t \in b.checkingPieces : b.pieceIndexes[t] # EMPTY
  BY GeneratorSees, TypesDiffer DEF Sound, ChecksClear, Enemies
<1>12. \A p, t : \A s \in Unpinned(b, p) : Held(b, s, t)
  BY DEF Unpinned, Held
<1>3. b.checkingPieces = {} => /\ \A s : \A t \in PinLine(b, s) : Held(b, s, t)
                               /\ \A t : only(t)
  BY DEF Held
<1>4. Cardinality(b.checkingPieces) = 1 => \A t \in b.checkingPieces : only(t)
  <2> SUFFICES ASSUME Cardinality(b.checkingPieces) = 1 PROVE \E x : b.checkingPieces = {x}
    OBVIOUS
  <2>1. IsFiniteSet(b.checkingPieces)
    <3>1. IsFiniteSet(Squares)
      <4>1. 0 \in Int /\ 63 \in Int
        OBVIOUS
      <4>2. IsFiniteSet(0..63)
        BY ONLY <4>1, FS_Interval, Zenon
      <4> QED BY <4>2, Zenon DEF Squares
    <3>2. b.checkingPieces \in SUBSET Squares
      BY GeneratorSees DEF Sound, ChecksClear, Enemies
    <3> QED BY <3>1, <3>2, FS_Subset
  <2> QED BY <2>1, FS_Singleton
<1> HIDE DEF only
<1>5. b.checkingPieces = {} /\ m \in generateNotInCheckMoves(b) => byKing \/ byPiece \/ byPawn
  <2> SUFFICES ASSUME b.checkingPieces = {}, m \in generateNotInCheckMoves(b) PROVE byKing \/ byPiece \/ byPawn
    OBVIOUS
  <2>1. \/ m \in addKingMoves(b)
        \/ \E p \in NIGHT..QUEEN : m \in addMoves(b, p, Unpinned(b, p), Empties(b))
        \/ m \in addPawnMoves(b, Unpinned(b, PAWN), Empties(b))
        \/ \E s \in PinnedOurs(b, {PAWN}) : m \in addPawnMoves(b, {s}, Empties(b) \cap PinLine(b, s))
        \/ \E s \in PinnedOurs(b, BISHOP..QUEEN) :
             m \in addMoves(b, b.pieceIndexes[s], {s}, Empties(b) \cap PinLine(b, s))
    BY DEF generateNotInCheckMoves
  <2>2. CASE \/ m \in addKingMoves(b)
             \/ \E p \in NIGHT..QUEEN : m \in addMoves(b, p, Unpinned(b, p), Empties(b))
             \/ m \in addPawnMoves(b, Unpinned(b, PAWN), Empties(b))
    BY <1>1, <1>12, <2>2
  <2>3. CASE \E s \in PinnedOurs(b, {PAWN}) : m \in addPawnMoves(b, {s}, Empties(b) \cap PinLine(b, s))
    <3>1. PICK s \in PinnedOurs(b, {PAWN}) : m \in addPawnMoves(b, {s}, Empties(b) \cap PinLine(b, s))
      BY <2>3
    <3>2. PICK X : X = Empties(b) \cap PinLine(b, s)
      OBVIOUS
    <3>3. \A r \in {s}, t \in X : Held(b, r, t)
      BY <1>3, <3>2
    <3>4. {s} \in SUBSET Squares /\ m \in addPawnMoves(b, {s}, X)
      BY <1>1, <3>1, <3>2
    <3>5. byPawn
      BY <3>3, <3>4
    <3> QED BY <3>5
  <2>4. CASE \E s \in PinnedOurs(b, BISHOP..QUEEN) :
             m \in addMoves(b, b.pieceIndexes[s], {s}, Empties(b) \cap PinLine(b, s))
    <3>1. PICK s \in PinnedOurs(b, BISHOP..QUEEN) : m \in addMoves(b, b.pieceIndexes[s], {s}, Empties(b) \cap PinLine(b, s))
      BY <2>4
    <3>2. b.pieceIndexes[s] \in NIGHT..QUEEN /\ \A r \in {s}, t \in Empties(b) \cap PinLine(b, s) : Held(b, r, t)
      BY <1>1, <1>3
    <3> QED BY <3>1, <3>2
  <2> QED BY <2>1, <2>2, <2>3, <2>4
<1>6. b.checkingPieces = {} /\ m \in generateNotInCheckAttacks(b) => byKing \/ byPiece \/ byPawn
  <2> SUFFICES ASSUME b.checkingPieces = {}, m \in generateNotInCheckAttacks(b) PROVE byKing \/ byPiece \/ byPawn
    OBVIOUS
  <2>1. \/ m \in addEpAttacks(b)
        \/ m \in addKingAttacks(b)
        \/ m \in addPawnAttacksAndPromotions(b, Unpinned(b, PAWN), Enemies(b), Empties(b))
        \/ \E p \in NIGHT..QUEEN : m \in addAttacks(b, p, Unpinned(b, p), Enemies(b))
        \/ \E s \in PinnedOurs(b, {PAWN}) :
             m \in addPawnAttacksAndPromotions(b, {s}, Enemies(b) \cap PinLine(b, s), {})
        \/ \E s \in PinnedOurs(b, BISHOP..QUEEN) :
             m \in addAttacks(b, b.pieceIndexes[s], {s}, Enemies(b) \cap PinLine(b, s))
    BY DEF generateNotInCheckAttacks
  <2>2. CASE \/ m \in addEpAttacks(b) \/ m \in addKingAttacks(b)
             \/ \E p \in NIGHT..QUEEN : m \in addAttacks(b, p, Unpinned(b, p), Enemies(b))
    BY <1>12, <1>3, <2>2
  <2>3. CASE m \in addPawnAttacksAndPromotions(b, Unpinned(b, PAWN), Enemies(b), Empties(b))
    <3>1. byPawn
      BY <1>1, <1>12, <1>2, <1>3, <2>3
    <3> QED BY <3>1
  <2>4. CASE \E s \in PinnedOurs(b, {PAWN}) :
             m \in addPawnAttacksAndPromotions(b, {s}, Enemies(b) \cap PinLine(b, s), {})
    <3>1. PICK s \in PinnedOurs(b, {PAWN}) : m \in addPawnAttacksAndPromotions(b, {s}, Enemies(b) \cap PinLine(b, s), {})
      BY <2>4
    <3>2. PICK X : X = Enemies(b) \cap PinLine(b, s)
      OBVIOUS
    <3>3. \A r \in {s}, t \in X \cup {} : Held(b, r, t)
      BY <1>3, <3>2
    <3>4. \A t \in X : b.pieceIndexes[t] # EMPTY /\ only(t)
      BY <1>2, <1>3, <3>2
    <3>5. {s} \in SUBSET Squares /\ m \in addPawnAttacksAndPromotions(b, {s}, X, {})
      BY <1>1, <3>1, <3>2
    <3>6. byPawn
      BY <3>3, <3>4, <3>5
    <3> QED BY <3>6
  <2>5. CASE \E s \in PinnedOurs(b, BISHOP..QUEEN) :
             m \in addAttacks(b, b.pieceIndexes[s], {s}, Enemies(b) \cap PinLine(b, s))
    <3>1. PICK s \in PinnedOurs(b, BISHOP..QUEEN) : m \in addAttacks(b, b.pieceIndexes[s], {s}, Enemies(b) \cap PinLine(b, s))
      BY <2>5
    <3>2. PICK X : X = Enemies(b) \cap PinLine(b, s)
      OBVIOUS
    <3>3. \A r \in {s}, t \in X : Held(b, r, t)
      BY <1>3, <3>2
    <3>4. b.pieceIndexes[s] \in NIGHT..QUEEN /\ m \in addAttacks(b, b.pieceIndexes[s], {s}, X) /\ \A t \in X : only(t)
      BY <1>1, <1>3, <3>1, <3>2
    <3>5. byPiece
      BY <3>3, <3>4
    <3> QED BY <3>5
  <2> QED BY <2>1, <2>2, <2>3, <2>4, <2>5
<1>7. m \in generateOutOfSlidingCheckMoves(b) => byKing \/ byPiece \/ byPawn
  <2> SUFFICES ASSUME m \in generateOutOfSlidingCheckMoves(b) PROVE byKing \/ byPiece \/ byPawn
    OBVIOUS
  <2> DEFINE between == IN_BETWEEN[OurKing(b)][Checker(b)]
  <2>1. \/ m \in addKingMoves(b)
        \/ \E p \in NIGHT..QUEEN : m \in addMoves(b, p, Unpinned(b, p), between)
        \/ m \in addPawnMoves(b, Unpinned(b, PAWN), between)
    BY DEF generateOutOfSlidingCheckMoves
  <2> HIDE DEF between
  <2> QED BY <1>1, <1>12, <2>1
<1>8. Cardinality(b.checkingPieces) = 1 /\ m \in generateOutOfCheckAttacks(b) => byKing \/ byPiece \/ byPawn
  <2> SUFFICES ASSUME Cardinality(b.checkingPieces) = 1, m \in generateOutOfCheckAttacks(b) PROVE byKing \/ byPiece \/ byPawn
    OBVIOUS
  <2>1. \/ m \in addEpAttacks(b)
        \/ m \in addKingAttacks(b)
        \/ m \in addPawnAttacksAndPromotions(b, Unpinned(b, PAWN), b.checkingPieces, PushTargets(b))
        \/ \E p \in NIGHT..QUEEN : m \in addAttacks(b, p, Unpinned(b, p), b.checkingPieces)
    BY DEF generateOutOfCheckAttacks
  <2>2. CASE m \in addPawnAttacksAndPromotions(b, Unpinned(b, PAWN), b.checkingPieces, PushTargets(b))
    <3>1. byPawn
      BY <1>1, <1>12, <1>2, <1>4, <2>2
    <3> QED BY <3>1
  <2>3. CASE \E p \in NIGHT..QUEEN : m \in addAttacks(b, p, Unpinned(b, p), b.checkingPieces)
    <3>1. byPiece
      BY <1>12, <1>4, <2>3
    <3> QED BY <3>1
  <2> QED BY <2>1, <2>2, <2>3
<1>9. \/ m \in addKingMoves(b) \/ m \in addKingAttacks(b)
      \/ b.checkingPieces = {} /\ m \in generateNotInCheckMoves(b)
      \/ b.checkingPieces = {} /\ m \in generateNotInCheckAttacks(b)
      \/ m \in generateOutOfSlidingCheckMoves(b)
      \/ Cardinality(b.checkingPieces) = 1 /\ m \in generateOutOfCheckAttacks(b)
  BY FS_EmptySet DEF generateMoves, generateAttacks
<1>10. byKing \/ byPiece \/ byPawn
  <2>1. m \in addKingMoves(b) \/ m \in addKingAttacks(b) => byKing
    OBVIOUS
  <2> HIDE DEF byKing, byPiece, byPawn
  <2> QED BY <1>5, <1>6, <1>7, <1>8, <1>9, <2>1
<1>11. byPawn => Makes(b, m)
  <2> SUFFICES ASSUME byPawn PROVE Makes(b, m)
    OBVIOUS
  <2>1. PICK pawns \in SUBSET Squares : \E possible, enemies, empties :
                       \/ m \in addPawnMoves(b, pawns, possible) /\ \A s \in pawns, t \in possible : Held(b, s, t)
                       \/ /\ m \in addPawnAttacksAndPromotions(b, pawns, enemies, empties)
                          /\ \A s \in pawns, t \in enemies \cup empties : Held(b, s, t)
                          /\ \A t \in enemies : b.pieceIndexes[t] # EMPTY /\ (b.checkingPieces # {} => b.checkingPieces = {t})
    BY DEF only
  <2>3. PICK possible, enemies, empties :
                       \/ m \in addPawnMoves(b, pawns, possible) /\ \A s \in pawns, t \in possible : Held(b, s, t)
                       \/ /\ m \in addPawnAttacksAndPromotions(b, pawns, enemies, empties)
                          /\ \A s \in pawns, t \in enemies \cup empties : Held(b, s, t)
                          /\ \A t \in enemies : b.pieceIndexes[t] # EMPTY /\ (b.checkingPieces # {} => b.checkingPieces = {t})
    BY <2>1
  <2>2. pawns \subseteq Squares
    OBVIOUS
  <2> QED BY <1>1, <2>3, <2>2, PawnsMake
<1>13. byKing => Makes(b, m)
  BY KingMakes
<1>14. byPiece => Makes(b, m)
  <2> SUFFICES ASSUME byPiece PROVE Makes(b, m)
    OBVIOUS
  <2>1. PICK p \in NIGHT..QUEEN : \E froms, possible :
                        /\ \A from \in froms, to \in possible : Held(b, from, to)
                        /\ \/ m \in addMoves(b, p, froms, possible)
                           \/ m \in addAttacks(b, p, froms, possible) /\ \A to \in possible : b.checkingPieces # {} => b.checkingPieces = {to}
    BY DEF only
  <2>2. PICK froms, possible :
                        /\ \A from \in froms, to \in possible : Held(b, from, to)
                        /\ \/ m \in addMoves(b, p, froms, possible)
                           \/ m \in addAttacks(b, p, froms, possible) /\ \A to \in possible : b.checkingPieces # {} => b.checkingPieces = {to}
    BY <2>1
  <2>3. CASE m \in addMoves(b, p, froms, possible)
    BY ONLY <2>2, <2>3, PiecesMake
  <2>4. CASE m \in addAttacks(b, p, froms, possible) /\ \A to \in possible : b.checkingPieces # {} => b.checkingPieces = {to}
    BY ONLY <2>2, <2>4, PiecesMake
  <2> QED BY <2>2, <2>3, <2>4
<1> HIDE DEF byKing, byPiece, byPawn
<1> QED BY <1>10, <1>11, <1>13, <1>14

-----------------------------------------------------------------------------
(***************************************************************************)
(* An ordinary move leaves the side that made it out of check.             *)
(***************************************************************************)

\* the king of the side that has just moved is not attacked
KingSafe(b) ==
  \A s : ~Hits(b.pieces, b.colorToMove, PieceTypes, s, b.kingIndex[Opponent(b.colorToMove)], b.allPieces)

\* the pieces that give check are those of a full search
ChecksFit(b) == b.checkingPieces = checkingPiecesFull(b)

PinsOf(b) == UNION {LoneBlockers(b, c) \cap b.friendlyPieces[c] : c \in Colors}

DiscoverersOf(b) == UNION {LoneBlockers(b, c) \cap b.friendlyPieces[Opponent(c)] : c \in Colors}

PinsFit(b) ==
  b.pinnedPiecesDirty = FALSE => b.pinnedPieces = PinsOf(b) /\ b.discoveredPieces = DiscoverersOf(b)

Guarded(b) == KingSafe(b) /\ ChecksFit(b) /\ PinsFit(b)

\* the material key shows the sliders and the pieces that are not pawns
KeyTells(b) ==
  \A c \in Colors :
    /\ (\E p \in BISHOP..QUEEN : b.pieces[c][p] # {}) => has_sliding_pieces(b.materialKey, c)
    /\ (\E p \in NIGHT..QUEEN : b.pieces[c][p] # {}) => has_major_pieces(b.materialKey, c)

\* alone between the king of the side and a slider of the other side
Alone(b, c, s) ==
  \E a \in Squares :
    /\ \E p \in BISHOP..QUEEN : a \in b.pieces[Opponent(c)][p] /\ Aims(p, Opponent(c), a, b.kingIndex[c])
    /\ IN_BETWEEN[a][b.kingIndex[c]] \cap b.allPieces = {s}

\* What the board says about its squares.
LEMMA SoundSays ==
  ASSUME NEW b, Sound(b)
  PROVE  /\ IsBoard(b) /\ PlacesTyped(b) /\ WhoIsWhere(b) /\ KingsAre(b) /\ b.pieces \in Men
         /\ b.colorToMove \in Colors /\ Opponent(b.colorToMove) \in Colors /\ Opponent(Opponent(b.colorToMove)) = b.colorToMove
         /\ Opponent(b.colorToMove) # b.colorToMove
         /\ \A c \in Colors : b.kingIndex[c] \in Squares /\ b.pieces[c][KING] = {b.kingIndex[c]}
         /\ b.allPieces \subseteq Squares
         /\ \A c \in Colors, p \in PieceTypes : \A s \in b.pieces[c][p] : s \in Squares /\ s \in b.allPieces
<1>1. IsBoard(b) /\ PlacesTyped(b) /\ WhoIsWhere(b) /\ KingsAre(b) /\ b.kingIndex \in [Colors -> Squares]
  BY DEF Sound, Kept
<1>2. b.colorToMove \in Colors /\ b.pieces \in Men /\ b.allPieces \subseteq Squares
  BY <1>1 DEF PlacesTyped
<1>3. \A c \in Colors : b.kingIndex[c] \in Squares /\ b.pieces[c][KING] = {b.kingIndex[c]}
  BY <1>1 DEF KingsAre
<1>4. \A c \in Colors, p \in PieceTypes : \A s \in b.pieces[c][p] : s \in Squares /\ s \in b.allPieces
  BY <1>1, FriendIs
<1> QED BY <1>1, <1>2, <1>3, <1>4, ColorsTwo

\* A slider aims along the lines of the square it aims at.
LEMMA SlidersAim ==
  ASSUME NEW c \in Colors, NEW a \in Squares, NEW k \in Squares, NEW p \in BISHOP..QUEEN
  PROVE  /\ Aims(p, c, a, k) <=> IF p = BISHOP THEN a \in bishop_moves_empty[k]
                                 ELSE IF p = ROOK THEN a \in rook_moves_empty[k]
                                 ELSE a \in bishop_moves_empty[k] \/ a \in rook_moves_empty[k]
         /\ Aims(p, c, a, k) => a \in queen_moves_empty[k]
<1>1. p = BISHOP \/ p = ROOK \/ p = QUEEN
  BY PieceCodes
<1>2. BISHOP # ROOK /\ BISHOP # QUEEN /\ ROOK # QUEEN
  BY PieceCodes
<1>3. \A x : x \in queen_moves_empty[k] <=> x \in rook_moves_empty[k] \/ x \in bishop_moves_empty[k]
  BY DEF queen_moves_empty
<1>4. /\ k \in bishop_moves_empty[a] <=> a \in bishop_moves_empty[k]
      /\ k \in rook_moves_empty[a] <=> a \in rook_moves_empty[k]
      /\ k \in queen_moves_empty[a] <=> a \in queen_moves_empty[k]
  BY ReachBothWays
<1>5. /\ Aims(BISHOP, c, a, k) <=> k \in bishop_moves_empty[a]
      /\ Aims(ROOK, c, a, k) <=> k \in rook_moves_empty[a]
      /\ Aims(QUEEN, c, a, k) <=> k \in queen_moves_empty[a]
  BY AimsAre
<1> QED BY <1>1, <1>2, <1>3, <1>4, <1>5

\* The lone blockers are the pieces that stand alone between the king and a
\* slider, the material key showing every slider.
LEMMA LoneAre ==
  ASSUME NEW b, Sound(b), KeyTells(b), NEW c \in Colors, NEW s
  PROVE  s \in LoneBlockers(b, c) <=> Alone(b, c, s)
<1> DEFINE k == b.kingIndex[c]
           e == Opponent(c)
           A == (Sliders(b, e, BISHOP) \cap bishop_moves_empty[k]) \cup (Sliders(b, e, ROOK) \cap rook_moves_empty[k])
           Seen(a) == \E p \in BISHOP..QUEEN : a \in b.pieces[e][p] /\ Aims(p, e, a, k)
<1>1. e \in Colors /\ k \in Squares
  BY ColorsTwo, SoundSays
<1>2. \A a : a \in A <=> a \in Squares /\ Seen(a)
  <2> TAKE a
  <2>1. \A p \in BISHOP..QUEEN : a \in b.pieces[e][p] => a \in Squares
    BY <1>1, SoundSays, TypesDiffer
  <2>2. BISHOP..QUEEN = {BISHOP, ROOK, QUEEN} /\ BISHOP # ROOK /\ BISHOP # QUEEN /\ ROOK # QUEEN
    BY PieceCodes
  <2>3. a \in A <=> \/ (a \in b.pieces[e][BISHOP] \/ a \in b.pieces[e][QUEEN]) /\ a \in bishop_moves_empty[k]
                    \/ (a \in b.pieces[e][ROOK] \/ a \in b.pieces[e][QUEEN]) /\ a \in rook_moves_empty[k]
    BY DEF Sliders
  <2>4. a \in Squares =>
          /\ Aims(BISHOP, e, a, k) <=> a \in bishop_moves_empty[k]
          /\ Aims(ROOK, e, a, k) <=> a \in rook_moves_empty[k]
          /\ Aims(QUEEN, e, a, k) <=> a \in bishop_moves_empty[k] \/ a \in rook_moves_empty[k]
    BY <1>1, <2>2, SlidersAim
  <2> HIDE DEF A
  <2>5. Seen(a) <=> \/ a \in b.pieces[e][BISHOP] /\ Aims(BISHOP, e, a, k)
                    \/ a \in b.pieces[e][ROOK] /\ Aims(ROOK, e, a, k)
                    \/ a \in b.pieces[e][QUEEN] /\ Aims(QUEEN, e, a, k)
    BY <2>2
  <2> HIDE DEF Seen
  <2> QED BY <2>1, <2>2, <2>3, <2>4, <2>5
<1>3. \A a : Seen(a) => has_sliding_pieces(b.materialKey, e)
  BY <1>1 DEF KeyTells
<1> DEFINE aimed == IF ~has_sliding_pieces(b.materialKey, e) THEN {} ELSE A
<1>4. LoneBlockers(b, c) = UNION {bb \in {IN_BETWEEN[k][a] \cap b.allPieces : a \in aimed} : Cardinality(bb) = 1}
  BY DEF LoneBlockers
<1>5. \A a : a \in aimed <=> a \in Squares /\ Seen(a)
  BY <1>2, <1>3
<1> HIDE DEF aimed, Seen
<1>6. \A a \in Squares : IN_BETWEEN[k][a] = IN_BETWEEN[a][k] /\ IN_BETWEEN[k][a] \subseteq Squares
  BY <1>1, LinesBothWays, BetweenOnBoard
<1>7. \A S \in SUBSET Squares : Cardinality(S) = 1 <=> \E x : S = {x}
  <2>1. IsFiniteSet(Squares)
    <3>1. 0 \in Int /\ 63 \in Int
      OBVIOUS
    <3>2. IsFiniteSet(0..63)
      BY ONLY <3>1, FS_Interval, Zenon
    <3> QED BY <3>2, Zenon DEF Squares
  <2> QED BY <2>1, FS_Subset, FS_Singleton
<1>8. s \in LoneBlockers(b, c) <=> \E a \in aimed : IN_BETWEEN[k][a] \cap b.allPieces = {s}
  <2>1. s \in LoneBlockers(b, c) <=> \E a \in aimed : /\ s \in IN_BETWEEN[k][a] \cap b.allPieces
                                                      /\ Cardinality(IN_BETWEEN[k][a] \cap b.allPieces) = 1
    BY <1>4
  <2>2. \A a \in aimed : Cardinality(IN_BETWEEN[k][a] \cap b.allPieces) = 1 <=> \E x : IN_BETWEEN[k][a] \cap b.allPieces = {x}
    BY <1>5, <1>6, <1>7
  <2> QED BY <2>1, <2>2
<1>9. Alone(b, c, s) <=> \E a \in Squares : Seen(a) /\ IN_BETWEEN[a][k] \cap b.allPieces = {s}
  BY DEF Alone, Seen
<1> QED BY <1>5, <1>6, <1>8, <1>9

\* The kings do not stand side by side.
LEMMA KingsApart ==
  ASSUME NEW b, Sound(b), KingSafe(b)
  PROVE  \A c \in Colors : b.kingIndex[c] \notin KING_MOVES[b.kingIndex[Opponent(c)]]
<1> DEFINE us == b.colorToMove
           them == Opponent(us)
           k == b.kingIndex[us]
           t == b.kingIndex[them]
<1>1. us \in Colors /\ them \in Colors /\ Opponent(them) = us /\ k \in Squares /\ t \in Squares /\ k \in b.pieces[us][KING]
  BY SoundSays
<1>2. ~Aims(KING, us, k, t)
  <2>1. SUFFICES ASSUME Aims(KING, us, k, t) PROVE FALSE
    OBVIOUS
  <2>2. IN_BETWEEN[k][t] = {}
    BY <1>1, <2>1, StepsClear
  <2>3. KING \in PieceTypes
    BY TypesDiffer
  <2>4. Hits(b.pieces, us, PieceTypes, k, t, b.allPieces)
    BY <1>1, <2>1, <2>2, <2>3 DEF Hits
  <2> QED BY <2>4 DEF KingSafe
<1>3. t \notin KING_MOVES[k] /\ k \notin KING_MOVES[t]
  BY <1>1, <1>2, AimsAre, ReachBothWays
<1>4. \A c \in Colors : c = us \/ c = them
  BY <1>1, ColorsTwo
<1> QED BY <1>1, <1>3, <1>4

\* With nothing else to hit it, a king is hit by a piece in check.
LEMMA HitterIs ==
  ASSUME NEW b, Sound(b), KingSafe(b), ChecksFit(b), NEW s,
         Hits(b.pieces, Opponent(b.colorToMove), PieceTypes, s, b.kingIndex[b.colorToMove], b.allPieces)
  PROVE  s \in b.checkingPieces
<1> DEFINE us == b.colorToMove
           them == Opponent(us)
           k == b.kingIndex[us]
<1>1. us \in Colors /\ them \in Colors /\ Opponent(them) = us /\ k \in Squares /\ b.pieces \in Men
      /\ b.pieces[them][KING] = {b.kingIndex[them]}
  BY SoundSays
<1>2. s \in b.pieces[them][KING] => ~Aims(KING, them, s, k)
  BY <1>1, KingsApart, AimsAre
<1>3. Hits(b.pieces, them, PAWN..QUEEN, s, k, b.allPieces)
  BY <1>2, PieceCodes DEF Hits
<1>4. s \in Attackers(k, us, b.pieces[them], b.allPieces)
  BY <1>1, <1>3, AttackersAre
<1> QED BY <1>4 DEF ChecksFit, checkingPiecesFull

\* and the other way round
LEMMA CheckerHits ==
  ASSUME NEW b, Sound(b), ChecksFit(b), NEW s
  PROVE  s \in b.checkingPieces <=> Hits(b.pieces, Opponent(b.colorToMove), PAWN..QUEEN, s, b.kingIndex[b.colorToMove], b.allPieces)
<1> DEFINE us == b.colorToMove
           them == Opponent(us)
           k == b.kingIndex[us]
<1>1. us \in Colors /\ them \in Colors /\ Opponent(them) = us /\ k \in Squares /\ b.pieces \in Men
  BY SoundSays
<1>2. s \in Attackers(k, us, b.pieces[them], b.allPieces) <=> Hits(b.pieces, them, PAWN..QUEEN, s, k, b.allPieces)
  BY <1>1, AttackersAre
<1> QED BY <1>2 DEF ChecksFit, checkingPiecesFull

\* A piece reaches what it aims at with nothing between.
LEMMA ReachIs ==
  ASSUME NEW b, NEW p \in NIGHT..QUEEN, NEW s \in Squares, NEW c \in Colors, NEW t \in Reach(b, p, s)
  PROVE  t \in Squares /\ Aims(p, c, s, t) /\ IN_BETWEEN[s][t] \cap b.allPieces = {}
<1>1. p = NIGHT \/ p = BISHOP \/ p = ROOK \/ p = QUEEN
  BY PieceCodes
<1>2. NIGHT = 2 /\ BISHOP = 3 /\ ROOK = 4 /\ QUEEN = 5
  BY PieceCodes
<1>3. CASE p = NIGHT
  <2>1. t \in KNIGHT_MOVES[s]
    BY <1>2, <1>3 DEF Reach
  <2>2. t \in Squares
    BY <2>1 DEF KNIGHT_MOVES
  <2>3. Aims(p, c, s, t)
    BY <1>3, <2>1, AimsAre
  <2> QED BY <1>3, <2>2, <2>3, StepsClear
<1>4. /\ \A x : x \in rook_moves(s, b.allPieces) =>
            x \in Squares /\ x \in rook_moves_empty[s] /\ IN_BETWEEN[s][x] \cap b.allPieces = {}
      /\ \A x : x \in bishop_moves(s, b.allPieces) =>
            x \in Squares /\ x \in bishop_moves_empty[s] /\ IN_BETWEEN[s][x] \cap b.allPieces = {}
  BY DEF rook_moves, bishop_moves, Unblocked, rook_moves_empty, bishop_moves_empty
<1>5. CASE p = BISHOP
  BY <1>2, <1>5, <1>4, AimsAre DEF Reach
<1>6. CASE p = ROOK
  BY <1>2, <1>6, <1>4, AimsAre DEF Reach
<1>7. CASE p = QUEEN
  <2>1. t \in rook_moves(s, b.allPieces) \/ t \in bishop_moves(s, b.allPieces)
    BY <1>2, <1>7 DEF Reach, queen_moves
  <2>2. t \in Squares /\ (t \in rook_moves_empty[s] \/ t \in bishop_moves_empty[s]) /\ IN_BETWEEN[s][t] \cap b.allPieces = {}
    BY <1>4, <2>1
  <2>3. t \in queen_moves_empty[s]
    BY <2>2 DEF queen_moves_empty
  <2> QED BY <1>7, <2>2, <2>3, AimsAre
<1> QED BY <1>1, <1>3, <1>5, <1>6, <1>7

\* No generated move captures a king: it would be attacked by the side to move.
LEMMA NoKingTaken ==
  ASSUME NEW b, Sound(b), KingSafe(b), NEW m \in generateMoves(b) \cup generateAttacks(b)
  PROVE  m.attacked # KING
<1> DEFINE us == b.colorToMove
           them == Opponent(us)
           t == b.kingIndex[them]
<1>1. MoveOK(b, m) /\ Makes(b, m)
  BY GeneratorFits, GeneratorMakes
<1>2. SUFFICES ASSUME m.attacked = KING PROVE FALSE
  OBVIOUS
<1>3. us \in Colors /\ them \in Colors /\ b.pieces[them][KING] = {t} /\ t \in Squares
  BY SoundSays
<1>4. ~is_castling(m) /\ ~is_ep(m) /\ m.attacked # EMPTY /\ OrdinaryFits(b, m)
  BY <1>1, <1>2, TypesDiffer DEF MoveOK, CastlingFits, OrdinaryFits, is_ep, PAWN, KING
<1>5. m.to = t /\ m.from \in Squares /\ m.source \in PieceTypes /\ m.from \in b.pieces[us][m.source]
  BY <1>1, <1>2, <1>3, <1>4 DEF OrdinaryFits, MoveOK, MoveFits, is_ep
<1>6. m.source = PAWN \/ m.source = KING \/ m.source \in NIGHT..QUEEN
  BY <1>5, PieceCodes
<1>7. Aims(m.source, us, m.from, t) /\ IN_BETWEEN[m.from][t] \cap b.allPieces = {}
  <2>1. CASE m.source = PAWN
    BY <1>1, <1>4, <1>5, <2>1, <1>3, AimsAre, StepsClear DEF Makes
  <2>2. CASE m.source = KING
    BY <1>1, <1>4, <1>5, <2>2, <1>3, AimsAre, StepsClear DEF Makes
  <2>3. CASE m.source \in NIGHT..QUEEN
    BY <1>1, <1>4, <1>5, <2>3, <1>3, ReachIs DEF Makes
  <2> QED BY <1>6, <2>1, <2>2, <2>3
<1>8. Hits(b.pieces, us, PieceTypes, m.from, t, b.allPieces)
  BY <1>5, <1>7 DEF Hits
<1> QED BY <1>8 DEF KingSafe

\* What an ordinary move passes over is empty.
LEMMA ClearPath ==
  ASSUME NEW b, Sound(b), NEW m, MoveOK(b, m), Makes(b, m), ~is_castling(m), ~is_ep(m)
  PROVE  IN_BETWEEN[m.from][m.to] \cap b.allPieces = {}
<1> DEFINE us == b.colorToMove
<1>1. us \in Colors /\ m.from \in Squares /\ m.to \in Squares /\ m.source \in PieceTypes /\ OrdinaryFits(b, m)
  BY SoundSays DEF MoveOK, MoveFits
<1>2. m.source = PAWN \/ m.source = KING \/ m.source \in NIGHT..QUEEN
  BY <1>1, PieceCodes
<1>3. CASE m.source = PAWN /\ m.attacked # EMPTY
  BY <1>3, AimsAre, <1>1, StepsClear DEF Makes
<1>4. CASE m.source = PAWN /\ m.attacked = EMPTY
  <2>1. m.to = m.from + Forward(us) \/ (m.to = m.from + 2 * Forward(us) /\ ~is_promotion(m))
    BY <1>4 DEF Makes
  <2>2. CASE m.to = m.from + Forward(us)
    BY <1>1, <2>2, PawnStepClear
  <2>3. CASE m.to = m.from + 2 * Forward(us) /\ ~is_promotion(m)
    BY <1>1, <2>3, PawnDoubleStep, <1>4 DEF OrdinaryFits, EpFits
  <2> QED BY <2>1, <2>2, <2>3
<1>5. CASE m.source = KING
  BY <1>5, AimsAre, <1>1, StepsClear DEF Makes
<1>6. CASE m.source \in NIGHT..QUEEN
  BY <1>6, <1>1, ReachIs DEF Makes
<1> QED BY <1>2, <1>3, <1>4, <1>5, <1>6

\* What stands where after an ordinary move.
LEMMA OrdinaryNow ==
  ASSUME NEW b, Sound(b), NEW m, OrdinaryFacts(b, m), NEW x, x = DoOrdinaryMove(b, m)
  PROVE  /\ x.pieces \in Men /\ x.allPieces \subseteq Squares /\ x.colorToMove = Opponent(b.colorToMove)
         /\ x.kingIndex[Opponent(b.colorToMove)] = b.kingIndex[Opponent(b.colorToMove)]
         /\ x.kingIndex[b.colorToMove] = IF m.source = KING THEN m.to ELSE b.kingIndex[b.colorToMove]
         /\ m.from \in Squares /\ m.to \in Squares /\ m.from # m.to /\ m.from \in b.allPieces
         /\ m.to \in x.allPieces /\ m.from \notin x.allPieces
         /\ \A s \in Squares : s \in x.allPieces <=> s = m.to \/ (s \in b.allPieces /\ s # m.from /\ s \notin Captured(b, m))
         /\ m.attacked = EMPTY => Captured(b, m) = {} /\ m.to \notin b.allPieces
         /\ ~is_ep(m) => Captured(b, m) \subseteq {m.to}
         /\ ~is_ep(m) /\ m.attacked # EMPTY => Captured(b, m) = {m.to}
         /\ \A s \in Captured(b, m) : s # m.from /\ s \in Squares
         /\ Captured(b, m) \subseteq ChangedSquares(b, m)
         /\ m.from \in ChangedSquares(b, m) /\ m.to \in ChangedSquares(b, m)
<1> DEFINE us == b.colorToMove
           them == Opponent(us)
<1>1. us \in Colors /\ them \in Colors /\ them # us /\ \A c \in Colors : c = us \/ c = them
  BY SoundSays, ColorsTwo
<1>2. OrdinaryResult(b, m, x) /\ PlacesTyped(x) /\ WhoIsWhere(x)
  BY OrdinarySays, OrdinaryPlacesSound
<1>3. x.pieces \in Men /\ x.allPieces \subseteq Squares
  BY <1>2 DEF PlacesTyped
<1>4. x.colorToMove = them /\ x.kingIndex = [b.kingIndex EXCEPT ![us] = IF m.source = KING THEN m.to ELSE @]
  BY <1>2 DEF OrdinaryResult
<1>5. b.kingIndex \in [Colors -> Squares]
  BY DEF Sound, Kept
<1>6. /\ x.kingIndex[them] = b.kingIndex[them]
      /\ x.kingIndex[us] = IF m.source = KING THEN m.to ELSE b.kingIndex[us]
  BY <1>1, <1>4, <1>5
<1>7. /\ m.from \in Squares /\ m.to \in Squares /\ m.from # m.to /\ m.source \in PieceTypes
      /\ m.from \in b.pieces[us][m.source]
      /\ m.attacked = EMPTY => m.to \notin b.allPieces
      /\ m.attacked # EMPTY => /\ m.attacked \in PieceTypes /\ CaptureSquare(b, m) \in b.pieces[them][m.attacked]
                               /\ CaptureSquare(b, m) # m.from
      /\ is_ep(m) => m.attacked # EMPTY
  BY DEF OrdinaryFacts
<1>8. m.from \in b.allPieces
  BY <1>1, <1>7, SoundSays
<1>9. /\ m.attacked = EMPTY => Captured(b, m) = {}
      /\ m.attacked # EMPTY => Captured(b, m) = {CaptureSquare(b, m)}
      /\ ~is_ep(m) => CaptureSquare(b, m) = m.to
  BY DEF Captured, CaptureSquare
<1>10. \A s \in Captured(b, m) : s # m.from /\ s \in Squares
  BY <1>1, <1>7, <1>9, SoundSays
<1>11. Captured(b, m) \subseteq ChangedSquares(b, m) /\ m.from \in ChangedSquares(b, m) /\ m.to \in ChangedSquares(b, m)
  BY <1>7, <1>9 DEF ChangedSquares, EpCaptured
<1>12. \A s \in Squares : s \in x.allPieces <=> s = m.to \/ (s \in b.allPieces /\ s # m.from /\ s \notin Captured(b, m))
  <2> TAKE s \in Squares
  <2>1. s \in x.allPieces <=> \E c \in Colors, p \in PieceTypes : s \in x.pieces[c][p]
    BY <1>2, AllIs
  <2>2. s \in b.allPieces <=> \E c \in Colors, p \in PieceTypes : s \in b.pieces[c][p]
    BY SoundSays, AllIs
  <2>3. \A c \in Colors, p \in PieceTypes : s \in x.pieces[c][p] <=>
           \/ c = us /\ s = m.to /\ Placed(m) = p
           \/ s \in b.pieces[c][p] /\ s # m.from /\ s \notin Captured(b, m)
    BY OrdinaryStands
  <2>4. Placed(m) \in PieceTypes
    BY PlacedIs
  <2>5. (\E c \in Colors, p \in PieceTypes : s \in x.pieces[c][p]) <=>
           \/ s = m.to
           \/ (\E c \in Colors, p \in PieceTypes : s \in b.pieces[c][p]) /\ s # m.from /\ s \notin Captured(b, m)
    BY ONLY <1>1, <2>3, <2>4
  <2> QED BY <2>1, <2>2, <2>5
<1>13. m.to \in x.allPieces /\ m.from \notin x.allPieces
  BY <1>7, <1>12
<1> QED BY <1>3, <1>4, <1>6, <1>7, <1>8, <1>9, <1>10, <1>11, <1>12, <1>13

\* The pieces of the other side after an ordinary move.
LEMMA OthersNow ==
  ASSUME NEW b, Sound(b), NEW m, OrdinaryFacts(b, m), NEW x, x = DoOrdinaryMove(b, m),
         NEW p \in PieceTypes, NEW s, s \in x.pieces[Opponent(b.colorToMove)][p]
  PROVE  s \in Squares /\ s \in b.pieces[Opponent(b.colorToMove)][p] /\ s # m.from /\ s \notin Captured(b, m) /\ s \in b.allPieces
<1> DEFINE us == b.colorToMove
           them == Opponent(us)
<1>1. us \in Colors /\ them \in Colors /\ them # us
  BY SoundSays
<1>2. x.pieces \in Men
  BY OrdinaryNow
<1>3. s \in Squares
  BY <1>1, <1>2 DEF Men
<1>4. s \in b.pieces[them][p] /\ s # m.from /\ s \notin Captured(b, m)
  BY <1>1, <1>3, OrdinaryStands
<1> QED BY <1>1, <1>3, <1>4, SoundSays

\* What lies clear after an ordinary move was blocked by the moving piece and
\* the captured one at most.
LEMMA ClearBefore ==
  ASSUME NEW b, Sound(b), NEW m, OrdinaryFacts(b, m), NEW x, x = DoOrdinaryMove(b, m),
         NEW s \in Squares, NEW t \in Squares, IN_BETWEEN[s][t] \cap x.allPieces = {}
  PROVE  /\ IN_BETWEEN[s][t] \cap b.allPieces \subseteq {m.from} \cup Captured(b, m)
         /\ m.to \notin IN_BETWEEN[s][t]
         /\ ~is_ep(m) => \/ IN_BETWEEN[s][t] \cap b.allPieces = {}
                         \/ IN_BETWEEN[s][t] \cap b.allPieces = {m.from}
<1>1. IN_BETWEEN[s][t] \subseteq Squares
  BY BetweenOnBoard
<1>2. /\ m.to \in x.allPieces
      /\ \A u \in Squares : u \in x.allPieces <=> u = m.to \/ (u \in b.allPieces /\ u # m.from /\ u \notin Captured(b, m))
      /\ ~is_ep(m) => Captured(b, m) \subseteq {m.to}
  BY OrdinaryNow
<1> QED BY <1>1, <1>2

\* A piece that aims from afar over one blocker is a slider.
LEMMA AloneSeen ==
  ASSUME NEW b, Sound(b), NEW c \in Colors, NEW p \in PieceTypes, NEW s \in Squares, s \in b.pieces[Opponent(c)][p],
         Aims(p, Opponent(c), s, b.kingIndex[c]), NEW f, IN_BETWEEN[s][b.kingIndex[c]] \cap b.allPieces = {f}
  PROVE  Alone(b, c, f)
<1>1. b.kingIndex[c] \in Squares /\ Opponent(c) \in Colors
  BY SoundSays, ColorsTwo
<1>2. p \in BISHOP..QUEEN
  BY <1>1, AimsFar
<1> QED BY <1>2 DEF Alone

\* A king that moves is not attacked where it arrives.
LEMMA KingMoveSafe ==
  ASSUME NEW b, Sound(b), KeyTells(b), NEW m, OrdinaryFacts(b, m), OrdinaryFits(b, m), isLegal(b, m),
         m.source = KING,
         NEW x, x = DoOrdinaryMove(b, m)
  PROVE  KingSafe(x)
<1> DEFINE us == b.colorToMove
           them == Opponent(us)
<1>1. /\ us \in Colors /\ them \in Colors /\ Opponent(them) = us /\ b.pieces \in Men
      /\ b.allPieces \subseteq Squares
  BY SoundSays
<1>2. /\ x.colorToMove = them /\ x.kingIndex[us] = m.to /\ m.from \in b.allPieces /\ m.from # m.to /\ m.to \in Squares
      /\ m.from \in Squares
  BY OrdinaryNow
<1>3. SUFFICES ASSUME NEW s, Hits(x.pieces, them, PieceTypes, s, m.to, x.allPieces) PROVE FALSE
  BY <1>1, <1>2 DEF KingSafe
<1>4. PICK p \in PieceTypes : s \in x.pieces[them][p] /\ Aims(p, them, s, m.to) /\ IN_BETWEEN[s][m.to] \cap x.allPieces = {}
  BY <1>3 DEF Hits
<1>5. s \in Squares /\ s \in b.pieces[them][p]
  BY <1>4, OthersNow
<1> DEFINE occupied == b.allPieces (+) {m.from}
<1>6. occupied = b.allPieces \ {m.from}
  BY <1>2 DEF (+)
<1>7. IN_BETWEEN[s][m.to] \cap b.allPieces \subseteq {m.from}
  <2>1. IN_BETWEEN[s][m.to] \cap b.allPieces \subseteq {m.from} \cup Captured(b, m)
    BY <1>2, <1>4, <1>5, ClearBefore
  <2>2. m.to \notin IN_BETWEEN[s][m.to]
    BY <1>2, <1>4, <1>5, ClearBefore
  <2>3. Captured(b, m) \subseteq {m.to}
    <3>1. ~is_ep(m)
      BY DEF OrdinaryFits, is_ep, KING, PAWN
    <3> QED BY <3>1, OrdinaryNow
  <2> QED BY <2>1, <2>2, <2>3
<1>8. IN_BETWEEN[s][m.to] \cap occupied = {}
  BY <1>6, <1>7
<1> HIDE DEF occupied
<1>9. IsSafeForKing(b, m.from, m.to, EnemyHasMajor(b))
  BY TypesDiffer DEF isLegal
<1>10. ~is_in_check_including_king(m.to, us, b.pieces[them], occupied, EnemyHasMajor(b))
  BY <1>9 DEF IsSafeForKing, Enemy, occupied
<1>11. EnemyHasMajor(b) \in BOOLEAN
  BY DEF EnemyHasMajor, has_major_pieces
<1>12. CASE EnemyHasMajor(b)
  <2>1. Hits(b.pieces, them, PieceTypes, s, m.to, occupied)
    BY <1>4, <1>5, <1>8 DEF Hits
  <2>2. EnemyHasMajor(b) = TRUE
    BY <1>11, <1>12
  <2>3. is_in_check_including_king(m.to, us, b.pieces[them], occupied, TRUE)
    BY <1>1, <1>2, <2>1, CheckIs
  <2> QED BY <1>10, <2>2, <2>3
<1>13. CASE ~EnemyHasMajor(b)
  <2>1. \A q \in NIGHT..QUEEN : b.pieces[them][q] = {}
    BY <1>1, <1>13 DEF KeyTells, EnemyHasMajor
  <2>2. p \in {PAWN, KING}
    BY <1>5, <2>1, PieceCodes
  <2>3. Hits(b.pieces, them, {PAWN, KING}, s, m.to, occupied)
    BY <1>4, <1>5, <1>8, <2>2 DEF Hits
  <2>4. EnemyHasMajor(b) = FALSE
    BY <1>11, <1>13
  <2>5. is_in_check_including_king(m.to, us, b.pieces[them], occupied, FALSE)
    BY <1>1, <1>2, <2>3, CheckIs
  <2> QED BY <1>10, <2>4, <2>5
<1> QED BY <1>12, <1>13

\* The king is not attacked after a capture en passant.
LEMMA EpMoveSafe ==
  ASSUME NEW b, Sound(b), KingSafe(b), NEW m, MoveOK(b, m), OrdinaryFacts(b, m), isLegal(b, m), is_ep(m),
         NEW x, x = DoOrdinaryMove(b, m)
  PROVE  KingSafe(x)
<1> DEFINE us == b.colorToMove
           them == Opponent(us)
           k == b.kingIndex[us]
<1>1. /\ us \in Colors /\ them \in Colors /\ Opponent(them) = us /\ them # us /\ b.pieces \in Men
      /\ k \in Squares /\ b.pieces[them][KING] = {b.kingIndex[them]}
      /\ \A c \in Colors : c = us \/ c = them
  BY SoundSays, ColorsTwo
<1>2. m.source = PAWN /\ m.attacked = PAWN /\ m.to = b.epIndex /\ ~is_promotion(m) /\ m.type = TYPE_EP
  BY TypesDiffer DEF MoveOK, OrdinaryFits, is_ep, is_castling, is_promotion
<1>3. m.source # KING /\ m.attacked # EMPTY
  BY <1>2 DEF PAWN, KING, EMPTY
<1>4. x.colorToMove = them /\ x.kingIndex[us] = k
  BY <1>3, OrdinaryNow
<1>5. SUFFICES ASSUME NEW s, Hits(x.pieces, them, PieceTypes, s, k, x.allPieces) PROVE FALSE
  BY <1>1, <1>4 DEF KingSafe
<1>6. PICK p \in PieceTypes : s \in x.pieces[them][p] /\ Aims(p, them, s, k) /\ IN_BETWEEN[s][k] \cap x.allPieces = {}
  BY <1>5 DEF Hits
<1>7. s \in Squares /\ s \in b.pieces[them][p]
  BY <1>6, OthersNow
<1>8. p # KING
  <2>1. SUFFICES ASSUME p = KING PROVE FALSE
    OBVIOUS
  <2> QED BY <1>1, <1>6, <1>7, <2>1, KingsApart, AimsAre
<1>9. Hits(x.pieces, them, PAWN..QUEEN, s, k, x.allPieces)
  BY <1>6, <1>8, PieceCodes DEF Hits
<1>10. x.pieces \in Men
  BY OrdinaryNow
<1>11. s \in Attackers(k, us, x.pieces[them], x.allPieces)
  BY <1>1, <1>9, <1>10, AttackersAre
<1>12. isLegalEPMove(b, m.from)
  BY <1>3 DEF isLegal
<1> DEFINE taken == {b.epIndex + Forward(them)}
           occupied == (b.friendlyPieces[us] (+) ({m.from} (+) {b.epIndex})) \cup (b.friendlyPieces[them] (+) taken)
           enemy == [b.pieces[them] EXCEPT ![PAWN] = @ (+) taken]
<1>13. Attackers(k, us, enemy, occupied) = {}
  BY <1>12 DEF isLegalEPMove, Enemy, OurKing
<1>14. Captured(b, m) = taken
  BY <1>2, <1>3 DEF Captured, CaptureSquare
<1>15. OrdinaryResult(b, m, x)
  BY OrdinarySays
<1>16. b.friendlyPieces \in [Colors -> SUBSET Squares] /\ b.friendlyPieces = [c \in Colors |-> b.friendlyPieces[c]]
  BY SoundSays DEF PlacesTyped
<1>17. /\ FriendlyAfter(b, m)[us] = b.friendlyPieces[us] (+) ({m.from} (+) {m.to})
       /\ FriendlyAfter(b, m)[them] = b.friendlyPieces[them] (+) Captured(b, m)
  BY <1>1, <1>16 DEF FriendlyAfter
<1>18. x.allPieces = occupied
  <2>1. x.allPieces = FriendlyAfter(b, m)[us] \cup FriendlyAfter(b, m)[them]
    BY <1>15, <1>1 DEF OrdinaryResult, Colors, WHITE, BLACK
  <2> QED BY <1>2, <1>14, <1>17, <2>1
<1>19. x.pieces[them] = enemy
  <2>1. x.pieces = PiecesAfter(b, m)
    BY <1>15 DEF OrdinaryResult
  <2> DEFINE moved == [b.pieces EXCEPT ![us][m.source] = @ (+) ({m.from} (+) {m.to})]
  <2>2. x.pieces = [moved EXCEPT ![them][PAWN] = @ (+) taken]
    BY <1>2, <1>3, <1>14, <2>1 DEF PiecesAfter, Captured
  <2>3. moved[them] = b.pieces[them] /\ moved = [c \in Colors |-> moved[c]]
    BY <1>1 DEF Men
  <2> HIDE DEF moved, taken
  <2> QED BY <1>1, <2>2, <2>3
<1> QED BY <1>11, <1>13, <1>18, <1>19

\* what the generator and the filter say of a move of another piece than the king
LEMMA OtherMoveSafe ==
  ASSUME NEW b, Sound(b), KeyTells(b), Guarded(b), b.pinnedPiecesDirty = FALSE,
         NEW m, MoveOK(b, m), Makes(b, m), OrdinaryFacts(b, m), isLegal(b, m), ~is_castling(m), ~is_ep(m), m.source # KING,
         NEW x, x = DoOrdinaryMove(b, m)
  PROVE  KingSafe(x)
<1> DEFINE us == b.colorToMove
           them == Opponent(us)
           k == b.kingIndex[us]
<1>0. KingSafe(b) /\ ChecksFit(b) /\ PinsFit(b)
  BY DEF Guarded
<1>1. /\ us \in Colors /\ them \in Colors /\ Opponent(them) = us /\ them # us /\ b.pieces \in Men
      /\ k \in Squares /\ b.pieces[them][KING] = {b.kingIndex[them]} /\ b.allPieces \subseteq Squares
      /\ PlacesTyped(b) /\ WhoIsWhere(b)
  BY SoundSays
<1>2. /\ x.colorToMove = them /\ x.kingIndex[us] = k /\ m.from \in Squares /\ m.to \in Squares /\ m.from # m.to
      /\ m.from \in b.allPieces
      /\ m.attacked = EMPTY => Captured(b, m) = {} /\ m.to \notin b.allPieces
      /\ m.attacked # EMPTY => Captured(b, m) = {m.to}
  BY OrdinaryNow
<1>3. SUFFICES ASSUME NEW s, Hits(x.pieces, them, PieceTypes, s, k, x.allPieces) PROVE FALSE
  BY <1>1, <1>2 DEF KingSafe
<1>4. PICK p \in PieceTypes : s \in x.pieces[them][p] /\ Aims(p, them, s, k) /\ IN_BETWEEN[s][k] \cap x.allPieces = {}
  BY <1>3 DEF Hits
<1>5. s \in Squares /\ s \in b.pieces[them][p] /\ s # m.from /\ s \notin Captured(b, m) /\ s \in b.allPieces
  BY <1>4, OthersNow
<1>6. p # KING
  <2>1. SUFFICES ASSUME p = KING PROVE FALSE
    OBVIOUS
  <2> QED BY <1>0, <1>1, <1>4, <1>5, <2>1, KingsApart, AimsAre
<1>7. m.to \notin IN_BETWEEN[s][k]
  BY <1>1, <1>4, <1>5, ClearBefore
<1>8. IN_BETWEEN[s][k] \cap b.allPieces = {} \/ IN_BETWEEN[s][k] \cap b.allPieces = {m.from}
  BY <1>1, <1>4, <1>5, ClearBefore
<1>9. CASE IN_BETWEEN[s][k] \cap b.allPieces = {}
  <2>1. Hits(b.pieces, them, PieceTypes, s, k, b.allPieces)
    BY <1>4, <1>5, <1>9 DEF Hits
  <2>2. s \in b.checkingPieces
    BY <1>0, <2>1, HitterIs
  <2>3. CASE m.attacked # EMPTY
    BY <2>2, <2>3, <1>2, <1>5 DEF Makes
  <2>4. CASE m.attacked = EMPTY
    <3>1. isLegalNonKingMove(b, m)
      BY <2>2, <2>4 DEF isLegal
    <3> DEFINE occupied == b.allPieces (+) {m.from} (+) {m.to}
    <3>2. ~is_in_check_super(k, us, b.pieces[them], occupied)
      BY <3>1 DEF isLegalNonKingMove, OurKing, Enemy
    <3>3. \A u \in Squares : u \in occupied => u \in x.allPieces
      <4>1. \A u \in Squares : u \in x.allPieces <=> u = m.to \/ (u \in b.allPieces /\ u # m.from /\ u \notin Captured(b, m))
        BY OrdinaryNow
      <4> QED BY <1>2, <2>4, <4>1 DEF (+)
    <3> HIDE DEF occupied
    <3>4. IN_BETWEEN[s][k] \subseteq Squares
      BY <1>1, <1>5, BetweenOnBoard
    <3>5. IN_BETWEEN[s][k] \cap occupied = {}
      BY <1>4, <3>3, <3>4
    <3>6. Hits(b.pieces, them, PAWN..QUEEN, s, k, occupied)
      BY <1>4, <1>5, <1>6, <3>5, PieceCodes DEF Hits
    <3>7. is_in_check_super(k, us, b.pieces[them], occupied)
      <4>1. is_in_check_super(k, Opponent(them), b.pieces[them], occupied)
        BY <1>1, <3>6, CheckIs
      <4> QED BY <1>1, <4>1
    <3> QED BY <3>2, <3>7
  <2> QED BY <2>3, <2>4
<1>10. CASE IN_BETWEEN[s][k] \cap b.allPieces = {m.from}
  <2>1. Alone(b, us, m.from)
    BY <1>1, <1>4, <1>5, <1>10, AloneSeen
  <2>2. m.from \in LoneBlockers(b, us)
    BY <1>1, <2>1, LoneAre
  <2>3. m.from \in b.friendlyPieces[us]
    BY <1>1, FriendIs DEF OrdinaryFacts
  <2>4. m.from \in b.pinnedPieces
    BY <1>0, <1>1, <2>2, <2>3 DEF PinsFit, PinsOf
  <2>5. m.to \in PINNED_MOVEMENT[m.from][k]
    BY <2>4 DEF Makes, Held, PinLine, OurKing
  <2>6. m.to \in IN_BETWEEN[k][m.from] \/ m.to = m.from \/ m.from \in IN_BETWEEN[k][m.to]
    BY <1>1, <1>2, <2>5 DEF PINNED_MOVEMENT
  <2>7. m.from \in IN_BETWEEN[k][s] /\ m.to \notin IN_BETWEEN[k][s]
    BY <1>1, <1>5, <1>7, <1>10, LinesBothWays
  <2>8. CASE m.to \in IN_BETWEEN[k][m.from]
    BY <1>1, <1>5, <2>7, <2>8, BetweenNearer
  <2>9. CASE m.from \in IN_BETWEEN[k][m.to]
    <3>1. m.to = s \/ s \in IN_BETWEEN[m.from][m.to]
      BY <1>1, <1>2, <1>5, <2>7, <2>9, BetweenBehind
    <3>2. CASE m.to = s
      BY <1>2, <1>5, <3>2
    <3>3. CASE s \in IN_BETWEEN[m.from][m.to]
      BY <1>5, <3>3, ClearPath
    <3> QED BY <3>1, <3>2, <3>3
  <2> QED BY <1>2, <2>6, <2>8, <2>9
<1> QED BY <1>8, <1>9, <1>10

\* No ordinary move that passes the filter leaves the king attacked.
LEMMA OrdinarySafe ==
  ASSUME NEW b, Sound(b), KeyTells(b), Guarded(b), b.pinnedPiecesDirty = FALSE,
         NEW m, MoveOK(b, m), Makes(b, m), OrdinaryFacts(b, m), isLegal(b, m), ~is_castling(m),
         NEW x, x = DoOrdinaryMove(b, m)
  PROVE  KingSafe(x)
<1>1. KingSafe(b) /\ OrdinaryFits(b, m)
  BY DEF Guarded, MoveOK
<1>2. CASE m.source = KING
  BY <1>1, <1>2, KingMoveSafe
<1>3. CASE is_ep(m)
  BY <1>1, <1>3, EpMoveSafe
<1>4. CASE m.source # KING /\ ~is_ep(m)
  BY <1>4, OtherMoveSafe
<1> QED BY <1>2, <1>3, <1>4

\* The checks by one type of piece are those of a full search that this type gives.
LEMMA ByPieceIs ==
  ASSUME NEW x, x.pieces \in Men, x.colorToMove \in Colors, x.kingIndex[x.colorToMove] \in Squares,
         NEW p \in PieceTypes, NEW s
  PROVE  s \in checkingPiecesByPiece(x, p) <=>
           p # KING /\ Hits(x.pieces, Opponent(x.colorToMove), {p}, s, x.kingIndex[x.colorToMove], x.allPieces)
<1> DEFINE us == x.colorToMove
           them == Opponent(us)
           k == x.kingIndex[us]
           men == x.pieces[them]
           occupied == x.allPieces
<1>1. us \in Colors /\ them \in Colors /\ k \in Squares /\ Opponent(them) = us
  BY ColorsTwo
<1>2. PAWN = 1 /\ NIGHT = 2 /\ BISHOP = 3 /\ ROOK = 4 /\ QUEEN = 5 /\ KING = 6
  BY PieceCodes
<1>3. p = PAWN \/ p = NIGHT \/ p = BISHOP \/ p = ROOK \/ p = QUEEN \/ p = KING
  BY PieceCodes
<1>4. s \in men[p] => s \in Squares
  BY <1>1 DEF Men
<1>5. Hits(x.pieces, them, {p}, s, k, occupied) <=> s \in men[p] /\ Aims(p, them, s, k) /\ IN_BETWEEN[s][k] \cap occupied = {}
  BY DEF Hits
<1>6. s \in Squares => IN_BETWEEN[s][k] = IN_BETWEEN[k][s]
  BY <1>1, LinesBothWays
<1>7. s \in Squares =>
        /\ s \in rook_moves(k, occupied) <=> Aims(ROOK, them, s, k) /\ IN_BETWEEN[s][k] \cap occupied = {}
        /\ s \in bishop_moves(k, occupied) <=> Aims(BISHOP, them, s, k) /\ IN_BETWEEN[s][k] \cap occupied = {}
        /\ s \in queen_moves(k, occupied) <=> Aims(QUEEN, them, s, k) /\ IN_BETWEEN[s][k] \cap occupied = {}
        /\ s \in KNIGHT_MOVES[k] <=> Aims(NIGHT, them, s, k)
        /\ s \in PAWN_ATTACKS[us][k] <=> Aims(PAWN, them, s, k)
  <2> SUFFICES ASSUME s \in Squares PROVE
        /\ s \in rook_moves(k, occupied) <=> Aims(ROOK, them, s, k) /\ IN_BETWEEN[s][k] \cap occupied = {}
        /\ s \in bishop_moves(k, occupied) <=> Aims(BISHOP, them, s, k) /\ IN_BETWEEN[s][k] \cap occupied = {}
        /\ s \in queen_moves(k, occupied) <=> Aims(QUEEN, them, s, k) /\ IN_BETWEEN[s][k] \cap occupied = {}
        /\ s \in KNIGHT_MOVES[k] <=> Aims(NIGHT, them, s, k)
        /\ s \in PAWN_ATTACKS[us][k] <=> Aims(PAWN, them, s, k)
    OBVIOUS
  <2>1. /\ s \in rook_moves(k, occupied) <=> s \in rook_moves_empty[k] /\ IN_BETWEEN[k][s] \cap occupied = {}
        /\ s \in bishop_moves(k, occupied) <=> s \in bishop_moves_empty[k] /\ IN_BETWEEN[k][s] \cap occupied = {}
        /\ s \in queen_moves(k, occupied) <=> s \in queen_moves_empty[k] /\ IN_BETWEEN[k][s] \cap occupied = {}
    BY <1>1 DEF rook_moves, bishop_moves, queen_moves, Unblocked, queen_moves_empty
  <2>2. /\ Aims(ROOK, them, s, k) <=> k \in rook_moves_empty[s]
        /\ Aims(BISHOP, them, s, k) <=> k \in bishop_moves_empty[s]
        /\ Aims(QUEEN, them, s, k) <=> k \in queen_moves_empty[s]
        /\ Aims(NIGHT, them, s, k) <=> k \in KNIGHT_MOVES[s]
        /\ Aims(PAWN, them, s, k) <=> k \in PAWN_ATTACKS[them][s]
    BY AimsAre
  <2>3. /\ k \in rook_moves_empty[s] <=> s \in rook_moves_empty[k]
        /\ k \in bishop_moves_empty[s] <=> s \in bishop_moves_empty[k]
        /\ k \in queen_moves_empty[s] <=> s \in queen_moves_empty[k]
        /\ k \in KNIGHT_MOVES[s] <=> s \in KNIGHT_MOVES[k]
        /\ k \in PAWN_ATTACKS[them][s] <=> s \in PAWN_ATTACKS[us][k]
    BY <1>1, ReachBothWays
  <2> QED BY <1>6, <2>1, <2>2, <2>3
<1>8. Aims(NIGHT, them, s, k) /\ s \in Squares => IN_BETWEEN[s][k] \cap occupied = {}
  BY <1>1, StepsClear
<1>9. Aims(PAWN, them, s, k) /\ s \in Squares => IN_BETWEEN[s][k] \cap occupied = {}
  BY <1>1, StepsClear
<1> DEFINE reach == CASE p = PAWN   -> PAWN_ATTACKS[us][k]
                      [] p = NIGHT  -> KNIGHT_MOVES[k]
                      [] p = BISHOP -> bishop_moves(k, occupied)
                      [] p = ROOK   -> rook_moves(k, occupied)
                      [] p = QUEEN  -> queen_moves(k, occupied)
                      [] OTHER      -> {}
<1>10. s \in checkingPiecesByPiece(x, p) <=> s \in men[p] /\ s \in reach
  BY DEF checkingPiecesByPiece
<1>11. /\ p = PAWN => reach = PAWN_ATTACKS[us][k]
       /\ p = NIGHT => reach = KNIGHT_MOVES[k]
       /\ p = BISHOP => reach = bishop_moves(k, occupied)
       /\ p = ROOK => reach = rook_moves(k, occupied)
       /\ p = QUEEN => reach = queen_moves(k, occupied)
       /\ p = KING => reach = {}
  BY <1>2
<1> HIDE DEF reach
<1>12. CASE p = KING
  BY <1>10, <1>11, <1>12
<1>13. CASE p = PAWN
  BY <1>2, <1>4, <1>5, <1>7, <1>9, <1>10, <1>11, <1>13
<1>14. CASE p = NIGHT
  BY <1>2, <1>4, <1>5, <1>7, <1>8, <1>10, <1>11, <1>14
<1>15. CASE p = BISHOP
  BY <1>2, <1>4, <1>5, <1>7, <1>10, <1>11, <1>15
<1>16. CASE p = ROOK
  BY <1>2, <1>4, <1>5, <1>7, <1>10, <1>11, <1>16
<1>17. CASE p = QUEEN
  BY <1>2, <1>4, <1>5, <1>7, <1>10, <1>11, <1>17
<1> QED BY <1>3, <1>12, <1>13, <1>14, <1>15, <1>16, <1>17

\* After an ordinary move the search among the pieces of the moved type finds
\* every check, unless the moving piece was a lone blocker.
LEMMA OrdinaryChecksFit ==
  ASSUME NEW b, Sound(b), KeyTells(b), Guarded(b), b.pinnedPiecesDirty = FALSE,
         NEW m, OrdinaryFacts(b, m), NEW x, x = DoOrdinaryMove(b, m)
  PROVE  ChecksFit(x)
<1> DEFINE us == b.colorToMove
           them == Opponent(us)
           t == b.kingIndex[them]
<1>0. KingSafe(b) /\ ChecksFit(b) /\ PinsFit(b)
  BY DEF Guarded
<1>1. /\ us \in Colors /\ them \in Colors /\ Opponent(them) = us /\ them # us /\ b.pieces \in Men
      /\ t \in Squares /\ b.allPieces \subseteq Squares /\ PlacesTyped(b) /\ WhoIsWhere(b) /\ IsBoard(b)
      /\ b.pieces[us][KING] = {b.kingIndex[us]}
  BY SoundSays
<1>2. x.pieces \in Men /\ x.colorToMove = them /\ x.kingIndex[them] = t /\ m.from \in Squares
  BY OrdinaryNow
<1>3. PICK y : /\ x.checkingPieces = ChecksAfter(y, m, m.from \in b.discoveredPieces)
               /\ y.pieces = x.pieces /\ y.allPieces = x.allPieces
               /\ y.kingIndex = x.kingIndex /\ y.colorToMove = x.colorToMove
  <2>1. ChecksSeen(b, m, x)
    BY <1>1, OrdinaryChecks
  <2> QED BY <2>1, Zenon DEF ChecksSeen
<1>4. checkingPiecesFull(y) = checkingPiecesFull(x)
  BY <1>3 DEF checkingPiecesFull
<1>5. CASE m.from \in b.discoveredPieces \/ ~is_normal(m)
  BY <1>3, <1>4, <1>5 DEF ChecksAfter, ChecksFit
<1>6. CASE m.from \notin b.discoveredPieces /\ is_normal(m)
  <2>1. x.checkingPieces = checkingPiecesByPiece(y, m.source)
    BY <1>3, <1>6 DEF ChecksAfter
  <2>2. m.source \in PieceTypes /\ m.from \in b.pieces[us][m.source] /\ ~is_ep(m) /\ ~is_promotion(m)
    BY <1>6, TypesDiffer DEF OrdinaryFacts, is_normal, is_ep, is_promotion
  <2>3. SUFFICES ASSUME NEW s PROVE s \in checkingPiecesByPiece(y, m.source) <=> s \in checkingPiecesFull(x)
    BY <2>1 DEF ChecksFit
  <2>4. s \in checkingPiecesFull(x) <=> Hits(x.pieces, us, PAWN..QUEEN, s, t, x.allPieces)
    BY <1>1, <1>2, AttackersAre DEF checkingPiecesFull
  <2>5. s \in checkingPiecesByPiece(y, m.source) <=> m.source # KING /\ Hits(x.pieces, us, {m.source}, s, t, x.allPieces)
    BY <1>1, <1>2, <1>3, <2>2, ByPieceIs, SMTT(30)
  <2>6. m.source # KING /\ Hits(x.pieces, us, {m.source}, s, t, x.allPieces) => Hits(x.pieces, us, PAWN..QUEEN, s, t, x.allPieces)
    BY <2>2, PieceCodes DEF Hits
  <2>7. ASSUME Hits(x.pieces, us, PAWN..QUEEN, s, t, x.allPieces)
        PROVE  m.source # KING /\ Hits(x.pieces, us, {m.source}, s, t, x.allPieces)
    <3>1. PICK p \in PAWN..QUEEN : s \in x.pieces[us][p] /\ Aims(p, us, s, t) /\ IN_BETWEEN[s][t] \cap x.allPieces = {}
      BY <2>7 DEF Hits
    <3>2. CASE p = m.source
      BY <3>1, <3>2, PieceCodes DEF Hits
    <3>3. CASE p # m.source
      <4>1. p \in PieceTypes
        BY PieceCodes
      <4>2. s \in Squares
        BY <1>1, <1>2, <3>1, <4>1 DEF Men
      <4>3. Placed(m) = m.source
        BY <2>2, PlacedIs
      <4>4. s \in b.pieces[us][p]
        BY <1>1, <3>1, <3>3, <4>1, <4>2, <4>3, OrdinaryStands
      <4>5. IN_BETWEEN[s][t] \cap b.allPieces = {} \/ IN_BETWEEN[s][t] \cap b.allPieces = {m.from}
        BY <1>1, <2>2, <3>1, <4>2, ClearBefore
      <4>6. CASE IN_BETWEEN[s][t] \cap b.allPieces = {}
        BY <3>1, <4>1, <4>4, <4>6, <1>0 DEF Hits, KingSafe
      <4>7. CASE IN_BETWEEN[s][t] \cap b.allPieces = {m.from}
        <5>1. Alone(b, them, m.from)
          BY <1>1, <3>1, <4>1, <4>2, <4>4, <4>7, AloneSeen
        <5>2. m.from \in LoneBlockers(b, them)
          BY <1>1, <5>1, LoneAre
        <5>3. m.from \in b.friendlyPieces[us]
          BY <1>1, <2>2, FriendIs
        <5>4. m.from \in b.discoveredPieces
          BY <1>0, <1>1, <5>2, <5>3 DEF PinsFit, DiscoverersOf
        <5> QED BY <1>6, <5>4
      <4> QED BY <4>5, <4>6, <4>7
    <3> QED BY <3>2, <3>3
  <2> QED BY <2>4, <2>5, <2>6, <2>7
<1> QED BY <1>5, <1>6

\* Pins do not change while the lines of both kings stay as they are.
LEMMA PinsStay ==
  ASSUME NEW b, Sound(b), KeyTells(b), NEW x, Sound(x), KeyTells(x), NEW changed,
         \A c \in Colors : x.kingIndex[c] = b.kingIndex[c] /\ changed \cap queen_moves_empty[b.kingIndex[c]] = {},
         \A c \in Colors, p \in PieceTypes, s \in Squares : s \notin changed => (s \in x.pieces[c][p] <=> s \in b.pieces[c][p])
  PROVE  PinsOf(x) = PinsOf(b) /\ DiscoverersOf(x) = DiscoverersOf(b)
<1>1. /\ WhoIsWhere(b) /\ WhoIsWhere(x) /\ PlacesTyped(b) /\ PlacesTyped(x)
      /\ \A c \in Colors : b.kingIndex[c] \in Squares
      /\ \A c \in Colors, p \in PieceTypes : \A s \in b.pieces[c][p] : s \in Squares
      /\ \A c \in Colors, p \in PieceTypes : \A s \in x.pieces[c][p] : s \in Squares
  BY SoundSays
<1>2. \A s \in Squares : s \notin changed =>
        /\ s \in x.allPieces <=> s \in b.allPieces
        /\ \A c \in Colors : s \in x.friendlyPieces[c] <=> s \in b.friendlyPieces[c]
  <2> TAKE s \in Squares
  <2> HAVE s \notin changed
  <2>1. s \in x.allPieces <=> s \in b.allPieces
    BY <1>1, AllIs
  <2>2. \A c \in Colors : s \in x.friendlyPieces[c] <=> s \in b.friendlyPieces[c]
    BY <1>1 DEF WhoIsWhere
  <2> QED BY <2>1, <2>2
<1>3. ASSUME NEW c \in Colors, NEW u, NEW p \in BISHOP..QUEEN, NEW e \in Colors
      PROVE  u \in x.pieces[e][p] /\ Aims(p, e, u, x.kingIndex[c]) <=> u \in b.pieces[e][p] /\ Aims(p, e, u, b.kingIndex[c])
  <2>1. p \in PieceTypes
    BY TypesDiffer
  <2>2. x.kingIndex[c] = b.kingIndex[c] /\ b.kingIndex[c] \in Squares
    BY <1>1
  <2>3. u \in Squares /\ Aims(p, e, u, b.kingIndex[c]) => u \notin changed
    BY <2>2, SlidersAim
  <2>4. (u \in x.pieces[e][p] => u \in Squares) /\ (u \in b.pieces[e][p] => u \in Squares)
    BY <1>1, <2>1
  <2> QED BY <2>1, <2>2, <2>3, <2>4
<1>4. ASSUME NEW c \in Colors, NEW a \in Squares
      PROVE  IN_BETWEEN[a][x.kingIndex[c]] \cap x.allPieces = IN_BETWEEN[a][b.kingIndex[c]] \cap b.allPieces
  BY <1>1, BetweenLines, <1>2
<1>5. ASSUME NEW c \in Colors, NEW s PROVE Alone(x, c, s) <=> Alone(b, c, s)
  <2>1. Opponent(c) \in Colors
    BY ColorsTwo
  <2> QED BY <1>3, <1>4, <2>1 DEF Alone
<1>6. ASSUME NEW c \in Colors, NEW s, Alone(b, c, s) PROVE s \in Squares /\ s \notin changed
  <2>1. PICK a \in Squares : IN_BETWEEN[a][b.kingIndex[c]] \cap b.allPieces = {s}
    BY <1>6 DEF Alone
  <2> QED BY <1>1, <2>1, BetweenLines
<1>7. ASSUME NEW c \in Colors, NEW s PROVE s \in LoneBlockers(x, c) <=> s \in LoneBlockers(b, c)
  BY <1>5, LoneAre
<1>8. ASSUME NEW c \in Colors, NEW s, s \in LoneBlockers(b, c) PROVE s \in Squares /\ s \notin changed
  BY <1>6, <1>8, LoneAre
<1>9. \A c \in Colors : LoneBlockers(x, c) \cap x.friendlyPieces[c] = LoneBlockers(b, c) \cap b.friendlyPieces[c]
  BY <1>2, <1>7, <1>8
<1>10. \A c \in Colors : LoneBlockers(x, c) \cap x.friendlyPieces[Opponent(c)] = LoneBlockers(b, c) \cap b.friendlyPieces[Opponent(c)]
  BY <1>2, <1>7, <1>8, ColorsTwo
<1>11. PinsOf(x) = PinsOf(b)
  BY <1>9 DEF PinsOf
<1>12. DiscoverersOf(x) = DiscoverersOf(b)
  BY <1>10 DEF DiscoverersOf
<1> QED BY <1>11, <1>12

\* An ordinary move that does not mark the pins dirty has changed none.
LEMMA OrdinaryPinsFit ==
  ASSUME NEW b, Sound(b), KeyTells(b), Guarded(b), b.pinnedPiecesDirty = FALSE,
         NEW m, OrdinaryFacts(b, m), OrdinaryFits(b, m), NEW x, x = DoOrdinaryMove(b, m), KeyTells(x)
  PROVE  PinsFit(x)
<1> DEFINE us == b.colorToMove
           them == Opponent(us)
           changed == ChangedSquares(b, m)
<1>1. us \in Colors /\ them \in Colors /\ them # us /\ IsBoard(b) /\ \A c \in Colors : c = us \/ c = them
  BY SoundSays, ColorsTwo
<1>2. SUFFICES ASSUME x.pinnedPiecesDirty = FALSE
               PROVE  x.pinnedPieces = PinsOf(x) /\ x.discoveredPieces = DiscoverersOf(x)
  BY DEF PinsFit
<1>3. PICK y : /\ x.checkingPieces = ChecksAfter(y, m, m.from \in b.discoveredPieces)
               /\ x.pinnedPiecesDirty = PinsMayChange(y, m.source, changed)
               /\ y.pieces = x.pieces /\ y.allPieces = x.allPieces
               /\ y.kingIndex = x.kingIndex /\ y.colorToMove = x.colorToMove
  <2>1. ChecksSeen(b, m, x)
    BY <1>1, OrdinaryChecks
  <2> QED BY <2>1, Zenon DEF ChecksSeen
<1>4. /\ m.source # KING
      /\ changed \cap queen_moves_empty[x.kingIndex[WHITE]] = {}
      /\ changed \cap queen_moves_empty[x.kingIndex[BLACK]] = {}
  BY <1>2, <1>3 DEF PinsMayChange
<1>5. Sound(x)
  BY OrdinarySound
<1>6. x.kingIndex[us] = b.kingIndex[us] /\ x.kingIndex[them] = b.kingIndex[them]
  BY <1>4, OrdinaryNow
<1>7. \A c \in Colors : x.kingIndex[c] = b.kingIndex[c] /\ changed \cap queen_moves_empty[b.kingIndex[c]] = {}
  <2>1. Colors = {WHITE, BLACK}
    BY <1>1, ColorsTwo
  <2> QED BY <1>1, <1>4, <1>6, <2>1
<1>8. \A c \in Colors, p \in PieceTypes, s \in Squares : s \notin changed => (s \in x.pieces[c][p] <=> s \in b.pieces[c][p])
  BY OrdinaryNow, OrdinaryStands
<1> HIDE DEF changed
<1>9. PinsOf(x) = PinsOf(b) /\ DiscoverersOf(x) = DiscoverersOf(b)
  BY <1>5, <1>7, <1>8, PinsStay
<1>10. x.pinnedPieces = b.pinnedPieces /\ x.discoveredPieces = b.discoveredPieces
  <2>1. OrdinaryResult(b, m, x)
    BY OrdinarySays
  <2> QED BY ONLY <2>1, Zenon DEF OrdinaryResult
<1>11. b.pinnedPieces = PinsOf(b) /\ b.discoveredPieces = DiscoverersOf(b)
  BY DEF Guarded, PinsFit
<1> QED BY <1>9, <1>10, <1>11

\* An ordinary move that passes the filter leaves a guarded board.
LEMMA OrdinaryGuards ==
  ASSUME NEW b, Sound(b), KeyTells(b), Guarded(b), b.pinnedPiecesDirty = FALSE,
         NEW m, MoveOK(b, m), Makes(b, m), OrdinaryFacts(b, m), isLegal(b, m), ~is_castling(m),
         NEW x, x = DoOrdinaryMove(b, m), KeyTells(x)
  PROVE  Guarded(x)
<1>1. OrdinaryFits(b, m)
  BY DEF MoveOK
<1> QED BY <1>1, OrdinarySafe, OrdinaryChecksFit, OrdinaryPinsFit DEF Guarded

=============================================================================
