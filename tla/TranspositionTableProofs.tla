---------------------- MODULE TranspositionTableProofs ----------------------
(***************************************************************************)
(* The types of the table's words and of the registers of any number of    *)
(* threads, and what store() promises by its scan: with a single thread a  *)
(* bucket never holds two entries for one position, and a full bucket      *)
(* gives up its weakest entry.                                             *)
(***************************************************************************)
EXTENDS TranspositionTable, TLAPS

LEMMA ConstantTypes == Slots \in Nat \ {0} /\ Generations \in Nat \ {0}
  BY TranspositionTableAssumption

LEMMA DepthsAreNumbers == StoreDepths \subseteq Int
<1>1. StoreDepths \subseteq 0 .. 998
  BY TranspositionTableAssumption, Zenon
<1>2. 0 .. 998 \subseteq Int
  OBVIOUS
<1> QED
  BY <1>1, <1>2, Zenon

ControlPoints == {"idle", "scan", "same", "refresh", "data", "key",
                  "probe", "read", "reread", "hit"}

Registers == [at : ControlPoints, key : Keys \cup {NoKey}, move : Moves \cup {NoMove},
              depth : StoreDepths \cup {0}, flag : Flags \cup {"NONE"},
              slot : SlotIds, victim : SlotIds, worst : Int, w0 : KeyWords, w1 : DataWords]

TypeInv ==
  /\ w0 \in [SlotIds -> KeyWords]
  /\ w1 \in [SlotIds -> DataWords]
  /\ gen \in 0 .. Generations - 1
  /\ local \in [Threads -> Registers]

LEMMA EmptyWords == EmptyKeyWord \in KeyWords /\ EmptyDataWord \in DataWords
  BY ConstantTypes DEF EmptyKeyWord, EmptyDataWord, KeyWords, DataWords

LEMMA IdleType == Idle \in Registers
<1>1. 1 \in SlotIds
  BY ConstantTypes DEF SlotIds
<1> QED
  BY <1>1, EmptyWords DEF Idle, Registers, ControlPoints

LEMMA InitTypes == Init => TypeInv
<1> SUFFICES ASSUME Init PROVE TypeInv
  OBVIOUS
<1>1. w0 \in [SlotIds -> KeyWords] /\ w1 \in [SlotIds -> DataWords]
  BY EmptyWords DEF Init
<1>2. gen \in 0 .. Generations - 1
  BY ConstantTypes DEF Init
<1>3. local \in [Threads -> Registers]
  BY IdleType DEF Init
<1> QED
  BY <1>1, <1>2, <1>3 DEF TypeInv

(* What a foreign slot makes of the registers.                             *)
LEMMA ForeignSlotType ==
  ASSUME NEW r \in Registers, NEW word \in KeyWords
  PROVE  AfterForeignSlot(r, word) \in Registers
<1>0. word.depth \in Int
  <2>1. word.depth \in StoreDepths \cup {0}
    BY DEF KeyWords
  <2>2. 0 \in Int
    OBVIOUS
  <2> QED
    BY <2>1, <2>2, DepthsAreNumbers, Zenon
<1>1. ReplaceScore(word) \in Int
  BY <1>0 DEF ReplaceScore
<1>2. r.slot < Slots => r.slot + 1 \in SlotIds
  BY ConstantTypes DEF Registers, SlotIds
<1>3. r \in Registers /\ r.slot \in SlotIds /\ r.victim \in SlotIds /\ r.worst \in Int
  BY DEF Registers
<1> DEFINE lower == ReplaceScore(word) < r.worst
           victim == IF lower THEN r.slot ELSE r.victim
           worst == IF lower THEN ReplaceScore(word) ELSE r.worst
           slot == IF r.slot < Slots THEN r.slot + 1 ELSE r.slot
           at == IF r.slot < Slots THEN "scan" ELSE "data"
<1>4. victim \in SlotIds /\ worst \in Int /\ slot \in SlotIds /\ at \in ControlPoints
  BY <1>1, <1>2, <1>3 DEF ControlPoints
<1>5. AfterForeignSlot(r, word) =
        [r EXCEPT !.victim = victim, !.worst = worst, !.slot = slot, !.at = at]
  BY DEF AfterForeignSlot
<1> HIDE DEF victim, worst, slot, at
<1> QED
  BY <1>3, <1>4, <1>5 DEF Registers

LEMMA NextSlotType ==
  ASSUME NEW r \in Registers
  PROVE  NextSlot(r) \in Registers
<1>1. r.slot < Slots => r.slot + 1 \in SlotIds
  BY ConstantTypes DEF Registers, SlotIds
<1>2. ASSUME r.slot < Slots
      PROVE  [r EXCEPT !.slot = r.slot + 1, !.at = "probe"] \in Registers
  BY <1>1, <1>2 DEF Registers, ControlPoints
<1> QED
  BY <1>2, IdleType DEF NextSlot

LEMMA NextTypes == TypeInv /\ [Next]_vars => TypeInv'
<1> SUFFICES ASSUME TypeInv, [Next]_vars PROVE TypeInv'
  OBVIOUS
<1> USE DEF TypeInv
<1>1. CASE UNCHANGED vars
  BY <1>1 DEF vars
<1>2. CASE NewSearch
  <2>1. gen' \in 0 .. Generations - 1
    BY <1>2, ConstantTypes DEF NewSearch, BumpGeneration
  <2> QED
    BY <1>2, <2>1 DEF NewSearch
<1>3. CASE Clear
  BY <1>3, EmptyWords, ConstantTypes DEF Clear
<1>4. ASSUME NEW t \in Threads, BeginStore(t) PROVE TypeInv'
  <2>1. PICK key \in Keys, move \in Moves \cup {NoMove}, depth \in StoreDepths, flag \in Flags :
          local' = [local EXCEPT ![t] = [Idle EXCEPT !.at = "scan", !.key = key, !.move = move,
                                                     !.depth = depth, !.flag = flag]]
    BY <1>4 DEF BeginStore
  <2>2. [Idle EXCEPT !.at = "scan", !.key = key, !.move = move, !.depth = depth, !.flag = flag]
          \in Registers
    BY IdleType DEF Registers, ControlPoints
  <2> QED
    BY <2>1, <2>2, <1>4 DEF BeginStore
<1>5. ASSUME NEW t \in Threads, ScanSlot(t) PROVE TypeInv'
  <2> DEFINE r == local[t]
             word == w0[r.slot]
  <2>1. r \in Registers /\ word \in KeyWords
    BY DEF Registers
  <2>2. [r EXCEPT !.victim = r.slot, !.at = "data"] \in Registers
    BY <2>1 DEF Registers, ControlPoints
  <2>3. [r EXCEPT !.w0 = word, !.at = "same"] \in Registers
    BY <2>1 DEF Registers, ControlPoints
  <2>4. AfterForeignSlot(r, word) \in Registers
    BY <2>1, ForeignSlotType
  <2> QED
    BY <1>5, <2>2, <2>3, <2>4 DEF ScanSlot
<1>6. ASSUME NEW t \in Threads, ReadSameEntry(t) PROVE TypeInv'
  <2> DEFINE r == local[t]
             data == w1[r.slot]
             move == KeptMove(r.move, data.move)
  <2>1. r \in Registers /\ data \in DataWords
    BY DEF Registers
  <2>2. move \in Moves \cup {NoMove}
    BY <2>1 DEF KeptMove, Registers, DataWords
  <2>3. [r EXCEPT !.move = move, !.victim = r.slot, !.at = "data"] \in Registers
    BY <2>1, <2>2 DEF Registers, ControlPoints
  <2>4. [r EXCEPT !.move = move, !.w1 = data, !.at = "refresh"] \in Registers
    BY <2>1, <2>2 DEF Registers, ControlPoints
  <2> QED
    BY <1>6, <2>3, <2>4, IdleType DEF ReadSameEntry
<1>7. ASSUME NEW t \in Threads, RefreshMove(t) PROVE TypeInv'
  <2>1. [local[t].w1 EXCEPT !.move = local[t].move] \in DataWords
    BY DEF Registers, DataWords
  <2> QED
    BY <1>7, <2>1, IdleType DEF RefreshMove
<1>8. ASSUME NEW t \in Threads, WriteData(t) PROVE TypeInv'
  <2>1. [move |-> local[t].move, of |-> local[t].key] \in DataWords
    BY DEF Registers, DataWords
  <2>2. [local[t] EXCEPT !.at = "key"] \in Registers
    BY DEF Registers, ControlPoints
  <2> QED
    BY <1>8, <2>1, <2>2 DEF WriteData
<1>9. ASSUME NEW t \in Threads, WriteKey(t) PROVE TypeInv'
  <2>1. [key |-> local[t].key, depth |-> local[t].depth, flag |-> local[t].flag, gen |-> gen]
          \in KeyWords
    BY DEF Registers, KeyWords
  <2> QED
    BY <1>9, <2>1, IdleType DEF WriteKey
<1>10. ASSUME NEW t \in Threads, BeginProbe(t) PROVE TypeInv'
  <2>1. ASSUME NEW key \in Keys PROVE [Idle EXCEPT !.at = "probe", !.key = key] \in Registers
    BY IdleType DEF Registers, ControlPoints
  <2> QED
    BY <1>10, <2>1 DEF BeginProbe
<1>11. ASSUME NEW t \in Threads, ProbeKey(t) PROVE TypeInv'
  <2> DEFINE r == local[t]
             word == w0[r.slot]
  <2>1. r \in Registers /\ word \in KeyWords
    BY DEF Registers
  <2>2. [r EXCEPT !.w0 = word, !.at = "read"] \in Registers
    BY <2>1 DEF Registers, ControlPoints
  <2> QED
    BY <1>11, <2>1, <2>2, NextSlotType DEF ProbeKey
<1>12. ASSUME NEW t \in Threads, ProbeData(t) PROVE TypeInv'
  <2>1. [local[t] EXCEPT !.w1 = w1[local[t].slot], !.at = "reread"] \in Registers
    BY DEF Registers, ControlPoints
  <2> QED
    BY <1>12, <2>1 DEF ProbeData
<1>13. ASSUME NEW t \in Threads, ProbeAgain(t) PROVE TypeInv'
  <2>1. [local[t] EXCEPT !.at = "hit"] \in Registers
    BY DEF Registers, ControlPoints
  <2> QED
    BY <1>13, <2>1, NextSlotType DEF ProbeAgain
<1>14. ASSUME NEW t \in Threads, UseHit(t) PROVE TypeInv'
  BY <1>14, IdleType DEF UseHit
<1> QED
  BY <1>1, <1>2, <1>3, <1>4, <1>5, <1>6, <1>7, <1>8, <1>9, <1>10, <1>11, <1>12, <1>13, <1>14
  DEF Next

(* The words of the bucket and the control points of store() and probe()   *)
(* keep their types, for any number of threads and slots.                  *)
THEOREM TypeCorrect == Spec => []TypeOK
<1>1. TypeInv => TypeOK
  BY DEF TypeInv, TypeOK, Registers, ControlPoints
<1> QED
  BY <1>1, InitTypes, NextTypes, PTL DEF Spec

-----------------------------------------------------------------------------
(* One thread.  store() is right to stop at the first empty slot because   *)
(* the used slots come first, and to take a victim at the end of its scan  *)
(* because it has then seen every other slot.                              *)

UsedHasKey == \A s \in SlotIds : IF Used(w0[s]) THEN w0[s].key \in Keys ELSE w0[s].key = NoKey

UsedFirst == \A s, o \in SlotIds : o < s /\ Used(w0[s]) => Used(w0[o])

Distinct == \A s, o \in SlotIds : Used(w0[s]) /\ w0[o].key = w0[s].key => s = o

(* What the thread has seen of the bucket.                                 *)
Storing(r) == r.at \in {"scan", "same", "data", "key", "refresh"} => r.key \in Keys /\ r.flag \in Flags

Scanned(r) ==
  r.at = "scan" => \A s \in SlotIds : s < r.slot => Used(w0[s]) /\ w0[s].key # r.key

Found(r) == r.at = "same" => Used(w0[r.slot]) /\ w0[r.slot].key = r.key

Chosen(r) ==
  r.at \in {"data", "key"} =>
    /\ \A s \in SlotIds : s # r.victim => w0[s].key # r.key
    /\ \A s \in SlotIds : s < r.victim => Used(w0[s])

StoreInv == \A t \in Threads : Storing(local[t]) /\ Scanned(local[t]) /\ Found(local[t]) /\ Chosen(local[t])

BucketInv == UsedHasKey /\ UsedFirst /\ Distinct

SingleThread == \A t, u \in Threads : t = u

LEMMA NoKeyIsNoPosition == NoKey \notin Keys
  BY TranspositionTableAssumption, Zenon DEF NoKey

LEMMA InitInv == Init => BucketInv /\ StoreInv
<1> SUFFICES ASSUME Init PROVE BucketInv /\ StoreInv
  OBVIOUS
<1>1. \A s \in SlotIds : ~Used(w0[s]) /\ w0[s].key = NoKey
  BY DEF Init, Used, EmptyKeyWord
<1>2. \A t \in Threads : local[t].at = "idle"
  BY DEF Init, Idle
<1> QED
  BY <1>1, <1>2 DEF BucketInv, UsedHasKey, UsedFirst, Distinct, StoreInv, Storing, Scanned, Found, Chosen

(* A step of the thread that leaves the key words alone leaves the bucket  *)
(* as it is; what remains is what it knows.                                *)
LEMMA KeysUnchanged ==
  ASSUME BucketInv, w0' = w0
  PROVE  BucketInv'
  BY DEF BucketInv, UsedHasKey, UsedFirst, Distinct

LEMMA NextInv ==
  ASSUME SingleThread, TypeInv, BucketInv, StoreInv, [Next]_vars
  PROVE  BucketInv' /\ StoreInv'
<1> DEFINE Knows(r) == Storing(r) /\ Scanned(r) /\ Found(r) /\ Chosen(r)
<1> USE DEF Knows
<1>k. ASSUME NEW t \in Threads, NEW r, Knows(r), w0' = w0, local' = [local EXCEPT ![t] = r]
      PROVE  BucketInv' /\ StoreInv'
  <2>1. BucketInv'
    BY <1>k, KeysUnchanged
  <2>2. \A u \in Threads : local'[u] = r
    BY <1>k DEF SingleThread, TypeInv
  <2> QED
    BY <2>1, <2>2, <1>k DEF StoreInv, Storing, Scanned, Found, Chosen
<1>i. Knows(Idle)
  BY DEF Idle, Storing, Scanned, Found, Chosen
<1>1. CASE UNCHANGED vars
  BY <1>1 DEF vars, BucketInv, UsedHasKey, UsedFirst, Distinct, StoreInv, Storing, Scanned, Found, Chosen
<1>2. CASE NewSearch
  BY <1>2 DEF NewSearch, BucketInv, UsedHasKey, UsedFirst, Distinct, StoreInv, Storing, Scanned, Found, Chosen
<1>3. CASE Clear
  <2>1. \A s \in SlotIds : ~Used(w0'[s]) /\ w0'[s].key = NoKey
    BY <1>3 DEF Clear, Used, EmptyKeyWord
  <2>2. \A t \in Threads : local'[t].at = "idle"
    BY <1>3 DEF Clear, Quiet
  <2> QED
    BY <2>1, <2>2 DEF BucketInv, UsedHasKey, UsedFirst, Distinct, StoreInv, Storing, Scanned, Found, Chosen
<1>4. ASSUME NEW t \in Threads, BeginStore(t) PROVE BucketInv' /\ StoreInv'
  <2>1. PICK key \in Keys, move \in Moves \cup {NoMove}, depth \in StoreDepths, flag \in Flags :
          local' = [local EXCEPT ![t] = [Idle EXCEPT !.at = "scan", !.key = key, !.move = move,
                                                     !.depth = depth, !.flag = flag]]
    BY <1>4 DEF BeginStore
  <2> DEFINE r == [Idle EXCEPT !.at = "scan", !.key = key, !.move = move, !.depth = depth, !.flag = flag]
  <2>2. r.at = "scan" /\ r.key \in Keys /\ r.flag \in Flags /\ r.slot = 1
    BY DEF Idle
  <2>3. \A s \in SlotIds : ~(s < 1)
    BY ConstantTypes DEF SlotIds
  <2>4. Knows(r)
    <3> HIDE DEF r
    <3> QED
      BY <2>2, <2>3 DEF Storing, Scanned, Found, Chosen
  <2> QED
    BY <2>1, <2>4, <1>4, <1>k DEF BeginStore
<1>5. ASSUME NEW t \in Threads, ScanSlot(t) PROVE BucketInv' /\ StoreInv'
  <2> DEFINE r == local[t]
             word == w0[r.slot]
             q == IF word.flag = "NONE" THEN [r EXCEPT !.victim = r.slot, !.at = "data"]
                  ELSE IF word.key = r.key THEN [r EXCEPT !.w0 = word, !.at = "same"]
                  ELSE AfterForeignSlot(r, word)
  <2>1. r \in Registers /\ r.slot \in SlotIds /\ r.at = "scan"
    BY <1>5 DEF TypeInv, ScanSlot, Registers
  <2>2. r.key \in Keys /\ r.flag \in Flags
    BY <2>1 DEF StoreInv, Storing
  <2>3. \A s \in SlotIds : s < r.slot => Used(w0[s]) /\ w0[s].key # r.key
    BY <2>1 DEF StoreInv, Scanned
  <2>4. ASSUME word.flag = "NONE" PROVE Knows(q)
    <3>1. q.at = "data" /\ q.key = r.key /\ q.flag = r.flag /\ q.victim = r.slot
      BY <2>1, <2>4 DEF Registers
    <3>2. \A s \in SlotIds : s > r.slot => ~Used(w0[s])
      BY <2>1, <2>4 DEF BucketInv, UsedFirst, Used, SlotIds
    <3>3. \A s \in SlotIds : s # r.slot => w0[s].key # r.key
      BY <2>1, <2>2, <2>3, <3>2, NoKeyIsNoPosition DEF BucketInv, UsedHasKey, SlotIds
    <3> HIDE DEF q, r, word
    <3> QED
      BY <3>1, <3>3, <2>2, <2>3 DEF Storing, Scanned, Found, Chosen
  <2>5. ASSUME word.flag # "NONE", word.key = r.key PROVE Knows(q)
    <3>1. q.at = "same" /\ q.key = r.key /\ q.flag = r.flag /\ q.slot = r.slot
      BY <2>1, <2>5 DEF Registers
    <3>2. Used(w0[q.slot]) /\ w0[q.slot].key = q.key
      BY <2>5, <3>1 DEF Used
    <3> HIDE DEF q, r, word
    <3> QED
      BY <3>1, <3>2, <2>2 DEF Storing, Scanned, Found, Chosen
  <2>6. ASSUME word.flag # "NONE", word.key # r.key PROVE Knows(q)
    <3>1. /\ q.key = r.key /\ q.flag = r.flag
          /\ q.slot = IF r.slot < Slots THEN r.slot + 1 ELSE r.slot
          /\ q.at = IF r.slot < Slots THEN "scan" ELSE "data"
      BY <2>1, <2>6 DEF Registers, AfterForeignSlot
    <3>2. Used(w0[r.slot]) /\ w0[r.slot].key # r.key
      BY <2>6 DEF Used
    <3>3. \A s \in SlotIds : s < r.slot + 1 => Used(w0[s]) /\ w0[s].key # r.key
      BY <2>1, <2>3, <3>2 DEF SlotIds
    <3>4. r.slot >= Slots => \A s \in SlotIds : Used(w0[s]) /\ w0[s].key # r.key
      BY <2>1, <3>3, ConstantTypes DEF SlotIds
    <3> HIDE DEF q, r, word
    <3> QED
      BY <2>1, <3>1, <3>3, <3>4, <2>2, ConstantTypes DEF Storing, Scanned, Found, Chosen, SlotIds
  <2>7. w0' = w0 /\ local' = [local EXCEPT ![t] = q]
    BY <1>5 DEF ScanSlot
  <2> HIDE DEF q, Knows
  <2>8. Knows(q)
    BY <2>4, <2>5, <2>6
  <2> QED
    BY <2>7, <2>8, <1>k
<1>6. ASSUME NEW t \in Threads, ReadSameEntry(t) PROVE BucketInv' /\ StoreInv'
  <2> DEFINE r == local[t]
             data == w1[r.slot]
             move == KeptMove(r.move, data.move)
             found == [r EXCEPT !.move = move, !.victim = r.slot, !.at = "data"]
             known == [r EXCEPT !.move = move, !.w1 = data, !.at = "refresh"]
  <2>1. r \in Registers /\ r.slot \in SlotIds /\ r.at = "same"
    BY <1>6 DEF TypeInv, ReadSameEntry, Registers
  <2>2. r.key \in Keys /\ r.flag \in Flags /\ Used(w0[r.slot]) /\ w0[r.slot].key = r.key
    BY <2>1 DEF StoreInv, Storing, Found
  <2>3. \A s \in SlotIds : s # r.slot => w0[s].key # r.key
    BY <2>1, <2>2 DEF BucketInv, Distinct
  <2>4. \A s \in SlotIds : s < r.slot => Used(w0[s])
    BY <2>1, <2>2 DEF BucketInv, UsedFirst
  <2>5. Knows(found)
    <3>1. found.at = "data" /\ found.key = r.key /\ found.flag = r.flag /\ found.victim = r.slot
      BY <2>1 DEF Registers
    <3> HIDE DEF found, r
    <3> QED
      BY <3>1, <2>2, <2>3, <2>4 DEF Storing, Scanned, Found, Chosen
  <2>6. Knows(known)
    <3>1. known.at = "refresh" /\ known.key = r.key /\ known.flag = r.flag
      BY <2>1 DEF Registers
    <3> HIDE DEF known, r
    <3> QED
      BY <3>1, <2>2 DEF Storing, Scanned, Found, Chosen
  <2>7. w0' = w0 /\ \/ local' = [local EXCEPT ![t] = found]
                    \/ local' = [local EXCEPT ![t] = known]
                    \/ local' = [local EXCEPT ![t] = Idle]
    BY <1>6 DEF ReadSameEntry
  <2> HIDE DEF found, known, Knows
  <2> QED
    BY <2>5, <2>6, <2>7, <1>i, <1>k
<1>7. ASSUME NEW t \in Threads, RefreshMove(t) PROVE BucketInv' /\ StoreInv'
  BY <1>7, <1>i, <1>k DEF RefreshMove
<1>8. ASSUME NEW t \in Threads, WriteData(t) PROVE BucketInv' /\ StoreInv'
  <2> DEFINE r == local[t]
             q == [r EXCEPT !.at = "key"]
  <2>1. r \in Registers /\ r.at = "data" /\ Knows(r)
    BY <1>8 DEF TypeInv, WriteData, StoreInv
  <2>2. q.at = "key" /\ q.key = r.key /\ q.flag = r.flag /\ q.victim = r.victim
    BY <2>1 DEF Registers
  <2>3. Knows(q)
    <3> HIDE DEF q, r
    <3> QED
      BY <2>1, <2>2 DEF Storing, Scanned, Found, Chosen
  <2>4. local' = [local EXCEPT ![t] = q] /\ w0' = w0
    BY <1>8 DEF WriteData
  <2> HIDE DEF q, Knows
  <2> QED
    BY <2>3, <2>4, <1>k
<1>9. ASSUME NEW t \in Threads, WriteKey(t) PROVE BucketInv' /\ StoreInv'
  <2> DEFINE r == local[t]
             word == [key |-> r.key, depth |-> r.depth, flag |-> r.flag, gen |-> gen]
  <2>1. r.victim \in SlotIds /\ r.at = "key" /\ Knows(r)
    BY <1>9 DEF TypeInv, Registers, WriteKey, StoreInv
  <2>2. /\ w0'[r.victim] = word /\ w0 \in [SlotIds -> KeyWords]
        /\ \A s \in SlotIds : s # r.victim => w0'[s] = w0[s]
    BY <1>9, <2>1 DEF WriteKey, TypeInv
  <2>3. Used(w0'[r.victim]) /\ w0'[r.victim].key = r.key /\ r.key \in Keys
    BY <2>1, <2>2 DEF Used, Storing, Flags
  <2>4. \A s \in SlotIds : s # r.victim => w0'[s].key # r.key
    BY <2>1, <2>2 DEF Chosen
  <2>5. \A s \in SlotIds : s < r.victim => Used(w0'[s])
    BY <2>1, <2>2 DEF Chosen, SlotIds
  <2> HIDE DEF r, word
  <2>6. UsedHasKey'
    BY <2>2, <2>3 DEF BucketInv, UsedHasKey
  <2>7. UsedFirst'
    BY <2>1, <2>2, <2>3, <2>5 DEF BucketInv, UsedFirst
  <2>8. Distinct'
    BY <2>2, <2>3, <2>4 DEF BucketInv, Distinct
  <2>9. \A u \in Threads : local'[u] = Idle
    BY <1>9 DEF WriteKey, SingleThread, TypeInv
  <2>10. StoreInv'
    BY <2>9 DEF StoreInv, Storing, Scanned, Found, Chosen, Idle
  <2> QED
    BY <2>6, <2>7, <2>8, <2>10 DEF BucketInv
<1>p. ASSUME NEW t \in Threads, NEW r, w0' = w0, local' = [local EXCEPT ![t] = r],
             r.at \in {"idle", "probe", "read", "reread", "hit"}
      PROVE  BucketInv' /\ StoreInv'
  <2>1. Knows(r)
    BY <1>p DEF Storing, Scanned, Found, Chosen
  <2> QED
    BY <2>1, <1>p, <1>k
<1>10. ASSUME NEW t \in Threads, BeginProbe(t) PROVE BucketInv' /\ StoreInv'
  <2>1. PICK key \in Keys : local' = [local EXCEPT ![t] = [Idle EXCEPT !.at = "probe", !.key = key]]
    BY <1>10 DEF BeginProbe
  <2>2. [Idle EXCEPT !.at = "probe", !.key = key].at = "probe"
    BY DEF Idle
  <2> QED
    BY <1>10, <2>1, <2>2, <1>p DEF BeginProbe
<1>n. ASSUME NEW r \in Registers PROVE NextSlot(r).at \in {"idle", "probe"}
  BY DEF NextSlot, Idle, Registers
<1>11. ASSUME NEW t \in Threads, ProbeKey(t) PROVE BucketInv' /\ StoreInv'
  <2> DEFINE r == local[t]
             q == [r EXCEPT !.w0 = w0[r.slot], !.at = "read"]
  <2>1. r \in Registers
    BY DEF TypeInv
  <2>2. q.at = "read" /\ NextSlot(r).at \in {"idle", "probe"}
    BY <2>1, <1>n DEF Registers
  <2>3. w0' = w0 /\ \/ local' = [local EXCEPT ![t] = q]
                    \/ local' = [local EXCEPT ![t] = NextSlot(r)]
    BY <1>11 DEF ProbeKey
  <2> HIDE DEF q, r
  <2> QED
    BY <2>2, <2>3, <1>p
<1>12. ASSUME NEW t \in Threads, ProbeData(t) PROVE BucketInv' /\ StoreInv'
  <2> DEFINE q == [local[t] EXCEPT !.w1 = w1[local[t].slot], !.at = "reread"]
  <2>1. q.at = "reread"
    BY DEF TypeInv, Registers
  <2>2. w0' = w0 /\ local' = [local EXCEPT ![t] = q]
    BY <1>12 DEF ProbeData, TypeInv
  <2> HIDE DEF q
  <2> QED
    BY <2>1, <2>2, <1>p
<1>13. ASSUME NEW t \in Threads, ProbeAgain(t) PROVE BucketInv' /\ StoreInv'
  <2> DEFINE r == local[t]
             q == [r EXCEPT !.at = "hit"]
  <2>1. r \in Registers
    BY DEF TypeInv
  <2>2. q.at = "hit" /\ NextSlot(r).at \in {"idle", "probe"}
    BY <2>1, <1>n DEF Registers
  <2>3. w0' = w0 /\ \/ local' = [local EXCEPT ![t] = q]
                    \/ local' = [local EXCEPT ![t] = NextSlot(r)]
    BY <1>13 DEF ProbeAgain
  <2> HIDE DEF q, r
  <2> QED
    BY <2>2, <2>3, <1>p
<1>14. ASSUME NEW t \in Threads, UseHit(t) PROVE BucketInv' /\ StoreInv'
  BY <1>14, <1>i, <1>k DEF UseHit
<1> QED
  BY <1>1, <1>2, <1>3, <1>4, <1>5, <1>6, <1>7, <1>8, <1>9, <1>10, <1>11, <1>12, <1>13, <1>14
  DEF Next

(* A single thread never gives a position two entries in its bucket.  Two  *)
(* threads can: both scan before either stores.                            *)
THEOREM OneEntryOfAThread ==
  ASSUME SingleThread
  PROVE  Spec => []OneEntryPerKey
<1> DEFINE Inv == TypeInv /\ BucketInv /\ StoreInv
<1>1. Init => Inv
  BY InitTypes, InitInv
<1>2. Inv /\ [Next]_vars => Inv'
  BY NextTypes, NextInv
<1>3. Inv => OneEntryPerKey
  BY DEF OneEntryPerKey, BucketInv, Distinct
<1> QED
  BY <1>1, <1>2, <1>3, PTL DEF Spec
-----------------------------------------------------------------------------
(* The victim.  The scan keeps the slot of the lowest score it has seen;   *)
(* with one thread the words and the generation are still the same when    *)
(* the key word is written.                                                *)

Lowest(r) ==
  r.at = "scan" =>
    /\ \A s \in SlotIds : s < r.slot => ReplaceScore(w0[s]) >= r.worst
    /\ IF r.slot = 1 THEN r.worst = 999
       ELSE r.victim < r.slot /\ ReplaceScore(w0[r.victim]) = r.worst

Settled(r) ==
  r.at \in {"data", "key"} =>
    \/ w0[r.victim].key = r.key
    \/ ~Used(w0[r.victim])
    \/ \A o \in SlotIds : Used(w0[o]) /\ ReplaceScore(w0[o]) >= ReplaceScore(w0[r.victim])

VictimInv == \A t \in Threads : Lowest(local[t]) /\ Settled(local[t])

LEMMA ScoreType ==
  ASSUME NEW word \in KeyWords
  PROVE  ReplaceScore(word) \in Int /\ ReplaceScore(word) < 999 /\ word.depth \in Int
<1>1. StoreDepths \subseteq 0 .. 998
  BY TranspositionTableAssumption, Zenon
<1>2. word.depth \in StoreDepths \cup {0}
  BY DEF KeyWords
<1>3. word.depth \in Int /\ word.depth < 999
  <2>1. 0 \in 0 .. 998
    OBVIOUS
  <2>2. word.depth \in 0 .. 998
    BY <1>1, <1>2, <2>1, Zenon
  <2> QED
    BY <2>2
<1> QED
  BY <1>3 DEF ReplaceScore

LEMMA InitVictim == Init => VictimInv
  BY DEF Init, Idle, VictimInv, Lowest, Settled

LEMMA NextVictim ==
  ASSUME SingleThread, TypeInv, StoreInv, VictimInv, [Next]_vars
  PROVE  VictimInv'
<1> DEFINE Chooses(r) == Lowest(r) /\ Settled(r)
<1> USE DEF Chooses
<1>k. ASSUME NEW t \in Threads, NEW r, Chooses(r), w0' = w0, gen' = gen, local' = [local EXCEPT ![t] = r]
      PROVE  VictimInv'
  <2>1. \A u \in Threads : local'[u] = r
    BY <1>k DEF SingleThread, TypeInv
  <2> QED
    BY <2>1, <1>k DEF VictimInv, Lowest, Settled, ReplaceScore
<1>i. ASSUME \A t \in Threads : local'[t].at \notin {"scan", "data", "key"} PROVE VictimInv'
  BY <1>i DEF VictimInv, Lowest, Settled
<1>1. CASE UNCHANGED vars
  BY <1>1 DEF vars, VictimInv, Lowest, Settled, ReplaceScore
<1>2. CASE NewSearch \/ Clear
  BY <1>2, <1>i DEF NewSearch, Clear, Quiet
<1>3. ASSUME NEW t \in Threads, BeginStore(t) PROVE VictimInv'
  <2>1. PICK key \in Keys, move \in Moves \cup {NoMove}, depth \in StoreDepths, flag \in Flags :
          local' = [local EXCEPT ![t] = [Idle EXCEPT !.at = "scan", !.key = key, !.move = move,
                                                     !.depth = depth, !.flag = flag]]
    BY <1>3 DEF BeginStore
  <2> DEFINE r == [Idle EXCEPT !.at = "scan", !.key = key, !.move = move, !.depth = depth, !.flag = flag]
  <2>2. r.at = "scan" /\ r.slot = 1 /\ r.worst = 999
    BY DEF Idle
  <2>3. \A s \in SlotIds : ~(s < 1)
    BY ConstantTypes DEF SlotIds
  <2>4. Chooses(r)
    <3> HIDE DEF r
    <3> QED
      BY <2>2, <2>3 DEF Lowest, Settled
  <2> QED
    BY <2>1, <2>4, <1>3, <1>k DEF BeginStore
<1>4. ASSUME NEW t \in Threads, ScanSlot(t) PROVE VictimInv'
  <2> DEFINE r == local[t]
             word == w0[r.slot]
             q == IF word.flag = "NONE" THEN [r EXCEPT !.victim = r.slot, !.at = "data"]
                  ELSE IF word.key = r.key THEN [r EXCEPT !.w0 = word, !.at = "same"]
                  ELSE AfterForeignSlot(r, word)
  <2>1. r \in Registers /\ r.slot \in SlotIds /\ r.victim \in SlotIds /\ r.worst \in Int /\ r.at = "scan"
    BY <1>4 DEF TypeInv, ScanSlot, Registers
  <2>2. /\ \A s \in SlotIds : ReplaceScore(w0[s]) \in Int /\ ReplaceScore(w0[s]) < 999
        /\ \A s \in SlotIds : s < r.slot => Used(w0[s])
    BY <2>1, ScoreType DEF TypeInv, StoreInv, Scanned
  <2>3. /\ \A s \in SlotIds : s < r.slot => ReplaceScore(w0[s]) >= r.worst
        /\ IF r.slot = 1 THEN r.worst = 999
           ELSE r.victim < r.slot /\ ReplaceScore(w0[r.victim]) = r.worst
    BY <2>1 DEF VictimInv, Lowest
  <2>4. ASSUME word.flag = "NONE" PROVE Chooses(q)
    <3>1. q.at = "data" /\ q.victim = r.slot
      BY <2>1, <2>4 DEF Registers
    <3>2. ~Used(w0[r.slot])
      BY <2>4 DEF Used
    <3> HIDE DEF q, r, word
    <3> QED
      BY <3>1, <3>2 DEF Lowest, Settled
  <2>5. ASSUME word.flag # "NONE", word.key = r.key PROVE Chooses(q)
    <3>1. q.at = "same"
      BY <2>1, <2>5 DEF Registers
    <3> HIDE DEF q
    <3> QED
      BY <3>1 DEF Lowest, Settled
  <2>6. ASSUME word.flag # "NONE", word.key # r.key PROVE Chooses(q)
    <3> DEFINE lower == ReplaceScore(word) < r.worst
    <3>1. /\ q.victim = IF lower THEN r.slot ELSE r.victim
          /\ q.worst = IF lower THEN ReplaceScore(word) ELSE r.worst
          /\ q.slot = IF r.slot < Slots THEN r.slot + 1 ELSE r.slot
          /\ q.at = IF r.slot < Slots THEN "scan" ELSE "data"
      BY <2>1, <2>6 DEF Registers, AfterForeignSlot
    <3>2. Used(w0[r.slot])
      BY <2>6 DEF Used
    <3>3. ReplaceScore(w0[q.victim]) = q.worst /\ q.worst <= r.worst /\ q.worst <= ReplaceScore(w0[r.slot])
          /\ q.worst \in Int /\ q.victim \in SlotIds /\ q.victim <= r.slot
      <4>1. CASE lower
        <5>1. q.victim = r.slot /\ q.worst = ReplaceScore(w0[r.slot])
          BY <3>1, <4>1
        <5> HIDE DEF q, r
        <5> QED
          BY <2>1, <2>2, <4>1, <5>1 DEF SlotIds
      <4>2. CASE ~lower
        <5>1. q.victim = r.victim /\ q.worst = r.worst
          BY <3>1, <4>2
        <5>2. r.slot # 1
          BY <2>1, <2>2, <2>3, <4>2
        <5> HIDE DEF q, r
        <5> QED
          BY <2>1, <2>2, <2>3, <4>2, <5>1, <5>2 DEF SlotIds
      <4> QED
        BY <4>1, <4>2
    <3> HIDE DEF q, r, word, lower
    <3>4. \A s \in SlotIds : s < r.slot + 1 => Used(w0[s]) /\ ReplaceScore(w0[s]) >= q.worst
      BY <2>1, <2>2, <2>3, <3>2, <3>3 DEF SlotIds
    <3>5. CASE r.slot < Slots
      BY <2>1, <3>1, <3>3, <3>4, <3>5 DEF Lowest, Settled, SlotIds
    <3>6. CASE ~(r.slot < Slots)
      <4>1. \A s \in SlotIds : s < r.slot + 1
        BY <2>1, <3>6, ConstantTypes DEF SlotIds
      <4> QED
        BY <3>1, <3>3, <3>4, <3>6, <4>1 DEF Lowest, Settled
    <3> QED
      BY <3>5, <3>6
  <2>7. w0' = w0 /\ gen' = gen /\ local' = [local EXCEPT ![t] = q]
    BY <1>4 DEF ScanSlot
  <2> HIDE DEF q, Chooses
  <2>8. Chooses(q)
    BY <2>4, <2>5, <2>6
  <2> QED
    BY <2>7, <2>8, <1>k
<1>5. ASSUME NEW t \in Threads, ReadSameEntry(t) PROVE VictimInv'
  <2> DEFINE r == local[t]
             data == w1[r.slot]
             move == KeptMove(r.move, data.move)
             found == [r EXCEPT !.move = move, !.victim = r.slot, !.at = "data"]
             known == [r EXCEPT !.move = move, !.w1 = data, !.at = "refresh"]
  <2>1. r \in Registers /\ w0[r.slot].key = r.key
    BY <1>5 DEF TypeInv, ReadSameEntry, StoreInv, Found
  <2>2. found.at = "data" /\ found.key = r.key /\ found.victim = r.slot /\ known.at = "refresh" /\ Idle.at = "idle"
    BY <2>1 DEF Registers, Idle
  <2>3. w0' = w0 /\ gen' = gen /\ \/ local' = [local EXCEPT ![t] = found]
                                  \/ local' = [local EXCEPT ![t] = known]
                                  \/ local' = [local EXCEPT ![t] = Idle]
    BY <1>5 DEF ReadSameEntry
  <2> HIDE DEF found, known, r
  <2>4. Chooses(found) /\ Chooses(known) /\ Chooses(Idle)
    BY <2>1, <2>2 DEF Lowest, Settled
  <2> HIDE DEF Chooses
  <2> QED
    BY <2>3, <2>4, <1>k
<1>6. ASSUME NEW t \in Threads, WriteData(t) PROVE VictimInv'
  <2> DEFINE r == local[t]
             q == [r EXCEPT !.at = "key"]
  <2>1. r \in Registers /\ r.at = "data" /\ Settled(r)
    BY <1>6 DEF TypeInv, WriteData, VictimInv
  <2>2. q.at = "key" /\ q.key = r.key /\ q.victim = r.victim
    BY <2>1 DEF Registers
  <2>3. Chooses(q)
    <3> HIDE DEF q, r
    <3> QED
      BY <2>1, <2>2 DEF Lowest, Settled
  <2>4. local' = [local EXCEPT ![t] = q] /\ w0' = w0 /\ gen' = gen
    BY <1>6 DEF WriteData
  <2> HIDE DEF q, Chooses
  <2> QED
    BY <2>3, <2>4, <1>k
<1>7. ASSUME NEW t \in Threads, NEW at \in ControlPoints \ {"scan", "data", "key"}, local'[t].at = at
      PROVE  VictimInv'
  BY <1>7, <1>i DEF SingleThread
<1>8. ASSUME NEW t \in Threads,
             RefreshMove(t) \/ WriteKey(t) \/ BeginProbe(t) \/ ProbeKey(t) \/ ProbeData(t) \/ ProbeAgain(t) \/ UseHit(t)
      PROVE  VictimInv'
  <2>1. local[t] \in Registers /\ local \in [Threads -> Registers]
    BY DEF TypeInv
  <2>2. NextSlot(local[t]).at \in {"idle", "probe"}
    BY <2>1 DEF NextSlot, Idle, Registers
  <2>3. CASE ProbeKey(t)
    BY <2>1, <2>2, <2>3, <1>7 DEF ProbeKey, Registers, ControlPoints
  <2>4. CASE ProbeAgain(t)
    BY <2>1, <2>2, <2>4, <1>7 DEF ProbeAgain, Registers, ControlPoints
  <2>5. CASE BeginProbe(t)
    BY <2>1, <2>5, <1>7 DEF BeginProbe, Idle, ControlPoints
  <2>6. CASE ProbeData(t)
    BY <2>1, <2>6, <1>7 DEF ProbeData, Registers, ControlPoints
  <2>7. CASE RefreshMove(t) \/ WriteKey(t) \/ UseHit(t)
    BY <2>1, <2>7, <1>7 DEF RefreshMove, WriteKey, UseHit, Idle, ControlPoints
  <2> QED
    BY <1>8, <2>3, <2>4, <2>5, <2>6, <2>7
<1> QED
  BY <1>1, <1>2, <1>3, <1>4, <1>5, <1>6, <1>8 DEF Next

(* The age-weighted depth, slot by slot: what the key word written to s    *)
(* evicts is no better than any other entry of the bucket.                 *)
LEMMA LowestIsWeakest ==
  ASSUME NEW a \in KeyWords, NEW b \in KeyWords, ReplaceScore(b) >= ReplaceScore(a)
  PROVE  /\ b.depth < a.depth => Young(b) /\ ~Young(a)
         /\ ~Young(b) /\ Young(a) => b.depth > a.depth
<1>1. a.depth \in Int /\ b.depth \in Int
  BY ScoreType
<1>2. /\ ReplaceScore(a) = IF Young(a) THEN a.depth ELSE a.depth - 4
      /\ ReplaceScore(b) = IF Young(b) THEN b.depth ELSE b.depth - 4
  BY <1>1 DEF ReplaceScore, Young
<1> QED
  BY <1>1, <1>2

(* With one thread an entry of another position is evicted only from a     *)
(* full bucket, and never while the bucket has a shallower one that is no  *)
(* younger or an older one that is no deeper.                              *)
THEOREM WeakestOfAThread ==
  ASSUME SingleThread
  PROVE  Spec => WeakestIsEvicted
<1> DEFINE Inv == TypeInv /\ BucketInv /\ StoreInv /\ VictimInv
           Evicts(s, o) ==
             Used(w0[s]) /\ Used(w0'[s]) /\ w0[s].key # w0'[s].key =>
               /\ Used(w0[o])
               /\ w0[o].depth < w0[s].depth => Young(w0[o]) /\ ~Young(w0[s])
               /\ ~Young(w0[o]) /\ Young(w0[s]) => w0[o].depth > w0[s].depth
<1>1. Init => Inv
  BY InitTypes, InitInv, InitVictim
<1>2. Inv /\ [Next]_vars => Inv'
  BY NextTypes, NextInv, NextVictim
<1>3. ASSUME Inv, Next, NEW s \in SlotIds, NEW o \in SlotIds PROVE Evicts(s, o)
  <2>1. CASE w0' = w0
    BY <2>1
  <2>2. CASE Clear
    BY <2>2 DEF Clear, Used, EmptyKeyWord
  <2>3. ASSUME NEW t \in Threads, WriteKey(t) PROVE Evicts(s, o)
    <3> DEFINE r == local[t]
               word == [key |-> r.key, depth |-> r.depth, flag |-> r.flag, gen |-> gen]
    <3>1. r.victim \in SlotIds /\ r.at = "key" /\ Settled(r) /\ w0[s] \in KeyWords /\ w0[o] \in KeyWords
      BY <1>3, <2>3 DEF TypeInv, Registers, WriteKey, VictimInv
    <3>2. w0' = [w0 EXCEPT ![r.victim] = word] /\ w0 \in [SlotIds -> KeyWords]
      BY <1>3, <2>3 DEF WriteKey, TypeInv
    <3>3. CASE s # r.victim
      <4>1. w0'[s] = w0[s]
        BY <3>2, <3>3
      <4> QED
        BY <4>1
    <3>4. CASE s = r.victim
      <4>1. w0'[s].key = r.key
        BY <3>1, <3>2, <3>4
      <4>2. ASSUME Used(w0[s]), w0[s].key # r.key
            PROVE  Used(w0[o]) /\ ReplaceScore(w0[o]) >= ReplaceScore(w0[s])
        BY <3>1, <3>4, <4>2 DEF Settled
      <4> QED
        BY <3>1, <4>1, <4>2, LowestIsWeakest
    <3> QED
      BY <3>3, <3>4
  <2> QED
    BY <1>3, <2>1, <2>2, <2>3 DEF Next, NewSearch, BeginStore, ScanSlot, ReadSameEntry, RefreshMove, WriteData,
       BeginProbe, ProbeKey, ProbeData, ProbeAgain, UseHit
<1>4. Inv /\ [Next]_vars => [\A s, o \in SlotIds : Evicts(s, o)]_vars
  <2> HIDE DEF Inv, Evicts
  <2> QED
    BY <1>3
<1> QED
  BY <1>1, <1>2, <1>4, PTL DEF Spec, WeakestIsEvicted
=============================================================================
