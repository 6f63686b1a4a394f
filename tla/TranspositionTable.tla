------------------------- MODULE TranspositionTable -------------------------
(***************************************************************************)
(* search::TranspositionTable (src/src/search/tt.cpp): one bucket of the   *)
(* table every searching thread shares without a lock.                     *)
(*                                                                         *)
(* A slot is two words, each loaded and stored atomically: the key word    *)
(* w0 = [key, depth, flag, gen] and the data word w1 = [move, of], where   *)
(* `of` is the position whose score and evaluation the word holds.  Every  *)
(* load and store of a word is a step, so that threads interleave between  *)
(* them; what a thread keeps in its registers is the record local[t].      *)
(* The positions of Keys share the bucket and differ in their high bits.   *)
(***************************************************************************)
EXTENDS Integers, FiniteSets

CONSTANTS
  Threads,       \* the searching threads
  Slots,         \* slots of a bucket, 4
  Keys,          \* positions that share the bucket
  Moves,         \* their moves, without the move 0
  NoMove,        \* the move 0
  StoreDepths,   \* depths of the entries stored
  Generations    \* values of the generation counter, 256 (a uint8)

ASSUME TranspositionTableAssumption ==
  /\ Slots \in Nat \ {0}
  /\ NoMove \notin Moves
  /\ "no key" \notin Keys
  /\ StoreDepths \subseteq 0 .. 998
  /\ Generations \in Nat \ {0}

VARIABLES
  w0,      \* the key words
  w1,      \* the data words
  gen,     \* gen_
  local    \* control point and registers of each thread

vars == <<w0, w1, gen, local>>

SlotIds == 1 .. Slots
Flags == {"EXACT", "LOWER", "UPPER"}
NoKey == "no key"

(* A zeroed slot, as clear() leaves it.                                    *)
EmptyKeyWord == [key |-> NoKey, depth |-> 0, flag |-> "NONE", gen |-> 0]
EmptyDataWord == [move |-> NoMove, of |-> NoKey]

Idle == [at |-> "idle", key |-> NoKey, move |-> NoMove, depth |-> 0,
         flag |-> "NONE", slot |-> 1, victim |-> 1, worst |-> 999,
         w0 |-> EmptyKeyWord, w1 |-> EmptyDataWord]

Init ==
  /\ w0 = [s \in SlotIds |-> EmptyKeyWord]
  /\ w1 = [s \in SlotIds |-> EmptyDataWord]
  /\ gen = 0
  /\ local = [t \in Threads |-> Idle]

-----------------------------------------------------------------------------
(* store() *)

BeginStore(t) ==
  /\ local[t].at = "idle"
  /\ \E key \in Keys, move \in Moves \cup {NoMove}, depth \in StoreDepths, flag \in Flags :
       local' = [local EXCEPT ![t] =
                   [Idle EXCEPT !.at = "scan", !.key = key, !.move = move,
                                !.depth = depth, !.flag = flag]]
  /\ UNCHANGED <<w0, w1, gen>>

(* An old entry counts for more.                                           *)
ReplaceScoreOldFirst(word) == word.depth + (IF word.gen = gen THEN 0 ELSE 4)

(* Age-weighted depth.                                                     *)
ReplaceScore(word) == word.depth + (IF word.gen = gen THEN 0 ELSE -4)

(* The scan ends at the first entry of an older search.                    *)
AfterForeignSlotEager(r, word) ==
  LET last == r.slot = Slots \/ word.gen # gen
  IN  [r EXCEPT !.victim = IF last \/ ReplaceScore(word) < r.worst THEN r.slot ELSE @,
                !.worst  = ReplaceScore(word),
                !.slot   = IF last THEN @ ELSE @ + 1,
                !.at     = IF last THEN "data" ELSE "scan"]

(* A slot of another position: the lowest score so far is the victim.      *)
AfterForeignSlot(r, word) ==
  LET lower == ReplaceScore(word) < r.worst
  IN  [r EXCEPT !.victim = IF lower THEN r.slot ELSE @,
                !.worst  = IF lower THEN ReplaceScore(word) ELSE @,
                !.slot   = IF r.slot < Slots THEN @ + 1 ELSE @,
                !.at     = IF r.slot < Slots THEN "scan" ELSE "data"]

ScanSlot(t) ==
  LET r == local[t]
      word == w0[r.slot]
  IN  /\ r.at = "scan"
      /\ local' = [local EXCEPT ![t] =
           IF word.flag = "NONE" THEN [r EXCEPT !.victim = r.slot, !.at = "data"]
           ELSE IF word.key = r.key THEN [r EXCEPT !.w0 = word, !.at = "same"]
           ELSE AfterForeignSlot(r, word)]
      /\ UNCHANGED <<w0, w1, gen>>

KeptMove(move, e_move) == IF move = NoMove THEN e_move ELSE move

(* A shallow bound does not clobber a much deeper entry.                   *)
TooShallow(r) == r.flag # "EXACT" /\ r.depth + 4 < r.w0.depth

(* The entry of the same position: its data word is read.                  *)
ReadSameEntry(t) ==
  LET r == local[t]
      data == w1[r.slot]
      move == KeptMove(r.move, data.move)
  IN  /\ r.at = "same"
      /\ local' = [local EXCEPT ![t] =
           IF ~TooShallow(r)
           THEN [r EXCEPT !.move = move, !.victim = r.slot, !.at = "data"]
           ELSE IF move # NoMove /\ data.move = NoMove
           THEN [r EXCEPT !.move = move, !.w1 = data, !.at = "refresh"]
           ELSE Idle]
      /\ UNCHANGED <<w0, w1, gen>>

(* The move-only refresh rewrites the rest of the word as it was read.     *)
RefreshMove(t) ==
  LET r == local[t]
  IN  /\ r.at = "refresh"
      /\ w1' = [w1 EXCEPT ![r.slot] = [r.w1 EXCEPT !.move = r.move]]
      /\ local' = [local EXCEPT ![t] = Idle]
      /\ UNCHANGED <<w0, gen>>

(* Data first ...                                                          *)
WriteData(t) ==
  LET r == local[t]
  IN  /\ r.at = "data"
      /\ w1' = [w1 EXCEPT ![r.victim] = [move |-> r.move, of |-> r.key]]
      /\ local' = [local EXCEPT ![t].at = "key"]
      /\ UNCHANGED <<w0, gen>>

(* ... then the key word.                                                  *)
WriteKey(t) ==
  LET r == local[t]
  IN  /\ r.at = "key"
      /\ w0' = [w0 EXCEPT ![r.victim] =
                  [key |-> r.key, depth |-> r.depth, flag |-> r.flag, gen |-> gen]]
      /\ local' = [local EXCEPT ![t] = Idle]
      /\ UNCHANGED <<w1, gen>>

-----------------------------------------------------------------------------
(* probe() *)

BeginProbe(t) ==
  /\ local[t].at = "idle"
  /\ \E key \in Keys :
       local' = [local EXCEPT ![t] = [Idle EXCEPT !.at = "probe", !.key = key]]
  /\ UNCHANGED <<w0, w1, gen>>

(* On to the next slot; past the last one the probe has missed.            *)
NextSlot(r) ==
  IF r.slot < Slots THEN [r EXCEPT !.slot = @ + 1, !.at = "probe"] ELSE Idle

ProbeKey(t) ==
  LET r == local[t]
      word == w0[r.slot]
  IN  /\ r.at = "probe"
      /\ local' = [local EXCEPT ![t] =
           IF word.key = r.key /\ word.flag # "NONE"
           THEN [r EXCEPT !.w0 = word, !.at = "read"]
           ELSE NextSlot(r)]
      /\ UNCHANGED <<w0, w1, gen>>

ProbeData(t) ==
  /\ local[t].at = "read"
  /\ local' = [local EXCEPT ![t].w1 = w1[local[t].slot], ![t].at = "reread"]
  /\ UNCHANGED <<w0, w1, gen>>

(* The torn-read guard: the key word has not changed meanwhile.            *)
ProbeAgain(t) ==
  LET r == local[t]
  IN  /\ r.at = "reread"
      /\ local' = [local EXCEPT ![t] =
           IF w0[r.slot] = r.w0 THEN [r EXCEPT !.at = "hit"] ELSE NextSlot(r)]
      /\ UNCHANGED <<w0, w1, gen>>

(* The caller has used the entry.                                          *)
UseHit(t) ==
  /\ local[t].at = "hit"
  /\ local' = [local EXCEPT ![t] = Idle]
  /\ UNCHANGED <<w0, w1, gen>>

-----------------------------------------------------------------------------
Quiet == \A t \in Threads : local[t].at = "idle"

BumpGeneration(g) == (g + 1) % Generations

(* Between searches.                                                       *)
NewSearch ==
  /\ Quiet
  /\ gen' = BumpGeneration(gen)
  /\ UNCHANGED <<w0, w1, local>>

(* clear(), also the end of resize().                                      *)
Clear ==
  /\ Quiet
  /\ w0' = [s \in SlotIds |-> EmptyKeyWord]
  /\ w1' = [s \in SlotIds |-> EmptyDataWord]
  /\ gen' = 0
  /\ UNCHANGED local

Next ==
  \/ NewSearch
  \/ Clear
  \/ \E t \in Threads :
       \/ BeginStore(t)
       \/ ScanSlot(t)
       \/ ReadSameEntry(t)
       \/ RefreshMove(t)
       \/ WriteData(t)
       \/ WriteKey(t)
       \/ BeginProbe(t)
       \/ ProbeKey(t)
       \/ ProbeData(t)
       \/ ProbeAgain(t)
       \/ UseHit(t)

Spec == Init /\ [][Next]_vars

-----------------------------------------------------------------------------
(* Properties *)

KeyWords == [key : Keys \cup {NoKey}, depth : StoreDepths \cup {0},
             flag : Flags \cup {"NONE"}, gen : 0 .. Generations - 1]
DataWords == [move : Moves \cup {NoMove}, of : Keys \cup {NoKey}]

(* The types of the words and of the control points.                       *)
TypeOK ==
  /\ w0 \in [SlotIds -> KeyWords]
  /\ w1 \in [SlotIds -> DataWords]
  /\ gen \in 0 .. Generations - 1
  /\ \A t \in Threads :
       /\ local[t].at \in {"idle", "scan", "same", "refresh", "data", "key",
                           "probe", "read", "reread", "hit"}
       /\ local[t].slot \in SlotIds
       /\ local[t].victim \in SlotIds

Used(word) == word.flag # "NONE"

(* When no store is under way a position has one entry in its bucket: the  *)
(* scan of store() reaches the entry before it settles for a victim.       *)
OneEntryPerKey ==
  Quiet => \A s, o \in SlotIds :
             Used(w0[s]) /\ w0[o].key = w0[s].key => s = o

Young(word) == word.gen = gen

(* An entry of another position is evicted only from a full bucket, and    *)
(* never while the bucket has a shallower one that is no younger or an     *)
(* older one that is no deeper.                                            *)
WeakestIsEvicted ==
  [][\A s, o \in SlotIds :
       Used(w0[s]) /\ Used(w0'[s]) /\ w0[s].key # w0'[s].key =>
         /\ Used(w0[o])
         /\ w0[o].depth < w0[s].depth => Young(w0[o]) /\ ~Young(w0[s])
         /\ ~Young(w0[o]) /\ Young(w0[s]) => w0[o].depth > w0[s].depth]_vars
=============================================================================
