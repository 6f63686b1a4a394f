--------------------------- MODULE BoardSessionProofs ---------------------------
(***************************************************************************)
(* What is proved of the board under the search, for every set of well-    *)
(* formed positions and every depth: taking a move back restores the board *)
(* (UndoIsExact), what is updated piece by piece is what a board set up    *)
(* anew would hold (StateIsIncremental), the table of repetitions counts   *)
(* the keys of the way down (RepetitionsAreCounted), the accumulators of   *)
(* the evaluator, updated move by move, are those of a full refresh        *)
(* (AccumulatorsFollow), and the text of a generated move, read back, is   *)
(* that move (TextNamesTheMove). All rest on one inductive invariant,      *)
(* BoardInv; AccumulatorsFollow adds the frames of the evaluator to it.    *)
(* They take for granted that no legal move captures a king (KingsStand),  *)
(* which is then proved as well (KingsAlwaysStand): the king that waits is *)
(* not attacked, and the checks and pins that a move is judged by are      *)
(* those of the position (GuardInv, CachesAreExact).  Last, the board      *)
(* implements the game by the laws of chess (BoardPlaysChess), a move      *)
(* gives check when the search is told so (GivesCheckIsRight), and the     *)
(* moves that are searched are the legal ones (MoveGenerationIsExact).     *)
(*                                                                         *)
(* Two hypotheses are left.  KeysHaveSlots: the natural slot of a key is a *)
(* slot of the table, which is so of any key & MASK.  MaterialHolds: the   *)
(* counts of the pieces fit their fields of the material key, which        *)
(* isLegal() trusts to tell whether the enemy has a major piece; a side    *)
(* with eight queens breaks it, and CountsAlwaysHold proves it of every    *)
(* position whose pawns can all promote without reaching that.             *)
(***************************************************************************)
EXTENDS BoardSession, BoardProofs

BoardAt(i) == IF i <= Ply THEN past[i] ELSE cb

-----------------------------------------------------------------------------
(***************************************************************************)
(* The table of repetitions is the stack of keys of the search.            *)
(***************************************************************************)

TableCounts == StackInv(cb.playedBoardStates, KeysOnBoard, PositionKeys)

\* Counting the key of the board that a move leads to.
LEMMA TablePush ==
  ASSUME KeysHaveSlots, TableCounts, NEW key \in PositionKeys,
         Len(KeysOnBoard) < Capacity - 1,
         (cb.playedBoardStates)' = inc(cb.playedBoardStates, key),
         KeysOnBoard' = Append(KeysOnBoard, key)
  PROVE  TableCounts' /\ dec((cb.playedBoardStates)', key) = cb.playedBoardStates
<1> DEFINE t == cb.playedBoardStates
           k == KeysOnBoard
<1>1. StackInv(t, k, PositionKeys) /\ \A x \in PositionKeys : natural_slot(x) \in Slots
  BY DEF TableCounts, KeysHaveSlots
<1>2. Pushes(t, k, key, t', k')
  BY DEF Pushes
<1>3. t' = inc(t, key)
  OBVIOUS
<1> HIDE DEF t, k
<1>4. StackInv(t', k', PositionKeys)
  BY <1>1, <1>2, PushInv
<1>5. dec(inc(t, key), key) = t
  BY <1>1, CountedBack
<1> QED BY <1>3, <1>4, <1>5 DEF TableCounts, t, k

\* Uncounting it when the move is taken back.
LEMMA TablePop ==
  ASSUME KeysHaveSlots, TableCounts, KeysOnBoard # <<>>,
         (cb.playedBoardStates)' = dec(cb.playedBoardStates, KeysOnBoard[Len(KeysOnBoard)]),
         KeysOnBoard' = SubSeq(KeysOnBoard, 1, Len(KeysOnBoard) - 1)
  PROVE  TableCounts'
<1> DEFINE t == cb.playedBoardStates
           k == KeysOnBoard
<1>1. StackInv(t, k, PositionKeys) /\ \A x \in PositionKeys : natural_slot(x) \in Slots
  BY DEF TableCounts, KeysHaveSlots
<1>2. Pops(t, k, t', k')
  BY DEF Pops
<1> HIDE DEF t, k
<1>3. StackInv(t', k', PositionKeys)
  BY <1>1, <1>2, PopInv
<1> QED BY <1>3 DEF TableCounts, t, k

-----------------------------------------------------------------------------
(***************************************************************************)
(* A board set up from a well-formed FEN is sound.                         *)
(***************************************************************************)

\* The four views of a new board agree.
LEMMA NewPlaces ==
  ASSUME NEW fen, WellFormed(fen), NEW x, x = getNewCB(fen)
  PROVE  PlacesTyped(x) /\ WhoIsWhere(x) /\ KingsAre(x) /\ x.kingIndex \in [Colors -> Squares]
<1>1. NewResult(fen, x)
  BY NewFields
<1>2. /\ x.pieces = fen.pieces /\ x.friendlyPieces = NewFriendly(fen)
      /\ x.allPieces = NewFriendly(fen)[WHITE] \cup NewFriendly(fen)[BLACK]
      /\ x.pieceIndexes = NewIndexes(fen) /\ x.kingIndex = NewKings(fen)
      /\ x.colorToMove = fen.colorToMove
  BY <1>1 DEF NewResult
<1>3. /\ fen.pieces \in [Colors -> [PieceTypes -> SUBSET Squares]] /\ fen.colorToMove \in Colors
      /\ \A c, d \in Colors, p, q \in PieceTypes : fen.pieces[c][p] \cap fen.pieces[d][q] # {} => c = d /\ p = q
      /\ \A c \in Colors : \E k \in Squares : fen.pieces[c][KING] = {k}
  BY Zenon DEF WellFormed
<1>4. WHITE \in Colors /\ BLACK \in Colors /\ \A c \in Colors : c = WHITE \/ c = BLACK
  BY DEF Colors, WHITE, BLACK
<1>5. \A c \in Colors : NewFriendly(fen)[c] = UNION {fen.pieces[c][p] : p \in PieceTypes}
  BY DEF NewFriendly
<1>6. \A c \in Colors : \A s : s \in NewFriendly(fen)[c] <=> \E p \in PieceTypes : s \in fen.pieces[c][p]
  BY <1>5
<1>7. NewFriendly(fen) \in [Colors -> SUBSET Squares]
  BY <1>3 DEF NewFriendly
<1>8. \A c \in Colors, p \in PieceTypes : \A s \in fen.pieces[c][p] : NewIndexes(fen)[s] = p
  <2> TAKE c \in Colors, p \in PieceTypes
  <2> TAKE s \in fen.pieces[c][p]
  <2>1. s \in Squares /\ s \in NewFriendly(fen)[WHITE] \cup NewFriendly(fen)[BLACK]
    BY <1>3, <1>4, <1>6
  <2>2. NewIndexes(fen)[s] = CHOOSE q \in PieceTypes : s \in fen.pieces[WHITE][q] \cup fen.pieces[BLACK][q]
    BY <2>1 DEF NewIndexes
  <2>3. s \in fen.pieces[WHITE][p] \cup fen.pieces[BLACK][p]
    BY <1>4
  <2>4. \A q \in PieceTypes : s \in fen.pieces[WHITE][q] \cup fen.pieces[BLACK][q] => q = p
    BY <1>3, <1>4
  <2> QED BY <2>2, <2>3, <2>4
<1>9. \A s \in Squares \ (NewFriendly(fen)[WHITE] \cup NewFriendly(fen)[BLACK]) : NewIndexes(fen)[s] = EMPTY
  BY DEF NewIndexes
<1>10. NewIndexes(fen) \in [Squares -> EMPTY..KING]
  <2>1. \A s \in Squares : NewIndexes(fen)[s] \in EMPTY..KING
    <3> TAKE s \in Squares
    <3>1. CASE s \in NewFriendly(fen)[WHITE] \cup NewFriendly(fen)[BLACK]
      BY <1>4, <1>6, <1>8, <3>1, TypesDiffer
    <3>2. CASE s \notin NewFriendly(fen)[WHITE] \cup NewFriendly(fen)[BLACK]
      BY <1>9, <3>2, TypesDiffer
    <3> QED BY <3>1, <3>2
  <2>2. NewIndexes(fen) = [s \in Squares |-> NewIndexes(fen)[s]]
    BY DEF NewIndexes
  <2> QED BY <2>1, <2>2
<1>11. NewFriendly(fen)[WHITE] \cup NewFriendly(fen)[BLACK] \in SUBSET Squares
  BY <1>4, <1>7
<1>12. PlacesTyped(x)
  BY <1>2, <1>3, <1>7, <1>10, <1>11 DEF PlacesTyped, Men
<1>13. OnePieceEach(fen.pieces)
  BY <1>3 DEF OnePieceEach
<1>14. WhoIsWhere(x)
  BY <1>2, <1>6, <1>8, <1>9, <1>13 DEF WhoIsWhere
<1>15. \A c \in Colors : NewKings(fen)[c] \in Squares /\ fen.pieces[c][KING] = {NewKings(fen)[c]}
  <2> TAKE c \in Colors
  <2>1. PICK k \in Squares : fen.pieces[c][KING] = {k}
    BY <1>3
  <2>2. k <= k
    BY DEF Squares
  <2>3. Least({k}) = k
    BY <2>2 DEF Least
  <2> QED BY <2>1, <2>3 DEF NewKings
<1>16. NewKings(fen) \in [Colors -> Squares]
  BY <1>15 DEF NewKings
<1> QED BY <1>2, <1>12, <1>14, <1>15, <1>16 DEF KingsAre

\* A new board is sound when its counts are in their range.
LEMMA NewSound ==
  ASSUME NEW fen, WellFormed(fen), NEW x, x = getNewCB(fen),
         x.materialKey \in MaterialKeys, x.material_factor \in [Colors -> Int]
  PROVE  Sound(x) /\ x.pinnedPiecesDirty = FALSE /\ x.history = <<>>
<1>1. NewResult(fen, x) /\ NewChecks(x)
  BY NewFields
<1>2. /\ IsBoard(x) /\ x.pieces = fen.pieces /\ x.epIndex = fen.epIndex
      /\ x.castlingRights = fen.castlingRights /\ x.history = <<>> /\ x.kingIndex = NewKings(fen)
      /\ x.castlingConfig = detectCastlingConfig(NewIndexes(fen), NewKings(fen))
      /\ x.colorToMove = fen.colorToMove /\ x.pinnedPiecesDirty = FALSE
  BY <1>1 DEF NewResult
<1>3. PlacesTyped(x) /\ WhoIsWhere(x) /\ KingsAre(x) /\ x.kingIndex \in [Colors -> Squares]
  BY NewPlaces
<1>4. /\ fen.epIndex \in Squares /\ fen.castlingRights \subseteq Rights
      /\ fen.epIndex # 0 =>
          /\ \A c \in Colors, p \in PieceTypes : fen.epIndex \notin fen.pieces[c][p]
          /\ fen.epIndex + Forward(Opponent(fen.colorToMove)) \in fen.pieces[Opponent(fen.colorToMove)][PAWN]
      /\ \A r \in fen.castlingRights :
          /\ x.castlingConfig.rook[r] \in fen.pieces[OwnerOf(r)][ROOK]
          /\ \A q \in Rights : q > r => x.castlingConfig.rook[q] # x.castlingConfig.rook[r]
  BY Zenon DEF WellFormed
<1>5. IsSequence(x.history)
  BY <1>2 DEF IsSequence
<1>6. Kept(x)
  BY <1>2, <1>3, <1>5 DEF Kept
<1>7. EpSound(x)
  BY <1>2, <1>3, <1>4, AllIs DEF EpSound
<1>8. RightsSound(x)
  <2>1. x.castlingConfig.king = x.kingIndex
    BY <1>2 DEF detectCastlingConfig
  <2> QED BY <1>2, <1>4, <2>1 DEF RightsSound
<1>9. ChecksClear(x)
  <2>1. PICK y : /\ x.checkingPieces = checkingPiecesFull(y)
                 /\ y.pieces = x.pieces /\ y.allPieces = x.allPieces
                 /\ y.kingIndex = x.kingIndex /\ y.colorToMove = x.colorToMove
    BY <1>1, Zenon DEF NewChecks
  <2> QED BY <1>3, <2>1, CheckersSeen DEF ChecksClear
<1> QED BY <1>2, <1>4, <1>6, <1>7, <1>8, <1>9 DEF Sound

\* setupposition counts a key, uncounts it and counts the right one
LEMMA NewTableIs ==
  ASSUME KeysHaveSlots, NEW k0 \in PositionKeys, NEW k1
  PROVE  inc(dec(inc(EmptyTable, k0), k0), k1) = inc(EmptyTable, k1)
<1>1. StackInv(EmptyTable, <<>>, PositionKeys)
  BY EmptyInv
<1> QED BY <1>1, CountedBack DEF KeysHaveSlots

\* The table that setupposition leaves.
LEMMA NewTableOf ==
  ASSUME KeysHaveSlots, NEW fen, WellFormed(fen), NEW x, x = getNewCB(fen)
  PROVE  /\ x.playedBoardStates = inc(EmptyTable, x.zobristKey)
         /\ x.zobristKey \in PositionKeys
<1>1. NewResult(fen, x)
  BY NewFields
<1>2. /\ x.zobristKey = NewBareKey(fen) (+) CastlingKey(fen.castlingRights)
      /\ x.playedBoardStates = NewTable(fen)
  BY <1>1 DEF NewResult
<1>3. fen.pieces \in Men /\ fen.epIndex \in Squares
  BY Zenon DEF WellFormed, Men
<1>4. NewBareKey(fen) \in PositionKeys
  BY <1>3, XorMade, KeysMade DEF NewBareKey
<1>5. NewBareKey(fen) (+) CastlingKey({}) \in PositionKeys /\ NewBareKey(fen) (+) CastlingKey(fen.castlingRights) \in PositionKeys
  BY <1>4, KeysMade
<1>6. NewTable(fen) = inc(EmptyTable, NewBareKey(fen) (+) CastlingKey(fen.castlingRights))
  BY <1>5, NewTableIs DEF NewTable
<1> QED BY <1>2, <1>5, <1>6

\* A new board is sound.
LEMMA NewBoardSound ==
  ASSUME NEW fen, WellFormed(fen), NEW x, x = getNewCB(fen)
  PROVE  Sound(x) /\ x.pinnedPiecesDirty = FALSE /\ x.history = <<>>
<1>1. NewResult(fen, x)
  BY NewFields
<1>2. fen.pieces \in Men
  BY Zenon DEF WellFormed, Men
<1>3. x.materialKey \in MaterialKeys /\ x.material_factor \in [Colors -> Int]
  BY <1>1, <1>2, NewMaterial DEF NewResult
<1> QED BY <1>3, NewSound

\* The keys on the way down, as an operator on the board.
LEMMA KeysOnBoardIs == KeysOnBoard = KeysOn(cb)
  BY DEF KeysOnBoard, KeysOn, Ply

-----------------------------------------------------------------------------
(***************************************************************************)
(* The inductive invariant: the way down can be taken back.                *)
(***************************************************************************)

BoardInv ==
  /\ Sound(cb) /\ cb.pinnedPiecesDirty \in BOOLEAN
  /\ IsSequence(past) /\ Len(past) = Ply
  /\ \A i \in 1..Ply : Linked(past[i], BoardAt(i + 1))
  /\ TableCounts

\* The invariant holds of a new board.
LEMMA InitInv ==
  ASSUME KeysHaveSlots, Init
  PROVE  BoardInv
<1>1. PICK fen \in Fens : cb = getNewCB(fen)
  BY DEF Init
<1>2. WellFormed(fen)
  BY FensAssumption
<1>3. Sound(cb) /\ cb.pinnedPiecesDirty = FALSE /\ cb.history = <<>>
  BY <1>1, <1>2, NewBoardSound
<1>4. cb.playedBoardStates = inc(EmptyTable, cb.zobristKey) /\ cb.zobristKey \in PositionKeys
  BY <1>1, <1>2, NewTableOf
<1>5. past = <<>> /\ Len(past) = 0 /\ Ply = 0
  BY <1>3 DEF Init, Ply
<1>6. IsSequence(past)
  BY <1>5 DEF IsSequence
<1>7. KeysOnBoard = <<cb.zobristKey>>
  BY <1>5 DEF KeysOnBoard
<1>8. TableCounts
  BY <1>4, <1>7, FirstKey DEF KeysHaveSlots, TableCounts
<1>9. cb.pinnedPiecesDirty \in BOOLEAN
  BY <1>3
<1>10. Len(past) = Ply /\ \A i \in 1..Ply : Linked(past[i], BoardAt(i + 1))
  BY <1>5
<1> QED BY <1>3, <1>6, <1>8, <1>9, <1>10 DEF BoardInv

\* The key of the board is one of the table's.
LEMMA KeyIsMade ==
  ASSUME BoardInv
  PROVE  cb.zobristKey \in PositionKeys /\ IsSequence(cb.history) /\ Ply \in Nat
<1>1. IsSequence(cb.history)
  BY DEF BoardInv, Sound, Kept
<1>2. /\ Len(KeysOn(cb)) = Ply + 1 /\ Ply \in Nat /\ KeysOn(cb)[Len(KeysOn(cb))] = cb.zobristKey
  BY <1>1, KeysOnType DEF Ply
<1>3. KeysOnBoard \in Seq(PositionKeys)
  BY DEF BoardInv, TableCounts, StackInv, StackTyped
<1>4. KeysOn(cb) \in Seq(PositionKeys)
  BY <1>3, KeysOnBoardIs
<1> HIDE DEF KeysOn
<1>5. KeysOn(cb)[Ply + 1] \in PositionKeys
  BY <1>2, <1>4
<1> QED BY <1>1, <1>2, <1>5

\* the board that a move is made on: the current one with its pins refreshed
LEMMA Refreshed ==
  ASSUME BoardInv, NEW b, b = RefreshPins(cb)
  PROVE  /\ Sound(b) /\ b.pinnedPiecesDirty = FALSE /\ RefreshPins(b) = b
         /\ ExceptPins(b, cb)
         /\ b.zobristKey = cb.zobristKey /\ b.epIndex = cb.epIndex /\ b.checkingPieces = cb.checkingPieces
         /\ b.playedBoardStates = cb.playedBoardStates /\ b.history = cb.history /\ KeysOn(b) = KeysOn(cb)
<1>1. Sound(cb) /\ IsBoard(cb) /\ cb.pinnedPiecesDirty \in BOOLEAN
  BY DEF BoardInv, Sound, Kept
<1>2. ExceptPins(b, cb) /\ b.pinnedPiecesDirty = FALSE /\ RefreshPins(b) = b
  BY <1>1, RefreshKeeps
<1>3. Sound(b)
  BY <1>1, <1>2, SoundExceptPins
<1>4. /\ b.zobristKey = cb.zobristKey /\ b.epIndex = cb.epIndex /\ b.checkingPieces = cb.checkingPieces
      /\ b.playedBoardStates = cb.playedBoardStates /\ b.history = cb.history
  BY <1>2, Zenon DEF ExceptPins
<1>5. KeysOn(b) = KeysOn(cb)
  BY <1>4, Zenon DEF KeysOn
<1> QED BY <1>2, <1>3, <1>4, <1>5

\* A step down keeps the invariant,
LEMMA DeepenKeeps ==
  ASSUME KeysHaveSlots, BoardInv, NEW b, b = RefreshPins(cb), NEW m, Leads(b, m, cb'),
         m = NO_MOVE => b.checkingPieces = {},
         ~is_castling(m) /\ m # NO_MOVE => OrdinaryFits(b, m),
         Ply < MaxPly, past' = Append(past, b)
  PROVE  BoardInv'
<1>1. /\ Sound(b) /\ b.pinnedPiecesDirty = FALSE /\ ExceptPins(b, cb)
      /\ b.zobristKey = cb.zobristKey /\ b.playedBoardStates = cb.playedBoardStates
      /\ b.history = cb.history /\ KeysOn(b) = KeysOn(cb)
  BY Refreshed
<1>2. cb.zobristKey \in PositionKeys /\ IsSequence(cb.history) /\ Ply \in Nat /\ IsSequence(past) /\ Len(past) = Ply
  BY KeyIsMade DEF BoardInv
<1>3. Sound(cb') /\ (cb').pinnedPiecesDirty \in BOOLEAN
  BY <1>1, LeadsSound
<1>4. (cb').zobristKey \in PositionKeys /\ (cb').playedBoardStates = inc(cb.playedBoardStates, (cb').zobristKey)
  BY <1>1, <1>2, LeadsCounts
<1>5. (cb').history = Append(cb.history, Entry(b, m)) /\ Entry(b, m).zobristKey = cb.zobristKey /\ IsBoard(cb')
  BY <1>1, LeadsRecords DEF Entry
<1>6. KeysOn(cb') = Append(KeysOn(cb), (cb').zobristKey)
  BY <1>2, <1>5, KeysPushed
<1>7. KeysOnBoard' = Append(KeysOnBoard, (cb').zobristKey)
  BY KeysOnBoardIs, <1>6 DEF KeysOnBoard, KeysOn, Ply
<1>8. Len(KeysOnBoard) < Capacity - 1
  BY <1>2, KeysOnBoardIs, KeysOnType, BoundAssumption, CapacityAssumption DEF Ply
<1>9. TableCounts' /\ dec((cb').playedBoardStates, (cb').zobristKey) = cb.playedBoardStates
  <2>1. TableCounts
    BY DEF BoardInv
  <2> QED BY <1>4, <1>7, <1>8, <2>1, TablePush
<1>10. Linked(b, cb')
  <2>1. ExceptPins(cb', cb')
    BY <1>5 DEF ExceptPins
  <2> QED BY <1>1, <1>9, <2>1, Zenon DEF Linked
<1>11. Ply' = Ply + 1 /\ Len(past') = Ply + 1 /\ IsSequence(past')
       /\ past'[Ply + 1] = b /\ \A i \in 1..Ply : past'[i] = past[i]
  BY <1>2, <1>5, AppendedBack DEF Ply
<1>12. \A i \in 1..Ply : Linked(past[i], BoardAt(i + 1))
  BY DEF BoardInv
<1>13. ASSUME NEW i \in 1..(Ply + 1) PROVE Linked(past'[i], BoardAt(i + 1)')
  <2>1. CASE i = Ply + 1
    BY <1>2, <1>11, <2>1, <1>10 DEF BoardAt
  <2>2. CASE i = Ply
    BY <1>2, <1>11, <2>2, <1>12, <1>13, <1>1, LinkedExceptPins DEF BoardAt
  <2>3. CASE i < Ply
    BY <1>2, <2>3, <1>11, <1>12 DEF BoardAt
  <2> QED BY <1>2, <2>1, <2>2, <2>3
<1> QED BY <1>3, <1>9, <1>11, <1>13 DEF BoardInv

\* and so does a step back.
LEMMA ReturnKeeps ==
  ASSUME KeysHaveSlots, BoardInv, Ply > 0, cb' = past[Ply], past' = SubSeq(past, 1, Len(past) - 1)
  PROVE  BoardInv'
<1>1. IsSequence(cb.history) /\ Ply \in Nat /\ IsSequence(past) /\ Len(past) = Ply
  BY KeyIsMade DEF BoardInv
<1>2. Linked(past[Ply], cb)
  BY <1>1 DEF BoardInv, BoardAt
<1>3. Sound(cb') /\ (cb').pinnedPiecesDirty = FALSE /\ TakenBack(cb', cb)
  BY <1>2, LinkedBack DEF Linked
<1>4. Ply' = Ply - 1
  <2>1. Len(cb.history) = Len((cb').history) + 1
    BY <1>3, Zenon DEF TakenBack
  <2>2. IsSequence((cb').history)
    BY <1>3 DEF Sound, Kept
  <2>3. Len((cb').history) \in Nat
    BY <2>2 DEF IsSequence
  <2>4. Ply = Len(cb.history) /\ Ply' = Len((cb').history)
    BY DEF Ply
  <2> HIDE DEF Ply
  <2> QED BY <2>1, <2>3, <2>4
<1>5. KeysOnBoard' = SubSeq(KeysOnBoard, 1, Len(KeysOnBoard) - 1)
  BY KeysOnBoardIs, <1>3 DEF KeysOnBoard, KeysOn, Ply, TakenBack
<1>6. TableCounts'
  BY <1>1, KeysOnBoardIs, KeysOnType, <1>3, <1>5, TablePop DEF TakenBack, BoardInv
<1>7. IsSequence(past') /\ Len(past') = Ply - 1 /\ \A i \in 1..(Ply - 1) : past'[i] = past[i]
  <2> DEFINE S == {past[i] : i \in DOMAIN past}
  <2>1. past \in Seq(S) /\ Len(past) = Ply /\ Ply - 1 \in Nat /\ Ply - 1 <= Len(past)
    BY <1>1 DEF IsSequence
  <2> HIDE DEF S
  <2>2. past' \in Seq(S) /\ Len(past') = Ply - 1 /\ \A i \in 1..(Ply - 1) : past'[i] = past[i]
    BY <2>1
  <2>3. past' \in Seq({past'[i] : i \in DOMAIN past'})
    <3>1. PICK s : s = past'
      OBVIOUS
    <3>2. Len(s) \in Nat /\ s = [i \in 1..Len(s) |-> s[i]] /\ DOMAIN s = 1..Len(s)
      BY <2>2, <3>1
    <3>3. s \in Seq({s[i] : i \in DOMAIN s})
      BY <3>2
    <3> QED BY <3>1, <3>3
  <2> QED BY <2>2, <2>3 DEF IsSequence
<1>8. ASSUME NEW i \in 1..(Ply - 1) PROVE Linked(past'[i], BoardAt(i + 1)')
  <2>1. Linked(past[i], past[i + 1])
    BY <1>1, <1>8 DEF BoardInv, BoardAt
  <2>2. BoardAt(i + 1)' = past[i + 1]
    <3>1. CASE i + 1 = Ply
      BY <1>1, <1>4, <3>1 DEF BoardAt
    <3>2. CASE i + 1 < Ply
      BY <1>1, <1>4, <1>7, <1>8, <3>2 DEF BoardAt
    <3> QED BY <1>1, <1>8, <3>1, <3>2
  <2> QED BY <1>7, <1>8, <2>1, <2>2
<1> QED BY <1>3, <1>4, <1>6, <1>7, <1>8 DEF BoardInv

\* A legal move leads from the board with its pins refreshed.
LEMMA MadeMoveLeads ==
  ASSUME BoardInv, KingsStand, NEW m \in LegalMoves(cb), Deepen(doMove(cb, m)), NEW b, b = RefreshPins(cb)
  PROVE  MoveLeads(b, m, cb')
<1>1. Sound(b) /\ b.pinnedPiecesDirty = FALSE
  BY Refreshed
<1>2. m \in generateMoves(b) \cup generateAttacks(b) /\ m.attacked # KING
  BY DEF LegalMoves, KingsStand
<1>3. MoveOK(b, m)
  BY <1>1, <1>2, GeneratorFits
<1>4. /\ is_castling(m) => CastlingFacts(b, m)
      /\ ~is_castling(m) => OrdinaryFacts(b, m) /\ OrdinaryFits(b, m)
  BY <1>1, <1>2, <1>3, FactsOfMove DEF MoveOK
<1>5. Leads(b, m, cb')
  BY <1>4 DEF Deepen, doMove, Leads
<1>6. m # NO_MOVE
  BY <1>4, MovesAreNot
<1> QED BY <1>4, <1>5, <1>6 DEF MoveLeads

\* Making a move keeps the invariant.
LEMMA MakeMoveKeeps ==
  ASSUME KeysHaveSlots, BoardInv, KingsStand, MakeMove
  PROVE  BoardInv'
<1>1. PICK m \in LegalMoves(cb) : Deepen(doMove(cb, m))
  BY DEF MakeMove
<1>2. PICK b : b = RefreshPins(cb)
  OBVIOUS
<1>3. MoveLeads(b, m, cb')
  BY <1>1, <1>2, MadeMoveLeads
<1>4. Ply < MaxPly /\ past' = Append(past, b)
  BY <1>1, <1>2 DEF Deepen
<1> QED BY <1>2, <1>3, <1>4, DeepenKeeps DEF MoveLeads

\* Making a null move keeps it.
LEMMA MakeNullKeeps ==
  ASSUME KeysHaveSlots, BoardInv, MakeNull
  PROVE  BoardInv'
<1>1. cb.checkingPieces = {} /\ Deepen(doNullMove(cb))
  BY DEF MakeNull
<1>2. PICK b : b = RefreshPins(cb)
  OBVIOUS
<1>3. RefreshPins(b) = b /\ b.zobristKey = cb.zobristKey /\ b.epIndex = cb.epIndex /\ b.checkingPieces = {}
  BY <1>1, <1>2, Refreshed
<1>4. doNullMove(cb) = doNullMove(b)
  BY <1>2, <1>3, Zenon DEF doNullMove
<1>5. Leads(b, NO_MOVE, cb')
  BY <1>1, <1>4 DEF Leads, Deepen
<1>6. Ply < MaxPly /\ past' = Append(past, b)
  BY <1>1, <1>2 DEF Deepen
<1> QED BY <1>2, <1>3, <1>5, <1>6, DeepenKeeps

\* Taking a move back gives the board that it was made on.
LEMMA UnmakeGives ==
  ASSUME BoardInv, UnmakeMove \/ UnmakeNull
  PROVE  Ply > 0 /\ cb' = past[Ply] /\ Len(past) = Ply /\ past' = SubSeq(past, 1, Len(past) - 1)
<1>1. Len(past) = Ply /\ Ply \in Nat
  BY KeyIsMade DEF BoardInv
<1>2. Ply > 0
  BY DEF UnmakeMove, UnmakeNull
<1>3. Linked(past[Ply], cb)
  BY <1>1, <1>2 DEF BoardInv, BoardAt
<1>4. TakenBack(past[Ply], cb)
  BY <1>3, LinkedBack
<1>5. /\ LastMove = NO_MOVE => undoNullMove(cb) = past[Ply]
      /\ LastMove # NO_MOVE => undoMove(cb, LastMove) = past[Ply]
  BY <1>4, Zenon DEF TakenBack, LastMove, Ply
<1>6. CASE UnmakeMove
  BY <1>1, <1>2, <1>5, <1>6 DEF UnmakeMove, Return
<1>7. CASE UnmakeNull
  BY <1>1, <1>2, <1>5, <1>7 DEF UnmakeNull, Return
<1> QED BY <1>6, <1>7

\* Refreshing the pins keeps it.
LEMMA RefreshStepKeeps ==
  ASSUME BoardInv, Refresh
  PROVE  BoardInv' /\ Ply' = Ply
<1>1. PICK b : b = RefreshPins(cb)
  OBVIOUS
<1>2. cb' = b /\ past' = past
  BY <1>1 DEF Refresh
<1>3. /\ Sound(b) /\ b.pinnedPiecesDirty = FALSE /\ ExceptPins(b, cb)
      /\ b.playedBoardStates = cb.playedBoardStates /\ b.history = cb.history /\ KeysOn(b) = KeysOn(cb)
  BY <1>1, Refreshed
<1>4. Ply' = Ply
  BY <1>2, <1>3 DEF Ply
<1>5. KeysOnBoard' = KeysOnBoard /\ (cb.playedBoardStates)' = cb.playedBoardStates
  BY KeysOnBoardIs, <1>2, <1>3 DEF KeysOnBoard, KeysOn, Ply
<1>6. TableCounts'
  BY <1>5 DEF BoardInv, TableCounts
<1>7. \A i \in 1..Ply : Linked(past[i], BoardAt(i + 1))
  BY DEF BoardInv
<1>8. ASSUME NEW i \in 1..Ply PROVE Linked(past[i], BoardAt(i + 1)')
  <2>1. CASE i + 1 <= Ply
    BY <1>2, <1>4, <2>1, <1>7 DEF BoardAt
  <2>2. CASE ~(i + 1 <= Ply)
    BY <1>2, <1>4, <2>2, <1>7, <1>3, LinkedExceptPins DEF BoardAt
  <2> QED BY <2>1, <2>2
<1>9. Sound(cb') /\ (cb').pinnedPiecesDirty \in BOOLEAN
  BY <1>2, <1>3
<1>10. IsSequence(past) /\ Len(past) = Ply
  BY DEF BoardInv
<1> QED BY <1>2, <1>4, <1>6, <1>8, <1>9, <1>10 DEF BoardInv

\* So does doing nothing.
LEMMA StutterKeeps ==
  ASSUME BoardInv, UNCHANGED vars
  PROVE  BoardInv' /\ Ply' = Ply
<1>1. cb' = cb /\ past' = past
  BY DEF vars
<1>2. Ply' = Ply /\ KeysOnBoard' = KeysOnBoard
  BY <1>1 DEF Ply, KeysOnBoard
<1>3. \A i : BoardAt(i)' = BoardAt(i)
  BY <1>1, <1>2 DEF BoardAt
<1>4. TableCounts'
  BY <1>1, <1>2 DEF BoardInv, TableCounts
<1> QED BY <1>1, <1>2, <1>3, <1>4 DEF BoardInv

\* Every step keeps the invariant.
LEMMA StepKeeps ==
  ASSUME KeysHaveSlots, BoardInv, KingsStand, [Next]_vars
  PROVE  BoardInv'
<1>1. CASE MakeMove
  BY <1>1, MakeMoveKeeps
<1>2. CASE MakeNull
  BY <1>2, MakeNullKeeps
<1>3. CASE UnmakeMove \/ UnmakeNull
  BY <1>3, UnmakeGives, ReturnKeeps
<1>4. CASE Refresh
  BY <1>4, RefreshStepKeeps
<1>5. CASE UNCHANGED vars
  BY <1>5, StutterKeeps
<1> QED BY <1>1, <1>2, <1>3, <1>4, <1>5 DEF Next

\* A step back restores the board before it.
LEMMA StepRestores ==
  ASSUME BoardInv, BoardInv', [Next]_vars
  PROVE  [Ply' < Ply => cb' = past[Len(past)]]_vars
<1>0. Ply \in Nat /\ Len(past) = Ply /\ Len(past') = Ply' /\ IsSequence(past)
  BY KeyIsMade DEF BoardInv
<1>1. CASE MakeMove \/ MakeNull
  BY <1>1, <1>0, AppendedBack DEF MakeMove, MakeNull, Deepen
<1>2. CASE UnmakeMove \/ UnmakeNull
  BY <1>2, UnmakeGives
<1>3. CASE Refresh
  <2>1. Ply' = Ply
    BY <1>3, RefreshStepKeeps
  <2> QED BY <1>0, <2>1
<1>4. CASE UNCHANGED vars
  BY <1>4
<1> QED BY <1>1, <1>2, <1>3, <1>4 DEF Next

\* While no legal move captures a king, whatever is played and taken back from
\* well-formed positions: the four views of who stands where agree, each side has
\* one king, a pawn stands behind the en-passant square, every castling right has
\* its king and its rook, nothing stands before a checking slider, the table of
\* repetitions holds the keys of the way down, and every board on the way down is
\* linked to the next by the move between them.
THEOREM BoardStaysSound ==
  ASSUME KeysHaveSlots
  PROVE  Spec /\ []KingsStand => []BoardInv
<1>1. Init => BoardInv
  BY InitInv
<1>2. BoardInv /\ KingsStand /\ [Next]_vars => BoardInv'
  BY StepKeeps
<1> QED BY <1>1, <1>2, PTL DEF Spec

\* While no legal move captures a king, undoMove and undoNullMove (chess_board.cpp)
\* restore every field of the board, down to the pins and the table of repetitions.
THEOREM UndoIsExact ==
  ASSUME KeysHaveSlots
  PROVE  Spec /\ []KingsStand => UndoRestores
<1>1. Spec /\ []KingsStand => []BoardInv
  BY BoardStaysSound
<1>2. BoardInv /\ BoardInv' /\ [Next]_vars => [Ply' < Ply => cb' = past[Len(past)]]_vars
  BY StepRestores
<1> QED BY <1>1, <1>2, PTL DEF Spec, UndoRestores

\* The invariant says that the table counts the keys.
LEMMA InvCountsKeys ==
  ASSUME KeysHaveSlots, BoardInv
  PROVE  RepetitionsCounted
<1>1. TableCounts
  BY DEF BoardInv
<1>2. \A k \in PositionKeys : natural_slot(k) \in Slots
  BY DEF KeysHaveSlots
<1>3. CountsStack(cb.playedBoardStates, KeysOnBoard, PositionKeys)
  BY <1>1, <1>2, InvCounts DEF TableCounts
<1>7. ASSUME NEW key \in PositionKeys
      PROVE  get(cb.playedBoardStates, key) = IF Occurrences(KeysOnBoard, key) = 0 THEN NO_VALUE
                                                 ELSE Occurrences(KeysOnBoard, key)
  BY <1>3 DEF CountsStack
<1>8. /\ IsSequence(cb.history) /\ Ply \in Nat /\ Len(KeysOnBoard) = Ply + 1
      /\ KeysOnBoard \in Seq(PositionKeys)
  BY KeyIsMade, KeysOnType, <1>1, KeysOnBoardIs DEF Ply, TableCounts, StackInv, StackTyped
<1>9. \A i \in 1..(Ply + 1) : KeysOnBoard[i] \in PositionKeys
  <2> HIDE DEF KeysOnBoard
  <2> QED BY <1>8
<1>10. CountsStack(cb.playedBoardStates, KeysOnBoard, {KeysOnBoard[i] : i \in 1..(Ply + 1)})
  BY <1>7, <1>9 DEF CountsStack
<1>11. ASSUME NEW i \in Slots, cb.playedBoardStates[i].count > 0
       PROVE  \E j \in 1..(Ply + 1) : KeysOnBoard[j] = cb.playedBoardStates[i].key
  BY <1>11, <1>1, <1>2, UsedOnStack, <1>8 DEF Used, TableCounts
<1> QED BY <1>10, <1>11 DEF RepetitionsCounted

\* While no legal move captures a king, playedBoardStates counts every key of the
\* way down as often as it occurs, and no other key.
THEOREM RepetitionsAreCounted ==
  ASSUME KeysHaveSlots
  PROVE  Spec /\ []KingsStand => []RepetitionsCounted
<1>1. Spec /\ []KingsStand => []BoardInv
  BY BoardStaysSound
<1>2. BoardInv => RepetitionsCounted
  BY InvCountsKeys
<1> QED BY <1>1, <1>2, PTL

(***************************************************************************)
(* The keys fit the position.                                              *)
(***************************************************************************)
KeyNo(s, c, p) == 14 * s + 7 * c + p

\* no two men have the same random number
LEMMA KeyNosDiffer ==
  ASSUME NEW s \in Squares, NEW t \in Squares, NEW c \in Colors, NEW d \in Colors,
         NEW p \in PieceTypes, NEW q \in PieceTypes, KeyNo(s, c, p) = KeyNo(t, d, q)
  PROVE  s = t /\ c = d /\ p = q
  BY DEF KeyNo, Squares, Colors, PieceTypes, WHITE, BLACK, PAWN, NIGHT, BISHOP, ROOK, QUEEN, KING

\* What numbers the key of a set of pieces holds.
LEMMA InXor ==
  ASSUME NEW pieces \in Men, NEW types, types \subseteq PieceTypes
  PROVE  /\ \A k \in XorOfPieces(pieces, types) :
              \E c \in Colors, p \in types, s \in Squares : k = KeyNo(s, c, p)
         /\ \A c \in Colors, p \in PieceTypes, s \in Squares :
              KeyNo(s, c, p) \in XorOfPieces(pieces, types) <=> p \in types /\ s \in pieces[c][p]
<1>1. ASSUME NEW k \in XorOfPieces(pieces, types)
      PROVE  \E c \in Colors, p \in types : \E s \in pieces[c][p] : k = KeyNo(s, c, p)
  <2>1. PICK c \in Colors, p \in types : k \in {14 * s + 7 * c + p : s \in pieces[c][p]}
    BY <1>1 DEF XorOfPieces
  <2>2. PICK s \in pieces[c][p] : k = 14 * s + 7 * c + p
    BY <2>1
  <2> QED BY <2>2 DEF KeyNo
<1>2. \A c \in Colors, p \in PieceTypes : pieces[c][p] \subseteq Squares
  BY DEF Men
<1>3. ASSUME NEW c \in Colors, NEW p \in PieceTypes, NEW s \in Squares, KeyNo(s, c, p) \in XorOfPieces(pieces, types)
      PROVE  p \in types /\ s \in pieces[c][p]
  <2>1. PICK d \in Colors, q \in types : \E t \in pieces[d][q] : KeyNo(s, c, p) = KeyNo(t, d, q)
    BY <1>1, <1>3
  <2>2. PICK t \in pieces[d][q] : KeyNo(s, c, p) = KeyNo(t, d, q)
    BY <2>1
  <2>3. t \in Squares /\ q \in PieceTypes
    BY <1>2
  <2> QED BY <2>2, <2>3, KeyNosDiffer
<1>4. ASSUME NEW c \in Colors, NEW p \in types, NEW s \in pieces[c][p]
      PROVE  KeyNo(s, c, p) \in XorOfPieces(pieces, types)
  <2>1. KeyNo(s, c, p) \in {14 * t + 7 * c + p : t \in pieces[c][p]}
    BY DEF KeyNo
  <2>2. PICK row : row = {14 * t + 7 * c + p : t \in pieces[c][p]}
    OBVIOUS
  <2> DEFINE rows == {{14 * t + 7 * d + q : t \in pieces[d][q]} : d \in Colors, q \in types}
  <2>4. row \in rows
    BY <2>2
  <2>5. XorOfPieces(pieces, types) = UNION rows
    BY DEF XorOfPieces
  <2>6. KeyNo(s, c, p) \in row
    BY <2>1, <2>2
  <2> HIDE DEF rows
  <2> QED BY ONLY <2>4, <2>5, <2>6
<1>5. ASSUME NEW k \in XorOfPieces(pieces, types)
      PROVE  \E c \in Colors, p \in types, s \in Squares : k = KeyNo(s, c, p)
  BY <1>1, <1>2
<1> QED BY <1>3, <1>4, <1>5

\* The number of a man is in a change iff ...
LEMMA XorChanges ==
  ASSUME NEW before \in Men, NEW after \in Men, NEW types, types \subseteq PieceTypes,
         NEW change, \A k \in change : \E c \in Colors, p \in PieceTypes, s \in Squares : k = KeyNo(s, c, p),
         \A c \in Colors, p \in PieceTypes, s \in Squares :
           IF p \in types
           THEN KeyNo(s, c, p) \in change <=> ~(s \in after[c][p] <=> s \in before[c][p])
           ELSE KeyNo(s, c, p) \notin change
  PROVE  XorOfPieces(after, types) = XorOfPieces(before, types) (+) change
<1> DEFINE A == XorOfPieces(after, types)
           B == XorOfPieces(before, types)
<1>1. ASSUME NEW c \in Colors, NEW p \in PieceTypes, NEW s \in Squares
      PROVE  /\ KeyNo(s, c, p) \in A <=> p \in types /\ s \in after[c][p]
             /\ KeyNo(s, c, p) \in B <=> p \in types /\ s \in before[c][p]
  BY InXor
<1>2. ASSUME NEW k, k \in A \/ k \in B \/ k \in change
      PROVE  \E c \in Colors, p \in PieceTypes, s \in Squares : k = KeyNo(s, c, p)
  BY <1>2, InXor
<1> HIDE DEF A, B
<1>3. ASSUME NEW c \in Colors, NEW p \in PieceTypes, NEW s \in Squares
      PROVE  KeyNo(s, c, p) \in A <=> ~(KeyNo(s, c, p) \in B <=> KeyNo(s, c, p) \in change)
  BY <1>1
<1>4. ASSUME NEW k PROVE k \in A <=> ~(k \in B <=> k \in change)
  BY <1>2, <1>3
<1>5. A = B (+) change
  BY <1>4 DEF (+)
<1> QED BY <1>5 DEF A, B

\* the men that an ordinary move takes off or puts on the board
ManChanges(b, m, s, c, p) ==
  \/ s = m.from /\ c = b.colorToMove /\ p = m.source
  \/ s = m.to /\ c = b.colorToMove /\ p = Placed(m)
  \/ m.attacked # EMPTY /\ s = CaptureSquare(b, m) /\ c = Opponent(b.colorToMove) /\ p = m.attacked

\* The men of an ordinary move.
LEMMA OrdinaryMen ==
  ASSUME NEW b, Sound(b), NEW m, OrdinaryFacts(b, m)
  PROVE  /\ b.colorToMove \in Colors /\ Opponent(b.colorToMove) \in Colors /\ Opponent(b.colorToMove) # b.colorToMove
         /\ m.from \in Squares /\ m.to \in Squares /\ m.from # m.to
         /\ m.source \in PieceTypes /\ Placed(m) \in PieceTypes
         /\ m.from \in b.pieces[b.colorToMove][m.source]
         /\ \A p \in PieceTypes : m.to \notin b.pieces[b.colorToMove][p]
         /\ m.attacked # EMPTY => /\ m.attacked \in PieceTypes /\ CaptureSquare(b, m) \in Squares
                                  /\ CaptureSquare(b, m) \in b.pieces[Opponent(b.colorToMove)][m.attacked]
<1>1. PlacesTyped(b) /\ WhoIsWhere(b) /\ b.colorToMove \in Colors /\ b.pieces \in Men
  BY DEF Sound, Kept, PlacesTyped
<1>2. Opponent(b.colorToMove) \in Colors /\ Opponent(b.colorToMove) # b.colorToMove
  BY <1>1, ColorsTwo
<1>3. /\ m.from \in Squares /\ m.to \in Squares /\ m.from # m.to /\ m.source \in PieceTypes
      /\ m.from \in b.pieces[b.colorToMove][m.source]
      /\ m.to \notin b.friendlyPieces[b.colorToMove]
      /\ m.attacked # EMPTY => m.attacked \in PieceTypes /\ CaptureSquare(b, m) \in b.pieces[Opponent(b.colorToMove)][m.attacked]
  BY DEF OrdinaryFacts
<1>4. Placed(m) \in PieceTypes
  BY PlacedIs
<1>5. \A p \in PieceTypes : m.to \notin b.pieces[b.colorToMove][p]
  BY <1>1, <1>3 DEF WhoIsWhere
<1>6. m.attacked # EMPTY => CaptureSquare(b, m) \in Squares
  BY <1>1, <1>2, <1>3 DEF Men
<1> QED BY <1>1, <1>2, <1>3, <1>4, <1>5, <1>6

\* They are where the boards before and after the move differ.
LEMMA OrdinaryDiffers ==
  ASSUME NEW b, Sound(b), NEW m, OrdinaryFacts(b, m), NEW x, x = DoOrdinaryMove(b, m),
         NEW c \in Colors, NEW p \in PieceTypes, NEW s \in Squares
  PROVE  ManChanges(b, m, s, c, p) <=> ~(s \in x.pieces[c][p] <=> s \in b.pieces[c][p])
<1> DEFINE us == b.colorToMove
           them == Opponent(us)
           cs == CaptureSquare(b, m)
<1>1. /\ us \in Colors /\ them \in Colors /\ us # them
      /\ m.from \in Squares /\ m.to \in Squares /\ m.from # m.to
      /\ m.source \in PieceTypes /\ Placed(m) \in PieceTypes
      /\ m.from \in b.pieces[us][m.source]
      /\ \A q \in PieceTypes : m.to \notin b.pieces[us][q]
      /\ m.attacked # EMPTY => m.attacked \in PieceTypes /\ cs \in Squares /\ cs \in b.pieces[them][m.attacked]
  BY OrdinaryMen
<1>2. s \in x.pieces[c][p] <=>
           \/ c = us /\ s = m.to /\ Placed(m) = p
           \/ s \in b.pieces[c][p] /\ s # m.from /\ s \notin Captured(b, m)
  BY OrdinaryStands
<1>3. PlacesTyped(b) /\ WhoIsWhere(b)
  BY DEF Sound, Kept
<1>4. m.from \in b.pieces[c][p] => c = us /\ p = m.source
  BY <1>1, <1>3, FriendIs
<1>5. m.attacked # EMPTY /\ cs \in b.pieces[c][p] => c = them /\ p = m.attacked
  BY <1>1, <1>3, FriendIs
<1>6. c = us \/ c = them
  BY <1>1, ColorsTwo
<1>7. s \in Captured(b, m) <=> m.attacked # EMPTY /\ s = cs
  BY DEF Captured
<1>8. m.attacked # EMPTY => cs # m.from
  BY DEF OrdinaryFacts
<1>9. ManChanges(b, m, s, c, p) <=>
        \/ s = m.from /\ c = us /\ p = m.source
        \/ s = m.to /\ c = us /\ p = Placed(m)
        \/ m.attacked # EMPTY /\ s = cs /\ c = them /\ p = m.attacked
  BY Zenon DEF ManChanges
<1> HIDE DEF us, them, cs
<1> QED BY <1>1, <1>2, <1>4, <1>5, <1>6, <1>7, <1>8, <1>9

\* The key of one man.
LEMMA PieceKeyIs ==
  ASSUME NEW s, NEW c, NEW p
  PROVE  PieceKey(s, c, p) = {KeyNo(s, c, p)}
  BY DEF PieceKey, KeyNo

\* The move xors the numbers of those men into the key,
LEMMA PieceKeyChangeIs ==
  ASSUME NEW b, Sound(b), NEW m, OrdinaryFacts(b, m)
  PROVE  /\ \A k \in PieceKeyChange(b, m) : \E c \in Colors, p \in PieceTypes, s \in Squares : k = KeyNo(s, c, p)
         /\ \A c \in Colors, p \in PieceTypes, s \in Squares :
              KeyNo(s, c, p) \in PieceKeyChange(b, m) <=> ManChanges(b, m, s, c, p)
<1> DEFINE us == b.colorToMove
           them == Opponent(us)
           cs == CaptureSquare(b, m)
           K1 == KeyNo(m.from, us, m.source)
           K2 == KeyNo(m.to, us, Placed(m))
           K3 == KeyNo(cs, them, m.attacked)
<1>1. /\ us \in Colors /\ them \in Colors /\ us # them
      /\ m.from \in Squares /\ m.to \in Squares /\ m.from # m.to
      /\ m.source \in PieceTypes /\ Placed(m) \in PieceTypes
      /\ m.attacked # EMPTY => m.attacked \in PieceTypes /\ cs \in Squares
  BY OrdinaryMen
<1>2. PieceKeyChange(b, m) = {K1} (+) {K2} (+) (IF m.attacked = EMPTY THEN {} ELSE {K3})
  BY PieceKeyIs, Zenon DEF PieceKeyChange
<1> HIDE DEF us, them, cs
<1>3. K1 # K2 /\ (m.attacked # EMPTY => K3 # K1 /\ K3 # K2)
  BY <1>1, KeyNosDiffer
<1>4. ASSUME NEW c \in Colors, NEW p \in PieceTypes, NEW s \in Squares
      PROVE  /\ KeyNo(s, c, p) = K1 <=> s = m.from /\ c = us /\ p = m.source
             /\ KeyNo(s, c, p) = K2 <=> s = m.to /\ c = us /\ p = Placed(m)
             /\ m.attacked # EMPTY => (KeyNo(s, c, p) = K3 <=> s = cs /\ c = them /\ p = m.attacked)
  BY <1>1, KeyNosDiffer
<1>5. \E c \in Colors, p \in PieceTypes, s \in Squares : K1 = KeyNo(s, c, p)
  BY <1>1
<1>6. \E c \in Colors, p \in PieceTypes, s \in Squares : K2 = KeyNo(s, c, p)
  BY <1>1
<1>7. m.attacked # EMPTY => \E c \in Colors, p \in PieceTypes, s \in Squares : K3 = KeyNo(s, c, p)
  BY <1>1
<1> HIDE DEF K1, K2, K3
<1>8. \A k : k \in PieceKeyChange(b, m) <=> k = K1 \/ k = K2 \/ (m.attacked # EMPTY /\ k = K3)
  BY <1>2, <1>3 DEF (+)
<1>9. ASSUME NEW c \in Colors, NEW p \in PieceTypes, NEW s \in Squares
      PROVE  KeyNo(s, c, p) \in PieceKeyChange(b, m) <=> ManChanges(b, m, s, c, p)
  BY <1>4, <1>8 DEF ManChanges, us, them, cs
<1>10. ASSUME NEW k \in PieceKeyChange(b, m)
       PROVE  \E c \in Colors, p \in PieceTypes, s \in Squares : k = KeyNo(s, c, p)
  BY <1>5, <1>6, <1>7, <1>8
<1> QED BY <1>9, <1>10

\* and those of the pawns among them into the key of the pawns.
LEMMA PawnKeyChangeIs ==
  ASSUME NEW b, Sound(b), NEW m, OrdinaryFacts(b, m)
  PROVE  /\ \A k \in PawnKeyChange(b, m) : \E c \in Colors, p \in PieceTypes, s \in Squares : k = KeyNo(s, c, p)
         /\ \A c \in Colors, p \in PieceTypes, s \in Squares :
              KeyNo(s, c, p) \in PawnKeyChange(b, m) <=> p = PAWN /\ ManChanges(b, m, s, c, p)
<1> DEFINE us == b.colorToMove
           them == Opponent(us)
           cs == CaptureSquare(b, m)
           K1 == KeyNo(m.from, us, PAWN)
           K2 == KeyNo(m.to, us, PAWN)
           K3 == KeyNo(cs, them, PAWN)
           leaves == m.source = PAWN
           arrives == m.source = PAWN /\ ~is_promotion(m)
           taken == m.attacked = PAWN
<1>1. /\ us \in Colors /\ them \in Colors /\ us # them /\ PAWN \in PieceTypes
      /\ m.from \in Squares /\ m.to \in Squares /\ m.from # m.to
      /\ m.source \in PieceTypes /\ Placed(m) \in PieceTypes
      /\ taken => m.attacked # EMPTY /\ cs \in Squares
  BY OrdinaryMen, TypesDiffer
<1>2. PawnKeyChange(b, m) = (IF leaves THEN {K1} ELSE {}) (+) (IF arrives THEN {K2} ELSE {}) (+) (IF taken THEN {K3} ELSE {})
  BY PieceKeyIs, Zenon DEF PawnKeyChange
<1>a. arrives <=> Placed(m) = PAWN
  BY PlacedIs
<1> HIDE DEF us, them, cs
<1>3. K1 # K2 /\ (taken => K3 # K1 /\ K3 # K2)
  BY <1>1, KeyNosDiffer
<1>4. ASSUME NEW c \in Colors, NEW p \in PieceTypes, NEW s \in Squares
      PROVE  /\ KeyNo(s, c, p) = K1 <=> s = m.from /\ c = us /\ p = PAWN
             /\ KeyNo(s, c, p) = K2 <=> s = m.to /\ c = us /\ p = PAWN
             /\ taken => (KeyNo(s, c, p) = K3 <=> s = cs /\ c = them /\ p = PAWN)
  BY <1>1, KeyNosDiffer
<1>5. \E c \in Colors, p \in PieceTypes, s \in Squares : K1 = KeyNo(s, c, p)
  BY <1>1
<1>6. \E c \in Colors, p \in PieceTypes, s \in Squares : K2 = KeyNo(s, c, p)
  BY <1>1
<1>7. taken => \E c \in Colors, p \in PieceTypes, s \in Squares : K3 = KeyNo(s, c, p)
  BY <1>1
<1> HIDE DEF K1, K2, K3, arrives
<1>8. \A k : k \in PawnKeyChange(b, m) <=> (leaves /\ k = K1) \/ (arrives /\ k = K2) \/ (taken /\ k = K3)
  BY <1>2, <1>3 DEF (+)
<1>9. ASSUME NEW c \in Colors, NEW p \in PieceTypes, NEW s \in Squares
      PROVE  KeyNo(s, c, p) \in PawnKeyChange(b, m) <=> p = PAWN /\ ManChanges(b, m, s, c, p)
  BY <1>1, <1>a, <1>4, <1>8 DEF ManChanges, us, them, cs
<1>10. ASSUME NEW k \in PawnKeyChange(b, m)
       PROVE  \E c \in Colors, p \in PieceTypes, s \in Squares : k = KeyNo(s, c, p)
  BY <1>5, <1>6, <1>7, <1>8
<1> QED BY <1>9, <1>10

\* what the numbers of a move, or of a null move, do to a key
LEMMA XorMove ==
  ASSUME NEW X, NEW d, NEW ep, NEW ep2, NEW side, NEW side2, NEW r, NEW r2, NEW key,
         key = X (+) ep (+) side (+) r,
         side2 = side (+) SideKey
  PROVE  key (+) d (+) SideKey (+) ep (+) ep2 (+) r (+) r2 = (X (+) d) (+) ep2 (+) side2 (+) r2
  BY DEF (+)

\* The parts of a key that a null move changes.
LEMMA XorNull ==
  ASSUME NEW X, NEW ep, NEW side, NEW side2, NEW r, NEW key,
         key = X (+) ep (+) side (+) r,
         side2 = side (+) SideKey
  PROVE  key (+) SideKey (+) ep = X (+) {} (+) side2 (+) r
  BY DEF (+)

SidePart(c) == IF c = WHITE THEN SideKey ELSE {}

\* The part of the side to move changes with it.
LEMMA SidePartIs ==
  ASSUME NEW c \in Colors
  PROVE  SidePart(Opponent(c)) = SidePart(c) (+) SideKey
<1>1. SideKey (+) SideKey = {} /\ {} (+) SideKey = SideKey
  BY DEF (+)
<1>2. (c = WHITE /\ Opponent(c) # WHITE) \/ (c # WHITE /\ Opponent(c) = WHITE)
  BY DEF Colors, Opponent, WHITE, BLACK
<1> QED BY <1>1, <1>2 DEF SidePart

\* The keys as xors of their parts.
LEMMA KeysFitIs ==
  ASSUME NEW b
  PROVE  KeysFit(b) <=>
           /\ b.zobristKey = XorOfPieces(b.pieces, PieceTypes) (+) EpKey(b.epIndex)
                               (+) SidePart(b.colorToMove) (+) CastlingKey(b.castlingRights)
           /\ b.pawnZobristKey = XorOfPieces(b.pieces, {PAWN})
  BY Zenon DEF KeysFit, SidePart

\* The men that the move changes change the xor of the pieces.
LEMMA OrdinaryXor ==
  ASSUME NEW b, Sound(b), NEW m, OrdinaryFacts(b, m), OrdinaryFits(b, m), NEW x, x = DoOrdinaryMove(b, m)
  PROVE  /\ XorOfPieces(x.pieces, PieceTypes) = XorOfPieces(b.pieces, PieceTypes) (+) PieceKeyChange(b, m)
         /\ XorOfPieces(x.pieces, {PAWN}) = XorOfPieces(b.pieces, {PAWN}) (+) PawnKeyChange(b, m)
<1>1. b.pieces \in Men /\ x.pieces \in Men
  <2>1. Sound(x)
    BY OrdinarySound
  <2> QED BY <2>1 DEF Sound, Kept, PlacesTyped
<1>2. \A c \in Colors, p \in PieceTypes, s \in Squares :
        ManChanges(b, m, s, c, p) <=> ~(s \in x.pieces[c][p] <=> s \in b.pieces[c][p])
  BY OrdinaryDiffers
<1>3. XorOfPieces(x.pieces, PieceTypes) = XorOfPieces(b.pieces, PieceTypes) (+) PieceKeyChange(b, m)
  BY PieceKeyChangeIs, <1>2, <1>1, XorChanges
<1>4. XorOfPieces(x.pieces, {PAWN}) = XorOfPieces(b.pieces, {PAWN}) (+) PawnKeyChange(b, m)
  BY PawnKeyChangeIs, <1>2, TypesDiffer, <1>1, XorChanges
<1> QED BY <1>3, <1>4

\* The keys fit after an ordinary move,
LEMMA OrdinaryKeysFit ==
  ASSUME NEW b, Sound(b), KeysFit(b), NEW m, OrdinaryFacts(b, m), OrdinaryFits(b, m), NEW x, x = DoOrdinaryMove(b, m)
  PROVE  KeysFit(x)
<1>1. OrdinaryResult(b, m, x) /\ b.colorToMove \in Colors
  BY OrdinarySays
<1>2. /\ x.zobristKey = OrdinaryKey(b, m) /\ x.pawnZobristKey = b.pawnZobristKey (+) PawnKeyChange(b, m)
      /\ x.epIndex = EpAfter(b, m) /\ x.castlingRights = RightsAfter(b, m)
      /\ x.colorToMove = Opponent(b.colorToMove)
  BY <1>1, Zenon DEF OrdinaryResult
<1>3. /\ b.zobristKey = XorOfPieces(b.pieces, PieceTypes) (+) EpKey(b.epIndex)
                               (+) SidePart(b.colorToMove) (+) CastlingKey(b.castlingRights)
      /\ b.pawnZobristKey = XorOfPieces(b.pieces, {PAWN})
  BY KeysFitIs
<1>4. SidePart(x.colorToMove) = SidePart(b.colorToMove) (+) SideKey
  BY <1>1, <1>2, SidePartIs
<1>5. OrdinaryKey(b, m) = b.zobristKey (+) PieceKeyChange(b, m) (+) SideKey
               (+) EpKey(b.epIndex) (+) EpKey(x.epIndex)
               (+) CastlingKey(b.castlingRights) (+) CastlingKey(x.castlingRights)
  BY <1>2, Zenon DEF OrdinaryKey
<1>6. /\ XorOfPieces(x.pieces, PieceTypes) = XorOfPieces(b.pieces, PieceTypes) (+) PieceKeyChange(b, m)
      /\ XorOfPieces(x.pieces, {PAWN}) = XorOfPieces(b.pieces, {PAWN}) (+) PawnKeyChange(b, m)
  BY OrdinaryXor
<1>7. x.zobristKey = XorOfPieces(x.pieces, PieceTypes) (+) EpKey(x.epIndex)
                               (+) SidePart(x.colorToMove) (+) CastlingKey(x.castlingRights)
  BY <1>2, <1>3, <1>4, <1>5, <1>6, XorMove
<1>8. x.pawnZobristKey = XorOfPieces(x.pieces, {PAWN})
  BY <1>2, <1>3, <1>6
<1> QED BY <1>7, <1>8, KeysFitIs

\* after a null move,
LEMMA NullKeysFit ==
  ASSUME NEW b, Sound(b), b.pinnedPiecesDirty = FALSE, KeysFit(b), NEW x, x = doNullMove(b)
  PROVE  KeysFit(x)
<1>1. NullResult(b, x) /\ b.colorToMove \in Colors
  BY NullFields DEF Sound, Kept, PlacesTyped
<1>2. /\ x.zobristKey = b.zobristKey (+) SideKey (+) EpKey(b.epIndex)
      /\ x.epIndex = 0 /\ x.castlingRights = b.castlingRights
      /\ x.colorToMove = Opponent(b.colorToMove)
      /\ x.pieces = b.pieces /\ x.pawnZobristKey = b.pawnZobristKey
  BY <1>1, Zenon DEF NullResult, PlacesKept
<1>3. /\ b.zobristKey = XorOfPieces(b.pieces, PieceTypes) (+) EpKey(b.epIndex)
                               (+) SidePart(b.colorToMove) (+) CastlingKey(b.castlingRights)
      /\ b.pawnZobristKey = XorOfPieces(b.pieces, {PAWN})
  BY KeysFitIs
<1>4. SidePart(x.colorToMove) = SidePart(b.colorToMove) (+) SideKey
  BY <1>1, <1>2, SidePartIs
<1>5. EpKey(x.epIndex) = {}
  BY <1>2 DEF EpKey
<1>6. b.zobristKey (+) SideKey (+) EpKey(b.epIndex) =
        XorOfPieces(b.pieces, PieceTypes) (+) {} (+) SidePart(x.colorToMove) (+) CastlingKey(b.castlingRights)
  BY <1>3, <1>4, XorNull
<1>7. x.zobristKey = XorOfPieces(x.pieces, PieceTypes) (+) EpKey(x.epIndex)
                               (+) SidePart(x.colorToMove) (+) CastlingKey(x.castlingRights)
  BY <1>2, <1>5, <1>6
<1> QED BY <1>2, <1>3, <1>7, KeysFitIs

\* the numbers of the king and the rook that castle
CastlingChange(b, m) ==
  PieceKey(m.from, b.colorToMove, KING) (+) PieceKey(m.to, b.colorToMove, KING)
    (+) PieceKey(CastledSquares(b, m).rookFrom, b.colorToMove, ROOK)
    (+) PieceKey(CastledSquares(b, m).rookTo, b.colorToMove, ROOK)

\* The king and the rook that castle change the xor of the pieces.
LEMMA CastlingXor ==
  ASSUME NEW b, Sound(b), NEW m, CastlingFacts(b, m), NEW x, x = doCastling960(b, m)
  PROVE  /\ XorOfPieces(x.pieces, PieceTypes) = XorOfPieces(b.pieces, PieceTypes) (+) CastlingChange(b, m)
         /\ XorOfPieces(x.pieces, {PAWN}) = XorOfPieces(b.pieces, {PAWN})
<1> DEFINE us == b.colorToMove
           rf == CastledSquares(b, m).rookFrom
           rt == CastledSquares(b, m).rookTo
           K1 == KeyNo(m.from, us, KING)
           K2 == KeyNo(m.to, us, KING)
           K3 == KeyNo(rf, us, ROOK)
           K4 == KeyNo(rt, us, ROOK)
<1>1. b.pieces \in Men /\ x.pieces \in Men /\ us \in Colors
  <2>1. Sound(x)
    BY CastlingSound
  <2> QED BY <2>1 DEF Sound, Kept, PlacesTyped
<1>2. KING \in PieceTypes /\ ROOK \in PieceTypes /\ PAWN \in PieceTypes /\ KING # ROOK /\ PAWN # KING /\ PAWN # ROOK
  BY DEF PieceTypes, PAWN, NIGHT, BISHOP, ROOK, QUEEN, KING
<1>3. /\ m.from \in b.pieces[us][KING] /\ b.pieces[us][KING] = {m.from} /\ rf \in b.pieces[us][ROOK]
      /\ m.to \in Squares /\ rt \in Squares /\ m.to # rt
      /\ \A s \in {m.to, rt} : s \in b.allPieces => s \in {m.from, rf}
  BY Zenon DEF CastlingFacts
<1>4. m.from \in Squares /\ rf \in Squares
  BY <1>1, <1>2, <1>3 DEF Men
<1>5. PlacesTyped(b) /\ WhoIsWhere(b)
  BY DEF Sound, Kept
<1>6. \A c \in Colors, p \in PieceTypes, s \in Squares : s \in x.pieces[c][p] <=>
           \/ c = us /\ s = m.to /\ p = KING
           \/ c = us /\ s = rt /\ p = ROOK
           \/ s \in b.pieces[c][p] /\ s \notin {m.from, rf}
  BY CastlingStands DEF CastlingGone
<1> HIDE DEF us, rf, rt
<1>7. \A c \in Colors, p \in PieceTypes :
        /\ m.from \in b.pieces[c][p] => c = us /\ p = KING
        /\ rf \in b.pieces[c][p] => c = us /\ p = ROOK
  BY <1>1, <1>2, <1>3, <1>5, FriendIs
<1>8. \A s \in {m.to, rt} : \A c \in Colors, p \in PieceTypes : s \in b.pieces[c][p] => s \in {m.from, rf}
  BY <1>3, <1>5, FriendIs
<1>9. rf # m.from
  BY <1>1, <1>2, <1>3, <1>7
<1>10. CastlingChange(b, m) = {K1} (+) {K2} (+) {K3} (+) {K4}
  BY PieceKeyIs, Zenon DEF CastlingChange, us, rf, rt
<1>11. /\ K1 = K2 <=> m.from = m.to
       /\ K3 = K4 <=> rf = rt
       /\ K1 # K3 /\ K1 # K4 /\ K2 # K3 /\ K2 # K4
  BY <1>1, <1>2, <1>3, <1>4, KeyNosDiffer
<1>12. ASSUME NEW c \in Colors, NEW p \in PieceTypes, NEW s \in Squares
       PROVE  /\ KeyNo(s, c, p) = K1 <=> s = m.from /\ c = us /\ p = KING
              /\ KeyNo(s, c, p) = K2 <=> s = m.to /\ c = us /\ p = KING
              /\ KeyNo(s, c, p) = K3 <=> s = rf /\ c = us /\ p = ROOK
              /\ KeyNo(s, c, p) = K4 <=> s = rt /\ c = us /\ p = ROOK
  BY <1>1, <1>2, <1>3, <1>4, KeyNosDiffer
<1>13. \A k \in {K1, K2, K3, K4} : \E c \in Colors, p \in PieceTypes, s \in Squares : k = KeyNo(s, c, p)
  BY <1>1, <1>2, <1>3, <1>4
<1> HIDE DEF K1, K2, K3, K4
<1>14. \A k : k \in CastlingChange(b, m) <=> \/ k \in {K1, K2} /\ m.from # m.to
                                             \/ k \in {K3, K4} /\ rf # rt
  BY <1>10, <1>11 DEF (+)
<1>15. \A k \in CastlingChange(b, m) : \E c \in Colors, p \in PieceTypes, s \in Squares : k = KeyNo(s, c, p)
  BY <1>13, <1>14
<1>16. ASSUME NEW c \in Colors, NEW p \in PieceTypes, NEW s \in Squares
       PROVE  KeyNo(s, c, p) \in CastlingChange(b, m) <=> ~(s \in x.pieces[c][p] <=> s \in b.pieces[c][p])
  <2>1. KeyNo(s, c, p) \in CastlingChange(b, m) <=>
           \/ c = us /\ p = KING /\ s \in {m.from, m.to} /\ m.from # m.to
           \/ c = us /\ p = ROOK /\ s \in {rf, rt} /\ rf # rt
    BY <1>12, <1>14
  <2>2. s \in x.pieces[c][p] <=>
           \/ c = us /\ s = m.to /\ p = KING
           \/ c = us /\ s = rt /\ p = ROOK
           \/ s \in b.pieces[c][p] /\ s \notin {m.from, rf}
    BY <1>6
  <2>3. s \in {m.to, rt} /\ s \in b.pieces[c][p] => s \in {m.from, rf}
    BY <1>8
  <2>4. /\ s = m.from /\ s \in b.pieces[c][p] => c = us /\ p = KING
        /\ s = rf /\ s \in b.pieces[c][p] => c = us /\ p = ROOK
    BY <1>7
  <2>5. /\ s = m.from /\ c = us /\ p = KING => s \in b.pieces[c][p]
        /\ s = rf /\ c = us /\ p = ROOK => s \in b.pieces[c][p]
    BY <1>3
  <2> QED BY <1>2, <1>3, <1>9, <2>1, <2>2, <2>3, <2>4, <2>5
<1>17. XorOfPieces(x.pieces, PieceTypes) = XorOfPieces(b.pieces, PieceTypes) (+) CastlingChange(b, m)
  BY <1>1, <1>15, <1>16, XorChanges
<1>18. ASSUME NEW c \in Colors PROVE x.pieces[c][PAWN] = b.pieces[c][PAWN]
  <2>1. x.pieces[c][PAWN] \subseteq Squares /\ b.pieces[c][PAWN] \subseteq Squares
    BY <1>1, <1>2 DEF Men
  <2>2. \A s \in Squares : s \in x.pieces[c][PAWN] <=> s \in b.pieces[c][PAWN]
    BY <1>2, <1>6, <1>7
  <2> QED BY <2>1, <2>2
<1>19. XorOfPieces(x.pieces, {PAWN}) = XorOfPieces(b.pieces, {PAWN}) (+) {}
  BY <1>18, <1>2, <1>1, XorChanges
<1>20. XorOfPieces(b.pieces, {PAWN}) (+) {} = XorOfPieces(b.pieces, {PAWN})
  BY DEF (+)
<1> QED BY <1>17, <1>19, <1>20

\* after castling,
LEMMA CastlingKeysFit ==
  ASSUME NEW b, Sound(b), KeysFit(b), NEW m, CastlingFacts(b, m), NEW x, x = doCastling960(b, m)
  PROVE  KeysFit(x)
<1>1. CastlingResult(b, m, x) /\ b.colorToMove \in Colors
  BY CastlingSays
<1>2. /\ x.zobristKey = CastlingKeyAfter(b, m) /\ x.pawnZobristKey = b.pawnZobristKey
      /\ x.epIndex = 0 /\ x.castlingRights = getKingMovedCastlingRights(b.castlingRights, b.colorToMove)
      /\ x.colorToMove = Opponent(b.colorToMove)
  BY <1>1, Zenon DEF CastlingResult
<1>3. /\ b.zobristKey = XorOfPieces(b.pieces, PieceTypes) (+) EpKey(b.epIndex)
                               (+) SidePart(b.colorToMove) (+) CastlingKey(b.castlingRights)
      /\ b.pawnZobristKey = XorOfPieces(b.pieces, {PAWN})
  BY KeysFitIs
<1>4. SidePart(x.colorToMove) = SidePart(b.colorToMove) (+) SideKey
  BY <1>1, <1>2, SidePartIs
<1>5. CastlingKeyAfter(b, m) = b.zobristKey (+) CastlingChange(b, m) (+) SideKey (+) EpKey(b.epIndex) (+) EpKey(x.epIndex)
               (+) CastlingKey(b.castlingRights) (+) CastlingKey(x.castlingRights)
  <2> DEFINE P1 == PieceKey(m.from, b.colorToMove, KING)
             P2 == PieceKey(m.to, b.colorToMove, KING)
             P3 == PieceKey(CastledSquares(b, m).rookFrom, b.colorToMove, ROOK)
             P4 == PieceKey(CastledSquares(b, m).rookTo, b.colorToMove, ROOK)
             E1 == EpKey(b.epIndex)
             C1 == CastlingKey(b.castlingRights)
             C2 == CastlingKey(x.castlingRights)
  <2>1. CastlingKeyAfter(b, m) = b.zobristKey (+) P1 (+) P2 (+) P3 (+) P4 (+) E1 (+) SideKey (+) C1 (+) C2
    BY <1>2, Zenon DEF CastlingKeyAfter
  <2>2. CastlingChange(b, m) = P1 (+) P2 (+) P3 (+) P4
    BY Zenon DEF CastlingChange
  <2>3. EpKey(x.epIndex) = {}
    BY <1>2 DEF EpKey
  <2> HIDE DEF P1, P2, P3, P4, E1, C1, C2
  <2>4. \A k : k (+) P1 (+) P2 (+) P3 (+) P4 = k (+) (P1 (+) P2 (+) P3 (+) P4)
    BY DEF (+)
  <2>5. \A k : k (+) E1 (+) SideKey = k (+) SideKey (+) E1 (+) {}
    BY DEF (+)
  <2>6. CastlingKeyAfter(b, m) = b.zobristKey (+) CastlingChange(b, m) (+) SideKey (+) E1 (+) {} (+) C1 (+) C2
    BY <2>1, <2>2, <2>4, <2>5
  <2> QED BY <2>3, <2>6 DEF E1, C1, C2
<1>6. /\ XorOfPieces(x.pieces, PieceTypes) = XorOfPieces(b.pieces, PieceTypes) (+) CastlingChange(b, m)
      /\ XorOfPieces(x.pieces, {PAWN}) = XorOfPieces(b.pieces, {PAWN})
  BY CastlingXor
<1>7. x.zobristKey = XorOfPieces(x.pieces, PieceTypes) (+) EpKey(x.epIndex)
                               (+) SidePart(x.colorToMove) (+) CastlingKey(x.castlingRights)
  BY <1>2, <1>3, <1>4, <1>5, <1>6, XorMove
<1> QED BY <1>2, <1>3, <1>6, <1>7, KeysFitIs

\* and on a new board.
LEMMA NewKeysFit ==
  ASSUME NEW fen, NEW x, x = getNewCB(fen)
  PROVE  KeysFit(x)
<1>1. NewResult(fen, x)
  BY NewFields
<1>2. /\ x.zobristKey = NewBareKey(fen) (+) CastlingKey(fen.castlingRights)
      /\ x.pawnZobristKey = XorOfPieces(fen.pieces, {PAWN})
      /\ x.pieces = fen.pieces /\ x.epIndex = fen.epIndex /\ x.castlingRights = fen.castlingRights
      /\ x.colorToMove = fen.colorToMove
  BY <1>1, Zenon DEF NewResult
<1>3. NewBareKey(fen) = XorOfPieces(x.pieces, PieceTypes) (+) EpKey(x.epIndex) (+) SidePart(x.colorToMove)
  BY <1>2, Zenon DEF NewBareKey, SidePart
<1> QED BY <1>2, <1>3, KeysFitIs

(***************************************************************************)
(* The material counts fit the position.                                   *)
(***************************************************************************)
Put(P, c, p, S) == [d \in Colors |-> [q \in PieceTypes |-> IF d = c /\ q = p THEN S ELSE P[d][q]]]

HalfOfMen(P, c) == Popcounts(P, VALUES)[c] + Cardinality(P[c][PAWN])

\* The weights of the pieces in the counts.
LEMMA WeightsAre ==
  /\ VALUES[PAWN] = 1 /\ VALUES[NIGHT] = 16 /\ VALUES[BISHOP] = 128 /\ VALUES[ROOK] = 1024 /\ VALUES[QUEEN] = 8192
  /\ PHASE[PAWN] = 0 /\ PHASE[NIGHT] = 3 /\ PHASE[BISHOP] = 3 /\ PHASE[ROOK] = 5 /\ PHASE[QUEEN] = 9
  /\ PHASE[EMPTY] = 0
  /\ PieceTypes = {PAWN, NIGHT, BISHOP, ROOK, QUEEN, KING}
  /\ PAWN..QUEEN = {PAWN, NIGHT, BISHOP, ROOK, QUEEN}
<1>1. /\ VALUES[PAWN] = 1 /\ VALUES[NIGHT] = 16 /\ VALUES[BISHOP] = 128 /\ VALUES[ROOK] = 1024 /\ VALUES[QUEEN] = 8192
  BY DEF VALUES, PAWN, NIGHT, BISHOP, ROOK, QUEEN
<1>2. /\ PHASE[PAWN] = 0 /\ PHASE[NIGHT] = 3 /\ PHASE[BISHOP] = 3 /\ PHASE[ROOK] = 5 /\ PHASE[QUEEN] = 9 /\ PHASE[EMPTY] = 0
  BY DEF PHASE, EMPTY, PAWN, NIGHT, BISHOP, ROOK, QUEEN, KING
<1>3. PieceTypes = {PAWN, NIGHT, BISHOP, ROOK, QUEEN, KING}
  BY DEF PieceTypes, PAWN, NIGHT, BISHOP, ROOK, QUEEN, KING
<1>4. PAWN..QUEEN = {PAWN, NIGHT, BISHOP, ROOK, QUEEN}
  BY DEF PAWN, NIGHT, BISHOP, ROOK, QUEEN
<1> QED BY <1>1, <1>2, <1>3, <1>4

\* The counts as sums over the kinds of pieces.
LEMMA CountsOfMen ==
  ASSUME NEW P \in Men, NEW c \in Colors
  PROVE  /\ \A p \in PieceTypes : Cardinality(P[c][p]) \in Nat
         /\ HalfOfMen(P, c) = Cardinality(P[c][PAWN]) + 16 * Cardinality(P[c][NIGHT]) + 128 * Cardinality(P[c][BISHOP])
                                + 1024 * Cardinality(P[c][ROOK]) + 8192 * Cardinality(P[c][QUEEN])
         /\ Popcounts(P, PHASE)[c] = 3 * Cardinality(P[c][NIGHT]) + 3 * Cardinality(P[c][BISHOP])
                                + 5 * Cardinality(P[c][ROOK]) + 9 * Cardinality(P[c][QUEEN])
<1>1. \A p \in PieceTypes : Cardinality(P[c][p]) \in Nat
  BY CountsAre DEF Men
<1>2. Popcounts(P, VALUES)[c] = VALUES[NIGHT] * Cardinality(P[c][NIGHT]) + VALUES[BISHOP] * Cardinality(P[c][BISHOP])
                                + VALUES[ROOK] * Cardinality(P[c][ROOK]) + VALUES[QUEEN] * Cardinality(P[c][QUEEN])
  BY DEF Popcounts
<1>3. Popcounts(P, PHASE)[c] = PHASE[NIGHT] * Cardinality(P[c][NIGHT]) + PHASE[BISHOP] * Cardinality(P[c][BISHOP])
                                + PHASE[ROOK] * Cardinality(P[c][ROOK]) + PHASE[QUEEN] * Cardinality(P[c][QUEEN])
  BY DEF Popcounts
<1>4. Popcounts(P, VALUES)[c] = 16 * Cardinality(P[c][NIGHT]) + 128 * Cardinality(P[c][BISHOP])
                                + 1024 * Cardinality(P[c][ROOK]) + 8192 * Cardinality(P[c][QUEEN])
  BY <1>2, WeightsAre
<1>5. Popcounts(P, PHASE)[c] = 3 * Cardinality(P[c][NIGHT]) + 3 * Cardinality(P[c][BISHOP])
                                + 5 * Cardinality(P[c][ROOK]) + 9 * Cardinality(P[c][QUEEN])
  BY <1>3, WeightsAre
<1>6. PAWN \in PieceTypes /\ NIGHT \in PieceTypes /\ BISHOP \in PieceTypes /\ ROOK \in PieceTypes /\ QUEEN \in PieceTypes
  BY WeightsAre
<1>7. HalfOfMen(P, c) = Popcounts(P, VALUES)[c] + Cardinality(P[c][PAWN])
  BY DEF HalfOfMen
<1> QED BY <1>1, <1>4, <1>5, <1>6, <1>7

\* The material key as an addition to the empty one.
LEMMA MaterialKeyFrom ==
  ASSUME NEW P \in Men
  PROVE  /\ calculateMaterialKey(P) = Added(NO_MATERIAL, HalfOfMen(P, WHITE), HalfOfMen(P, BLACK))
         /\ HalfOfMen(P, WHITE) \in Int /\ HalfOfMen(P, BLACK) \in Int
         /\ calculateMaterialKey(P) \in MaterialKeys
         /\ NO_MATERIAL \in MaterialKeys
<1>1. WHITE \in Colors /\ BLACK \in Colors
  BY ColorsTwo DEF Colors
<1>2. HalfOfMen(P, WHITE) \in Int /\ HalfOfMen(P, BLACK) \in Int
  <2>1. ASSUME NEW c \in Colors PROVE HalfOfMen(P, c) \in Int
    BY CountsOfMen, WeightsAre
  <2> QED BY <1>1, <2>1
<1>3. calculateMaterialKey(P) = [low |-> HalfOfMen(P, WHITE) % HALF, high |-> (HalfOfMen(P, BLACK) + HalfOfMen(P, WHITE) \div HALF) % HALF]
  <2> DEFINE half == [c \in Colors |-> Popcounts(P, VALUES)[c] + Cardinality(P[c][PAWN])]
  <2>1. calculateMaterialKey(P) = [low |-> half[WHITE] % HALF, high |-> (half[BLACK] + half[WHITE] \div HALF) % HALF]
    BY Zenon DEF calculateMaterialKey
  <2>2. half[WHITE] = HalfOfMen(P, WHITE) /\ half[BLACK] = HalfOfMen(P, BLACK)
    BY <1>1 DEF HalfOfMen
  <2> HIDE DEF half
  <2> QED BY <2>1, <2>2
<1>4. Added(NO_MATERIAL, HalfOfMen(P, WHITE), HalfOfMen(P, BLACK)) =
        [low |-> HalfOfMen(P, WHITE) % HALF, high |-> (HalfOfMen(P, BLACK) + HalfOfMen(P, WHITE) \div HALF) % HALF]
  BY <1>2 DEF NO_MATERIAL, Added
<1>5. NO_MATERIAL \in MaterialKeys
  BY DEF NO_MATERIAL, MaterialKeys, HALF
<1>6. calculateMaterialKey(P) \in MaterialKeys
  BY <1>2, <1>3, <1>4, <1>5, AddedTwice
<1> QED BY <1>2, <1>3, <1>4, <1>5, <1>6

\* Putting a set of squares in the place of another.
LEMMA PutIs ==
  ASSUME NEW P \in Men, NEW c \in Colors, NEW p \in PieceTypes, NEW S \in SUBSET Squares, NEW Q, Q = Put(P, c, p, S)
  PROVE  /\ Q \in Men /\ Q[c][p] = S
         /\ \A d \in Colors, q \in PieceTypes : d # c \/ q # p => Q[d][q] = P[d][q]
  BY DEF Put, Men

\* What it does to the sums,
LEMMA PutCounts ==
  ASSUME NEW P \in Men, NEW c \in Colors, NEW p \in PieceTypes, NEW S \in SUBSET Squares, NEW n \in Int,
         Cardinality(S) = Cardinality(P[c][p]) + n, NEW Q, Q = Put(P, c, p, S), NEW d \in Colors
  PROVE  /\ HalfOfMen(Q, d) = HalfOfMen(P, d) + (IF d = c /\ p # KING THEN n * VALUES[p] ELSE 0)
         /\ Popcounts(Q, PHASE)[d] = Popcounts(P, PHASE)[d] + (IF d = c /\ p # KING THEN n * PHASE[p] ELSE 0)
<1>1. /\ Q \in Men /\ Q[c][p] = S
      /\ \A e \in Colors, q \in PieceTypes : e # c \/ q # p => Q[e][q] = P[e][q]
  BY PutIs
<1>2. /\ \A q \in PieceTypes : Cardinality(P[d][q]) \in Nat
      /\ HalfOfMen(P, d) = Cardinality(P[d][PAWN]) + 16 * Cardinality(P[d][NIGHT]) + 128 * Cardinality(P[d][BISHOP])
                                + 1024 * Cardinality(P[d][ROOK]) + 8192 * Cardinality(P[d][QUEEN])
      /\ Popcounts(P, PHASE)[d] = 3 * Cardinality(P[d][NIGHT]) + 3 * Cardinality(P[d][BISHOP])
                                + 5 * Cardinality(P[d][ROOK]) + 9 * Cardinality(P[d][QUEEN])
  BY CountsOfMen
<1>3. /\ \A q \in PieceTypes : Cardinality(Q[d][q]) \in Nat
      /\ HalfOfMen(Q, d) = Cardinality(Q[d][PAWN]) + 16 * Cardinality(Q[d][NIGHT]) + 128 * Cardinality(Q[d][BISHOP])
                                + 1024 * Cardinality(Q[d][ROOK]) + 8192 * Cardinality(Q[d][QUEEN])
      /\ Popcounts(Q, PHASE)[d] = 3 * Cardinality(Q[d][NIGHT]) + 3 * Cardinality(Q[d][BISHOP])
                                + 5 * Cardinality(Q[d][ROOK]) + 9 * Cardinality(Q[d][QUEEN])
  BY <1>1, CountsOfMen
<1> DEFINE k(q) == Cardinality(P[d][q])
           l(q) == Cardinality(Q[d][q])
<1>4. \A q \in PieceTypes : l(q) = IF d = c /\ q = p THEN k(q) + n ELSE k(q)
  BY <1>1
<1>5. /\ PAWN \in PieceTypes /\ NIGHT \in PieceTypes /\ BISHOP \in PieceTypes /\ ROOK \in PieceTypes /\ QUEEN \in PieceTypes
      /\ PAWN = 1 /\ NIGHT = 2 /\ BISHOP = 3 /\ ROOK = 4 /\ QUEEN = 5 /\ KING = 6
      /\ p \in {1, 2, 3, 4, 5, 6}
  BY WeightsAre DEF PAWN, NIGHT, BISHOP, ROOK, QUEEN, KING
<1>6. /\ k(1) \in Nat /\ k(2) \in Nat /\ k(3) \in Nat /\ k(4) \in Nat /\ k(5) \in Nat
      /\ l(1) = (IF d = c /\ p = 1 THEN k(1) + n ELSE k(1))
      /\ l(2) = (IF d = c /\ p = 2 THEN k(2) + n ELSE k(2))
      /\ l(3) = (IF d = c /\ p = 3 THEN k(3) + n ELSE k(3))
      /\ l(4) = (IF d = c /\ p = 4 THEN k(4) + n ELSE k(4))
      /\ l(5) = (IF d = c /\ p = 5 THEN k(5) + n ELSE k(5))
  BY <1>2, <1>4, <1>5
<1>7. /\ VALUES[1] = 1 /\ VALUES[2] = 16 /\ VALUES[3] = 128 /\ VALUES[4] = 1024 /\ VALUES[5] = 8192
      /\ PHASE[1] = 0 /\ PHASE[2] = 3 /\ PHASE[3] = 3 /\ PHASE[4] = 5 /\ PHASE[5] = 9
  BY <1>5, WeightsAre
<1>8. /\ HalfOfMen(P, d) = k(1) + 16 * k(2) + 128 * k(3) + 1024 * k(4) + 8192 * k(5)
      /\ HalfOfMen(Q, d) = l(1) + 16 * l(2) + 128 * l(3) + 1024 * l(4) + 8192 * l(5)
      /\ Popcounts(P, PHASE)[d] = 3 * k(2) + 3 * k(3) + 5 * k(4) + 9 * k(5)
      /\ Popcounts(Q, PHASE)[d] = 3 * l(2) + 3 * l(3) + 5 * l(4) + 9 * l(5)
  BY <1>2, <1>3, <1>5
<1> HIDE DEF k, l
<1>9. CASE d # c \/ p = 6
  BY <1>5, <1>6, <1>8, <1>9
<1>10. CASE d = c /\ p = 1
  BY <1>5, <1>6, <1>7, <1>8, <1>10
<1>11. CASE d = c /\ p = 2
  BY <1>5, <1>6, <1>7, <1>8, <1>11
<1>12. CASE d = c /\ p = 3
  BY <1>5, <1>6, <1>7, <1>8, <1>12
<1>13. CASE d = c /\ p = 4
  BY <1>5, <1>6, <1>7, <1>8, <1>13
<1>14. CASE d = c /\ p = 5
  BY <1>5, <1>6, <1>7, <1>8, <1>14
<1> QED BY <1>5, <1>9, <1>10, <1>11, <1>12, <1>13, <1>14

\* and to the material key.
LEMMA PutMaterial ==
  ASSUME NEW P \in Men, NEW c \in Colors, NEW p \in PAWN..QUEEN, NEW S \in SUBSET Squares, NEW n \in Int,
         Cardinality(S) = Cardinality(P[c][p]) + n, NEW Q, Q = Put(P, c, p, S)
  PROVE  /\ Q \in Men
         /\ calculateMaterialKey(Q) = AddMaterial(calculateMaterialKey(P), c, p, n)
         /\ \A d \in Colors : Popcounts(Q, PHASE)[d] = Popcounts(P, PHASE)[d] + (IF d = c THEN n * PHASE[p] ELSE 0)
<1>1. p \in PieceTypes /\ p # KING
  BY WeightsAre DEF PAWN, NIGHT, BISHOP, ROOK, QUEEN, KING
<1>2. Q \in Men
  BY <1>1, PutIs
<1>3. \A d \in Colors : Popcounts(Q, PHASE)[d] = Popcounts(P, PHASE)[d] + (IF d = c THEN n * PHASE[p] ELSE 0)
  BY <1>1, PutCounts
<1>4. \A d \in Colors : HalfOfMen(Q, d) = HalfOfMen(P, d) + Delta(c, p, n, d)
  BY <1>1, PutCounts DEF Delta
<1>5. WHITE \in Colors /\ BLACK \in Colors
  BY ColorsTwo
<1>6. /\ calculateMaterialKey(P) = Added(NO_MATERIAL, HalfOfMen(P, WHITE), HalfOfMen(P, BLACK))
      /\ HalfOfMen(P, WHITE) \in Int /\ HalfOfMen(P, BLACK) \in Int
      /\ calculateMaterialKey(P) \in MaterialKeys
      /\ NO_MATERIAL \in MaterialKeys
  BY MaterialKeyFrom
<1>7. /\ AddMaterial(calculateMaterialKey(P), c, p, n) = Added(calculateMaterialKey(P), Delta(c, p, n, WHITE), Delta(c, p, n, BLACK))
      /\ Delta(c, p, n, WHITE) \in Int /\ Delta(c, p, n, BLACK) \in Int
  BY <1>6, AddMaterialIs
<1>8. Added(calculateMaterialKey(P), Delta(c, p, n, WHITE), Delta(c, p, n, BLACK)) =
        Added(NO_MATERIAL, HalfOfMen(P, WHITE) + Delta(c, p, n, WHITE), HalfOfMen(P, BLACK) + Delta(c, p, n, BLACK))
  BY <1>6, <1>7, AddedTwice
<1>9. calculateMaterialKey(Q) = Added(NO_MATERIAL, HalfOfMen(Q, WHITE), HalfOfMen(Q, BLACK))
  BY <1>2, MaterialKeyFrom
<1>10. calculateMaterialKey(Q) = AddMaterial(calculateMaterialKey(P), c, p, n)
  BY <1>4, <1>5, <1>7, <1>8, <1>9
<1> QED BY <1>2, <1>3, <1>10

\* as many as before
LEMMA PutSame ==
  ASSUME NEW P \in Men, NEW c \in Colors, NEW p \in PieceTypes, NEW S \in SUBSET Squares,
         Cardinality(S) = Cardinality(P[c][p]), NEW Q, Q = Put(P, c, p, S)
  PROVE  /\ Q \in Men
         /\ calculateMaterialKey(Q) = calculateMaterialKey(P)
         /\ \A d \in Colors : Popcounts(Q, PHASE)[d] = Popcounts(P, PHASE)[d]
<1>1. Cardinality(S) = Cardinality(P[c][p]) + 0 /\ 0 \in Int
  BY CountsOfMen
<1>2. Q \in Men
  BY PutIs
<1>a. p # KING => VALUES[p] \in Int /\ PHASE[p] \in Int
  BY WeightsAre
<1>b. ASSUME NEW d \in Colors
      PROVE  HalfOfMen(P, d) \in Int /\ Popcounts(P, PHASE)[d] \in Int
  <2>1. HalfOfMen(P, d) \in Int
    <3>1. d = WHITE \/ d = BLACK
      BY ColorsTwo
    <3> QED BY <3>1, MaterialKeyFrom
  <2>2. Popcounts(P, PHASE)[d] \in Int
    BY NewMaterial
  <2> QED BY <2>1, <2>2
<1>3. \A d \in Colors : HalfOfMen(Q, d) = HalfOfMen(P, d) /\ Popcounts(Q, PHASE)[d] = Popcounts(P, PHASE)[d]
  <2> TAKE d \in Colors
  <2>1. /\ HalfOfMen(Q, d) = HalfOfMen(P, d) + (IF d = c /\ p # KING THEN 0 * VALUES[p] ELSE 0)
        /\ Popcounts(Q, PHASE)[d] = Popcounts(P, PHASE)[d] + (IF d = c /\ p # KING THEN 0 * PHASE[p] ELSE 0)
    BY <1>1, PutCounts
  <2>2. p # KING => 0 * VALUES[p] = 0 /\ 0 * PHASE[p] = 0
    BY <1>a
  <2> QED BY <1>b, <2>1, <2>2
<1>4. WHITE \in Colors /\ BLACK \in Colors
  BY ColorsTwo
<1>5. calculateMaterialKey(Q) = calculateMaterialKey(P)
  BY <1>2, <1>3, <1>4, MaterialKeyFrom
<1> QED BY <1>2, <1>3, <1>5

\* Counts of squares that a man leaves and comes to.
LEMMA SquaresMoved ==
  ASSUME NEW S \in SUBSET Squares, NEW from \in Squares, NEW to \in Squares
  PROVE  /\ from \in S => Cardinality(S \ {from}) = Cardinality(S) - 1
         /\ to \notin S => Cardinality(S \cup {to}) = Cardinality(S) + 1
         /\ from \in S /\ (to \notin S \/ to = from) => Cardinality((S \ {from}) \cup {to}) = Cardinality(S)
<1>1. IsFiniteSet(S) /\ Cardinality(S) \in Nat
  BY CountsAre
<1>2. from \in S => Cardinality(S \ {from}) = Cardinality(S) - 1
  BY <1>1, FS_RemoveElement
<1>3. to \notin S => Cardinality(S \cup {to}) = Cardinality(S) + 1
  BY <1>1, FS_AddElement
<1>4. ASSUME from \in S, to \notin S \/ to = from
      PROVE  Cardinality((S \ {from}) \cup {to}) = Cardinality(S)
  <2>1. IsFiniteSet(S \ {from}) /\ Cardinality(S \ {from}) = Cardinality(S) - 1
    BY <1>1, <1>4, FS_RemoveElement
  <2>2. to \notin S \ {from}
    BY <1>4
  <2>3. Cardinality((S \ {from}) \cup {to}) = Cardinality(S \ {from}) + 1
    BY <2>1, <2>2, FS_AddElement
  <2> QED BY <1>1, <2>1, <2>3
<1> QED BY <1>2, <1>3, <1>4

\* the men after an ordinary move before a captured one is taken away
Moved(b, m) ==
  LET us == b.colorToMove
  IN IF is_promotion(m)
     THEN Put(Put(b.pieces, us, m.type, b.pieces[us][m.type] \cup {m.to}), us, PAWN, b.pieces[us][PAWN] \ {m.from})
     ELSE Put(b.pieces, us, m.source, (b.pieces[us][m.source] \ {m.from}) \cup {m.to})

MovedKey(b, m, key) ==
  IF is_promotion(m)
  THEN AddMaterial(AddMaterial(key, b.colorToMove, m.type, 1), b.colorToMove, PAWN, -1)
  ELSE key

MovedFactor(b, m, d) == IF is_promotion(m) /\ d = b.colorToMove THEN PHASE[m.type] ELSE 0

MovedCounts(b, m, Q) ==
  /\ Q \in Men
  /\ calculateMaterialKey(Q) = MovedKey(b, m, calculateMaterialKey(b.pieces))
  /\ \A d \in Colors : Popcounts(Q, PHASE)[d] = Popcounts(b.pieces, PHASE)[d] + MovedFactor(b, m, d)
  /\ \A d \in Colors, q \in PieceTypes, s \in Squares :
       s \in Q[d][q] <=> \/ d = b.colorToMove /\ q = Placed(m) /\ s = m.to
                         \/ s \in b.pieces[d][q] /\ ~(d = b.colorToMove /\ q = m.source /\ s = m.from)

\* What the move does to the counts, but for a capture.
LEMMA MovedMaterial ==
  ASSUME NEW b, Sound(b), NEW m, OrdinaryFacts(b, m)
  PROVE  MovedCounts(b, m, Moved(b, m))
<1> DEFINE us == b.colorToMove
           P == b.pieces
<1>1. /\ us \in Colors /\ m.from \in Squares /\ m.to \in Squares /\ m.from # m.to
      /\ m.source \in PieceTypes /\ Placed(m) \in PieceTypes
      /\ m.from \in P[us][m.source] /\ \A p \in PieceTypes : m.to \notin P[us][p]
  BY OrdinaryMen
<1>2. P \in Men
  BY DEF Sound, Kept, PlacesTyped
<1>3. \A p \in PieceTypes : P[us][p] \in SUBSET Squares
  BY <1>1, <1>2 DEF Men
<1>4. \A d \in Colors : Popcounts(P, PHASE)[d] \in Int
  BY <1>2, NewMaterial
<1>5. CASE ~is_promotion(m)
  <2> DEFINE S == (P[us][m.source] \ {m.from}) \cup {m.to}
             Q == Put(P, us, m.source, S)
  <2>1. Moved(b, m) = Q
    BY <1>5, Zenon DEF Moved
  <2>2. S \in SUBSET Squares /\ Cardinality(S) = Cardinality(P[us][m.source])
    BY <1>1, <1>3, SquaresMoved
  <2> HIDE DEF S
  <2>3. /\ Q \in Men
        /\ calculateMaterialKey(Q) = calculateMaterialKey(P)
        /\ \A d \in Colors : Popcounts(Q, PHASE)[d] = Popcounts(P, PHASE)[d]
    BY <1>1, <1>2, <2>2, PutSame
  <2>4. /\ Q[us][m.source] = S
        /\ \A d \in Colors, q \in PieceTypes : d # us \/ q # m.source => Q[d][q] = P[d][q]
    BY <1>1, <1>2, <2>2, PutIs
  <2> HIDE DEF Q
  <2>5. Placed(m) = m.source
    BY <1>5, PlacedIs
  <2>6. \A d \in Colors, q \in PieceTypes, s \in Squares :
          s \in Q[d][q] <=> \/ d = us /\ q = Placed(m) /\ s = m.to
                            \/ s \in P[d][q] /\ ~(d = us /\ q = m.source /\ s = m.from)
    BY <1>1, <2>4, <2>5 DEF S
  <2>7. \A d \in Colors : Popcounts(Q, PHASE)[d] = Popcounts(P, PHASE)[d] + MovedFactor(b, m, d)
    BY <1>4, <1>5, <2>3 DEF MovedFactor
  <2>8. calculateMaterialKey(Q) = MovedKey(b, m, calculateMaterialKey(P))
    BY <1>5, <2>3 DEF MovedKey
  <2> QED BY <2>1, <2>3, <2>6, <2>7, <2>8 DEF MovedCounts
<1>6. CASE is_promotion(m)
  <2> DEFINE S == P[us][m.type] \cup {m.to}
             T == P[us][PAWN] \ {m.from}
             P1 == Put(P, us, m.type, S)
             Q == Put(P1, us, PAWN, T)
  <2>1. Moved(b, m) = Q
    BY <1>6, Zenon DEF Moved
  <2>2. Placed(m) = m.type /\ m.source = PAWN /\ m.type # PAWN /\ m.type # KING /\ m.type \in PieceTypes
    BY <1>6, PlacedIs
  <2>3. m.type \in PAWN..QUEEN /\ PAWN \in PAWN..QUEEN
    BY <2>2, WeightsAre
  <2>4. /\ S \in SUBSET Squares /\ Cardinality(S) = Cardinality(P[us][m.type]) + 1
        /\ T \in SUBSET Squares /\ Cardinality(T) = Cardinality(P[us][PAWN]) + -1
    <3>1. Cardinality(P[us][PAWN]) \in Nat
      BY <1>3, <2>2, <1>1, CountsAre
    <3>2. Cardinality(T) = Cardinality(P[us][PAWN]) - 1
      BY <1>1, <1>3, <2>2, SquaresMoved
    <3>3. S \in SUBSET Squares /\ T \in SUBSET Squares
      BY <1>1, <1>3, <2>2
    <3>4. Cardinality(S) = Cardinality(P[us][m.type]) + 1
      BY <1>1, <1>3, <2>2, SquaresMoved
    <3> HIDE DEF S, T
    <3> QED BY <3>1, <3>2, <3>3, <3>4
  <2> HIDE DEF S, T
  <2>5. /\ P1 \in Men
        /\ calculateMaterialKey(P1) = AddMaterial(calculateMaterialKey(P), us, m.type, 1)
        /\ \A d \in Colors : Popcounts(P1, PHASE)[d] = Popcounts(P, PHASE)[d] + (IF d = us THEN 1 * PHASE[m.type] ELSE 0)
    BY <1>1, <1>2, <2>3, <2>4, PutMaterial
  <2>6. /\ P1[us][m.type] = S
        /\ \A d \in Colors, q \in PieceTypes : d # us \/ q # m.type => P1[d][q] = P[d][q]
    BY <1>1, <1>2, <2>2, <2>4, PutIs
  <2> HIDE DEF P1
  <2>7. PAWN \in PieceTypes /\ P1[us][PAWN] = P[us][PAWN]
    BY <1>1, <2>2, <2>6
  <2>8. /\ Q \in Men
        /\ calculateMaterialKey(Q) = AddMaterial(calculateMaterialKey(P1), us, PAWN, -1)
        /\ \A d \in Colors : Popcounts(Q, PHASE)[d] = Popcounts(P1, PHASE)[d] + (IF d = us THEN (-1) * PHASE[PAWN] ELSE 0)
    BY <2>4, <2>7, <1>1, <2>3, <2>5, PutMaterial
  <2>9. /\ Q[us][PAWN] = T
        /\ \A d \in Colors, q \in PieceTypes : d # us \/ q # PAWN => Q[d][q] = P1[d][q]
    BY <1>1, <2>4, <2>5, <2>7, PutIs
  <2> HIDE DEF Q
  <2>10. \A d \in Colors, q \in PieceTypes, s \in Squares :
          s \in Q[d][q] <=> \/ d = us /\ q = Placed(m) /\ s = m.to
                            \/ s \in P[d][q] /\ ~(d = us /\ q = m.source /\ s = m.from)
    BY <1>1, <2>2, <2>6, <2>9 DEF S, T
  <2>11. \A d \in Colors : Popcounts(Q, PHASE)[d] = Popcounts(P, PHASE)[d] + MovedFactor(b, m, d)
    BY <2>3, WeightsAre, <1>4, <1>6, <2>5, <2>8 DEF MovedFactor
  <2>12. calculateMaterialKey(Q) = MovedKey(b, m, calculateMaterialKey(P))
    BY <1>6, <2>5, <2>8 DEF MovedKey
  <2> QED BY <2>1, <2>8, <2>10, <2>11, <2>12 DEF MovedCounts
<1> QED BY <1>5, <1>6

\* Men on the same squares are the same men.
LEMMA SameMen ==
  ASSUME NEW P \in Men, NEW Q \in Men,
         \A d \in Colors, q \in PieceTypes, s \in Squares : s \in P[d][q] <=> s \in Q[d][q]
  PROVE  P = Q
<1>1. ASSUME NEW d \in Colors, NEW q \in PieceTypes PROVE P[d][q] = Q[d][q]
  BY DEF Men
<1>2. ASSUME NEW d \in Colors PROVE P[d] = Q[d]
  BY <1>1 DEF Men
<1> QED BY <1>2 DEF Men

\* The material counts fit after an ordinary move,
LEMMA OrdinaryMaterialFits ==
  ASSUME NEW b, Sound(b), MaterialFits(b), NEW m, OrdinaryFacts(b, m), OrdinaryFits(b, m), NEW x, x = DoOrdinaryMove(b, m)
  PROVE  MaterialFits(x)
<1> DEFINE us == b.colorToMove
           them == Opponent(us)
           cs == CaptureSquare(b, m)
           Q == Moved(b, m)
           S == Q[them][m.attacked] \ {cs}
<1>1. OrdinaryResult(b, m, x) /\ us \in Colors
  BY OrdinarySays
<1>2. x.materialKey = MaterialAfter(b, m) /\ x.material_factor = FactorAfter(b, m)
  BY <1>1, Zenon DEF OrdinaryResult
<1>3. b.materialKey = calculateMaterialKey(b.pieces) /\ b.material_factor = Popcounts(b.pieces, PHASE)
  BY DEF MaterialFits
<1>4. /\ us \in Colors /\ them \in Colors /\ us # them
      /\ m.from \in Squares /\ m.to \in Squares /\ m.from # m.to
      /\ m.source \in PieceTypes /\ Placed(m) \in PieceTypes
      /\ m.from \in b.pieces[us][m.source]
      /\ m.attacked # EMPTY => m.attacked \in PieceTypes /\ cs \in Squares /\ cs \in b.pieces[them][m.attacked]
  BY OrdinaryMen
<1>5. /\ Q \in Men
      /\ calculateMaterialKey(Q) = MovedKey(b, m, b.materialKey)
      /\ \A d \in Colors : Popcounts(Q, PHASE)[d] = b.material_factor[d] + MovedFactor(b, m, d)
      /\ \A d \in Colors, q \in PieceTypes, s \in Squares :
           s \in Q[d][q] <=> \/ d = us /\ q = Placed(m) /\ s = m.to
                             \/ s \in b.pieces[d][q] /\ ~(d = us /\ q = m.source /\ s = m.from)
  <2>1. MovedCounts(b, m, Q)
    BY MovedMaterial
  <2> HIDE DEF Q
  <2> QED BY <1>3, <2>1 DEF MovedCounts
<1>6. x.pieces \in Men /\ b.pieces \in Men
  <2>1. Sound(x)
    BY OrdinarySound
  <2> QED BY <2>1 DEF Sound, Kept, PlacesTyped
<1>7. \A c \in Colors, p \in PieceTypes, s \in Squares :
        s \in x.pieces[c][p] <=>
           \/ c = us /\ s = m.to /\ Placed(m) = p
           \/ s \in b.pieces[c][p] /\ s # m.from /\ s \notin Captured(b, m)
  BY OrdinaryStands
<1>8. MaterialAfter(b, m) = IF m.attacked = EMPTY THEN MovedKey(b, m, b.materialKey)
                            ELSE AddMaterial(MovedKey(b, m, b.materialKey), them, m.attacked, -1)
  BY Zenon DEF MaterialAfter, MovedKey
<1>9. b.material_factor \in [Colors -> Int]
  BY DEF Sound, Kept
<1>10. m.attacked \in EMPTY..QUEEN /\ (is_promotion(m) => m.type \in PieceTypes)
  BY DEF OrdinaryFacts
<1>11. FactorAfter(b, m) = [d \in Colors |-> IF d = us THEN b.material_factor[us] + (IF is_promotion(m) THEN PHASE[m.type] ELSE 0)
                                             ELSE b.material_factor[them] - PHASE[m.attacked]]
  <2>1. DOMAIN b.material_factor = Colors /\ \A d \in Colors : d = us \/ d = them
    BY <1>4, <1>9, ColorsTwo
  <2>2. FactorAfter(b, m) = [b.material_factor EXCEPT
          ![us] = @ + (IF is_promotion(m) THEN PHASE[m.type] ELSE 0), ![them] = @ - PHASE[m.attacked]]
    BY Zenon DEF FactorAfter
  <2> HIDE DEF us, them
  <2> QED BY <1>4, <1>9, <2>1, <2>2
<1>12. \A c \in Colors, p \in PieceTypes : m.from \in b.pieces[c][p] => c = us /\ p = m.source
  BY <1>4, FriendIs DEF Sound, Kept
<1>13. \A d \in Colors : d = us \/ d = them
  BY <1>4, ColorsTwo
<1> HIDE DEF Q
<1>14. CASE m.attacked = EMPTY
  <2>1. Captured(b, m) = {}
    BY <1>14 DEF Captured
  <2> HIDE DEF us, them
  <2>2. x.pieces = Q
    BY <1>4, <1>5, <1>7, <1>12, <2>1, <1>6, SameMen
  <2>3. \A d \in Colors : Popcounts(Q, PHASE)[d] = FactorAfter(b, m)[d]
    <3>1. MovedFactor(b, m, us) = (IF is_promotion(m) THEN PHASE[m.type] ELSE 0) /\ MovedFactor(b, m, them) = 0
      BY <1>4 DEF MovedFactor, us
    <3>2. PHASE[m.attacked] = 0
      BY <1>14, WeightsAre
    <3>3. b.material_factor[them] \in Int
      BY <1>4, <1>9
    <3>4. b.material_factor[them] + 0 = b.material_factor[them] - 0
      BY <3>3
    <3> QED BY <1>4, <1>5, <1>11, <1>13, <3>1, <3>2, <3>4
  <2>4. Popcounts(Q, PHASE) = FactorAfter(b, m)
    <3>1. Popcounts(Q, PHASE) = [d \in Colors |-> Popcounts(Q, PHASE)[d]]
      BY <1>5, NewMaterial
    <3>2. FactorAfter(b, m) = [d \in Colors |-> FactorAfter(b, m)[d]]
      BY <1>11
    <3>3. [d \in Colors |-> Popcounts(Q, PHASE)[d]] = [d \in Colors |-> FactorAfter(b, m)[d]]
      BY <2>3
    <3> QED BY ONLY <3>1, <3>2, <3>3
  <2> QED BY <1>2, <1>5, <1>8, <1>14, <2>2, <2>4 DEF MaterialFits
<1>15. CASE m.attacked # EMPTY
  <2>1. Captured(b, m) = {cs} /\ m.attacked \in PAWN..QUEEN /\ m.attacked \in PieceTypes
    BY <1>4, <1>10, <1>15 DEF Captured, EMPTY, PAWN, QUEEN
  <2>2. cs \in Q[them][m.attacked] /\ Q[them][m.attacked] \in SUBSET Squares
    <3> HIDE DEF us, them, cs
    <3> QED BY <1>4, <1>5, <1>15 DEF Men
  <2>3. S \in SUBSET Squares /\ Cardinality(S) = Cardinality(Q[them][m.attacked]) + -1
    <3>1. Cardinality(Q[them][m.attacked]) \in Nat
      BY <2>2, CountsAre
    <3>2. Cardinality(S) = Cardinality(Q[them][m.attacked]) - 1
      BY <1>4, <1>15, <2>2, SquaresMoved
    <3>3. S \in SUBSET Squares
      BY <2>2
    <3> HIDE DEF S
    <3> QED BY <3>1, <3>2, <3>3
  <2> DEFINE R1 == Put(Q, them, m.attacked, S)
  <2>4. /\ R1 \in Men
        /\ calculateMaterialKey(R1) = AddMaterial(calculateMaterialKey(Q), them, m.attacked, -1)
        /\ \A d \in Colors : Popcounts(R1, PHASE)[d] = Popcounts(Q, PHASE)[d] + (IF d = them THEN (-1) * PHASE[m.attacked] ELSE 0)
    <3> HIDE DEF S, them
    <3>1. -1 \in Int
      OBVIOUS
    <3> QED BY <1>4, <1>5, <2>1, <2>3, <3>1, PutMaterial
  <2>5. /\ R1[them][m.attacked] = S
        /\ \A d \in Colors, q \in PieceTypes : d # them \/ q # m.attacked => R1[d][q] = Q[d][q]
    <3> HIDE DEF S, them
    <3> QED BY <1>4, <1>5, <2>1, <2>3, PutIs
  <2> HIDE DEF R1
  <2>6. \A c \in Colors, p \in PieceTypes : cs \in b.pieces[c][p] => c = them /\ p = m.attacked
    BY <1>4, <1>15, FriendIs DEF Sound, Kept
  <2>7. cs # m.from
    BY <1>15 DEF OrdinaryFacts
  <2> HIDE DEF us, them, cs
  <2>8. x.pieces = R1
    <3>1. ASSUME NEW d \in Colors, NEW q \in PieceTypes, NEW s \in Squares
          PROVE  s \in x.pieces[d][q] <=> s \in R1[d][q]
      BY <2>5, <1>4, <1>5, <1>7, <1>12, <2>1, <2>6 DEF S
    <3> QED BY <1>6, <2>4, <3>1, SameMen
  <2>9. \A d \in Colors : Popcounts(R1, PHASE)[d] = FactorAfter(b, m)[d]
    <3>1. MovedFactor(b, m, us) = (IF is_promotion(m) THEN PHASE[m.type] ELSE 0) /\ MovedFactor(b, m, them) = 0
      BY <1>4 DEF MovedFactor, us
    <3>2. PHASE[m.attacked] \in Int
      BY <2>1, WeightsAre
    <3>3. b.material_factor[them] \in Int /\ b.material_factor[us] \in Int
      BY <1>4, <1>9
    <3>4. b.material_factor[them] + 0 + (-1) * PHASE[m.attacked] = b.material_factor[them] - PHASE[m.attacked]
      BY <3>2, <3>3
    <3>5. (IF is_promotion(m) THEN PHASE[m.type] ELSE 0) \in Int
      BY <1>10, WeightsAre DEF PHASE, PieceTypes, EMPTY, PAWN, KING
    <3>6. b.material_factor[us] + (IF is_promotion(m) THEN PHASE[m.type] ELSE 0) + 0 = b.material_factor[us] + (IF is_promotion(m) THEN PHASE[m.type] ELSE 0)
      BY <3>3, <3>5
    <3> QED BY <1>4, <1>5, <1>11, <1>13, <2>4, <3>1, <3>4, <3>6
  <2>10. Popcounts(R1, PHASE) = FactorAfter(b, m)
    <3>1. Popcounts(R1, PHASE) = [d \in Colors |-> Popcounts(R1, PHASE)[d]]
      BY <2>4, NewMaterial
    <3>2. FactorAfter(b, m) = [d \in Colors |-> FactorAfter(b, m)[d]]
      BY <1>11
    <3>3. [d \in Colors |-> Popcounts(R1, PHASE)[d]] = [d \in Colors |-> FactorAfter(b, m)[d]]
      BY <2>9
    <3> QED BY ONLY <3>1, <3>2, <3>3
  <2> QED BY <1>2, <1>5, <1>8, <1>15, <2>4, <2>8, <2>10 DEF MaterialFits
<1> QED BY <1>14, <1>15

\* and after castling.
LEMMA CastlingMaterialFits ==
  ASSUME NEW b, Sound(b), MaterialFits(b), NEW m, CastlingFacts(b, m), NEW x, x = doCastling960(b, m)
  PROVE  MaterialFits(x)
<1> DEFINE us == b.colorToMove
           P == b.pieces
           rf == CastledSquares(b, m).rookFrom
           rt == CastledSquares(b, m).rookTo
           K == (P[us][KING] \ {m.from}) \cup {m.to}
           P1 == Put(P, us, KING, K)
           T == (P[us][ROOK] \ {rf}) \cup {rt}
           Q == Put(P1, us, ROOK, T)
<1>1. CastlingResult(b, m, x) /\ us \in Colors
  BY CastlingSays
<1>2. x.materialKey = b.materialKey /\ x.material_factor = b.material_factor
  BY <1>1, Zenon DEF CastlingResult
<1>3. b.materialKey = calculateMaterialKey(P) /\ b.material_factor = Popcounts(P, PHASE)
  BY DEF MaterialFits
<1>4. /\ m.from \in P[us][KING] /\ P[us][KING] = {m.from} /\ rf \in P[us][ROOK]
      /\ m.to \in Squares /\ rt \in Squares /\ m.to # rt
      /\ \A s \in {m.to, rt} : s \in b.allPieces => s \in {m.from, rf}
  BY Zenon DEF CastlingFacts
<1>5. P \in Men /\ x.pieces \in Men /\ PlacesTyped(b) /\ WhoIsWhere(b)
  <2>1. Sound(x)
    BY CastlingSound
  <2> QED BY <2>1 DEF Sound, Kept, PlacesTyped
<1>6. KING \in PieceTypes /\ ROOK \in PieceTypes /\ KING # ROOK
  BY DEF PieceTypes, PAWN, NIGHT, BISHOP, ROOK, QUEEN, KING
<1>7. \A c \in Colors, p \in PieceTypes, s \in Squares : s \in x.pieces[c][p] <=>
           \/ c = us /\ s = m.to /\ p = KING
           \/ c = us /\ s = rt /\ p = ROOK
           \/ s \in P[c][p] /\ s \notin {m.from, rf}
  BY CastlingStands DEF CastlingGone
<1> HIDE DEF us, rf, rt
<1>8. P[us][KING] \in SUBSET Squares /\ P[us][ROOK] \in SUBSET Squares
  BY <1>1, <1>5, <1>6 DEF Men
<1>9. \A c \in Colors, p \in PieceTypes :
        /\ m.from \in P[c][p] => c = us /\ p = KING
        /\ rf \in P[c][p] => c = us /\ p = ROOK
  BY <1>1, <1>4, <1>5, <1>6, FriendIs
<1>10. \A s \in {m.to, rt} : \A c \in Colors, p \in PieceTypes : s \in P[c][p] => s \in {m.from, rf}
  BY <1>4, <1>5, FriendIs
<1>11. K \in SUBSET Squares /\ Cardinality(K) = Cardinality(P[us][KING])
  <2>1. m.to \notin P[us][KING] \/ m.to = m.from
    BY <1>4
  <2>2. m.from \in P[us][KING] /\ m.from \in Squares /\ m.to \in Squares
    BY <1>4, <1>8
  <2> QED BY <1>8, <2>1, <2>2, SquaresMoved
<1>12. T \in SUBSET Squares /\ Cardinality(T) = Cardinality(P[us][ROOK])
  <2>1. rt \notin P[us][ROOK] \/ rt = rf
    <3>1. ~(rt \in {m.from, rf}) \/ rt = m.from \/ rt = rf
      OBVIOUS
    <3>2. m.from \notin P[us][ROOK]
      BY <1>1, <1>6, <1>9
    <3>3. rt \in P[us][ROOK] => rt \in {m.from, rf}
      BY <1>1, <1>6, <1>10
    <3> HIDE DEF P
    <3> QED BY <3>1, <3>2, <3>3
  <2>2. rf \in Squares
    BY <1>4, <1>8
  <2>3. T \in SUBSET Squares
    BY <1>4, <1>8
  <2> DEFINE S == P[us][ROOK]
  <2>4. S \in SUBSET Squares /\ rf \in S /\ (rt \notin S \/ rt = rf) /\ rt \in Squares
    BY <1>4, <1>8, <2>1
  <2> HIDE DEF S
  <2>5. Cardinality((S \ {rf}) \cup {rt}) = Cardinality(S)
    BY <2>2, <2>4, SquaresMoved
  <2> QED BY ONLY <2>3, <2>5 DEF S, T
<1> HIDE DEF K, T
<1>13. /\ P1 \in Men /\ calculateMaterialKey(P1) = calculateMaterialKey(P)
       /\ \A d \in Colors : Popcounts(P1, PHASE)[d] = Popcounts(P, PHASE)[d]
  BY <1>1, <1>5, <1>6, <1>11, PutSame
<1>14. /\ P1[us][KING] = K
       /\ \A d \in Colors, q \in PieceTypes : d # us \/ q # KING => P1[d][q] = P[d][q]
  BY <1>1, <1>5, <1>6, <1>11, PutIs
<1> HIDE DEF P1
<1>15. P1[us][ROOK] = P[us][ROOK]
  BY <1>1, <1>6, <1>14
<1>16. /\ Q \in Men /\ calculateMaterialKey(Q) = calculateMaterialKey(P1)
       /\ \A d \in Colors : Popcounts(Q, PHASE)[d] = Popcounts(P1, PHASE)[d]
  BY <1>1, <1>6, <1>12, <1>13, <1>15, PutSame
<1>17. /\ Q[us][ROOK] = T
       /\ \A d \in Colors, q \in PieceTypes : d # us \/ q # ROOK => Q[d][q] = P1[d][q]
  BY <1>1, <1>6, <1>12, <1>13, PutIs
<1> HIDE DEF Q
<1>18. x.pieces = Q
  <2>1. ASSUME NEW c \in Colors, NEW p \in PieceTypes, NEW s \in Squares
        PROVE  s \in x.pieces[c][p] <=> s \in Q[c][p]
    <3>1. CASE c = us /\ p = KING
      BY <1>1, <1>6, <1>14, <1>17, <3>1, <1>9, <1>7 DEF K
    <3>2. CASE c = us /\ p = ROOK
      BY <1>17, <3>2, <1>1, <1>6, <1>9, <1>7 DEF T
    <3>3. CASE c # us \/ p \notin {KING, ROOK}
      BY <1>14, <1>17, <3>3, <1>9, <1>7
    <3> QED BY <3>1, <3>2, <3>3
  <2> QED BY <1>5, <1>16, <2>1, SameMen
<1>19. Popcounts(Q, PHASE) = Popcounts(P, PHASE)
  <2>1. Popcounts(Q, PHASE) = [d \in Colors |-> Popcounts(Q, PHASE)[d]]
    BY <1>16, NewMaterial
  <2>2. Popcounts(P, PHASE) = [d \in Colors |-> Popcounts(P, PHASE)[d]]
    BY <1>5, NewMaterial
  <2>3. [d \in Colors |-> Popcounts(Q, PHASE)[d]] = [d \in Colors |-> Popcounts(P, PHASE)[d]]
    BY <1>13, <1>16
  <2> QED BY ONLY <2>1, <2>2, <2>3
<1>20. calculateMaterialKey(x.pieces) = calculateMaterialKey(P) /\ Popcounts(x.pieces, PHASE) = Popcounts(P, PHASE)
  BY <1>13, <1>16, <1>18, <1>19
<1> QED BY <1>2, <1>3, <1>20 DEF MaterialFits

-----------------------------------------------------------------------------
(***************************************************************************)
(* The keys and the counts fit on every board of the way down.             *)
(***************************************************************************)

\* the keys and the counts fit the position
Fits(b) == KeysFit(b) /\ MaterialFits(b)

FitInv == BoardInv /\ Fits(cb) /\ \A i \in 1..Ply : Fits(past[i])

\* Pins do not enter the keys and the counts.
LEMMA FitsExceptPins ==
  ASSUME NEW b, Fits(b), NEW x, ExceptPins(x, b)
  PROVE  Fits(x)
<1>1. /\ x.pieces = b.pieces /\ x.epIndex = b.epIndex /\ x.colorToMove = b.colorToMove
      /\ x.castlingRights = b.castlingRights /\ x.zobristKey = b.zobristKey /\ x.pawnZobristKey = b.pawnZobristKey
      /\ x.materialKey = b.materialKey /\ x.material_factor = b.material_factor
  BY Zenon DEF ExceptPins
<1>2. KeysFit(b) /\ MaterialFits(b)
  BY Zenon DEF Fits
<1>3. KeysFit(x)
  BY <1>1, <1>2, KeysFitIs
<1>4. MaterialFits(x)
  BY <1>1, <1>2, Zenon DEF MaterialFits
<1> QED BY <1>3, <1>4, Zenon DEF Fits

\* They fit on a new board,
LEMMA NewFits ==
  ASSUME NEW fen, NEW x, x = getNewCB(fen)
  PROVE  Fits(x)
<1>1. NewResult(fen, x)
  BY NewFields
<1>2. MaterialFits(x)
  BY <1>1 DEF NewResult, MaterialFits
<1>3. KeysFit(x)
  BY NewKeysFit
<1> QED BY <1>2, <1>3, Zenon DEF Fits

\* and on the board that any move leads to.
LEMMA LeadsFits ==
  ASSUME NEW b, Sound(b), b.pinnedPiecesDirty = FALSE, Fits(b), NEW m, NEW z, Leads(b, m, z),
         ~is_castling(m) /\ m # NO_MOVE => OrdinaryFits(b, m)
  PROVE  Fits(z)
<1>0. KeysFit(b) /\ MaterialFits(b)
  BY Zenon DEF Fits
<1>1. CASE m = NO_MOVE
  <2>1. z = doNullMove(b)
    BY <1>1, MovesAreNot DEF Leads
  <2>2. KeysFit(z)
    BY <1>0, <2>1, NullKeysFit
  <2>3. NullResult(b, z)
    BY <2>1, NullFields DEF Sound, Kept
  <2>4. z.pieces = b.pieces /\ z.materialKey = b.materialKey /\ z.material_factor = b.material_factor
    BY <2>3, Zenon DEF NullResult, PlacesKept
  <2>5. MaterialFits(z)
    BY <1>0, <2>4, Zenon DEF MaterialFits
  <2> QED BY <2>2, <2>5, Zenon DEF Fits
<1>2. CASE ~is_castling(m) /\ m # NO_MOVE
  BY <1>2, <1>0, OrdinaryKeysFit, OrdinaryMaterialFits DEF Leads, Fits
<1>3. CASE is_castling(m) /\ m # NO_MOVE
  BY <1>3, <1>0, CastlingKeysFit, CastlingMaterialFits DEF Leads, Fits
<1> QED BY <1>1, <1>2, <1>3

\* A step down keeps them fitting on every board.
LEMMA DeepenFits ==
  ASSUME FitInv, BoardInv', NEW b, b = RefreshPins(cb), NEW m, Leads(b, m, cb'),
         ~is_castling(m) /\ m # NO_MOVE => OrdinaryFits(b, m), past' = Append(past, b)
  PROVE  FitInv'
<1>0. BoardInv /\ Fits(cb) /\ \A i \in 1..Ply : Fits(past[i])
  BY Zenon DEF FitInv
<1>1. Sound(b) /\ b.pinnedPiecesDirty = FALSE /\ ExceptPins(b, cb)
  BY <1>0, Refreshed
<1>2. Fits(b)
  BY <1>0, <1>1, FitsExceptPins
<1>3. Fits(cb')
  BY <1>1, <1>2, LeadsFits
<1>4. Ply \in Nat /\ IsSequence(past) /\ Len(past) = Ply /\ Len(past') = Ply'
  BY <1>0, KeyIsMade DEF BoardInv
<1>5. Ply' = Ply + 1 /\ past'[Ply + 1] = b /\ \A i \in 1..Ply : past'[i] = past[i]
  BY <1>4, AppendedBack
<1>6. \A i \in 1..Ply' : Fits(past'[i])
  <2> TAKE i \in 1..Ply'
  <2>1. i \in 1..Ply \/ i = Ply + 1
    BY <1>4, <1>5
  <2>2. CASE i \in 1..Ply
    BY <1>0, <1>5, <2>2
  <2>3. CASE i = Ply + 1
    BY <1>2, <1>5, <2>3
  <2> QED BY <2>1, <2>2, <2>3
<1>7. Fits(cb)'
  BY <1>3, Zenon DEF Fits, KeysFit, MaterialFits
<1>8. (\A i \in 1..Ply : Fits(past[i]))'
  BY <1>6, Zenon DEF Fits, KeysFit, MaterialFits
<1> QED BY <1>7, <1>8, Zenon DEF FitInv

\* So does every step.
LEMMA FitStep ==
  ASSUME KeysHaveSlots, FitInv, KingsStand, [Next]_vars
  PROVE  FitInv'
<1>0. BoardInv /\ Fits(cb) /\ \A i \in 1..Ply : Fits(past[i])
  BY Zenon DEF FitInv
<1>1. BoardInv'
  BY <1>0, StepKeeps
<1>2. PICK b : b = RefreshPins(cb)
  OBVIOUS
<1>3. Ply \in Nat /\ IsSequence(past) /\ Len(past) = Ply /\ Len(past') = Ply'
  BY <1>0, <1>1, KeyIsMade DEF BoardInv
<1>a. ASSUME Fits(cb'), \A i \in 1..Ply' : Fits(past'[i])
      PROVE  FitInv'
  BY <1>a, <1>1 DEF Fits, KeysFit, MaterialFits, FitInv
<1>4. CASE MakeMove
  <2>1. PICK m \in LegalMoves(cb) : Deepen(doMove(cb, m))
    BY <1>4 DEF MakeMove
  <2>2. MoveLeads(b, m, cb')
    BY <1>0, <1>2, <2>1, MadeMoveLeads
  <2> QED BY <1>1, <1>2, <2>1, <2>2, DeepenFits DEF Deepen, MoveLeads
<1>5. CASE MakeNull
  <2>1. cb.checkingPieces = {} /\ Deepen(doNullMove(cb))
    BY <1>5 DEF MakeNull
  <2>2. doNullMove(cb) = doNullMove(b)
    <3>1. RefreshPins(b) = b /\ b.zobristKey = cb.zobristKey /\ b.epIndex = cb.epIndex
      BY <1>0, <1>2, Refreshed
    <3> QED BY <1>2, <3>1, Zenon DEF doNullMove
  <2>3. Leads(b, NO_MOVE, cb')
    BY <2>1, <2>2 DEF Leads, Deepen
  <2> QED BY <1>1, <1>2, <2>1, <2>3, DeepenFits DEF Deepen
<1>6. CASE UnmakeMove \/ UnmakeNull
  <2>1. Ply > 0 /\ cb' = past[Ply] /\ past' = SubSeq(past, 1, Ply - 1)
    BY <1>0, <1>6, UnmakeGives
  <2>2. Fits(cb')
    BY <1>0, <1>3, <2>1
  <2>3. Ply' = Ply - 1 /\ \A i \in 1..(Ply - 1) : past'[i] = past[i]
    <3> DEFINE S == {past[i] : i \in DOMAIN past}
    <3>1. past \in Seq(S) /\ Len(past) = Ply /\ Ply - 1 \in Nat /\ Ply - 1 <= Len(past)
      BY <1>3, <2>1 DEF IsSequence
    <3> HIDE DEF S
    <3>2. Len(past') = Ply - 1 /\ \A i \in 1..(Ply - 1) : past'[i] = past[i]
      BY <2>1, <3>1
    <3> QED BY <1>3, <3>2
  <2>4. \A i \in 1..Ply' : Fits(past'[i])
    <3> TAKE i \in 1..Ply'
    <3>1. i \in 1..Ply /\ past'[i] = past[i]
      BY <1>3, <2>1, <2>3
    <3> QED BY <1>0, <3>1
  <2> QED BY <1>a, <2>2, <2>4
<1>7. CASE Refresh
  <2>1. cb' = b /\ past' = past /\ Ply' = Ply
    BY <1>0, <1>2, <1>7, RefreshStepKeeps DEF Refresh
  <2>2. ExceptPins(b, cb)
    BY <1>0, <1>2, Refreshed
  <2>3. Fits(cb')
    BY <1>0, <2>1, <2>2, FitsExceptPins
  <2>4. \A i \in 1..Ply' : Fits(past'[i])
    BY <1>0, <2>1
  <2> QED BY <1>a, <2>3, <2>4
<1>8. CASE UNCHANGED vars
  BY <1>0, <1>8, StutterKeeps, <1>a DEF vars
<1> QED BY <1>4, <1>5, <1>6, <1>7, <1>8 DEF Next

-----------------------------------------------------------------------------
(***************************************************************************)
(* The state is what a board set up anew would hold.                       *)
(***************************************************************************)

\* a board set up anew with the pieces of a board
Anew(b) ==
  [pieces |-> b.pieces, colorToMove |-> b.colorToMove,
   castlingRights |-> b.castlingRights, epIndex |-> b.epIndex, halfmoves |-> 0]

\* A new board with the pieces of a sound one has its views.
LEMMA NewViews ==
  ASSUME NEW b, Sound(b), NEW fen, fen.pieces = b.pieces
  PROVE  NewFriendly(fen) = b.friendlyPieces /\ NewIndexes(fen) = b.pieceIndexes /\ NewKings(fen) = b.kingIndex
<1>1. PlacesTyped(b) /\ WhoIsWhere(b) /\ KingsAre(b) /\ b.kingIndex \in [Colors -> Squares]
  BY Zenon DEF Sound, Kept
<1>2. /\ \A c \in Colors, p \in PieceTypes : b.pieces[c][p] \in SUBSET Squares
      /\ \A c \in Colors : b.friendlyPieces[c] \in SUBSET Squares
      /\ b.friendlyPieces = [c \in Colors |-> b.friendlyPieces[c]]
      /\ b.pieceIndexes = [s \in Squares |-> b.pieceIndexes[s]]
      /\ b.kingIndex = [c \in Colors |-> b.kingIndex[c]]
      /\ WHITE \in Colors /\ BLACK \in Colors /\ \A c \in Colors : c = WHITE \/ c = BLACK
  <2>1. \A c \in Colors, p \in PieceTypes : b.pieces[c][p] \in SUBSET Squares
    BY <1>1 DEF PlacesTyped, Men
  <2>2. /\ \A c \in Colors : b.friendlyPieces[c] \in SUBSET Squares
        /\ b.friendlyPieces = [c \in Colors |-> b.friendlyPieces[c]]
        /\ b.pieceIndexes = [s \in Squares |-> b.pieceIndexes[s]]
    BY <1>1 DEF PlacesTyped
  <2>3. b.kingIndex = [c \in Colors |-> b.kingIndex[c]]
    BY <1>1
  <2>4. WHITE \in Colors /\ BLACK \in Colors /\ \A c \in Colors : c = WHITE \/ c = BLACK
    BY DEF Colors, WHITE, BLACK
  <2> QED BY <2>1, <2>2, <2>3, <2>4
<1>3. NewFriendly(fen) = b.friendlyPieces
  <2>1. ASSUME NEW c \in Colors PROVE UNION {fen.pieces[c][p] : p \in PieceTypes} = b.friendlyPieces[c]
    BY <1>1, <1>2 DEF WhoIsWhere
  <2>2. [c \in Colors |-> UNION {fen.pieces[c][p] : p \in PieceTypes}] = [c \in Colors |-> b.friendlyPieces[c]]
    BY <2>1
  <2>3. NewFriendly(fen) = [c \in Colors |-> UNION {fen.pieces[c][p] : p \in PieceTypes}]
    BY Zenon DEF NewFriendly
  <2> QED BY ONLY <1>2, <2>2, <2>3
<1>4. b.allPieces = b.friendlyPieces[WHITE] \cup b.friendlyPieces[BLACK]
  BY <1>1 DEF WhoIsWhere
<1>5. NewIndexes(fen) = b.pieceIndexes
  <2> DEFINE at(s) == IF s \in NewFriendly(fen)[WHITE] \cup NewFriendly(fen)[BLACK]
                      THEN CHOOSE p \in PieceTypes : s \in fen.pieces[WHITE][p] \cup fen.pieces[BLACK][p] ELSE EMPTY
  <2>1. NewIndexes(fen) = [s \in Squares |-> at(s)]
    BY Zenon DEF NewIndexes
  <2>2. ASSUME NEW s \in Squares PROVE at(s) = b.pieceIndexes[s]
    <3>1. CASE s \notin b.allPieces
      BY <1>1, <1>3, <1>4, <3>1 DEF WhoIsWhere
    <3>2. CASE s \in b.allPieces
      <4>1. PICK c \in Colors, p \in PieceTypes : s \in b.pieces[c][p]
        BY <1>1, <1>2, <1>4, <3>2 DEF WhoIsWhere
      <4>2. \A q \in PieceTypes : s \in b.pieces[WHITE][q] \cup b.pieces[BLACK][q] <=> q = p
        BY <1>1, <4>1, <1>2 DEF WhoIsWhere, OnePieceEach
      <4>3. at(s) = p
        BY <1>3, <1>4, <3>2, <4>2
      <4>4. b.pieceIndexes[s] = p
        BY <1>1, <4>1 DEF WhoIsWhere
      <4> QED BY <4>3, <4>4
    <3> QED BY <3>1, <3>2
  <2> HIDE DEF at
  <2>3. [s \in Squares |-> at(s)] = [s \in Squares |-> b.pieceIndexes[s]]
    BY <2>2
  <2> QED BY ONLY <1>2, <2>1, <2>3
<1>6. NewKings(fen) = b.kingIndex
  <2>1. ASSUME NEW c \in Colors PROVE Least(fen.pieces[c][KING]) = b.kingIndex[c]
    BY <1>1, LeastOfOne DEF KingsAre
  <2>2. [c \in Colors |-> Least(fen.pieces[c][KING])] = [c \in Colors |-> b.kingIndex[c]]
    BY <2>1
  <2>3. NewKings(fen) = [c \in Colors |-> Least(fen.pieces[c][KING])]
    BY Zenon DEF NewKings
  <2> QED BY ONLY <1>2, <2>2, <2>3
<1> QED BY <1>3, <1>5, <1>6

\* A sound board that the keys and the counts fit is as a new one.
LEMMA FitsIsIncremental ==
  ASSUME Sound(cb), Fits(cb)
  PROVE  IncrementalState
<1>1. PICK fen : fen = Anew(cb)
  OBVIOUS
<1>2. /\ fen.pieces = cb.pieces /\ fen.colorToMove = cb.colorToMove
      /\ fen.castlingRights = cb.castlingRights /\ fen.epIndex = cb.epIndex
  BY <1>1 DEF Anew
<1>3. PICK fresh : fresh = getNewCB(fen)
  OBVIOUS
<1>4. NewResult(fen, fresh)
  BY <1>3, NewFields
<1>5. Fits(fresh)
  BY <1>3, NewFits
<1>6. /\ fresh.pieces = cb.pieces /\ fresh.epIndex = cb.epIndex
      /\ fresh.colorToMove = cb.colorToMove /\ fresh.castlingRights = cb.castlingRights
      /\ fresh.friendlyPieces = NewFriendly(fen)
      /\ fresh.allPieces = NewFriendly(fen)[WHITE] \cup NewFriendly(fen)[BLACK]
      /\ fresh.pieceIndexes = NewIndexes(fen) /\ fresh.kingIndex = NewKings(fen)
  BY <1>2, <1>4, Zenon DEF NewResult
<1>7. NewFriendly(fen) = cb.friendlyPieces /\ NewIndexes(fen) = cb.pieceIndexes /\ NewKings(fen) = cb.kingIndex
  BY <1>2, NewViews
<1>8. cb.allPieces = cb.friendlyPieces[WHITE] \cup cb.friendlyPieces[BLACK]
  BY DEF Sound, Kept, WhoIsWhere
<1>9. KeysFit(cb) /\ KeysFit(fresh) /\ MaterialFits(cb) /\ MaterialFits(fresh)
  BY <1>5, Zenon DEF Fits
<1>10. cb.zobristKey = fresh.zobristKey /\ cb.pawnZobristKey = fresh.pawnZobristKey
  BY <1>6, <1>9, KeysFitIs
<1>11. cb.materialKey = fresh.materialKey /\ cb.material_factor = fresh.material_factor
  BY <1>6, <1>9, Zenon DEF MaterialFits
<1>12. fresh = getNewCB([pieces |-> cb.pieces, colorToMove |-> cb.colorToMove,
                         castlingRights |-> cb.castlingRights, epIndex |-> cb.epIndex,
                         halfmoves |-> 0])
  BY <1>1, <1>3, Zenon DEF Anew
<1> QED BY <1>6, <1>7, <1>8, <1>10, <1>11, <1>12, Zenon DEF IncrementalState

\* They fit at the start.
LEMMA InitFits ==
  ASSUME KeysHaveSlots, Init
  PROVE  FitInv
<1>1. BoardInv
  BY InitInv
<1>2. PICK fen \in Fens : cb = getNewCB(fen)
  BY DEF Init
<1>3. WellFormed(fen)
  BY FensAssumption
<1>4. cb.history = <<>>
  BY <1>2, <1>3, NewBoardSound
<1>5. Ply = 0
  BY <1>4 DEF Ply
<1>6. Fits(cb)
  BY <1>2, NewFits
<1>7. \A i \in 1..Ply : Fits(past[i])
  BY <1>5
<1> QED BY <1>1, <1>6, <1>7, Zenon DEF FitInv

\* While no legal move captures a king, what doMove and undoMove update piece by
\* piece, the squares of both sides, the kind of piece on every square, the kings,
\* the Zobrist keys and the material counts, is what a board set up anew with the
\* same pieces would hold.
THEOREM StateIsIncremental ==
  ASSUME KeysHaveSlots
  PROVE  Spec /\ []KingsStand => []IncrementalState
<1>1. Init => FitInv
  BY InitFits
<1>2. FitInv /\ KingsStand /\ [Next]_vars => FitInv'
  BY FitStep
<1>3. FitInv => IncrementalState
  BY FitsIsIncremental DEF FitInv, BoardInv
<1> QED BY <1>1, <1>2, <1>3, PTL DEF Spec

-----------------------------------------------------------------------------
(***************************************************************************)
(* The accumulators as sums of the columns of the men on the board.        *)
(***************************************************************************)

AnyMan == [side : Colors, piece : PieceTypes, square : Squares]

MenOf(b) == {man \in AnyMan : man.square \in b.pieces[man.side][man.piece]}

Buckets(b) == [c \in Colors |-> choose_input_bucket(convert_square(Least(b.pieces[c][KING])), c)]

\* both accumulators of a set of men
Sums(buckets, men) ==
  [c \in Colors |-> [bucket |-> buckets[c], sum |-> [k \in {Column(man, c, buckets[c]) : man \in men} |-> 1]]]

\* Squares seen from a side are squares, each its own.
LEMMA SquaresSeen ==
  ASSUME NEW s \in Squares, NEW t \in Squares, NEW c
  PROVE  /\ ForSide(convert_square(s), c) \in 0..63
         /\ ForSide(convert_square(s), c) = ForSide(convert_square(t), c) => s = t
<1>1. /\ RankOf(s) \in 0..7 /\ FileOf(s) \in 0..7 /\ s = 8 * RankOf(s) + FileOf(s)
      /\ RankOf(t) \in 0..7 /\ FileOf(t) \in 0..7 /\ t = 8 * RankOf(t) + FileOf(t)
  BY DEF Squares, RankOf, FileOf
<1>2. ASSUME NEW u \in Squares, RankOf(u) \in 0..7, FileOf(u) \in 0..7
      PROVE  /\ convert_square(u) = 8 * RankOf(u) + 7 - FileOf(u)
             /\ Mirrored(convert_square(u)) = 8 * (7 - RankOf(u)) + 7 - FileOf(u)
  <2>1. PICK r \in 0..7, f \in 0..7 : r = RankOf(u) /\ f = FileOf(u)
    BY <1>2
  <2>2. convert_square(u) = 8 * r + 7 - f
    BY <2>1 DEF convert_square
  <2>3. RankOf(8 * r + 7 - f) = r /\ FileOf(8 * r + 7 - f) = 7 - f
    BY <2>1 DEF RankOf, FileOf
  <2> QED BY <2>1, <2>2, <2>3 DEF Mirrored
<1>3. ASSUME NEW r \in 0..7, NEW f \in 0..7, NEW q \in 0..7, NEW e \in 0..7
      PROVE  /\ 8 * r + 7 - f \in 0..63 /\ 8 * (7 - r) + 7 - f \in 0..63
             /\ 8 * r + 7 - f = 8 * q + 7 - e => r = q /\ f = e
             /\ 8 * (7 - r) + 7 - f = 8 * (7 - q) + 7 - e => r = q /\ f = e
  OBVIOUS
<1> QED BY <1>1, <1>2, <1>3 DEF ForSide

\* No two men have the same column.
LEMMA ColumnsDiffer ==
  ASSUME NEW man \in AnyMan, NEW other \in AnyMan, NEW c \in Colors, NEW n,
         Column(man, c, n) = Column(other, c, n), n \in Int
  PROVE  man = other
<1>1. PICK x \in 0..63 : x = ForSide(convert_square(man.square), c)
  BY SquaresSeen DEF AnyMan
<1>2. PICK y \in 0..63 : y = ForSide(convert_square(other.square), c)
  BY SquaresSeen DEF AnyMan
<1>3. PICK i \in {0, 1} : i = IF man.side = c THEN 0 ELSE 1
  OBVIOUS
<1>4. PICK j \in {0, 1} : j = IF other.side = c THEN 0 ELSE 1
  OBVIOUS
<1>5. PICK p \in 1..6, q \in 1..6 : p = man.piece /\ q = other.piece
  BY DEF AnyMan, PieceTypes, PAWN, KING
<1> PICK z \in Int : z = n * 768
  OBVIOUS
<1> DEFINE one == i * 384 + (p - 1) * 64 + x + z
           two == j * 384 + (q - 1) * 64 + y + z
<1>6. Column(man, c, n) = one
  BY <1>1, <1>3, <1>5 DEF Column, get_feature_index, COLOR_STRIDE, PIECE_STRIDE, FEATURE_SIZE
<1>7. Column(other, c, n) = two
  BY <1>2, <1>4, <1>5 DEF Column, get_feature_index, COLOR_STRIDE, PIECE_STRIDE, FEATURE_SIZE
<1>8. one = two
  <2> HIDE DEF one, two
  <2> QED BY <1>6, <1>7
<1>9. i = j /\ man.piece = other.piece /\ x = y
  <2>1. i = j /\ p = q /\ x = y
    BY <1>8
  <2> QED BY <1>5, <2>1
<1>10. man.square = other.square
  BY <1>1, <1>2, <1>9, SquaresSeen DEF AnyMan
<1>11. man.side = other.side
  BY <1>3, <1>4, <1>9 DEF AnyMan, Colors, WHITE, BLACK
<1> QED BY <1>9, <1>10, <1>11 DEF AnyMan

\* A column added to a sum that lacks it, or taken from one that has it.
LEMMA PlusColumn ==
  ASSUME NEW S, NEW k
  PROVE  /\ k \notin S => Plus([x \in S |-> 1], k, 1) = [x \in S \cup {k} |-> 1]
         /\ k \in S => Plus([x \in S |-> 1], k, -1) = [x \in S \ {k} |-> 1]
<1> DEFINE f == [x \in S |-> 1]
<1>1. DOMAIN f = S /\ \A x \in S : f[x] = 1
  OBVIOUS
<1> HIDE DEF f
<1>2. CASE k \notin S
  <2>1. Plus(f, k, 1) = [x \in S \cup {k} |-> IF x = k THEN 1 ELSE f[x]]
    <3>1. (DOMAIN f \cup {k}) \ (IF 0 + 1 = 0 THEN {k} ELSE {}) = S \cup {k} /\ 0 + 1 = 1
      BY <1>1
    <3>2. Plus(f, k, 1) = [x \in (DOMAIN f \cup {k}) \ (IF 0 + 1 = 0 THEN {k} ELSE {}) |-> IF x = k THEN 0 + 1 ELSE f[x]]
      BY <1>1, <1>2, Zenon DEF Plus
    <3> QED BY ONLY <3>1, <3>2
  <2>2. [x \in S \cup {k} |-> IF x = k THEN 1 ELSE f[x]] = [x \in S \cup {k} |-> 1]
    BY <1>1
  <2> QED BY <1>2, <2>1, <2>2 DEF f
<1>3. CASE k \in S
  <2>1. Plus(f, k, -1) = [x \in S \ {k} |-> IF x = k THEN 0 ELSE f[x]]
    <3>1. (DOMAIN f \cup {k}) \ (IF 1 + -1 = 0 THEN {k} ELSE {}) = S \ {k} /\ 1 + -1 = 0
      BY <1>1, <1>3
    <3>2. Plus(f, k, -1) = [x \in (DOMAIN f \cup {k}) \ (IF 1 + -1 = 0 THEN {k} ELSE {}) |-> IF x = k THEN 1 + -1 ELSE f[x]]
      BY <1>1, <1>3 DEF Plus
    <3> QED BY ONLY <3>1, <3>2
  <2>2. [x \in S \ {k} |-> IF x = k THEN 0 ELSE f[x]] = [x \in S \ {k} |-> 1]
    BY <1>1
  <2> QED BY <1>3, <2>1, <2>2 DEF f
<1> QED BY <1>2, <1>3

\* A man added to the accumulators, or taken from them.
LEMMA SumsOfMan ==
  ASSUME NEW B \in [Colors -> Int], NEW M \in SUBSET AnyMan, NEW man \in AnyMan
  PROVE  /\ man \notin M => acc_both(Sums(B, M), man, 1) = Sums(B, M \cup {man})
         /\ man \in M => acc_both(Sums(B, M), man, -1) = Sums(B, M \ {man})
<1> DEFINE S(c, N) == {Column(x, c, B[c]) : x \in N}
           one(c, N) == [k \in S(c, N) |-> 1]
           rec(c, N) == [bucket |-> B[c], sum |-> one(c, N)]
           K(c) == Column(man, c, B[c])
<1>1. \A N : Sums(B, N) = [c \in Colors |-> rec(c, N)]
  BY DEF Sums
<1>2. ASSUME NEW n PROVE acc_both(Sums(B, M), man, n) = [c \in Colors |-> [bucket |-> B[c], sum |-> Plus(one(c, M), K(c), n)]]
  <2> DEFINE A == Sums(B, M)
  <2>1. acc_both(A, man, n) = [c \in Colors |-> [A[c] EXCEPT !.sum = Plus(@, Column(man, c, A[c].bucket), n)]]
    BY DEF acc_both
  <2>2. ASSUME NEW c \in Colors
        PROVE [A[c] EXCEPT !.sum = Plus(@, Column(man, c, A[c].bucket), n)] = [bucket |-> B[c], sum |-> Plus(one(c, M), K(c), n)]
    <3>1. A[c] = rec(c, M)
      <4> HIDE DEF rec
      <4> QED BY <1>1
    <3>2. PICK v : v = one(c, M)
      OBVIOUS
    <3>3. A[c] = [bucket |-> B[c], sum |-> v]
      BY <3>1, <3>2
    <3>4. PICK u : u = Plus(v, K(c), n)
      OBVIOUS
    <3>5. A[c].sum = v /\ A[c].bucket = B[c]
      BY <3>3
    <3>6. Plus(A[c].sum, Column(man, c, A[c].bucket), n) = u
      BY <3>4, <3>5
    <3>7. [A[c] EXCEPT !.sum = Plus(A[c].sum, Column(man, c, A[c].bucket), n)] = [bucket |-> B[c], sum |-> u]
      BY <3>3, <3>6
    <3> QED BY <3>2, <3>4, <3>7
  <2> QED BY <2>1, <2>2, Zenon
<1>3. CASE man \notin M
  <2>1. ASSUME NEW c \in Colors PROVE Plus(one(c, M), K(c), 1) = one(c, M \cup {man})
    <3>1. K(c) \notin S(c, M)
      BY <1>3, ColumnsDiffer
    <3>2. S(c, M) \cup {K(c)} = S(c, M \cup {man})
      OBVIOUS
    <3>3. K(c) \notin S(c, M) => Plus([k \in S(c, M) |-> 1], K(c), 1) = [k \in S(c, M) \cup {K(c)} |-> 1]
      BY PlusColumn, Zenon
    <3> QED BY ONLY <3>1, <3>2, <3>3
  <2>2. acc_both(Sums(B, M), man, 1) = [c \in Colors |-> rec(c, M \cup {man})]
    <3> HIDE DEF one, K
    <3> QED BY <1>2, <2>1
  <2> QED BY <1>1, <1>3, <2>2
<1>4. CASE man \in M
  <2>1. ASSUME NEW c \in Colors PROVE Plus(one(c, M), K(c), -1) = one(c, M \ {man})
    <3>1. K(c) \in S(c, M)
      BY <1>4
    <3>2. S(c, M) \ {K(c)} = S(c, M \ {man})
      BY ColumnsDiffer
    <3>3. K(c) \in S(c, M) => Plus([k \in S(c, M) |-> 1], K(c), -1) = [k \in S(c, M) \ {K(c)} |-> 1]
      BY PlusColumn, Zenon
    <3> QED BY ONLY <3>1, <3>2, <3>3
  <2>2. acc_both(Sums(B, M), man, -1) = [c \in Colors |-> rec(c, M \ {man})]
    <3> HIDE DEF one, K
    <3> QED BY <1>2, <2>1
  <2> QED BY <1>1, <1>4, <2>2
<1> QED BY <1>3, <1>4

\* The bucket of a king.
LEMMA BucketOfKing ==
  ASSUME NEW s \in Squares, NEW c
  PROVE  choose_input_bucket(convert_square(s), c) \in Int
<1>1. PICK n \in 0..63 : n = ForSide(convert_square(s), c)
  BY SquaresSeen
<1>2. ASSUME NEW i \in 1..16 PROVE INPUT_BUCKETS[i] \in Int
  BY DEF INPUT_BUCKETS
<1>3. choose_input_bucket(convert_square(s), c) = IF n + 1 > 16 THEN 6 ELSE INPUT_BUCKETS[n + 1]
  BY <1>1 DEF choose_input_bucket
<1>4. CASE n + 1 > 16
  BY <1>3, <1>4
<1>5. CASE n + 1 \in 1..16
  BY <1>2, <1>3, <1>5
<1> QED BY <1>4, <1>5

\* full_refresh adds up the columns of the men on the board.
LEMMA FullRefreshIs ==
  ASSUME NEW b, Sound(b)
  PROVE  /\ full_refresh(b) = Sums(Buckets(b), MenOf(b))
         /\ Buckets(b) \in [Colors -> Int]
         /\ \A c \in Colors : Buckets(b)[c] = choose_input_bucket(convert_square(b.kingIndex[c]), c)
<1>1. b.pieces \in Men /\ KingsAre(b) /\ b.kingIndex \in [Colors -> Squares]
  BY DEF Sound, Kept, PlacesTyped
<1>2. ASSUME NEW c \in Colors PROVE Least(b.pieces[c][KING]) = b.kingIndex[c]
  BY <1>1, LeastOfOne DEF KingsAre
<1>3. \A c \in Colors : Buckets(b)[c] = choose_input_bucket(convert_square(b.kingIndex[c]), c)
  BY <1>2 DEF Buckets
<1>4. Buckets(b) \in [Colors -> Int]
  BY <1>1, BucketOfKing, <1>3 DEF Buckets
<1> DEFINE men == UNION {{[side |-> us, piece |-> p, square |-> s] : s \in b.pieces[us][p]} : us \in Colors, p \in PieceTypes}
<1>5. men = MenOf(b)
  <2>1. \A c \in Colors, p \in PieceTypes : b.pieces[c][p] \subseteq Squares
    BY <1>1 DEF Men
  <2>2. ASSUME NEW x \in MenOf(b)
        PROVE  \E c \in Colors, p \in PieceTypes : \E s \in b.pieces[c][p] : x = [side |-> c, piece |-> p, square |-> s]
    BY DEF MenOf, AnyMan
  <2>3. ASSUME NEW c \in Colors, NEW p \in PieceTypes, NEW s \in b.pieces[c][p]
        PROVE  [side |-> c, piece |-> p, square |-> s] \in MenOf(b)
    BY <2>1 DEF MenOf, AnyMan
  <2>4. ASSUME NEW x
        PROVE  x \in UNION {{[side |-> us, piece |-> p, square |-> s] : s \in b.pieces[us][p]} : us \in Colors, p \in PieceTypes}
                 <=> \E c \in Colors, p \in PieceTypes : \E s \in b.pieces[c][p] : x = [side |-> c, piece |-> p, square |-> s]
    <3> DEFINE T(c, p) == {[side |-> c, piece |-> p, square |-> s] : s \in b.pieces[c][p]}
    <3>1. x \in UNION {T(us, p) : us \in Colors, p \in PieceTypes} <=> \E c \in Colors, p \in PieceTypes : x \in T(c, p)
      <4> HIDE DEF T
      <4> QED OBVIOUS
    <3>2. \A c, p : x \in T(c, p) <=> \E s \in b.pieces[c][p] : x = [side |-> c, piece |-> p, square |-> s]
      OBVIOUS
    <3> QED BY <3>1, <3>2
  <2> QED BY <2>2, <2>3, <2>4
<1>6. full_refresh(b) = Sums(Buckets(b), MenOf(b))
  <2>1. full_refresh(b) = [c \in Colors |->
                 [bucket |-> choose_input_bucket(convert_square(Least(b.pieces[c][KING])), c),
                  sum |-> [k \in {Column(man, c, choose_input_bucket(convert_square(Least(b.pieces[c][KING])), c)) : man \in men} |-> 1]]]
    BY DEF full_refresh
  <2>2. full_refresh(b) = [c \in Colors |->
                 [bucket |-> choose_input_bucket(convert_square(Least(b.pieces[c][KING])), c),
                  sum |-> [k \in {Column(man, c, choose_input_bucket(convert_square(Least(b.pieces[c][KING])), c)) : man \in MenOf(b)} |-> 1]]]
    <3> HIDE DEF men
    <3> QED BY <1>5, <2>1, Zenon
  <2>3. ASSUME NEW c \in Colors PROVE choose_input_bucket(convert_square(Least(b.pieces[c][KING])), c) = Buckets(b)[c]
    BY DEF Buckets
  <2>4. ASSUME NEW c \in Colors
        PROVE  [bucket |-> choose_input_bucket(convert_square(Least(b.pieces[c][KING])), c),
                sum |-> [k \in {Column(man, c, choose_input_bucket(convert_square(Least(b.pieces[c][KING])), c)) : man \in MenOf(b)} |-> 1]]
               = [bucket |-> Buckets(b)[c], sum |-> [k \in {Column(man, c, Buckets(b)[c]) : man \in MenOf(b)} |-> 1]]
    BY <2>3, Zenon
  <2>5. Sums(Buckets(b), MenOf(b)) = [c \in Colors |->
                 [bucket |-> Buckets(b)[c], sum |-> [k \in {Column(man, c, Buckets(b)[c]) : man \in MenOf(b)} |-> 1]]]
    BY Zenon DEF Sums
  <2> QED BY <2>2, <2>4, <2>5, Zenon
<1> QED BY <1>3, <1>4, <1>6

\* The men that a move takes away and puts down, as apply_diff sees them.
LEMMA MenMoved ==
  ASSUME NEW b, Sound(b), NEW m, OrdinaryFacts(b, m), ~is_ep(m), NEW x, x = DoOrdinaryMove(b, m), Sound(x),
         NEW leaves, leaves = [side |-> b.colorToMove, piece |-> m.source, square |-> m.from],
         NEW arrives, arrives = [side |-> b.colorToMove, piece |-> IF is_promotion(m) THEN m.type ELSE m.source, square |-> m.to],
         NEW taken, taken = [side |-> 1 - b.colorToMove, piece |-> m.attacked, square |-> m.to]
  PROVE  /\ MenOf(b) \subseteq AnyMan /\ leaves \in MenOf(b) /\ arrives \in AnyMan \ MenOf(b)
         /\ m.attacked # EMPTY => taken \in MenOf(b) /\ taken # leaves
         /\ MenOf(x) = ((MenOf(b) \ {leaves}) \cup {arrives}) \ (IF m.attacked = EMPTY THEN {} ELSE {taken})
<1> DEFINE us == b.colorToMove
           them == Opponent(us)
<1>1. /\ us \in Colors /\ them \in Colors /\ us # them
      /\ m.from \in Squares /\ m.to \in Squares /\ m.from # m.to
      /\ m.source \in PieceTypes /\ Placed(m) \in PieceTypes
      /\ m.from \in b.pieces[us][m.source]
      /\ \A q \in PieceTypes : m.to \notin b.pieces[us][q]
      /\ m.attacked # EMPTY => /\ m.attacked \in PieceTypes
                               /\ CaptureSquare(b, m) \in b.pieces[them][m.attacked]
  BY OrdinaryMen
<1>2. CaptureSquare(b, m) = m.to /\ 1 - us = them
  BY <1>1 DEF CaptureSquare, Colors, WHITE, BLACK, Opponent
<1>3. ASSUME NEW c \in Colors, NEW p \in PieceTypes, NEW s \in Squares
      PROVE  (\/ s = m.from /\ c = us /\ p = m.source
              \/ s = m.to /\ c = us /\ p = Placed(m)
              \/ m.attacked # EMPTY /\ s = m.to /\ c = them /\ p = m.attacked)
             <=> ~(s \in x.pieces[c][p] <=> s \in b.pieces[c][p])
  BY OrdinaryDiffers, <1>2 DEF ManChanges
<1>4. arrives = [side |-> us, piece |-> Placed(m), square |-> m.to]
  BY DEF Placed
<1>5. taken = [side |-> them, piece |-> m.attacked, square |-> m.to]
  BY <1>2
<1> HIDE DEF us, them
<1>6. leaves = [side |-> us, piece |-> m.source, square |-> m.from]
  BY DEF us
<1>7. /\ leaves \in AnyMan /\ arrives \in AnyMan /\ (m.attacked # EMPTY => taken \in AnyMan)
      /\ leaves.side = us /\ leaves.piece = m.source /\ leaves.square = m.from
      /\ arrives.side = us /\ arrives.piece = Placed(m) /\ arrives.square = m.to
      /\ taken.side = them /\ taken.piece = m.attacked /\ taken.square = m.to
  BY <1>1, <1>4, <1>5, <1>6 DEF AnyMan
<1>8. leaves \in MenOf(b) /\ arrives \notin MenOf(b) /\ (m.attacked # EMPTY => taken \in MenOf(b) /\ taken # leaves)
  BY <1>1, <1>2, <1>7 DEF MenOf
<1>9. ASSUME NEW man \in AnyMan
      PROVE  /\ man.side \in Colors /\ man.piece \in PieceTypes /\ man.square \in Squares
             /\ man = leaves <=> man.square = m.from /\ man.side = us /\ man.piece = m.source
             /\ man = arrives <=> man.square = m.to /\ man.side = us /\ man.piece = Placed(m)
             /\ m.attacked # EMPTY => (man = taken <=> man.square = m.to /\ man.side = them /\ man.piece = m.attacked)
  BY <1>4, <1>5, <1>6, <1>7 DEF AnyMan
<1>10. ASSUME NEW man \in AnyMan
       PROVE  (man = leaves \/ man = arrives \/ (m.attacked # EMPTY /\ man = taken))
               <=> ~(man \in MenOf(x) <=> man \in MenOf(b))
  BY <1>3, <1>9 DEF MenOf
<1>11. MenOf(b) \subseteq AnyMan /\ MenOf(x) \subseteq AnyMan
  BY DEF MenOf
<1>12. ASSUME NEW man
       PROVE man \in MenOf(x) <=> man \in ((MenOf(b) \ {leaves}) \cup {arrives}) \ (IF m.attacked = EMPTY THEN {} ELSE {taken})
  <2>1. CASE man \notin AnyMan
    BY <1>7, <1>11, <2>1
  <2>2. CASE man \in AnyMan
    <3>1. leaves # arrives /\ (m.attacked # EMPTY => taken # arrives /\ taken # leaves)
      BY <1>1, <1>7, <1>8
    <3> HIDE DEF MenOf
    <3> QED BY <1>8, <1>10, <2>2, <3>1
  <2> QED BY <2>1, <2>2
<1> QED BY <1>7, <1>8, <1>11, <1>12

\* A king keeps its bucket unless the evaluator refreshes.
LEMMA BucketsStay ==
  ASSUME NEW b, Sound(b), NEW m, OrdinaryFacts(b, m), ~Refreshes(m, b.colorToMove),
         NEW x, x = DoOrdinaryMove(b, m), Sound(x)
  PROVE  Buckets(x) = Buckets(b)
<1> DEFINE us == b.colorToMove
<1>1. us \in Colors /\ b.kingIndex \in [Colors -> Squares] /\ KingsAre(b)
  BY DEF Sound, Kept, PlacesTyped
<1>2. x.kingIndex = [b.kingIndex EXCEPT ![us] = IF m.source = KING THEN m.to ELSE @]
  <2>1. OrdinaryResult(b, m, x)
    BY OrdinarySays
  <2> QED BY <2>1, Zenon DEF OrdinaryResult
<1>3. m.source = KING => m.from = b.kingIndex[us]
  BY <1>1 DEF OrdinaryFacts, KingsAre
<1>4. m.source = KING => choose_input_bucket(convert_square(m.from), us) = choose_input_bucket(convert_square(m.to), us)
  BY DEF Refreshes, BucketChanges
<1>5. ASSUME NEW c \in Colors PROVE Buckets(x)[c] = Buckets(b)[c]
  <2>1. /\ Buckets(b)[c] = choose_input_bucket(convert_square(b.kingIndex[c]), c)
        /\ Buckets(x)[c] = choose_input_bucket(convert_square(x.kingIndex[c]), c)
    BY FullRefreshIs
  <2>2. CASE c = us /\ m.source = KING
    BY <1>1, <1>2, <1>3, <1>4, <2>1, <2>2
  <2>3. CASE ~(c = us /\ m.source = KING)
    BY <1>1, <1>2, <2>3, <2>1
  <2> QED BY <2>2, <2>3
<1>6. [c \in Colors |-> Buckets(x)[c]] = [c \in Colors |-> Buckets(b)[c]]
  BY <1>5
<1>7. Buckets(x) = [c \in Colors |-> Buckets(x)[c]] /\ Buckets(b) = [c \in Colors |-> Buckets(b)[c]]
  BY FullRefreshIs
<1> QED BY <1>6, <1>7, Zenon

\* What a move adds and takes away brings the accumulators of the board before it
\* to those of the board after it, and back.
LEMMA DiffFollows ==
  ASSUME NEW b, Sound(b), NEW m, OrdinaryFacts(b, m), ~Refreshes(m, b.colorToMove),
         NEW x, x = DoOrdinaryMove(b, m), Sound(x)
  PROVE  /\ apply_diff(full_refresh(b), m, b.colorToMove, TRUE) = full_refresh(x)
         /\ apply_diff(full_refresh(x), m, b.colorToMove, FALSE) = full_refresh(b)
<1>1. PICK leaves : leaves = [side |-> b.colorToMove, piece |-> m.source, square |-> m.from]
  OBVIOUS
<1>2. PICK arrives : arrives = [side |-> b.colorToMove, piece |-> IF is_promotion(m) THEN m.type ELSE m.source, square |-> m.to]
  OBVIOUS
<1>3. PICK taken : taken = [side |-> 1 - b.colorToMove, piece |-> m.attacked, square |-> m.to]
  OBVIOUS
<1>4. PICK M : M = MenOf(b)
  OBVIOUS
<1>5. PICK B : B = Buckets(b)
  OBVIOUS
<1>6. full_refresh(b) = Sums(B, M) /\ full_refresh(x) = Sums(B, MenOf(x)) /\ B \in [Colors -> Int]
  BY <1>4, <1>5, FullRefreshIs, BucketsStay
<1>7. ~is_ep(m)
  BY DEF Refreshes
<1>8. /\ M \in SUBSET AnyMan /\ leaves \in M /\ arrives \in AnyMan /\ arrives \notin M
      /\ m.attacked # EMPTY => taken \in M /\ taken # leaves
      /\ MenOf(x) = ((M \ {leaves}) \cup {arrives}) \ (IF m.attacked = EMPTY THEN {} ELSE {taken})
  BY <1>1, <1>2, <1>3, <1>4, <1>7, MenMoved
<1>9. ASSUME NEW acc, NEW forward \in BOOLEAN, NEW n, n = IF forward THEN 1 ELSE -1
      PROVE  apply_diff(acc, m, b.colorToMove, forward) =
               IF m.attacked = EMPTY THEN acc_both(acc_both(acc, leaves, -n), arrives, n)
               ELSE acc_both(acc_both(acc_both(acc, leaves, -n), arrives, n), taken, -n)
  BY <1>1, <1>2, <1>3, <1>9, Zenon DEF apply_diff
<1>10. PICK M1 : M1 = M \ {leaves}
  OBVIOUS
<1>11. PICK M2 : M2 = M1 \cup {arrives}
  OBVIOUS
<1>12. PICK M3 : M3 = MenOf(x)
  OBVIOUS
<1>13. /\ M1 \in SUBSET AnyMan /\ M2 \in SUBSET AnyMan /\ M3 \in SUBSET AnyMan
       /\ leaves \in AnyMan /\ leaves \notin M1 /\ M = M1 \cup {leaves}
       /\ arrives \notin M1 /\ M2 = M1 \cup {arrives} /\ M1 = M2 \ {arrives}
       /\ m.attacked = EMPTY => M3 = M2
       /\ m.attacked # EMPTY => taken \in M2 /\ taken \in AnyMan /\ M3 = M2 \ {taken}
  BY <1>8, <1>10, <1>11, <1>12
<1>14. m.attacked # EMPTY => taken \notin M3 /\ M2 = M3 \cup {taken}
  BY <1>13
<1>15. apply_diff(Sums(B, M), m, b.colorToMove, TRUE) = Sums(B, M3)
  <2>1. acc_both(Sums(B, M), leaves, -1) = Sums(B, M1)
    BY <1>6, <1>8, <1>10, <1>13, SumsOfMan
  <2>2. acc_both(Sums(B, M1), arrives, 1) = Sums(B, M2)
    BY <1>6, <1>8, <1>13, SumsOfMan
  <2>3. m.attacked # EMPTY => acc_both(Sums(B, M2), taken, -1) = Sums(B, M3)
    BY <1>6, <1>13, SumsOfMan
  <2>4. apply_diff(Sums(B, M), m, b.colorToMove, TRUE) =
               IF m.attacked = EMPTY THEN acc_both(acc_both(Sums(B, M), leaves, -1), arrives, 1)
               ELSE acc_both(acc_both(acc_both(Sums(B, M), leaves, -1), arrives, 1), taken, -1)
    BY <1>9
  <2> QED BY <1>13, <2>1, <2>2, <2>3, <2>4
<1>16. apply_diff(Sums(B, M3), m, b.colorToMove, FALSE) = Sums(B, M)
  <2>4. apply_diff(Sums(B, M3), m, b.colorToMove, FALSE) =
               IF m.attacked = EMPTY THEN acc_both(acc_both(Sums(B, M3), leaves, 1), arrives, -1)
               ELSE acc_both(acc_both(acc_both(Sums(B, M3), leaves, 1), arrives, -1), taken, 1)
    <3>1. PICK n : n = -1
      OBVIOUS
    <3>2. -n = 1
      <4>1. n \in Int /\ n + 1 = 0
        BY <3>1
      <4> HIDE <3>1
      <4>2. -n \in Int /\ -n + n = 0
        BY ONLY <4>1
      <4> QED BY ONLY <4>1, <4>2
    <3>3. apply_diff(Sums(B, M3), m, b.colorToMove, FALSE) =
               IF m.attacked = EMPTY THEN acc_both(acc_both(Sums(B, M3), leaves, -n), arrives, n)
               ELSE acc_both(acc_both(acc_both(Sums(B, M3), leaves, -n), arrives, n), taken, -n)
      BY <1>9, <3>1
    <3> QED BY <3>1, <3>2, <3>3
  <2>5. CASE m.attacked = EMPTY
    <3>1. acc_both(Sums(B, M3), leaves, 1) = Sums(B, M3 \cup {leaves})
      BY <1>8, <1>13, <2>5, <1>6, SumsOfMan
    <3>2. acc_both(Sums(B, M3 \cup {leaves}), arrives, -1) = Sums(B, (M3 \cup {leaves}) \ {arrives})
      BY <1>13, <2>5, <1>6, <1>8, SumsOfMan
    <3>3. (M3 \cup {leaves}) \ {arrives} = M
      BY <1>8, <1>13, <2>5
    <3> QED BY <2>4, <2>5, <3>1, <3>2, <3>3
  <2>6. CASE m.attacked # EMPTY
    <3>1. acc_both(Sums(B, M3), leaves, 1) = Sums(B, M3 \cup {leaves})
      BY <1>8, <1>13, <2>6, <1>6, SumsOfMan
    <3>2. acc_both(Sums(B, M3 \cup {leaves}), arrives, -1) = Sums(B, (M3 \cup {leaves}) \ {arrives})
      BY <1>8, <1>13, <2>6, <1>6, SumsOfMan
    <3>3. acc_both(Sums(B, (M3 \cup {leaves}) \ {arrives}), taken, 1) = Sums(B, ((M3 \cup {leaves}) \ {arrives}) \cup {taken})
      BY <1>8, <1>13, <1>14, <2>6, <1>6, SumsOfMan
    <3>4. ((M3 \cup {leaves}) \ {arrives}) \cup {taken} = M
      BY <1>8, <1>13, <1>14, <2>6
    <3> QED BY <2>4, <2>6, <3>1, <3>2, <3>3, <3>4
  <2> QED BY <2>5, <2>6
<1> QED BY <1>6, <1>12, <1>15, <1>16

-----------------------------------------------------------------------------
(***************************************************************************)
(* The frames of the evaluator: one for every move on the way down.        *)
(***************************************************************************)

LastMoveOf(b) == b.history[Len(b.history)].move

\* the accumulators that a frame gives back
Rolled(frame, acc) ==
  IF frame.refresh THEN frame.snap ELSE apply_diff(acc, frame.move, frame.side_moved, FALSE)

\* the frames of the boards w[1], ..., w[n + 1], each made of the one before it
Frames(stack, w, n) ==
  \E at \in [1..Len(stack) -> 1..n] :
    /\ \A j, k \in 1..Len(stack) : j < k => at[j] < at[k]
    /\ \A i \in 1..n : LastMoveOf(w[i + 1]) # NO_MOVE <=> \E j \in 1..Len(stack) : at[j] = i
    /\ \A j \in 1..Len(stack) : Rolled(stack[j], full_refresh(w[at[j] + 1])) = full_refresh(w[at[j]])

SameWay(v, w, n) == \A i \in 1..(n + 1) : v[i].pieces = w[i].pieces /\ v[i].history = w[i].history

\* the boards on the way down and the one at its end
Way == [i \in 1..(Ply + 1) |-> BoardAt(i)]

AccumulatorsInv ==
  /\ BoardInv /\ AccumulatorsFresh
  /\ IsSequence(nnue.stack) /\ Frames(nnue.stack, Way, Ply)

\* A full refresh reads the pieces alone.
LEMMA RefreshReads ==
  ASSUME NEW b, NEW x, b.pieces = x.pieces
  PROVE  full_refresh(b) = full_refresh(x)
<1>1. PICK p : p = b.pieces /\ p = x.pieces
  OBVIOUS
<1>2. \A z : z.pieces = p => full_refresh(z) = full_refresh([pieces |-> p])
  BY DEF full_refresh
<1> QED BY <1>1, <1>2

\* The frames stay when the pins of the boards change,
LEMMA FramesSame ==
  ASSUME NEW stack, NEW n \in Nat, NEW v, NEW w, Frames(stack, w, n), SameWay(v, w, n)
  PROVE  Frames(stack, v, n)
<1>1. PICK at \in [1..Len(stack) -> 1..n] :
        /\ \A j, k \in 1..Len(stack) : j < k => at[j] < at[k]
        /\ \A i \in 1..n : LastMoveOf(w[i + 1]) # NO_MOVE <=> \E j \in 1..Len(stack) : at[j] = i
        /\ \A j \in 1..Len(stack) : Rolled(stack[j], full_refresh(w[at[j] + 1])) = full_refresh(w[at[j]])
  BY Zenon DEF Frames
<1>2. ASSUME NEW i \in 1..(n + 1) PROVE full_refresh(v[i]) = full_refresh(w[i]) /\ LastMoveOf(v[i]) = LastMoveOf(w[i])
  BY RefreshReads DEF SameWay, LastMoveOf
<1>3. \A i \in 1..n : i \in 1..(n + 1) /\ i + 1 \in 1..(n + 1)
  OBVIOUS
<1>4. \A i \in 1..n : LastMoveOf(v[i + 1]) # NO_MOVE <=> \E j \in 1..Len(stack) : at[j] = i
  BY <1>1, <1>2, <1>3
<1>5. \A j \in 1..Len(stack) : Rolled(stack[j], full_refresh(v[at[j] + 1])) = full_refresh(v[at[j]])
  BY <1>1, <1>2, <1>3
<1> QED BY <1>1, <1>4, <1>5, Zenon DEF Frames

\* a null move adds none,
LEMMA FramesNull ==
  ASSUME NEW stack, NEW n \in Nat, NEW w, Frames(stack, w, n), LastMoveOf(w[n + 2]) = NO_MOVE
  PROVE  Frames(stack, w, n + 1)
<1>1. PICK at \in [1..Len(stack) -> 1..n] :
        /\ \A j, k \in 1..Len(stack) : j < k => at[j] < at[k]
        /\ \A i \in 1..n : LastMoveOf(w[i + 1]) # NO_MOVE <=> \E j \in 1..Len(stack) : at[j] = i
        /\ \A j \in 1..Len(stack) : Rolled(stack[j], full_refresh(w[at[j] + 1])) = full_refresh(w[at[j]])
  BY Zenon DEF Frames
<1>2. at \in [1..Len(stack) -> 1..(n + 1)] /\ \A j \in 1..Len(stack) : at[j] # n + 1
  BY <1>1
<1>3. \A i \in 1..(n + 1) : LastMoveOf(w[i + 1]) # NO_MOVE <=> \E j \in 1..Len(stack) : at[j] = i
  <2> TAKE i \in 1..(n + 1)
  <2>1. CASE i = n + 1
    <3>1. i + 1 = n + 2
      BY <2>1
    <3> QED BY <1>2, <2>1, <3>1
  <2>2. CASE i # n + 1
    BY <1>1, <2>2
  <2> QED BY <2>1, <2>2
<1> QED BY <1>1, <1>2, <1>3, Zenon DEF Frames

\* and takes none away,
LEMMA FramesNullBack ==
  ASSUME NEW stack, NEW n \in Nat, NEW w, Frames(stack, w, n + 1), LastMoveOf(w[n + 2]) = NO_MOVE
  PROVE  Frames(stack, w, n)
<1>1. PICK at \in [1..Len(stack) -> 1..(n + 1)] :
        /\ \A j, k \in 1..Len(stack) : j < k => at[j] < at[k]
        /\ \A i \in 1..(n + 1) : LastMoveOf(w[i + 1]) # NO_MOVE <=> \E j \in 1..Len(stack) : at[j] = i
        /\ \A j \in 1..Len(stack) : Rolled(stack[j], full_refresh(w[at[j] + 1])) = full_refresh(w[at[j]])
  BY Zenon DEF Frames
<1>2. \A j \in 1..Len(stack) : at[j] # n + 1
  BY <1>1
<1>3. at \in [1..Len(stack) -> 1..n]
  BY <1>1, <1>2
<1>4. \A i \in 1..n : LastMoveOf(w[i + 1]) # NO_MOVE <=> \E j \in 1..Len(stack) : at[j] = i
  BY <1>1
<1> QED BY <1>1, <1>3, <1>4, Zenon DEF Frames

\* a move adds one,
LEMMA FramesMove ==
  ASSUME NEW stack, IsSequence(stack), NEW n \in Nat, NEW w, Frames(stack, w, n), LastMoveOf(w[n + 2]) # NO_MOVE,
         NEW frame, Rolled(frame, full_refresh(w[n + 2])) = full_refresh(w[n + 1])
  PROVE  Frames(Append(stack, frame), w, n + 1)
<1>1. PICK at \in [1..Len(stack) -> 1..n] :
        /\ \A j, k \in 1..Len(stack) : j < k => at[j] < at[k]
        /\ \A i \in 1..n : LastMoveOf(w[i + 1]) # NO_MOVE <=> \E j \in 1..Len(stack) : at[j] = i
        /\ \A j \in 1..Len(stack) : Rolled(stack[j], full_refresh(w[at[j] + 1])) = full_refresh(w[at[j]])
  BY Zenon DEF Frames
<1>2. PICK t, s : t = Len(stack) /\ s = Append(stack, frame)
  OBVIOUS
<1>3. t \in Nat /\ Len(s) = t + 1 /\ s[t + 1] = frame /\ \A j \in 1..t : s[j] = stack[j]
  BY <1>2, AppendedBack
<1>4. PICK to : to = [j \in 1..(t + 1) |-> IF j = t + 1 THEN n + 1 ELSE at[j]]
  OBVIOUS
<1>5. \A j \in 1..t : at[j] \in 1..n
  BY <1>1, <1>2
<1>6. to[t + 1] = n + 1 /\ \A j \in 1..t : to[j] = at[j]
  BY <1>3, <1>4
<1>7. to \in [1..Len(s) -> 1..(n + 1)]
  BY <1>3, <1>5, <1>4
<1>8. \A j, k \in 1..Len(s) : j < k => to[j] < to[k]
  <2> TAKE j, k \in 1..Len(s)
  <2> HAVE j < k
  <2>1. j \in 1..t /\ to[j] = at[j] /\ at[j] \in 1..n
    BY <1>3, <1>5, <1>6
  <2>2. CASE k = t + 1
    BY <1>6, <2>1, <2>2
  <2>3. CASE k \in 1..t
    BY <1>1, <1>2, <1>6, <2>1, <2>3
  <2> QED BY <1>3, <2>2, <2>3
<1>9. ASSUME NEW i \in 1..(n + 1) PROVE LastMoveOf(w[i + 1]) # NO_MOVE <=> \E j \in 1..Len(s) : to[j] = i
  <2>1. CASE i = n + 1
    BY <1>3, <2>1, <1>6
  <2>2. CASE i \in 1..n
    <3>1. (\E j \in 1..Len(s) : to[j] = i) <=> \E j \in 1..t : at[j] = i
      BY <1>3, <1>6, <2>2
    <3> QED BY <1>1, <1>2, <2>2, <3>1
  <2> QED BY <2>1, <2>2
<1>10. ASSUME NEW j \in 1..Len(s) PROVE Rolled(s[j], full_refresh(w[to[j] + 1])) = full_refresh(w[to[j]])
  <2>1. CASE j = t + 1
    BY <1>3, <1>6, <2>1
  <2>2. CASE j \in 1..t
    BY <1>1, <1>2, <1>3, <1>6, <2>2
  <2> QED BY <1>3, <2>1, <2>2
<1>11. Frames(s, w, n + 1)
  BY <1>7, <1>8, <1>9, <1>10, Zenon DEF Frames
<1> QED BY <1>2, <1>11

\* and the last one gives the accumulators back.
LEMMA FramesBack ==
  ASSUME NEW stack, IsSequence(stack), NEW n \in Nat, NEW w, Frames(stack, w, n + 1), LastMoveOf(w[n + 2]) # NO_MOVE,
         NEW t, t = Len(stack)
  PROVE  /\ t \in Nat /\ t # 0
         /\ Rolled(stack[t], full_refresh(w[n + 2])) = full_refresh(w[n + 1])
         /\ IsSequence(SubSeq(stack, 1, t - 1))
         /\ Frames(SubSeq(stack, 1, t - 1), w, n)
<1>1. PICK at \in [1..t -> 1..(n + 1)] :
        /\ \A j, k \in 1..t : j < k => at[j] < at[k]
        /\ \A i \in 1..(n + 1) : LastMoveOf(w[i + 1]) # NO_MOVE <=> \E j \in 1..t : at[j] = i
        /\ \A j \in 1..t : Rolled(stack[j], full_refresh(w[at[j] + 1])) = full_refresh(w[at[j]])
  BY Zenon DEF Frames
<1>2. t \in Nat /\ stack \in Seq({stack[i] : i \in DOMAIN stack})
  BY DEF IsSequence
<1>3. PICK last \in 1..t : at[last] = n + 1
  BY <1>1
<1>4. last = t
  <2> SUFFICES ASSUME last # t PROVE FALSE
    OBVIOUS
  <2>1. last < t /\ t \in 1..t
    BY <1>2, <1>3
  <2>2. at[last] < at[t] /\ at[t] \in 1..(n + 1)
    BY <1>1, <2>1
  <2> QED BY <1>3, <2>2
<1>5. t # 0 /\ at[t] = n + 1 /\ at[t] + 1 = n + 2
  BY <1>2, <1>3, <1>4
<1>6. Rolled(stack[t], full_refresh(w[n + 2])) = full_refresh(w[n + 1])
  BY <1>1, <1>2, <1>5
<1>7. PICK s : s = SubSeq(stack, 1, t - 1)
  OBVIOUS
<1>8. IsSequence(s) /\ Len(s) = t - 1 /\ \A j \in 1..(t - 1) : s[j] = stack[j]
  <2> DEFINE S == {stack[i] : i \in DOMAIN stack}
  <2>1. stack \in Seq(S) /\ Len(stack) = t /\ t - 1 \in Nat
    BY <1>2, <1>5
  <2> HIDE DEF S
  <2>2. s \in Seq(S) /\ Len(s) = t - 1 /\ \A j \in 1..(t - 1) : s[j] = stack[j]
    BY <1>7, <2>1
  <2>3. Len(s) \in Nat /\ s = [i \in 1..Len(s) |-> s[i]] /\ DOMAIN s = 1..Len(s)
    BY <2>2
  <2>4. s \in Seq({s[i] : i \in DOMAIN s})
    BY <2>3
  <2> QED BY <2>2, <2>4 DEF IsSequence
<1>9. PICK to : to = [j \in 1..(t - 1) |-> at[j]]
  OBVIOUS
<1>10. /\ \A j \in 1..(t - 1) : j \in 1..t /\ j < t /\ to[j] = at[j] /\ at[j] \in 1..n
  <2>1. \A j \in 1..(t - 1) : j \in 1..t /\ j < t /\ to[j] = at[j]
    BY <1>2, <1>9
  <2>2. ASSUME NEW j \in 1..(t - 1) PROVE at[j] \in 1..n
    <3>1. t \in 1..t /\ j \in 1..t /\ j < t
      BY <1>2, <1>5, <2>1
    <3>2. at[j] < at[t] /\ at[j] \in 1..(n + 1)
      BY <1>1, <3>1
    <3> QED BY <1>5, <3>2
  <2> QED BY <2>1, <2>2
<1>11. to \in [1..Len(s) -> 1..n]
  BY <1>8, <1>9, <1>10
<1>12. \A j, k \in 1..Len(s) : j < k => to[j] < to[k]
  BY <1>1, <1>8, <1>10
<1>13. ASSUME NEW i \in 1..n PROVE LastMoveOf(w[i + 1]) # NO_MOVE <=> \E j \in 1..Len(s) : to[j] = i
  <2>1. (\E j \in 1..t : at[j] = i) <=> \E j \in 1..(t - 1) : to[j] = i
    <3>1. ASSUME NEW j \in 1..t, at[j] = i PROVE j \in 1..(t - 1) /\ to[j] = i
      <4>1. j # t
        BY <1>5, <3>1
      <4> QED BY <1>2, <1>10, <3>1, <4>1
    <3>2. ASSUME NEW j \in 1..(t - 1), to[j] = i PROVE j \in 1..t /\ at[j] = i
      BY <1>10, <3>2
    <3> QED BY <3>1, <3>2
  <2> QED BY <1>1, <1>8, <2>1
<1>14. \A j \in 1..Len(s) : Rolled(s[j], full_refresh(w[to[j] + 1])) = full_refresh(w[to[j]])
  BY <1>1, <1>8, <1>10
<1>15. Frames(s, w, n)
  BY <1>11, <1>12, <1>13, <1>14, Zenon DEF Frames
<1> QED BY <1>2, <1>5, <1>6, <1>7, <1>8, <1>15

\* the frame that after_make pushes
FrameOf(eval, m, side) ==
  [move |-> m, side_moved |-> side, refresh |-> Refreshes(m, side),
   snap |-> IF Refreshes(m, side) THEN eval.acc ELSE <<>>]

\* What after_make pushes and computes for a move.
LEMMA FrameMade ==
  ASSUME NEW b, Sound(b), NEW m, NEW x, MoveLeads(b, m, x), Sound(x),
         NEW eval, eval.acc = full_refresh(b),
         NEW made, made = after_make(eval, x, m, b.colorToMove),
         NEW frame, frame = FrameOf(eval, m, b.colorToMove)
  PROVE  /\ made.acc = full_refresh(x) /\ made.stack = Append(eval.stack, frame)
         /\ Rolled(frame, full_refresh(x)) = full_refresh(b)
<1> DEFINE refresh == Refreshes(m, b.colorToMove)
<1>1. made = [acc |-> IF refresh THEN full_refresh(x) ELSE apply_diff(eval.acc, m, b.colorToMove, TRUE),
              stack |-> Append(eval.stack, frame)]
  BY Zenon DEF after_make, FrameOf
<1>2. /\ frame.refresh = refresh /\ frame.move = m /\ frame.side_moved = b.colorToMove
      /\ refresh => frame.snap = eval.acc
  BY DEF FrameOf
<1>3. made.acc = (IF refresh THEN full_refresh(x) ELSE apply_diff(eval.acc, m, b.colorToMove, TRUE))
      /\ made.stack = Append(eval.stack, frame)
  <2> HIDE DEF refresh
  <2> QED BY <1>1
<1>4. CASE refresh
  BY <1>2, <1>4, <1>3 DEF Rolled
<1>5. CASE ~refresh
  <2>1. ~is_castling(m)
    BY <1>5 DEF Refreshes
  <2>2. OrdinaryFacts(b, m) /\ x = DoOrdinaryMove(b, m)
    BY <2>1 DEF MoveLeads, Leads
  <2>3. /\ apply_diff(full_refresh(b), m, b.colorToMove, TRUE) = full_refresh(x)
        /\ apply_diff(full_refresh(x), m, b.colorToMove, FALSE) = full_refresh(b)
    BY <1>5, <2>2, DiffFollows
  <2>4. Rolled(frame, full_refresh(x)) = full_refresh(b)
    BY <1>2, <1>5, <2>3 DEF Rolled
  <2> QED BY <1>3, <1>5, <2>3, <2>4
<1> QED BY <1>4, <1>5

\* A step down leaves the boards above it as they are, but for their pins.
LEMMA WayDown ==
  ASSUME BoardInv, NEW b, b = RefreshPins(cb), past' = Append(past, b), BoardInv'
  PROVE  /\ Ply \in Nat /\ Ply' = Ply + 1 /\ SameWay(Way', Way, Ply)
         /\ Way'[Ply + 1] = b /\ Way'[Ply + 2] = cb'
<1>1. Ply \in Nat /\ IsSequence(past) /\ Len(past) = Ply /\ Len(past') = Ply' /\ ExceptPins(b, cb)
  BY KeyIsMade, Refreshed DEF BoardInv
<1>2. Ply' = Ply + 1 /\ past'[Ply + 1] = b /\ \A i \in 1..Ply : past'[i] = past[i]
  BY <1>1, AppendedBack
<1>3. Way' = [i \in 1..(Ply + 2) |-> IF i <= Ply + 1 THEN past'[i] ELSE cb']
  <2>1. Ply' + 1 = Ply + 2
    BY <1>1, <1>2
  <2> QED BY <1>2, <2>1 DEF Way, BoardAt
<1>4. Way = [i \in 1..(Ply + 1) |-> IF i <= Ply THEN past[i] ELSE cb]
  BY DEF Way, BoardAt
<1>5. Way'[Ply + 1] = b /\ Way'[Ply + 2] = cb'
  BY <1>1, <1>2, <1>3
<1>6. ASSUME NEW i \in 1..(Ply + 1) PROVE (Way')[i].pieces = Way[i].pieces /\ (Way')[i].history = Way[i].history
  <2>1. CASE i \in 1..Ply
    <3>1. (Way')[i] = Way[i]
      BY <1>1, <1>2, <1>3, <1>4, <2>1
    <3> QED BY <3>1
  <2>2. CASE i = Ply + 1
    BY <1>1, <1>4, <1>5, <2>2 DEF ExceptPins
  <2> QED BY <1>1, <2>1, <2>2
<1> QED BY <1>1, <1>2, <1>5, <1>6 DEF SameWay

\* So does a step back.
LEMMA WayUp ==
  ASSUME BoardInv, Ply > 0, cb' = past[Ply], past' = SubSeq(past, 1, Len(past) - 1), BoardInv',
         NEW n, n = Ply - 1
  PROVE  /\ n \in Nat /\ Ply = n + 1 /\ Ply' = n /\ SameWay(Way', Way, n)
         /\ Way[n + 1] = cb' /\ Way[n + 2] = cb
<1>1. Ply \in Nat /\ IsSequence(past) /\ Len(past) = Ply /\ Len(past') = Ply' /\ n \in Nat /\ Ply = n + 1
  BY KeyIsMade DEF BoardInv
<1>2. Len(past') = n /\ \A i \in 1..n : past'[i] = past[i]
  <2> DEFINE S == {past[i] : i \in DOMAIN past}
  <2>1. past \in Seq(S) /\ Len(past) = n + 1
    BY <1>1 DEF IsSequence
  <2> HIDE DEF S
  <2> QED BY <1>1, <2>1
<1>3. Way' = [i \in 1..(n + 1) |-> IF i <= n THEN past'[i] ELSE cb']
  BY <1>1, <1>2 DEF Way, BoardAt
<1>4. Way = [i \in 1..(n + 2) |-> IF i <= n + 1 THEN past[i] ELSE cb]
  <2>1. Ply + 1 = n + 2
    BY <1>1
  <2> QED BY <1>1, <2>1 DEF Way, BoardAt
<1>5. Way[n + 1] = cb' /\ Way[n + 2] = cb
  BY <1>1, <1>4
<1>6. ASSUME NEW i \in 1..(n + 1) PROVE (Way')[i] = Way[i]
  <2>1. CASE i \in 1..n
    BY <1>1, <1>2, <1>3, <1>4, <2>1
  <2>2. CASE i = n + 1
    BY <1>1, <1>3, <1>5, <2>2
  <2> QED BY <1>1, <2>1, <2>2
<1> QED BY <1>1, <1>2, <1>5, <1>6 DEF SameWay

\* Refreshing the pins changes no board but for its pins.
LEMMA WayStays ==
  ASSUME BoardInv, Refresh
  PROVE  Ply \in Nat /\ Ply' = Ply /\ SameWay(Way', Way, Ply)
<1>1. Ply \in Nat /\ Ply' = Ply /\ cb' = RefreshPins(cb) /\ past' = past
  BY KeyIsMade, RefreshStepKeeps DEF Refresh
<1>2. ExceptPins(cb', cb)
  BY <1>1, Refreshed
<1>3. Way' = [i \in 1..(Ply + 1) |-> IF i <= Ply THEN past[i] ELSE cb']
  BY <1>1 DEF Way, BoardAt
<1>4. Way = [i \in 1..(Ply + 1) |-> IF i <= Ply THEN past[i] ELSE cb]
  BY DEF Way, BoardAt
<1>5. ASSUME NEW i \in 1..(Ply + 1) PROVE (Way')[i].pieces = Way[i].pieces /\ (Way')[i].history = Way[i].history
  <2>1. CASE i <= Ply
    <3>1. (Way')[i] = Way[i]
      BY <1>1, <1>3, <1>4, <2>1
    <3> QED BY <3>1
  <2>2. CASE ~(i <= Ply)
    BY <1>1, <1>3, <1>4, <2>2, <1>2 DEF ExceptPins
  <2> QED BY <2>1, <2>2
<1> QED BY <1>1, <1>5 DEF SameWay

\* The last move of the board that a move led to.
LEMMA LeadsLast ==
  ASSUME NEW b, Sound(b), b.pinnedPiecesDirty = FALSE, NEW m, NEW z, Leads(b, m, z)
  PROVE  LastMoveOf(z) = m
<1>1. z.history = Append(b.history, Entry(b, m)) /\ IsSequence(b.history)
  BY LeadsRecords DEF Sound, Kept
<1>2. Len(z.history) = Len(b.history) + 1 /\ z.history[Len(b.history) + 1] = Entry(b, m)
  BY <1>1, AppendedBack
<1>3. Entry(b, m).move = m
  BY DEF Entry
<1> QED BY <1>2, <1>3 DEF LastMoveOf

\* The accumulators follow a move,
LEMMA MakeMoveFollowed ==
  ASSUME KeysHaveSlots, AccumulatorsInv, KingsStand, MakeMove
  PROVE  AccumulatorsInv'
<1>1. BoardInv /\ BoardInv'
  BY MakeMoveKeeps DEF AccumulatorsInv
<1>2. PICK m \in LegalMoves(cb) : Deepen(doMove(cb, m)) /\ nnue' = after_make(nnue, cb', m, cb.colorToMove)
  BY DEF MakeMove
<1>3. PICK b : b = RefreshPins(cb)
  OBVIOUS
<1>4. MoveLeads(b, m, cb')
  BY <1>1, <1>2, <1>3, MadeMoveLeads
<1>5. past' = Append(past, b)
  BY <1>2, <1>3 DEF Deepen
<1>6. Sound(b) /\ b.pinnedPiecesDirty = FALSE /\ ExceptPins(b, cb) /\ Sound(cb')
  BY <1>1, <1>3, Refreshed DEF BoardInv
<1>7. /\ Ply \in Nat /\ Ply' = Ply + 1 /\ SameWay(Way', Way, Ply)
      /\ Way'[Ply + 1] = b /\ Way'[Ply + 2] = cb'
  BY <1>1, <1>3, <1>5, WayDown
<1>8. b.colorToMove = cb.colorToMove /\ b.pieces = cb.pieces
  BY <1>6, Zenon DEF ExceptPins
<1>9. nnue.acc = full_refresh(b)
  BY <1>8, RefreshReads DEF AccumulatorsInv, AccumulatorsFresh
<1>10. PICK frame : frame = FrameOf(nnue, m, b.colorToMove)
  OBVIOUS
<1>11. /\ (nnue').acc = full_refresh(cb') /\ (nnue').stack = Append(nnue.stack, frame)
       /\ Rolled(frame, full_refresh(cb')) = full_refresh(b)
  <2>1. PICK x, made, eval : x = cb' /\ made = nnue' /\ eval = nnue
    OBVIOUS
  <2>2. /\ MoveLeads(b, m, x) /\ Sound(x) /\ made = after_make(eval, x, m, b.colorToMove)
        /\ eval.acc = full_refresh(b) /\ frame = FrameOf(eval, m, b.colorToMove)
    BY <1>2, <1>4, <1>6, <1>8, <1>9, <1>10, <2>1
  <2>3. /\ made.acc = full_refresh(x) /\ made.stack = Append(eval.stack, frame)
        /\ Rolled(frame, full_refresh(x)) = full_refresh(b)
    BY <1>6, <2>2, FrameMade
  <2> QED BY <2>1, <2>3
<1>12. LastMoveOf(cb') # NO_MOVE
  BY <1>4, <1>6, LeadsLast DEF MoveLeads
<1>13. IsSequence(nnue.stack) /\ Frames(nnue.stack, Way, Ply)
  BY DEF AccumulatorsInv
<1>14. Frames(Append(nnue.stack, frame), Way', Ply + 1)
  BY <1>7, <1>13, FramesSame, <1>11, <1>12, FramesMove
<1>15. IsSequence((nnue').stack)
  BY <1>11, <1>13, AppendedBack
<1>17. AccumulatorsFresh'
  BY <1>11 DEF AccumulatorsFresh
<1>18. IsSequence(nnue.stack)'
  BY <1>15 DEF IsSequence
<1> QED BY <1>1, <1>7, <1>11, <1>14, <1>17, <1>18 DEF AccumulatorsInv

\* a null move, which leaves the men where they are,
LEMMA MakeNullFollowed ==
  ASSUME KeysHaveSlots, AccumulatorsInv, MakeNull
  PROVE  AccumulatorsInv'
<1>1. BoardInv /\ BoardInv'
  BY MakeNullKeeps DEF AccumulatorsInv
<1>2. Deepen(doNullMove(cb)) /\ nnue' = nnue
  BY DEF MakeNull
<1>3. PICK b : b = RefreshPins(cb)
  OBVIOUS
<1>4. Sound(b) /\ b.pinnedPiecesDirty = FALSE /\ RefreshPins(b) = b /\ ExceptPins(b, cb)
      /\ b.zobristKey = cb.zobristKey /\ b.epIndex = cb.epIndex
  BY <1>1, <1>3, Refreshed
<1>5. cb' = doNullMove(b)
  BY <1>3, <1>4, <1>2 DEF doNullMove, Deepen
<1>6. past' = Append(past, b)
  BY <1>2, <1>3 DEF Deepen
<1>7. /\ Ply \in Nat /\ Ply' = Ply + 1 /\ SameWay(Way', Way, Ply)
      /\ Way'[Ply + 1] = b /\ Way'[Ply + 2] = cb'
  BY <1>1, <1>3, <1>6, WayDown
<1>8. PICK x : x = cb'
  OBVIOUS
<1>9. x = doNullMove(b) /\ Leads(b, NO_MOVE, x)
  BY <1>5, <1>8 DEF Leads
<1>10. LastMoveOf(x) = NO_MOVE
  BY <1>4, <1>9, LeadsLast
<1>11. x.pieces = cb.pieces
  <2>1. NullResult(b, x)
    BY <1>4, <1>9, NullFields DEF Sound, Kept
  <2>2. x.pieces = b.pieces
    BY <2>1, Zenon DEF NullResult, PlacesKept
  <2> QED BY <1>4, <2>2, Zenon DEF ExceptPins
<1>12. AccumulatorsFresh'
  BY <1>11, RefreshReads, <1>2, <1>8 DEF AccumulatorsFresh, AccumulatorsInv
<1>13. IsSequence(nnue.stack) /\ Frames(nnue.stack, Way, Ply)
  BY DEF AccumulatorsInv
<1>14. Frames(nnue.stack, Way', Ply + 1)
  BY <1>7, <1>13, FramesSame, <1>8, <1>10, FramesNull
<1>15. Frames((nnue').stack, Way', Ply') /\ IsSequence((nnue').stack)
  BY <1>2, <1>7, <1>13, <1>14
<1> QED BY <1>1, <1>12, <1>15 DEF AccumulatorsInv

\* a move taken back,
LEMMA UnmakeFollowed ==
  ASSUME KeysHaveSlots, AccumulatorsInv, UnmakeMove \/ UnmakeNull
  PROVE  AccumulatorsInv'
<1>1. BoardInv
  BY DEF AccumulatorsInv
<1>2. Ply > 0 /\ cb' = past[Ply] /\ Len(past) = Ply /\ past' = SubSeq(past, 1, Len(past) - 1)
  BY <1>1, UnmakeGives
<1>3. BoardInv'
  BY <1>1, <1>2, ReturnKeeps
<1>4. PICK n : n = Ply - 1
  OBVIOUS
<1>5. /\ n \in Nat /\ Ply = n + 1 /\ Ply' = n /\ SameWay(Way', Way, n)
      /\ Way[n + 1] = cb' /\ Way[n + 2] = cb
  BY <1>1, <1>2, <1>3, <1>4, WayUp
<1>6. IsSequence(nnue.stack) /\ Frames(nnue.stack, Way, n + 1) /\ nnue.acc = full_refresh(cb)
  BY <1>5 DEF AccumulatorsInv, AccumulatorsFresh
<1>7. LastMoveOf(Way[n + 2]) = LastMove
  BY <1>5 DEF LastMoveOf, LastMove, Ply
<1>8. CASE UnmakeMove
  <2>1. LastMoveOf(Way[n + 2]) # NO_MOVE /\ nnue' = after_unmake(nnue)
    BY <1>7, <1>8 DEF UnmakeMove
  <2>2. PICK top : top = Len(nnue.stack)
    OBVIOUS
  <2>3. /\ top \in Nat /\ top # 0
        /\ Rolled(nnue.stack[top], full_refresh(Way[n + 2])) = full_refresh(Way[n + 1])
        /\ IsSequence(SubSeq(nnue.stack, 1, top - 1))
        /\ Frames(SubSeq(nnue.stack, 1, top - 1), Way, n)
    BY <1>5, <1>6, <2>1, <2>2, FramesBack
  <2>4. nnue' = [acc |-> Rolled(nnue.stack[top], nnue.acc), stack |-> SubSeq(nnue.stack, 1, top - 1)]
    BY <2>1, <2>2, <2>3, Zenon DEF after_unmake, Rolled
  <2>5. (nnue').acc = Rolled(nnue.stack[top], nnue.acc) /\ (nnue').stack = SubSeq(nnue.stack, 1, top - 1)
    BY <2>4
  <2>6. AccumulatorsFresh'
    BY <1>5, <1>6, <2>3, <2>5 DEF AccumulatorsFresh
  <2>7. Frames((nnue').stack, Way', n) /\ IsSequence((nnue').stack)
    BY <1>5, <2>3, <2>5, FramesSame
  <2> QED BY <1>3, <1>5, <2>6, <2>7 DEF AccumulatorsInv
<1>9. CASE UnmakeNull
  <2>1. LastMoveOf(Way[n + 2]) = NO_MOVE /\ nnue' = nnue
    BY <1>7, <1>9 DEF UnmakeNull
  <2>2. Frames(nnue.stack, Way, n)
    BY <1>5, <1>6, <2>1, FramesNullBack
  <2>3. Frames((nnue').stack, Way', n) /\ IsSequence((nnue').stack)
    BY <1>5, <1>6, <2>1, <2>2, FramesSame
  <2>4. full_refresh(cb') = full_refresh(cb)
    <3>1. PICK b, x : b = past[Ply] /\ x = cb
      OBVIOUS
    <3>2. Linked(b, x)
      BY <1>5, <1>1, <3>1 DEF BoardAt, BoardInv
    <3>3. PICK m, z : Leads(b, m, z) /\ ExceptPins(x, z) /\ Sound(b) /\ b.pinnedPiecesDirty = FALSE
      BY <3>2 DEF Linked
    <3>4. LastMoveOf(z) = m /\ LastMoveOf(x) = LastMoveOf(z)
      BY <3>3, LeadsLast DEF ExceptPins, LastMoveOf
    <3>5. m = NO_MOVE
      BY <1>5, <2>1, <3>1, <3>4
    <3>6. z = doNullMove(b)
      BY <3>3, <3>5, MovesAreNot DEF Leads
    <3>7. NullResult(b, z)
      BY <3>3, <3>6, NullFields DEF Sound, Kept
    <3>8. z.pieces = b.pieces
      BY <3>7, Zenon DEF NullResult, PlacesKept
    <3>9. x.pieces = b.pieces
      BY <3>3, <3>8 DEF ExceptPins
    <3> QED BY <1>2, <3>1, <3>9, RefreshReads
  <2>5. AccumulatorsFresh'
    BY <1>6, <2>1, <2>4 DEF AccumulatorsFresh
  <2> QED BY <1>3, <1>5, <2>3, <2>5 DEF AccumulatorsInv
<1> QED BY <1>8, <1>9

\* and refreshed pins.
LEMMA RefreshFollowed ==
  ASSUME AccumulatorsInv, Refresh
  PROVE  AccumulatorsInv'
<1>1. BoardInv /\ BoardInv' /\ Ply \in Nat /\ Ply' = Ply /\ SameWay(Way', Way, Ply) /\ nnue' = nnue
  BY RefreshStepKeeps, WayStays DEF AccumulatorsInv, Refresh
<1>2. (cb').pieces = cb.pieces
  <2>1. PICK b : b = RefreshPins(cb)
    OBVIOUS
  <2>2. ExceptPins(b, cb) /\ cb' = b
    BY <1>1, <2>1, Refreshed DEF Refresh
  <2> QED BY <2>2 DEF ExceptPins
<1>3. AccumulatorsFresh'
  <2>1. PICK x : x = cb'
    OBVIOUS
  <2>2. full_refresh(x) = full_refresh(cb)
    BY <1>2, <2>1, RefreshReads
  <2> QED BY <1>1, <2>1, <2>2 DEF AccumulatorsFresh, AccumulatorsInv
<1>4. Frames((nnue').stack, Way', Ply') /\ IsSequence((nnue').stack)
  BY <1>1, FramesSame DEF AccumulatorsInv
<1> QED BY <1>1, <1>3, <1>4 DEF AccumulatorsInv

\* They are those of a new board at the start.
LEMMA InitFollowed ==
  ASSUME KeysHaveSlots, Init
  PROVE  AccumulatorsInv
<1>1. BoardInv /\ nnue = reset(cb) /\ past = <<>>
  BY InitInv DEF Init
<1>2. nnue.acc = full_refresh(cb) /\ nnue.stack = <<>>
  BY <1>1 DEF reset
<1>3. Ply = 0
  BY <1>1 DEF BoardInv
<1>4. IsSequence(nnue.stack)
  BY <1>2 DEF IsSequence
<1>5. Frames(nnue.stack, Way, 0)
  <2>1. PICK at : at = [j \in 1..0 |-> 0]
    OBVIOUS
  <2>2. Len(nnue.stack) = 0
    BY <1>2
  <2>3. at \in [1..0 -> 1..0]
    BY <2>1
  <2>4. at \in [1..Len(nnue.stack) -> 1..0] /\ \A j \in 1..Len(nnue.stack) : FALSE
    BY <2>2, <2>3
  <2>5. \A i \in 1..0 : FALSE
    OBVIOUS
  <2> QED BY <2>4, <2>5, Zenon DEF Frames
<1> QED BY <1>1, <1>2, <1>3, <1>4, <1>5 DEF AccumulatorsInv, AccumulatorsFresh

\* Every step keeps the accumulators those of the board.
LEMMA StepFollowed ==
  ASSUME KeysHaveSlots, AccumulatorsInv, KingsStand, [Next]_vars
  PROVE  AccumulatorsInv'
<1>1. CASE MakeMove
  BY <1>1, MakeMoveFollowed
<1>2. CASE MakeNull
  BY <1>2, MakeNullFollowed
<1>3. CASE UnmakeMove \/ UnmakeNull
  BY <1>3, UnmakeFollowed
<1>4. CASE Refresh
  BY <1>4, RefreshFollowed
<1>5. CASE UNCHANGED vars
  BY <1>5, StutterKeeps DEF vars, AccumulatorsInv, Way, BoardAt, AccumulatorsFresh
<1> QED BY <1>1, <1>2, <1>3, <1>4, <1>5 DEF Next

\* While no legal move captures a king, both accumulators of the evaluator hold what
\* a full refresh would compute for the board, however deep the search and whatever
\* was made and taken back: what apply_diff adds and takes away is what a move
\* changes, and a frame that was refreshed gives back the sums before it.
THEOREM AccumulatorsFollow ==
  ASSUME KeysHaveSlots
  PROVE  Spec /\ []KingsStand => []AccumulatorsFresh
<1>1. Init => AccumulatorsInv
  BY InitFollowed
<1>2. AccumulatorsInv /\ KingsStand /\ [Next]_vars => AccumulatorsInv'
  BY StepFollowed
<1>3. AccumulatorsInv => AccumulatorsFresh
  BY DEF AccumulatorsInv
<1> QED BY <1>1, <1>2, <1>3, PTL DEF Spec

-----------------------------------------------------------------------------
(***************************************************************************)
(* The text of a move names one move.                                      *)
(***************************************************************************)

\* a generated move, castling or not
Generated(b, m) == MoveOK(b, m) /\ Makes(b, m)

SamePromotion(m, n) == IF is_promotion(n) THEN is_promotion(m) /\ m.type = n.type ELSE ~is_promotion(m)

\* The moving piece is the one on the square that is left,
LEMMA SourceOf ==
  ASSUME NEW b, Sound(b), NEW m, MoveFits(b, m), NEW n, MoveFits(b, n), n.from = m.from
  PROVE  n.source = m.source
<1>1. PlacesTyped(b) /\ WhoIsWhere(b) /\ b.colorToMove \in Colors
  BY DEF Sound, Kept, PlacesTyped
<1>2. m.source \in PieceTypes /\ n.source \in PieceTypes
      /\ m.from \in b.pieces[b.colorToMove][m.source] /\ m.from \in b.pieces[b.colorToMove][n.source]
  BY DEF MoveFits
<1> QED BY <1>1, <1>2, FriendIs

\* nothing of ours is taken,
LEMMA TakenIsTheirs ==
  ASSUME NEW b, Sound(b), NEW m, MoveFits(b, m), OrdinaryFits(b, m)
  PROVE  m.to \notin b.friendlyPieces[b.colorToMove]
<1>1. PlacesTyped(b) /\ WhoIsWhere(b) /\ b.colorToMove \in Colors
  BY DEF Sound, Kept, PlacesTyped
<1>2. Opponent(b.colorToMove) \in Colors /\ Opponent(Opponent(b.colorToMove)) = b.colorToMove
  BY <1>1, ColorsTwo
<1>3. m.attacked # EMPTY => m.attacked \in PieceTypes
  BY DEF MoveFits, EMPTY, KING, PieceTypes, PAWN
<1>4. CASE m.type = TYPE_EP \/ m.attacked = EMPTY
  BY <1>4, <1>1, ColorsTwo DEF OrdinaryFits, Sound, EpSound, WhoIsWhere
<1>5. CASE m.type # TYPE_EP /\ m.attacked # EMPTY
  BY <1>5, <1>1, <1>2, <1>3, FriendIs DEF OrdinaryFits
<1> QED BY <1>4, <1>5

\* and a pawn that takes does not go straight, so that two moves between the same
\* squares, promoting to the same piece, are one;
LEMMA OrdinaryOne ==
  ASSUME NEW b, Sound(b), NEW m, Generated(b, m), ~is_castling(m), NEW n, Generated(b, n), ~is_castling(n),
         n.from = m.from, n.to = m.to, SamePromotion(m, n)
  PROVE  n = m
<1>1. PlacesTyped(b) /\ WhoIsWhere(b) /\ b.colorToMove \in Colors /\ Opponent(b.colorToMove) \in Colors
  BY ColorsTwo DEF Sound, Kept, PlacesTyped
<1>2. MoveFits(b, m) /\ OrdinaryFits(b, m) /\ Makes(b, m) /\ MoveFits(b, n) /\ OrdinaryFits(b, n) /\ Makes(b, n)
  BY DEF Generated, MoveOK
<1>3. n.source = m.source
  BY <1>2, SourceOf
<1>4. ASSUME NEW x, MoveFits(b, x), OrdinaryFits(b, x), Makes(b, x), x.type = TYPE_EP, NEW y, MoveFits(b, y), OrdinaryFits(b, y), Makes(b, y),
             y.from = x.from, y.to = x.to, y.source = x.source
      PROVE  y.type = TYPE_EP
  <2>1. x.source = PAWN /\ x.to = b.epIndex /\ b.epIndex # 0 /\ x.to \in Squares
    BY <1>4 DEF OrdinaryFits, MoveFits
  <2>2. x.to \notin b.allPieces
    BY <2>1 DEF Sound, EpSound
  <2>3. x.from \in PAWN_ATTACKS[Opponent(b.colorToMove)][x.to]
    BY <1>4 DEF Makes, is_ep
  <2>4. x.to - x.from \notin {8, 16, -8, -16}
    BY <1>1, <2>1, <2>3, TakesAslant
  <2>5. y.attacked # EMPTY
    BY <1>4, <2>1, <2>4 DEF Makes, MoveFits, Forward, Squares
  <2>6. y.type # TYPE_EP => y.to \in b.allPieces
    <3> SUFFICES ASSUME y.type # TYPE_EP PROVE y.to \in b.allPieces
      OBVIOUS
    <3>1. y.to \in b.pieces[Opponent(b.colorToMove)][y.attacked] /\ y.attacked \in EMPTY..KING
      BY <1>4, <2>5 DEF OrdinaryFits, MoveFits
    <3>2. y.attacked \in PieceTypes
      BY <2>5, <3>1 DEF EMPTY, KING, PieceTypes, PAWN
    <3> QED BY <1>1, <3>1, <3>2, FriendIs
  <2> QED BY <1>4, <2>2, <2>6
<1>5. n.type = TYPE_EP <=> m.type = TYPE_EP
  BY <1>2, <1>3, <1>4
<1>6. n.type = m.type
  BY <1>2, <1>5, TypesDiffer DEF OrdinaryFits, SamePromotion, is_promotion
<1>7. n.attacked = m.attacked
  <2>1. CASE m.type = TYPE_EP
    BY <1>2, <1>5, <2>1 DEF OrdinaryFits
  <2>2. CASE m.type # TYPE_EP
    <3>1. ASSUME NEW x, MoveFits(b, x), OrdinaryFits(b, x), x.type # TYPE_EP
          PROVE  /\ x.attacked = EMPTY => x.to \notin b.allPieces
                 /\ x.attacked # EMPTY => /\ x.attacked \in PieceTypes /\ x.to \in b.allPieces
                                          /\ b.pieceIndexes[x.to] = x.attacked
      BY <3>1, <1>1, FriendIs DEF MoveFits, EMPTY, KING, PieceTypes, PAWN, OrdinaryFits
    <3> QED BY <1>2, <1>5, <2>2, <3>1
  <2> QED BY <2>1, <2>2
<1>8. /\ m = [from |-> m.from, to |-> m.to, source |-> m.source, attacked |-> m.attacked, type |-> m.type]
      /\ n = [from |-> n.from, to |-> n.to, source |-> n.source, attacked |-> n.attacked, type |-> n.type]
  BY <1>2 DEF Makes
<1> QED BY <1>3, <1>6, <1>7, <1>8

\* The right that a castling move uses.
LEMMA CastlingRight ==
  ASSUME NEW b, Sound(b), NEW m, Generated(b, m), is_castling(m)
  PROVE  \E r \in b.castlingRights :
           /\ r \in Rights /\ OwnerOf(r) = b.colorToMove /\ m.to = KING_TO[r]
           /\ rook_from_for_king_target(b.castlingConfig, m.to) = b.castlingConfig.rook[r]
           /\ b.castlingConfig.rook[r] \in b.pieces[b.colorToMove][ROOK]
           /\ b.castlingConfig.rook[r] \in b.friendlyPieces[b.colorToMove]
           /\ m.from = b.castlingConfig.king[b.colorToMove] /\ m.from = b.kingIndex[b.colorToMove]
           /\ {m.to} \cap b.allPieces \subseteq {m.from, b.castlingConfig.rook[r]}
<1>0. MoveFits(b, m) /\ CastlingFits(b, m)
  BY DEF Generated, MoveOK
<1>1. PlacesTyped(b) /\ WhoIsWhere(b) /\ b.colorToMove \in Colors /\ KingsAre(b) /\ RightsSound(b) /\ b.castlingRights \subseteq Rights
  BY DEF Sound, Kept, PlacesTyped
<1>2. PICK r \in b.castlingRights :
       /\ OwnerOf(r) = b.colorToMove
       /\ m.to = KING_TO[r]
       /\ {KING_TO[r], ROOK_TO[r]} \cap b.allPieces \subseteq {b.castlingConfig.king[OwnerOf(r)], b.castlingConfig.rook[r]}
  BY <1>0 DEF CastlingFits
<1>3. r \in Rights
  BY <1>1
<1>4. rook_from_for_king_target(b.castlingConfig, m.to) = b.castlingConfig.rook[r]
  BY <1>2, <1>3, TargetsDiffer DEF rook_from_for_king_target, Targets
<1>5. b.castlingConfig.rook[r] \in b.pieces[b.colorToMove][ROOK] /\ b.castlingConfig.king[b.colorToMove] = b.kingIndex[b.colorToMove]
  BY <1>1, <1>2 DEF RightsSound
<1>6. ROOK \in PieceTypes
  BY DEF ROOK, PieceTypes, PAWN, KING
<1>7. b.castlingConfig.rook[r] \in b.friendlyPieces[b.colorToMove]
  BY <1>1, <1>5, <1>6, FriendIs
<1>8. m.from = b.kingIndex[b.colorToMove]
  BY <1>0, <1>1 DEF MoveFits, CastlingFits, KingsAre
<1> QED BY <1>1, <1>2, <1>3, <1>4, <1>5, <1>7, <1>8

\* a castling move is told by its target and by its rook.
LEMMA CastlingOne ==
  ASSUME NEW b, Sound(b), NEW m, Generated(b, m), is_castling(m), NEW n, Generated(b, n), is_castling(n)
  PROVE  /\ n.to = m.to => n = m
         /\ rook_from_for_king_target(b.castlingConfig, n.to) = rook_from_for_king_target(b.castlingConfig, m.to) => n = m
         /\ n.to = rook_from_for_king_target(b.castlingConfig, m.to) => n = m
<1> DEFINE cfg == b.castlingConfig
           us == b.colorToMove
<1>1. PICK r \in b.castlingRights :
           /\ r \in Rights /\ OwnerOf(r) = us /\ m.to = KING_TO[r]
           /\ rook_from_for_king_target(cfg, m.to) = cfg.rook[r]
           /\ cfg.rook[r] \in b.pieces[us][ROOK]
           /\ cfg.rook[r] \in b.friendlyPieces[us]
           /\ m.from = cfg.king[us] /\ m.from = b.kingIndex[us]
           /\ {m.to} \cap b.allPieces \subseteq {m.from, cfg.rook[r]}
  BY CastlingRight
<1>2. PICK q \in b.castlingRights :
           /\ q \in Rights /\ OwnerOf(q) = us /\ n.to = KING_TO[q]
           /\ rook_from_for_king_target(cfg, n.to) = cfg.rook[q]
           /\ cfg.rook[q] \in b.pieces[us][ROOK]
           /\ cfg.rook[q] \in b.friendlyPieces[us]
           /\ n.from = cfg.king[us] /\ n.from = b.kingIndex[us]
           /\ {n.to} \cap b.allPieces \subseteq {n.from, cfg.rook[q]}
  BY CastlingRight
<1>3. PlacesTyped(b) /\ WhoIsWhere(b) /\ us \in Colors /\ KingsAre(b) /\ RightsSound(b)
  BY DEF Sound, Kept, PlacesTyped
<1>4. n.to = m.to => n = m
  <2> SUFFICES ASSUME n.to = m.to PROVE n = m
    OBVIOUS
  <2>1. /\ m = [from |-> m.from, to |-> m.to, source |-> m.source, attacked |-> m.attacked, type |-> m.type]
        /\ n = [from |-> n.from, to |-> n.to, source |-> n.source, attacked |-> n.attacked, type |-> n.type]
    BY DEF Generated, Makes
  <2>2. m.source = KING /\ n.source = KING /\ m.attacked = EMPTY /\ n.attacked = EMPTY /\ m.type = TYPE_CASTLING /\ n.type = TYPE_CASTLING
    BY DEF Generated, MoveOK, CastlingFits
  <2>3. m.from = n.from
    BY <1>1, <1>2
  <2> QED BY <2>1, <2>2, <2>3
<1>5. cfg.rook[q] = cfg.rook[r] => q = r
  BY <1>1, <1>2, <1>3 DEF RightsSound, Rights
<1>6. n.to = cfg.rook[r] => q = r
  <2> SUFFICES ASSUME n.to = cfg.rook[r] PROVE q = r
    OBVIOUS
  <2>1. ROOK \in PieceTypes /\ KING \in PieceTypes /\ ROOK # KING
    BY DEF ROOK, KING, PieceTypes, PAWN
  <2>2. n.to \in b.allPieces /\ b.pieceIndexes[n.to] = ROOK
    BY <1>1, <1>3, <2>1, FriendIs
  <2>3. n.from \in b.pieces[us][KING]
    BY <1>2, <1>3 DEF KingsAre
  <2>4. b.pieceIndexes[n.from] = KING
    BY <1>3, <2>1, <2>3, FriendIs
  <2>5. n.to = cfg.rook[q]
    BY <1>2, <2>1, <2>2, <2>4
  <2> QED BY <1>5, <2>5
<1> QED BY <1>1, <1>2, <1>4, <1>5, <1>6

\* A step of the king to the target of a castling takes nothing.
LEMMA StepBesideCastling ==
  ASSUME NEW b, Sound(b), NEW m, Generated(b, m), ~is_castling(m), NEW n, Generated(b, n), is_castling(n),
         n.from = m.from, n.to = m.to
  PROVE  m.source = KING /\ m.attacked = EMPTY /\ m.to \in KING_MOVES[m.from]
<1>1. PICK r \in b.castlingRights :
           /\ b.castlingConfig.rook[r] \in b.friendlyPieces[b.colorToMove]
           /\ {n.to} \cap b.allPieces \subseteq {n.from, b.castlingConfig.rook[r]}
  BY CastlingRight
<1>2. MoveFits(b, m) /\ OrdinaryFits(b, m) /\ Makes(b, m) /\ MoveFits(b, n) /\ n.source = KING
  BY DEF Generated, MoveOK, CastlingFits
<1>3. m.source = KING
  BY <1>2, SourceOf
<1>4. m.to \in KING_MOVES[m.from]
  BY <1>2, <1>3 DEF Makes
<1>5. m.attacked = EMPTY
  <2> SUFFICES ASSUME m.attacked # EMPTY PROVE FALSE
    OBVIOUS
  <2>1. m.type # TYPE_EP
    BY <1>2, <1>3, TypesDiffer DEF OrdinaryFits
  <2>2. m.to \in b.pieces[Opponent(b.colorToMove)][m.attacked] /\ m.attacked \in EMPTY..KING
    BY <1>2, <2>1 DEF OrdinaryFits, MoveFits
  <2>3. m.attacked \in PieceTypes
    BY <2>2 DEF EMPTY, KING, PieceTypes, PAWN
  <2>4. PlacesTyped(b) /\ WhoIsWhere(b) /\ b.colorToMove \in Colors /\ Opponent(b.colorToMove) \in Colors
    BY ColorsTwo DEF Sound, Kept, PlacesTyped
  <2>5. m.to \in b.allPieces
    BY <2>2, <2>3, <2>4, FriendIs
  <2>6. m.to \notin b.friendlyPieces[b.colorToMove]
    BY <1>2, TakenIsTheirs
  <2> QED BY <1>1, <1>2, <2>5, <2>6 DEF OrdinaryFits
<1> QED BY <1>3, <1>4, <1>5

\* From the classic squares no king steps to the target of its castling.
LEMMA ClassicTargets ==
  ASSUME NEW r \in Rights, NEW k, k = IF OwnerOf(r) = WHITE THEN 3 ELSE 59
  PROVE  KING_TO[r] \notin KING_MOVES[k]
<1>1. KING_TO[r] = CASE r = 8 -> 1 [] r = 4 -> 5 [] r = 2 -> 57 [] OTHER -> 61
  BY Zenon DEF KING_TO
<1>2. OwnerOf(r) = WHITE <=> r \in {8, 4}
  BY DEF OwnerOf, WHITE, BLACK
<1>3. k \in Squares /\ KING_MOVES[k] = {t \in Squares : IsKingMove(k, t)}
  BY DEF KING_MOVES, Squares
<1>4. ~IsKingMove(k, KING_TO[r])
  BY <1>1, <1>2 DEF Rights, IsKingMove, RankOf
<1> QED BY <1>3, <1>4

\* Among the moves that a text names, the one it was made of is listed first.
LEMMA NamedFirst ==
  ASSUME NEW b, Sound(b), NEW m, Generated(b, m), NEW frc \in BOOLEAN,
         frc \/ b.castlingConfig.king = [c \in Colors |-> IF c = WHITE THEN 3 ELSE 59],
         NEW n, Generated(b, n), Names(b, move_to_uci(m, b.castlingConfig, frc), n, frc)
  PROVE  n = m \/ (ListedBefore(m, n) /\ ~ListedBefore(n, m))
<1> DEFINE cfg == b.castlingConfig
           us == b.colorToMove
           rook(x) == rook_from_for_king_target(cfg, x.to)
<1>1. /\ n.from = m.from /\ SamePromotion(m, n)
      /\ \/ n.to = IF frc /\ is_castling(m) THEN rook(m) ELSE m.to
         \/ frc /\ is_castling(n) /\ rook(n) = IF frc /\ is_castling(m) THEN rook(m) ELSE m.to
  <2>1. PICK text : text = move_to_uci(m, cfg, frc)
    OBVIOUS
  <2>2. /\ text.from = m.from /\ text.to = (IF frc /\ is_castling(m) THEN rook(m) ELSE m.to)
        /\ text.promo = (IF is_promotion(m) THEN m.type ELSE EMPTY)
    BY <2>1 DEF move_to_uci
  <2>3. /\ n.from = text.from /\ (n.to = text.to \/ (frc /\ is_castling(n) /\ rook(n) = text.to))
        /\ text.promo = IF is_promotion(n) THEN n.type ELSE EMPTY
    BY <2>1 DEF Names
  <2>4. EMPTY \notin PromotionTypes
    BY DEF PromotionTypes, EMPTY, NIGHT, BISHOP, ROOK, QUEEN
  <2>5. SamePromotion(m, n)
    BY <2>2, <2>3, <2>4 DEF SamePromotion, is_promotion
  <2> QED BY <2>2, <2>3, <2>5
<1>2. /\ is_castling(m) => rook(m) \in b.friendlyPieces[us]
      /\ is_castling(n) => rook(n) \in b.friendlyPieces[us]
  BY CastlingRight
<1>3. /\ ~is_castling(m) => m.to \notin b.friendlyPieces[us]
      /\ ~is_castling(n) => n.to \notin b.friendlyPieces[us]
  BY TakenIsTheirs DEF Generated, MoveOK
<1> HIDE DEF cfg, us, rook
<1>4. CASE ~is_castling(m) /\ ~is_castling(n)
  BY <1>1, <1>4, OrdinaryOne
<1>5. CASE is_castling(m) /\ is_castling(n)
  BY <1>1, <1>5, CastlingOne DEF cfg, rook
<1>6. CASE ~is_castling(m) /\ is_castling(n)
  BY <1>1, <1>2, <1>3, <1>6, StepBesideCastling DEF Generated, MoveOK, CastlingFits, ListedBefore
<1>7. CASE is_castling(m) /\ ~is_castling(n)
  <2>1. ~frc /\ n.to = m.to
    BY <1>1, <1>2, <1>3, <1>7
  <2>2. n.to \in KING_MOVES[m.from]
    BY <1>1, <1>7, <2>1, StepBesideCastling
  <2>3. PICK r \in Rights : OwnerOf(r) = us /\ m.to = KING_TO[r] /\ m.from = cfg.king[us]
    BY <1>7, CastlingRight DEF cfg, us
  <2>4. us \in Colors /\ cfg.king = [c \in Colors |-> IF c = WHITE THEN 3 ELSE 59]
    BY <2>1 DEF Sound, Kept, PlacesTyped, us, cfg
  <2>5. m.from = IF OwnerOf(r) = WHITE THEN 3 ELSE 59
    BY <2>3, <2>4
  <2> QED BY <2>1, <2>2, <2>3, <2>5, ClassicTargets
<1> QED BY <1>4, <1>5, <1>6, <1>7

\* A text of a move names the move it was made of,
LEMMA NamesItself ==
  ASSUME NEW b, NEW m, m.to \in Int, NEW frc \in BOOLEAN
  PROVE  Names(b, move_to_uci(m, b.castlingConfig, frc), m, frc) /\ ~ListedBefore(m, m)
<1>1. PICK text : text = move_to_uci(m, b.castlingConfig, frc)
  OBVIOUS
<1>2. /\ text.from = m.from
      /\ text.to = (IF frc /\ is_castling(m) THEN rook_from_for_king_target(b.castlingConfig, m.to) ELSE m.to)
      /\ text.promo = (IF is_promotion(m) THEN m.type ELSE EMPTY)
  BY <1>1 DEF move_to_uci
<1>3. Names(b, text, m, frc)
  BY <1>2 DEF Names
<1> QED BY <1>1, <1>3 DEF ListedBefore

\* and is read back as that move.
LEMMA ReadBack ==
  ASSUME BoardInv, NEW m \in LegalMoves(cb), NEW frc \in BOOLEAN, frc \/ ClassicSquares
  PROVE  uci_to_move(cb, move_to_uci(m, cb.castlingConfig, frc), frc) = m
<1>1. PICK x, b, text : x = cb /\ b = RefreshPins(cb) /\ text = move_to_uci(m, cb.castlingConfig, frc)
  OBVIOUS
<1>2. Sound(b) /\ b.castlingConfig = x.castlingConfig
  BY <1>1, Refreshed DEF ExceptPins
<1>3. LegalMoves(x) = {n \in generateMoves(b) \cup generateAttacks(b) : isLegal(b, n)}
  BY <1>1 DEF LegalMoves
<1>4. \A n \in LegalMoves(x) : Generated(b, n)
  BY <1>2, <1>3, GeneratorFits, GeneratorMakes DEF Generated
<1>5. \A n : Names(x, text, n, frc) <=> Names(b, text, n, frc)
  BY <1>2 DEF Names
<1>6. text = move_to_uci(m, b.castlingConfig, frc) /\ m \in LegalMoves(x)
  BY <1>1, <1>2
<1>7. frc \/ b.castlingConfig.king = [c \in Colors |-> IF c = WHITE THEN 3 ELSE 59]
  BY <1>1, <1>2 DEF ClassicSquares
<1> DEFINE named == {n \in LegalMoves(x) : Names(x, text, n, frc)}
<1>8. m \in named /\ ~ListedBefore(m, m)
  <2>1. m.to \in Int
    BY <1>4, <1>6 DEF Generated, MoveOK, MoveFits, Squares
  <2> QED BY <1>5, <1>6, <2>1, NamesItself
<1>9. \A n \in named : n = m \/ (ListedBefore(m, n) /\ ~ListedBefore(n, m))
  BY <1>2, <1>4, <1>5, <1>6, <1>7, NamedFirst
<1>10. uci_to_move(x, text, frc) = IF named = {} THEN NO_MOVE ELSE CHOOSE y \in named : ~\E n \in named : ListedBefore(n, y)
  BY DEF uci_to_move
<1> HIDE DEF named
<1>11. ~\E n \in named : ListedBefore(n, m)
  BY <1>8, <1>9
<1>12. \A y \in named : (~\E n \in named : ListedBefore(n, y)) => y = m
  BY <1>8, <1>9
<1> QED BY <1>1, <1>8, <1>10, <1>11, <1>12

\* While no legal move captures a king, a move sent to the GUI or by it is the same
\* move when it is read back, with Chess960 notation, where a castling move goes by
\* the square of its rook, and, from the classic squares, without it
\* (move_to_uci and uci_to_move, uci_move.cpp).
THEOREM TextNamesTheMove ==
  ASSUME KeysHaveSlots
  PROVE  Spec /\ []KingsStand => []UciRoundTrip
<1>1. Spec /\ []KingsStand => []BoardInv
  BY BoardStaysSound
<1>2. BoardInv => UciRoundTrip
  BY ReadBack DEF UciRoundTrip
<1> QED BY <1>1, <1>2, PTL

-----------------------------------------------------------------------------
(***************************************************************************)
(* Castling and a null move leave the side that has moved out of check.    *)
(***************************************************************************)

\* Castling leaves a guarded board: the king's target was searched for attacks
\* with the king and the rook lifted.
LEMMA CastlingGuards ==
  ASSUME NEW b, Sound(b), Guarded(b), NEW m, CastlingFacts(b, m), Makes(b, m), is_castling(m),
         NEW x, x = doCastling960(b, m)
  PROVE  Guarded(x)
<1> DEFINE us == b.colorToMove
           them == Opponent(us)
           c == CastledSquares(b, m)
<1>1. /\ us \in Colors /\ them \in Colors /\ Opponent(them) = us /\ them # us /\ b.pieces \in Men
      /\ b.allPieces \subseteq Squares /\ b.pieces[us][KING] = {b.kingIndex[us]} /\ b.pieces[them][KING] = {b.kingIndex[them]}
  BY SoundSays
<1>2. CastlingResult(b, m, x) /\ CastlingChecksFound(x) /\ PlacesTyped(x) /\ WhoIsWhere(x) /\ x.pieces \in Men
  BY CastlingSays, CastlingPlacesSound DEF PlacesTyped
<1>3. x.kingIndex = [b.kingIndex EXCEPT ![us] = m.to] /\ x.colorToMove = them /\ x.pinnedPiecesDirty = TRUE
  BY ONLY <1>2, Zenon DEF CastlingResult
<1>4. b.kingIndex \in [Colors -> Squares]
  BY DEF Sound, Kept
<1>5. x.kingIndex[us] = m.to
  BY <1>1, <1>3, <1>4
<1>6. PICK r \in b.castlingRights : OwnerOf(r) = us /\ c.rookFrom = b.castlingConfig.rook[r] /\ m.to = KING_TO[r]
  BY DEF CastlingFacts
<1>7. r \in Rights
  BY DEF Sound
<1>8. RightOfTarget(m.to) = r
  BY <1>6, <1>7, TargetsDiffer
<1>9. b.castlingConfig.king[us] = m.from /\ m.from = b.kingIndex[us]
  BY <1>6, <1>1 DEF Sound, RightsSound, CastlingFacts
<1> DEFINE others == b.allPieces \ {m.from, c.rookFrom}
<1>10. ~is_in_check_including_king(m.to, us, b.pieces[them], others, TRUE)
  <2>1. isValidCastlingMove(b, m.from, m.to)
    BY DEF Makes
  <2>2. (IF m.from \in b.pieces[WHITE][KING] THEN WHITE ELSE BLACK) = us
    <3>1. b.pieces[us][KING] = {m.from} /\ m.from \notin b.pieces[them][KING]
      BY <1>1, <1>9, TypesDiffer, FriendIs, SoundSays
    <3>2. (us = WHITE /\ them = BLACK) \/ (us = BLACK /\ them = WHITE)
      BY <1>1 DEF Colors, WHITE, BLACK
    <3> QED BY <3>1, <3>2
  <2>3. m.to \in KingWay(b.castlingConfig, r)
    BY <1>6 DEF KingWay
  <2>4. b.allPieces \ {b.castlingConfig.king[OwnerOf(RightOfTarget(m.to))], b.castlingConfig.rook[RightOfTarget(m.to)]} = others
    BY <1>6, <1>8, <1>9
  <2> HIDE DEF others
  <2>5. \A s \in KingWay(b.castlingConfig, RightOfTarget(m.to)) :
          ~is_in_check_including_king(s, us, b.pieces[Opponent(us)], others, TRUE)
    BY <2>1, <2>2, <2>4, Zenon DEF isValidCastlingMove
  <2> QED BY <1>8, <2>3, <2>5
<1>11. KingSafe(x)
  <2>1. SUFFICES ASSUME NEW s, Hits(x.pieces, them, PieceTypes, s, m.to, x.allPieces) PROVE FALSE
    BY <1>1, <1>3, <1>5 DEF KingSafe
  <2>2. PICK p \in PieceTypes : s \in x.pieces[them][p] /\ Aims(p, them, s, m.to) /\ IN_BETWEEN[s][m.to] \cap x.allPieces = {}
    BY <2>1 DEF Hits
  <2>3. s \in Squares
    BY <1>1, <1>2, <2>2 DEF Men
  <2>4. s \in b.pieces[them][p]
    BY <1>1, <2>2, <2>3, CastlingStands
  <2>5. \A u \in Squares : u \in others => u \in x.allPieces
    <3> TAKE u \in Squares
    <3> HAVE u \in others
    <3>1. PICK d \in Colors, q \in PieceTypes : u \in b.pieces[d][q]
      BY SoundSays, AllIs
    <3>2. u \notin CastlingGone(b, m)
      BY DEF CastlingGone
    <3>3. u \in x.pieces[d][q]
      BY <3>1, <3>2, CastlingStands
    <3> QED BY <1>2, <3>3, AllIs
  <2> HIDE DEF others
  <2>6. m.to \in Squares
    BY DEF CastlingFacts
  <2>7. IN_BETWEEN[s][m.to] \cap others = {}
    BY <2>2, <2>3, <2>5, <2>6, BetweenOnBoard
  <2>8. Hits(b.pieces, them, PieceTypes, s, m.to, others)
    BY <2>2, <2>4, <2>7 DEF Hits
  <2>9. is_in_check_including_king(m.to, us, b.pieces[them], others, TRUE)
    <3>1. us = Opponent(them) /\ them \in Colors /\ b.pieces \in Men
      BY <1>1
    <3> HIDE DEF us, them
    <3> QED BY ONLY <2>6, <2>8, <3>1, CheckIs
  <2> QED BY <1>10, <2>9
<1>12. ChecksFit(x)
  <2>1. PICK y : /\ x.checkingPieces = checkingPiecesFull(y)
                 /\ y.pieces = x.pieces /\ y.allPieces = x.allPieces
                 /\ y.kingIndex = x.kingIndex /\ y.colorToMove = x.colorToMove
    BY <1>2, Zenon DEF CastlingChecksFound
  <2> QED BY <2>1 DEF ChecksFit, checkingPiecesFull
<1>13. PinsFit(x)
  BY <1>3 DEF PinsFit
<1> QED BY <1>11, <1>12, <1>13 DEF Guarded

\* The lone blockers are read from the places of the pieces and the material key.
LEMMA LoneRead ==
  ASSUME NEW b, NEW x, x.pieces = b.pieces, x.kingIndex = b.kingIndex, x.allPieces = b.allPieces, x.materialKey = b.materialKey,
         x.friendlyPieces = b.friendlyPieces
  PROVE  PinsOf(x) = PinsOf(b) /\ DiscoverersOf(x) = DiscoverersOf(b)
<1>1. \A c : LoneBlockers(x, c) = LoneBlockers(b, c)
  BY DEF LoneBlockers, Sliders
<1> QED BY <1>1 DEF PinsOf, DiscoverersOf

\* A null move leaves a guarded board, out of check.
LEMMA NullGuards ==
  ASSUME NEW b, Sound(b), Guarded(b), b.pinnedPiecesDirty = FALSE, b.checkingPieces = {}, NEW x, x = doNullMove(b)
  PROVE  Guarded(x)
<1> DEFINE us == b.colorToMove
           them == Opponent(us)
<1>0. KingSafe(b) /\ ChecksFit(b) /\ PinsFit(b)
  BY DEF Guarded
<1>1. /\ us \in Colors /\ them \in Colors /\ Opponent(them) = us /\ them # us /\ b.pieces \in Men /\ IsBoard(b)
      /\ b.kingIndex[us] \in Squares /\ b.kingIndex[them] \in Squares
  BY SoundSays
<1>2. NullResult(b, x)
  BY <1>1, NullFields
<1>3. /\ PlacesKept(b, x) /\ x.colorToMove = them /\ x.checkingPieces = {}
      /\ x.pinnedPieces = b.pinnedPieces /\ x.discoveredPieces = b.discoveredPieces
  BY ONLY <1>2, b.checkingPieces = {}, Zenon DEF NullResult
<1>4. /\ x.pieces = b.pieces /\ x.friendlyPieces = b.friendlyPieces /\ x.allPieces = b.allPieces
      /\ x.kingIndex = b.kingIndex /\ x.materialKey = b.materialKey
  BY <1>3 DEF PlacesKept
<1>5. KingSafe(x)
  <2>1. SUFFICES ASSUME NEW s, Hits(b.pieces, them, PieceTypes, s, b.kingIndex[us], b.allPieces) PROVE FALSE
    BY <1>1, <1>3, <1>4 DEF KingSafe
  <2>2. s \in b.checkingPieces
    BY <1>0, <2>1, HitterIs
  <2> QED BY <2>2
<1>6. ChecksFit(x)
  <2>1. SUFFICES ASSUME NEW s, s \in checkingPiecesFull(x) PROVE FALSE
    BY <1>3 DEF ChecksFit
  <2>2. s \in Attackers(b.kingIndex[them], them, b.pieces[us], b.allPieces)
    BY <1>1, <1>3, <1>4, <2>1 DEF checkingPiecesFull
  <2>3. Hits(b.pieces, us, PAWN..QUEEN, s, b.kingIndex[them], b.allPieces)
    BY <1>1, <2>2, AttackersAre
  <2>4. Hits(b.pieces, us, PieceTypes, s, b.kingIndex[them], b.allPieces)
    BY <2>3, PieceCodes DEF Hits
  <2> QED BY <1>0, <2>4 DEF KingSafe
<1>7. PinsFit(x)
  BY <1>4, LoneRead, <1>0, <1>3 DEF PinsFit
<1> QED BY <1>5, <1>6, <1>7 DEF Guarded

\* Refreshing the pins makes them those of the board.
LEMMA RefreshGuards ==
  ASSUME NEW b, Sound(b), b.pinnedPiecesDirty \in BOOLEAN, Guarded(b), NEW x, x = RefreshPins(b)
  PROVE  Guarded(x)
<1>1. IsBoard(b)
  BY SoundSays
<1>2. ExceptPins(x, b) /\ x.pinnedPiecesDirty = FALSE
  BY <1>1, RefreshKeeps
<1>3. /\ x.pieces = b.pieces /\ x.friendlyPieces = b.friendlyPieces /\ x.allPieces = b.allPieces
      /\ x.kingIndex = b.kingIndex /\ x.materialKey = b.materialKey /\ x.colorToMove = b.colorToMove
      /\ x.checkingPieces = b.checkingPieces
  BY ONLY <1>2, Zenon DEF ExceptPins
<1>4. KingSafe(x) /\ ChecksFit(x)
  BY <1>3 DEF Guarded, KingSafe, ChecksFit, checkingPiecesFull
<1>5. PinsOf(x) = PinsOf(b) /\ DiscoverersOf(x) = DiscoverersOf(b)
  BY <1>3, LoneRead
<1>6. x.pinnedPieces = PinsOf(b) /\ x.discoveredPieces = DiscoverersOf(b)
  <2>1. CASE b.pinnedPiecesDirty = FALSE
    <3>1. x = b
      BY <2>1 DEF RefreshPins
    <3> QED BY <2>1, <3>1 DEF Guarded, PinsFit
  <2>2. CASE b.pinnedPiecesDirty = TRUE
    <3> DEFINE lone == [c \in Colors |-> LoneBlockers(b, c)]
    <3>1. x = [setPinnedAndDiscoPieces(b) EXCEPT !.pinnedPiecesDirty = FALSE]
      BY <2>2 DEF RefreshPins
    <3>2. UNION {lone[c] \cap b.friendlyPieces[c] : c \in Colors} = PinsOf(b)
      BY DEF PinsOf
    <3>3. UNION {lone[c] \cap b.friendlyPieces[Opponent(c)] : c \in Colors} = DiscoverersOf(b)
      BY DEF DiscoverersOf
    <3>4. setPinnedAndDiscoPieces(b) = [b EXCEPT !.pinnedPieces = UNION {lone[c] \cap b.friendlyPieces[c] : c \in Colors},
                                                 !.discoveredPieces = UNION {lone[c] \cap b.friendlyPieces[Opponent(c)] : c \in Colors}]
      BY DEF setPinnedAndDiscoPieces
    <3> HIDE DEF lone
    <3>5. setPinnedAndDiscoPieces(b) = [b EXCEPT !.pinnedPieces = PinsOf(b), !.discoveredPieces = DiscoverersOf(b)]
      BY <3>2, <3>3, <3>4
    <3>6. x = [[b EXCEPT !.pinnedPieces = PinsOf(b), !.discoveredPieces = DiscoverersOf(b)] EXCEPT !.pinnedPiecesDirty = FALSE]
      BY <3>1, <3>5
    <3> QED BY <1>1, <3>6 DEF IsBoard
  <2> QED BY <2>1, <2>2
<1>7. PinsFit(x)
  BY <1>5, <1>6 DEF PinsFit
<1> QED BY <1>4, <1>7 DEF Guarded

-----------------------------------------------------------------------------
(***************************************************************************)
(* The material key shows the pieces while its counts fit.                 *)
(***************************************************************************)

\* The counts of both sides fit their half of the key.
CountsHold(b) == \A c \in Colors : HalfOfMen(b.pieces, c) < HALF

MaterialHolds == CountsHold(cb)

\* Counts that fit show every slider and every piece that is not a pawn.
LEMMA CountsTell ==
  ASSUME NEW P \in Men, \A c \in Colors : HalfOfMen(P, c) < HALF, NEW key, key = calculateMaterialKey(P), NEW c \in Colors
  PROVE  /\ (\E p \in BISHOP..QUEEN : P[c][p] # {}) => has_sliding_pieces(key, c)
         /\ (\E p \in NIGHT..QUEEN : P[c][p] # {}) => has_major_pieces(key, c)
<1>1. \A d \in Colors : HalfOfMen(P, d) \in Nat /\ HalfOfMen(P, d) < 65536
  <2> TAKE d \in Colors
  <2>1. /\ \A p \in PieceTypes : Cardinality(P[d][p]) \in Nat
        /\ HalfOfMen(P, d) = Cardinality(P[d][PAWN]) + 16 * Cardinality(P[d][NIGHT]) + 128 * Cardinality(P[d][BISHOP])
                                + 1024 * Cardinality(P[d][ROOK]) + 8192 * Cardinality(P[d][QUEEN])
    BY CountsOfMen
  <2>2. HalfOfMen(P, d) < 65536
    BY DEF HALF
  <2>3. PAWN \in PieceTypes /\ NIGHT \in PieceTypes /\ BISHOP \in PieceTypes /\ ROOK \in PieceTypes /\ QUEEN \in PieceTypes
    BY PieceCodes
  <2>4. /\ Cardinality(P[d][PAWN]) \in Nat /\ Cardinality(P[d][NIGHT]) \in Nat /\ Cardinality(P[d][BISHOP]) \in Nat
        /\ Cardinality(P[d][ROOK]) \in Nat /\ Cardinality(P[d][QUEEN]) \in Nat
    BY <2>1, <2>3
  <2>5. HalfOfMen(P, d) \in Nat
    BY ONLY <2>1, <2>4
  <2> QED BY <2>2, <2>5
<1>2. HalfOf(key, c) = HalfOfMen(P, c)
  <2> DEFINE w == HalfOfMen(P, WHITE)
             v == HalfOfMen(P, BLACK)
  <2>1. key = Added(NO_MATERIAL, w, v)
    BY MaterialKeyFrom
  <2>2. w \in Nat /\ w < 65536 /\ v \in Nat /\ v < 65536
    BY <1>1, ColorsTwo
  <2> HIDE DEF w, v
  <2>3. Added(NO_MATERIAL, w, v) = [low |-> (0 + w) % 65536, high |-> (0 + v + (0 + w) \div 65536) % 65536]
    BY DEF Added, NO_MATERIAL, HALF
  <2>4. (0 + w) % 65536 = w /\ (0 + w) \div 65536 = 0
    BY <2>2
  <2>5. (0 + v + 0) % 65536 = v
    BY <2>2
  <2>6. key = [low |-> w, high |-> v]
    BY <2>1, <2>3, <2>4, <2>5
  <2>7. HalfOf(key, WHITE) = w /\ HalfOf(key, BLACK) = v
    BY <2>6 DEF HalfOf, WHITE, BLACK
  <2>8. c = WHITE \/ c = BLACK
    BY DEF Colors, WHITE, BLACK
  <2> QED BY <2>7, <2>8 DEF w, v
<1>3. /\ \A p \in PieceTypes : Cardinality(P[c][p]) \in Nat
      /\ HalfOfMen(P, c) = Cardinality(P[c][PAWN]) + 16 * Cardinality(P[c][NIGHT]) + 128 * Cardinality(P[c][BISHOP])
                             + 1024 * Cardinality(P[c][ROOK]) + 8192 * Cardinality(P[c][QUEEN])
  BY CountsOfMen
<1>4. \A p \in PieceTypes : P[c][p] # {} => Cardinality(P[c][p]) >= 1
  <2> TAKE p \in PieceTypes
  <2>1. IsFiniteSet(P[c][p])
    <3>1. 0 \in Int /\ 63 \in Int
      OBVIOUS
    <3>2. IsFiniteSet(0..63)
      BY ONLY <3>1, FS_Interval, Zenon
    <3>3. P[c][p] \in SUBSET (0..63)
      BY DEF Men, Squares
    <3> QED BY <3>2, <3>3, FS_Subset
  <2>2. Cardinality(P[c][p]) = 0 <=> P[c][p] = {}
    BY <2>1, FS_EmptySet
  <2> QED BY <1>3, <2>2
<1>5. PAWN \in PieceTypes /\ NIGHT \in PieceTypes /\ BISHOP \in PieceTypes /\ ROOK \in PieceTypes /\ QUEEN \in PieceTypes
  BY PieceCodes
<1>6. PICK n1, n2, n3, n4, n5 :
        /\ n1 = Cardinality(P[c][PAWN]) /\ n2 = Cardinality(P[c][NIGHT]) /\ n3 = Cardinality(P[c][BISHOP])
        /\ n4 = Cardinality(P[c][ROOK]) /\ n5 = Cardinality(P[c][QUEEN])
  OBVIOUS
<1>7. n1 \in Nat /\ n2 \in Nat /\ n3 \in Nat /\ n4 \in Nat /\ n5 \in Nat
  BY <1>3, <1>5, <1>6
<1>8. HalfOf(key, c) = n1 + 16 * n2 + 128 * n3 + 1024 * n4 + 8192 * n5
  BY <1>2, <1>3, <1>6
<1>9. (\E p \in BISHOP..QUEEN : P[c][p] # {}) => n3 >= 1 \/ n4 >= 1 \/ n5 >= 1
  BY <1>4, <1>5, <1>6, PieceCodes
<1>10. (\E p \in NIGHT..QUEEN : P[c][p] # {}) => n2 >= 1 \/ n3 >= 1 \/ n4 >= 1 \/ n5 >= 1
  BY <1>4, <1>5, <1>6, PieceCodes
<1>11. VALUES[BISHOP] = 128 /\ VALUES[NIGHT] = 16
  BY WeightsAre
<1>12. n3 >= 1 \/ n4 >= 1 \/ n5 >= 1 => (n1 + 16 * n2 + 128 * n3 + 1024 * n4 + 8192 * n5) \div 128 # 0
  BY ONLY <1>7
<1>13. n2 >= 1 \/ n3 >= 1 \/ n4 >= 1 \/ n5 >= 1 => (n1 + 16 * n2 + 128 * n3 + 1024 * n4 + 8192 * n5) \div 16 # 0
  BY ONLY <1>7
<1> QED BY <1>8, <1>9, <1>10, <1>11, <1>12, <1>13 DEF has_sliding_pieces, has_major_pieces

\* The key of the board tells when it fits the pieces.
LEMMA FitsTell ==
  ASSUME NEW x, Sound(x), Fits(x), CountsHold(x), NEW b, b.pieces = x.pieces, b.materialKey = x.materialKey
  PROVE  KeyTells(b)
<1>1. x.pieces \in Men
  BY SoundSays
<1>2. x.materialKey = calculateMaterialKey(x.pieces)
  BY DEF Fits, MaterialFits
<1>3. PICK P : P = x.pieces
  OBVIOUS
<1>4. \A c \in Colors : HalfOfMen(P, c) < HALF
  BY <1>3 DEF CountsHold
<1>5. P \in Men
  BY <1>1, <1>3
<1>6. \A c \in Colors :
        /\ (\E p \in BISHOP..QUEEN : P[c][p] # {}) => has_sliding_pieces(calculateMaterialKey(P), c)
        /\ (\E p \in NIGHT..QUEEN : P[c][p] # {}) => has_major_pieces(calculateMaterialKey(P), c)
  BY <1>4, <1>5, CountsTell
<1> QED BY <1>2, <1>3, <1>6 DEF KeyTells

\* What the laws of chess read from a board.
Laid(b) == PlacesTyped(b) /\ WhoIsWhere(b) /\ KingsAre(b) /\ b.kingIndex \in [Colors -> Squares]

\* Pieces on some of their squares.
MenOn(at, b, S) ==
  /\ S \subseteq b.allPieces /\ DOMAIN at = S
  /\ \A s \in S : at[s] = <<IF s \in b.friendlyPieces[WHITE] THEN WHITE ELSE BLACK, b.pieceIndexes[s]>>

\* The colour and the type that the laws read are those of the piece.
LEMMA MenRead ==
  ASSUME NEW b, Laid(b), NEW at, NEW S, MenOn(at, b, S), NEW s \in S
  PROVE  /\ s \in Squares /\ at[s] = <<at[s][1], at[s][2]>> /\ at[s][1] \in Colors /\ at[s][2] \in PieceTypes
         /\ \A c \in Colors, p \in PieceTypes : s \in b.pieces[c][p] <=> c = at[s][1] /\ p = at[s][2]
<1>1. PlacesTyped(b) /\ WhoIsWhere(b)
  BY DEF Laid
<1>2. s \in Squares /\ s \in b.allPieces
  BY <1>1 DEF MenOn, PlacesTyped
<1>3. PICK c \in Colors, p \in PieceTypes : s \in b.pieces[c][p]
  BY <1>1, <1>2, AllIs
<1>4. /\ s \in b.friendlyPieces[c] /\ s \notin b.friendlyPieces[Opponent(c)] /\ b.pieceIndexes[s] = p
      /\ \A d \in Colors, q \in PieceTypes : s \in b.pieces[d][q] => d = c /\ q = p
  BY <1>1, <1>3, FriendIs
<1>5. c = IF s \in b.friendlyPieces[WHITE] THEN WHITE ELSE BLACK
  BY <1>4, ColorsTwo DEF Opponent, Colors, WHITE, BLACK
<1>6. at[s] = <<c, p>>
  BY <1>4, <1>5 DEF MenOn
<1>7. at[s][1] = c /\ at[s][2] = p
  BY <1>6
<1> QED BY <1>2, <1>3, <1>4, <1>6, <1>7

\* What attacks a square by the laws is what hits it on the bitboards.
LEMMA AttackingIs ==
  ASSUME NEW b, Laid(b), NEW at, NEW S, MenOn(at, b, S), NEW c \in Colors, NEW t \in Squares, NEW s
  PROVE  s \in Attacking(at, c, t) <=> s \in S /\ Hits(b.pieces, c, PieceTypes, s, t, S)
<1>1. DOMAIN at = S /\ S \subseteq Squares
  BY DEF MenOn, Laid, PlacesTyped
<1>2. s \in Attacking(at, c, t) <=> s \in S /\ at[s][1] = c /\ t \in Reached(c, at[s][2], s, S)
  BY <1>1 DEF Attacking
<1>3. CASE s \in S
  <2>1. /\ s \in Squares /\ at[s][1] \in Colors /\ at[s][2] \in PieceTypes
        /\ \A d \in Colors, p \in PieceTypes : s \in b.pieces[d][p] <=> d = at[s][1] /\ p = at[s][2]
    BY <1>3, MenRead
  <2>2. PICK q : q = at[s][2]
    OBVIOUS
  <2>3. t \in Reached(c, q, s, S) <=> Aims(q, c, s, t) /\ IN_BETWEEN[s][t] \cap S = {}
    BY <1>1, <2>1, <2>2, ReachedIs
  <2>4. Hits(b.pieces, c, PieceTypes, s, t, S) <=> at[s][1] = c /\ Aims(q, c, s, t) /\ IN_BETWEEN[s][t] \cap S = {}
    BY <2>1, <2>2, Zenon DEF Hits
  <2> QED BY <1>2, <1>3, <2>2, <2>3, <2>4
<1> QED BY <1>2, <1>3

\* The position of a board.
LEMMA PositionIs ==
  ASSUME NEW b, Laid(b), NEW pos, pos = PositionOf(b)
  PROVE  /\ MenOn(pos.at, b, b.allPieces) /\ pos.side = b.colorToMove
         /\ \A c \in Colors : KingSquare(pos, c) = b.kingIndex[c]
         /\ \A c \in Colors : \A s : Owns(pos, c, s) <=> s \in b.friendlyPieces[c]
<1>1. MenOn(pos.at, b, b.allPieces) /\ pos.side = b.colorToMove
  BY DEF MenOn, PositionOf
<1>2. DOMAIN pos.at = b.allPieces
  BY <1>1 DEF MenOn
<1>3. ASSUME NEW c \in Colors PROVE KingSquare(pos, c) = b.kingIndex[c]
  <2>1. b.pieces[c][KING] = {b.kingIndex[c]} /\ b.kingIndex[c] \in Squares /\ KING \in PieceTypes
    BY PieceCodes DEF Laid, KingsAre
  <2>2. b.kingIndex[c] \in b.allPieces
    BY <2>1, FriendIs DEF Laid
  <2>3. \A s \in b.allPieces : pos.at[s] = <<c, KING>> <=> s = b.kingIndex[c]
    <3> SUFFICES ASSUME NEW s \in b.allPieces PROVE pos.at[s] = <<c, KING>> <=> s = b.kingIndex[c]
      OBVIOUS
    <3>1. /\ pos.at[s] = <<pos.at[s][1], pos.at[s][2]>>
          /\ s \in b.pieces[c][KING] <=> c = pos.at[s][1] /\ KING = pos.at[s][2]
      BY <1>1, <2>1, MenRead
    <3>2. PICK d, q : d = pos.at[s][1] /\ q = pos.at[s][2]
      OBVIOUS
    <3>3. pos.at[s] = <<d, q>>
      BY <3>1, <3>2
    <3>4. pos.at[s] = <<c, KING>> <=> d = c /\ q = KING
      BY <3>3
    <3> QED BY <2>1, <3>1, <3>2, <3>4
  <2> QED BY <1>2, <2>2, <2>3 DEF KingSquare
<1>4. ASSUME NEW c \in Colors, NEW s PROVE Owns(pos, c, s) <=> s \in b.friendlyPieces[c]
  <2>1. Owns(pos, c, s) <=> s \in b.allPieces /\ pos.at[s][1] = c
    BY <1>2 DEF Owns, On
  <2>2. PlacesTyped(b) /\ WhoIsWhere(b)
    BY DEF Laid
  <2>3. s \in b.friendlyPieces[c] => s \in b.allPieces /\ s \in Squares
    BY <2>2 DEF PlacesTyped, WhoIsWhere, Colors, WHITE, BLACK
  <2>4. ASSUME s \in b.allPieces PROVE pos.at[s][1] = c <=> s \in b.friendlyPieces[c]
    BY <1>1, <2>4, MenRead, <2>2 DEF WhoIsWhere
  <2> QED BY <2>1, <2>3, <2>4
<1> QED BY <1>1, <1>3, <1>4

\* The checks of a position are the hits on the king.
LEMMA CheckersAre ==
  ASSUME NEW b, Laid(b), NEW c \in Colors, NEW s
  PROVE  s \in Checkers(PositionOf(b), c) <=> Hits(b.pieces, Opponent(c), PieceTypes, s, b.kingIndex[c], b.allPieces)
<1>1. PICK pos : pos = PositionOf(b)
  OBVIOUS
<1>2. MenOn(pos.at, b, b.allPieces) /\ KingSquare(pos, c) = b.kingIndex[c]
  BY <1>1, PositionIs
<1>3. b.kingIndex[c] \in Squares /\ Opponent(c) \in Colors
  BY ColorsTwo DEF Laid
<1>4. s \in Attacking(pos.at, Opponent(c), b.kingIndex[c]) <=>
        s \in b.allPieces /\ Hits(b.pieces, Opponent(c), PieceTypes, s, b.kingIndex[c], b.allPieces)
  BY <1>2, <1>3, AttackingIs
<1>5. Hits(b.pieces, Opponent(c), PieceTypes, s, b.kingIndex[c], b.allPieces) => s \in b.allPieces
  BY <1>3, FriendIs DEF Laid, Hits
<1> QED BY <1>1, <1>2, <1>4, <1>5 DEF Checkers

\* A sound board can be read.
LEMMA SoundLaid ==
  ASSUME NEW b, Sound(b)
  PROVE  Laid(b)
  BY DEF Laid, Sound, Kept

\* A new board whose key shows the pieces is guarded.
LEMMA NewGuarded ==
  ASSUME NEW fen, WellFormed(fen), NEW x, x = getNewCB(fen), KeyTells(x)
  PROVE  Guarded(x)
<1>1. NewResult(fen, x) /\ NewChecks(x)
  BY NewFields
<1>2. Laid(x)
  BY NewPlaces DEF Laid
<1>3. x.colorToMove = fen.colorToMove /\ IsBoard(x)
  BY <1>1, Zenon DEF NewResult
<1>4. x.colorToMove \in Colors /\ Opponent(x.colorToMove) \in Colors /\ Opponent(Opponent(x.colorToMove)) = x.colorToMove
  BY <1>2, ColorsTwo DEF Laid, PlacesTyped
<1>5. KingSafe(x)
  <2>1. Checkers(PositionOf(x), Opponent(x.colorToMove)) = {}
    BY <1>3, Zenon DEF WellFormed
  <2>2. ASSUME NEW s
        PROVE  ~Hits(x.pieces, x.colorToMove, PieceTypes, s, x.kingIndex[Opponent(x.colorToMove)], x.allPieces)
    <3>1. PICK c : c = Opponent(x.colorToMove)
      OBVIOUS
    <3>2. s \in Checkers(PositionOf(x), c) <=> Hits(x.pieces, Opponent(c), PieceTypes, s, x.kingIndex[c], x.allPieces)
      BY <1>2, <1>4, <3>1, CheckersAre
    <3> QED BY <1>4, <2>1, <3>1, <3>2
  <2> QED BY <2>2 DEF KingSafe
<1>6. ChecksFit(x)
  <2>1. PICK y : /\ x.checkingPieces = checkingPiecesFull(y)
                 /\ y.pieces = x.pieces /\ y.allPieces = x.allPieces
                 /\ y.kingIndex = x.kingIndex /\ y.colorToMove = x.colorToMove
    BY <1>1, Zenon DEF NewChecks
  <2>2. checkingPiecesFull(y) = checkingPiecesFull(x)
    BY <2>1 DEF checkingPiecesFull
  <2> QED BY <2>1, <2>2 DEF ChecksFit
<1>7. PinsFit(x)
  <2>1. PICK w : w = NewBoard(fen)
    OBVIOUS
  <2>2. PICK v : v = [w EXCEPT !.checkingPieces = checkingPiecesFull(w)]
    OBVIOUS
  <2>3. x = setPinnedAndDiscoPieces([NewBoard(fen) EXCEPT !.checkingPieces = checkingPiecesFull(NewBoard(fen))])
    BY Zenon DEF getNewCB, NewBoard, NewFriendly, NewKings, NewIndexes, NewBareKey, NewTable
  <2>4. x = setPinnedAndDiscoPieces(v)
    BY <2>1, <2>2, <2>3, Zenon
  <2> DEFINE lone == [c \in Colors |-> LoneBlockers(v, c)]
  <2>5. UNION {lone[c] \cap v.friendlyPieces[c] : c \in Colors} = PinsOf(v)
    BY DEF PinsOf
  <2>6. UNION {lone[c] \cap v.friendlyPieces[Opponent(c)] : c \in Colors} = DiscoverersOf(v)
    BY DEF DiscoverersOf
  <2>7. setPinnedAndDiscoPieces(v) = [v EXCEPT !.pinnedPieces = UNION {lone[c] \cap v.friendlyPieces[c] : c \in Colors},
                                               !.discoveredPieces = UNION {lone[c] \cap v.friendlyPieces[Opponent(c)] : c \in Colors}]
    BY DEF setPinnedAndDiscoPieces
  <2> HIDE DEF lone
  <2>8. x = [v EXCEPT !.pinnedPieces = PinsOf(v), !.discoveredPieces = DiscoverersOf(v)]
    BY <2>4, <2>5, <2>6, <2>7
  <2>9. IsBoard(w)
    BY <2>1 DEF NewBoard, IsBoard
  <2>10. IsBoard(v)
    BY <2>2, <2>9 DEF IsBoard
  <2>11. /\ x.pinnedPieces = PinsOf(v) /\ x.discoveredPieces = DiscoverersOf(v)
         /\ x.pieces = v.pieces /\ x.friendlyPieces = v.friendlyPieces /\ x.allPieces = v.allPieces
         /\ x.kingIndex = v.kingIndex /\ x.materialKey = v.materialKey
    BY <2>8, <2>10 DEF IsBoard
  <2>12. PinsOf(x) = PinsOf(v) /\ DiscoverersOf(x) = DiscoverersOf(v)
    BY ONLY <2>11, LoneRead
  <2> QED BY <2>11, <2>12 DEF PinsFit
<1> QED BY <1>5, <1>6, <1>7 DEF Guarded

\* What the generator and isLegal let through leads to a guarded board.
LEMMA MoveGuards ==
  ASSUME NEW b, Sound(b), KeyTells(b), Guarded(b), b.pinnedPiecesDirty = FALSE,
         NEW m \in generateMoves(b) \cup generateAttacks(b), isLegal(b, m), NEW x, Leads(b, m, x), m # NO_MOVE, KeyTells(x)
  PROVE  Guarded(x)
<1>1. MoveOK(b, m) /\ Makes(b, m)
  BY GeneratorFits, GeneratorMakes
<1>2. CASE ~is_castling(m)
  BY <1>2, <1>1, OrdinaryGuards DEF Leads
<1>3. CASE is_castling(m)
  BY <1>3, <1>1, CastlingGuards DEF Leads
<1> QED BY <1>2, <1>3

\* No king is taken on a guarded board.
LEMMA GuardedStands ==
  ASSUME Sound(cb), cb.pinnedPiecesDirty \in BOOLEAN, Guarded(cb)
  PROVE  KingsStand
<1>1. PICK b : b = RefreshPins(cb)
  OBVIOUS
<1>2. IsBoard(cb)
  BY SoundSays
<1>3. Sound(b)
  BY <1>1, <1>2, RefreshKeeps, SoundExceptPins
<1>4. KingSafe(b)
  BY <1>1, RefreshGuards DEF Guarded
<1>5. \A m \in generateMoves(b) \cup generateAttacks(b) : m.attacked # KING
  BY <1>3, <1>4, NoKingTaken
<1> QED BY <1>1, <1>5 DEF KingsStand, LegalMoves

-----------------------------------------------------------------------------
(***************************************************************************)
(* Guarded boards all the way down.                                        *)
(***************************************************************************)
GuardInv == FitInv /\ Guarded(cb) /\ \A i \in 1..Ply : Guarded(past[i])

LEMMA InitGuards ==
  ASSUME KeysHaveSlots, Init, MaterialHolds
  PROVE  GuardInv
<1>1. FitInv
  BY InitFits
<1>2. PICK fen \in Fens : cb = getNewCB(fen)
  BY DEF Init
<1>3. WellFormed(fen)
  BY FensAssumption
<1>4. cb.history = <<>> /\ Sound(cb)
  BY <1>2, <1>3, NewBoardSound
<1>5. Ply = 0
  BY <1>4 DEF Ply
<1>6. KeyTells(cb)
  BY <1>1, <1>4, FitsTell DEF FitInv, MaterialHolds
<1>7. Guarded(cb)
  BY <1>2, <1>3, <1>6, NewGuarded
<1>8. \A i \in 1..Ply : Guarded(past[i])
  BY <1>5
<1> QED BY <1>1, <1>7, <1>8, Zenon DEF GuardInv

LEMMA GuardStands ==
  ASSUME GuardInv
  PROVE  KingsStand
<1>1. Sound(cb) /\ cb.pinnedPiecesDirty \in BOOLEAN /\ Guarded(cb)
  BY Zenon DEF GuardInv, FitInv, BoardInv
<1> QED BY <1>1, GuardedStands

\* A step down leaves a guarded board on guarded boards.
LEMMA DeepenGuards ==
  ASSUME GuardInv, FitInv', NEW b, b = RefreshPins(cb), Guarded(b), past' = Append(past, b), Guarded(cb')
  PROVE  GuardInv'
<1>0. FitInv /\ BoardInv /\ BoardInv' /\ \A i \in 1..Ply : Guarded(past[i])
  BY Zenon DEF GuardInv, FitInv
<1>1. Ply \in Nat /\ IsSequence(past) /\ Len(past) = Ply /\ Len(past') = Ply'
  BY <1>0, KeyIsMade DEF BoardInv
<1>2. Ply' = Ply + 1 /\ past'[Ply + 1] = b /\ \A i \in 1..Ply : past'[i] = past[i]
  BY <1>1, AppendedBack
<1>3. \A i \in 1..Ply' : Guarded(past'[i])
  <2> TAKE i \in 1..Ply'
  <2>1. i \in 1..Ply \/ i = Ply + 1
    BY <1>1, <1>2
  <2>2. CASE i \in 1..Ply
    BY <1>0, <1>2, <2>2
  <2>3. CASE i = Ply + 1
    BY <1>2, <2>3
  <2> QED BY <2>1, <2>2, <2>3
<1>4. Guarded(cb)' /\ (\A i \in 1..Ply : Guarded(past[i]))'
  BY <1>3, Zenon DEF Guarded, KingSafe, ChecksFit, PinsFit, PinsOf, DiscoverersOf
<1> QED BY <1>4, Zenon DEF GuardInv

LEMMA GuardStep ==
  ASSUME KeysHaveSlots, GuardInv, MaterialHolds, MaterialHolds', [Next]_vars
  PROVE  GuardInv'
<1>0. /\ FitInv /\ BoardInv /\ Guarded(cb) /\ (\A i \in 1..Ply : Guarded(past[i])) /\ KingsStand
      /\ Sound(cb) /\ cb.pinnedPiecesDirty \in BOOLEAN /\ Fits(cb)
  BY GuardStands, Zenon DEF GuardInv, FitInv, BoardInv
<1>1. FitInv' /\ BoardInv'
  BY <1>0, FitStep DEF FitInv
<1>2. PICK b : b = RefreshPins(cb)
  OBVIOUS
<1>3. Ply \in Nat /\ IsSequence(past) /\ Len(past) = Ply /\ Len(past') = Ply'
  BY <1>0, <1>1, KeyIsMade DEF BoardInv
<1>4. Sound(b) /\ b.pinnedPiecesDirty = FALSE /\ ExceptPins(b, cb) /\ b.checkingPieces = cb.checkingPieces /\ Guarded(b)
  BY <1>0, <1>2, Refreshed, RefreshGuards
<1>5. KeyTells(b)
  BY <1>4, <1>0, FitsTell DEF ExceptPins, MaterialHolds
<1>6. PICK x : x = cb'
  OBVIOUS
<1>7. Sound(x) /\ Fits(x) /\ CountsHold(x)
  <2>1. Sound(cb)' /\ Fits(cb)' /\ CountsHold(cb)'
    BY <1>1, Zenon DEF FitInv, BoardInv, MaterialHolds
  <2>2. Sound(cb')
    BY <1>1, Zenon DEF BoardInv
  <2>3. Fits(cb')
    BY <2>1, Zenon DEF Fits, KeysFit, MaterialFits
  <2>4. CountsHold(cb')
    BY <2>1, Zenon DEF CountsHold
  <2> QED BY <1>6, <2>2, <2>3, <2>4
<1>8. KeyTells(x)
  BY <1>7, FitsTell
<1>9. ASSUME Guarded(x), \A i \in 1..Ply' : Guarded(past'[i])
      PROVE  GuardInv'
  BY <1>6, <1>9, <1>1 DEF Guarded, KingSafe, ChecksFit, PinsFit, PinsOf, DiscoverersOf, GuardInv
<1>10. CASE MakeMove
  <2>1. PICK m \in LegalMoves(cb) : Deepen(doMove(cb, m))
    BY <1>10 DEF MakeMove
  <2>2. MoveLeads(b, m, cb')
    BY <1>0, <1>2, <2>1, MadeMoveLeads
  <2>3. m \in generateMoves(b) \cup generateAttacks(b) /\ isLegal(b, m)
    BY <1>2, <2>1 DEF LegalMoves
  <2>4. Leads(b, m, x) /\ m # NO_MOVE
    BY <1>6, <2>2 DEF MoveLeads
  <2>5. Guarded(x)
    BY <1>4, <1>5, <1>8, <2>3, <2>4, MoveGuards
  <2>6. past' = Append(past, b)
    BY <1>2, <2>1 DEF Deepen
  <2> QED BY <1>1, <1>2, <1>4, <1>6, <2>5, <2>6, DeepenGuards
<1>11. CASE MakeNull
  <2>1. cb.checkingPieces = {} /\ cb' = doNullMove(cb) /\ past' = Append(past, b)
    BY <1>2, <1>11 DEF MakeNull, Deepen
  <2>2. doNullMove(cb) = doNullMove(b)
    <3>1. RefreshPins(b) = b /\ b.zobristKey = cb.zobristKey /\ b.epIndex = cb.epIndex
      BY <1>0, <1>2, Refreshed
    <3> QED BY <1>2, <3>1, Zenon DEF doNullMove
  <2>3. Guarded(x)
    BY <1>4, <1>6, <2>1, <2>2, NullGuards
  <2> QED BY <1>1, <1>2, <1>4, <1>6, <2>1, <2>3, DeepenGuards
<1>12. CASE UnmakeMove \/ UnmakeNull
  <2>1. Ply > 0 /\ cb' = past[Ply] /\ past' = SubSeq(past, 1, Ply - 1)
    BY <1>0, <1>12, UnmakeGives
  <2>2. Guarded(x)
    BY <1>0, <1>3, <1>6, <2>1
  <2>3. Ply' = Ply - 1 /\ \A i \in 1..(Ply - 1) : past'[i] = past[i]
    <3> DEFINE S == {past[i] : i \in DOMAIN past}
    <3>1. past \in Seq(S) /\ Len(past) = Ply /\ Ply - 1 \in Nat /\ Ply - 1 <= Len(past)
      BY <1>3, <2>1 DEF IsSequence
    <3> HIDE DEF S
    <3>2. Len(past') = Ply - 1 /\ \A i \in 1..(Ply - 1) : past'[i] = past[i]
      BY <2>1, <3>1
    <3> QED BY <1>3, <3>2
  <2>4. \A i \in 1..Ply' : Guarded(past'[i])
    <3> TAKE i \in 1..Ply'
    <3>1. i \in 1..Ply /\ past'[i] = past[i]
      BY <1>3, <2>1, <2>3
    <3> QED BY <1>0, <3>1
  <2> QED BY <1>9, <2>2, <2>4
<1>13. CASE Refresh
  BY <1>0, <1>2, <1>13, RefreshStepKeeps, <1>4, <1>6, <1>9 DEF Refresh
<1>14. CASE UNCHANGED vars
  BY <1>0, <1>14, StutterKeeps, <1>6, <1>9 DEF vars
<1> QED BY <1>10, <1>11, <1>12, <1>13, <1>14 DEF Next

\* While the counts of the pieces fit their fields of the material key, every
\* board is guarded: the king that waits is not in check, the checks are all the
\* checks, and the pins, unless marked dirty, are those of the position.
THEOREM BoardStaysGuarded ==
  ASSUME KeysHaveSlots
  PROVE  Spec /\ []MaterialHolds => []GuardInv
<1>1. Init /\ MaterialHolds => GuardInv
  BY InitGuards
<1>2. GuardInv /\ MaterialHolds /\ MaterialHolds' /\ [Next]_vars => GuardInv'
  BY GuardStep
<1> QED BY <1>1, <1>2, PTL DEF Spec

\* Then no move that the search plays captures a king.
THEOREM KingsAlwaysStand ==
  ASSUME KeysHaveSlots
  PROVE  Spec /\ []MaterialHolds => []KingsStand
<1>1. Spec /\ []MaterialHolds => []GuardInv
  BY BoardStaysGuarded
<1>2. GuardInv => KingsStand
  BY GuardStands
<1> QED BY <1>1, <1>2, PTL

-----------------------------------------------------------------------------
(***************************************************************************)
(* The checks and the pins are those of the position.                      *)
(***************************************************************************)

\* Who stands alone before a king by the laws does so on the bitboards.
LEMMA AloneIs ==
  ASSUME NEW b, Sound(b), NEW c \in Colors, NEW s
  PROVE  s \in AloneBefore(PositionOf(b), c) <=> Alone(b, c, s)
<1>1. PICK pos : pos = PositionOf(b)
  OBVIOUS
<1>2. PICK k, them : k = b.kingIndex[c] /\ them = Opponent(c)
  OBVIOUS
<1>3. /\ Laid(b) /\ b.allPieces \subseteq Squares /\ k \in Squares /\ them \in Colors
      /\ \A p \in PieceTypes : \A a \in b.pieces[them][p] : a \in b.allPieces
  BY <1>2, SoundLaid, SoundSays, ColorsTwo
<1>4. MenOn(pos.at, b, b.allPieces) /\ KingSquare(pos, c) = k /\ DOMAIN pos.at = b.allPieces
  BY <1>1, <1>2, <1>3, PositionIs DEF MenOn
<1> DEFINE Without == [t \in DOMAIN pos.at \ {s} |-> pos.at[t]]
<1>5. MenOn(Without, b, b.allPieces \ {s})
  BY <1>4 DEF MenOn
<1>6. PICK without : without = Without
  OBVIOUS
<1>7. s \in AloneBefore(pos, c) <=>
        /\ s \in b.allPieces /\ s # k
        /\ \E a \in Attacking(without, them, k) : a \notin Attacking(pos.at, them, k)
  BY <1>2, <1>4, <1>6 DEF AloneBefore
<1> HIDE DEF Without
<1>8. \A a : /\ a \in Attacking(without, them, k) <=>
                  a \in b.allPieces \ {s} /\ Hits(b.pieces, them, PieceTypes, a, k, b.allPieces \ {s})
             /\ a \in Attacking(pos.at, them, k) <=> a \in b.allPieces /\ Hits(b.pieces, them, PieceTypes, a, k, b.allPieces)
  BY <1>3, <1>4, <1>5, <1>6, AttackingIs
<1>9. ASSUME NEW a \in Attacking(without, them, k), a \notin Attacking(pos.at, them, k)
      PROVE  Alone(b, c, s)
  <2>1. /\ a \in b.allPieces /\ a \in Squares /\ Hits(b.pieces, them, PieceTypes, a, k, b.allPieces \ {s})
        /\ ~Hits(b.pieces, them, PieceTypes, a, k, b.allPieces)
    BY <1>3, <1>8, <1>9
  <2>2. PICK p \in PieceTypes : a \in b.pieces[them][p] /\ Aims(p, them, a, k) /\ IN_BETWEEN[a][k] \cap (b.allPieces \ {s}) = {}
    BY <2>1 DEF Hits
  <2>3. IN_BETWEEN[a][k] \cap b.allPieces # {}
    BY <2>1, <2>2 DEF Hits
  <2>4. IN_BETWEEN[a][k] \cap b.allPieces = {s}
    BY <2>2, <2>3
  <2>5. p \in BISHOP..QUEEN
    BY <1>3, <2>1, <2>2, <2>3, AimsFar
  <2> QED BY <1>2, <2>1, <2>2, <2>4, <2>5 DEF Alone
<1>10. ASSUME Alone(b, c, s)
       PROVE  s \in b.allPieces /\ s # k /\ \E a \in Attacking(without, them, k) : a \notin Attacking(pos.at, them, k)
  <2>1. PICK a \in Squares : /\ \E p \in BISHOP..QUEEN : a \in b.pieces[them][p] /\ Aims(p, them, a, k)
                             /\ IN_BETWEEN[a][k] \cap b.allPieces = {s}
    BY <1>2, <1>10 DEF Alone
  <2>2. s \in IN_BETWEEN[a][k] /\ s \in b.allPieces
    BY <2>1
  <2>3. s # a /\ s # k
    BY <1>3, <2>2, BetweenLines
  <2>4. PICK p \in BISHOP..QUEEN : a \in b.pieces[them][p] /\ Aims(p, them, a, k)
    BY <2>1
  <2>5. p \in PieceTypes /\ a \in b.allPieces
    BY <1>3, <2>4, PieceCodes
  <2>6. IN_BETWEEN[a][k] \cap (b.allPieces \ {s}) = {}
    BY <2>1
  <2>7. Hits(b.pieces, them, PieceTypes, a, k, b.allPieces \ {s})
    BY <2>4, <2>5, <2>6 DEF Hits
  <2>8. ~Hits(b.pieces, them, PieceTypes, a, k, b.allPieces)
    BY <2>2 DEF Hits
  <2> QED BY <1>8, <2>2, <2>3, <2>5, <2>7, <2>8
<1> QED BY <1>1, <1>7, <1>9, <1>10

\* The pins and the pieces that would discover a check, by the laws.
PinsAre(b, pos, alone) ==
  /\ b.pinnedPieces = UNION {{s \in alone[c] : Owns(pos, c, s)} : c \in Colors}
  /\ b.discoveredPieces = UNION {{s \in alone[c] : Owns(pos, Opponent(c), s)} : c \in Colors}

CachesOf(b) ==
  /\ b.checkingPieces = checkingPiecesFull(b)
  /\ ~b.pinnedPiecesDirty => PinsAre(b, PositionOf(b), [c \in Colors |-> AloneBefore(PositionOf(b), c)])

\* The caches of a guarded board are exact.
LEMMA GuardedCaches ==
  ASSUME NEW b, Sound(b), KeyTells(b), Guarded(b), b.pinnedPiecesDirty \in BOOLEAN
  PROVE  CachesOf(b)
<1>1. PICK pos : pos = PositionOf(b)
  OBVIOUS
<1>2. \A c \in Colors : \A s : s \in AloneBefore(pos, c) <=> s \in LoneBlockers(b, c)
  BY <1>1, AloneIs, LoneAre
<1>3. \A c \in Colors : \A s : Owns(pos, c, s) <=> s \in b.friendlyPieces[c]
  BY <1>1, SoundLaid, PositionIs
<1>4. \A c \in Colors : Opponent(c) \in Colors
  BY ColorsTwo
<1>5. PICK alone : alone = [c \in Colors |-> AloneBefore(pos, c)]
  OBVIOUS
<1>6. \A c \in Colors : /\ {s \in alone[c] : Owns(pos, c, s)} = LoneBlockers(b, c) \cap b.friendlyPieces[c]
                        /\ {s \in alone[c] : Owns(pos, Opponent(c), s)} = LoneBlockers(b, c) \cap b.friendlyPieces[Opponent(c)]
  BY <1>2, <1>3, <1>4, <1>5
<1>7. /\ UNION {{s \in alone[c] : Owns(pos, c, s)} : c \in Colors} = PinsOf(b)
      /\ UNION {{s \in alone[c] : Owns(pos, Opponent(c), s)} : c \in Colors} = DiscoverersOf(b)
  BY <1>6 DEF PinsOf, DiscoverersOf
<1>8. b.checkingPieces = checkingPiecesFull(b)
  BY DEF Guarded, ChecksFit
<1>9. b.pinnedPiecesDirty = FALSE => PinsAre(b, pos, alone)
  BY <1>7 DEF Guarded, PinsFit, PinsAre
<1>10. ~b.pinnedPiecesDirty => b.pinnedPiecesDirty = FALSE
  BY Zenon
<1> QED BY <1>1, <1>5, <1>8, <1>9, <1>10, Zenon DEF CachesOf

\* While the counts of the pieces fit their fields of the material key, the checks
\* that doMove looks for among the pieces that the move can have brought to bear
\* are all the checks, and pins that are not marked dirty are those of the
\* position, after moves, null moves and whatever is taken back.
THEOREM CachesAreExact ==
  ASSUME KeysHaveSlots
  PROVE  Spec /\ []MaterialHolds => []CachesExact
<1>1. Spec /\ []MaterialHolds => []GuardInv
  BY BoardStaysGuarded
<1>2. GuardInv /\ MaterialHolds => CachesExact
  <2>1. SUFFICES ASSUME GuardInv, MaterialHolds PROVE CachesExact
    OBVIOUS
  <2>2. Sound(cb) /\ cb.pinnedPiecesDirty \in BOOLEAN /\ Guarded(cb) /\ Fits(cb)
    BY <2>1, Zenon DEF GuardInv, FitInv, BoardInv
  <2>3. KeyTells(cb)
    BY <2>1, <2>2, FitsTell DEF MaterialHolds
  <2>4. CachesOf(cb)
    BY <2>2, <2>3, GuardedCaches
  <2> QED BY <2>4, Zenon DEF CachesExact, CachesOf, PinsAre
<1> QED BY <1>1, <1>2, PTL

-----------------------------------------------------------------------------
(***************************************************************************)
(* The counts of the key when every pawn may promote.                      *)
(***************************************************************************)

\* the count of a side whose pawns are counted as queens
Promoted(P, c) == HalfOfMen(P, c) + (VALUES[QUEEN] - 1) * Cardinality(P[c][PAWN])

RoomFor(b) == \A c \in Colors : Promoted(b.pieces, c) < HALF

\* Positions with room in the key for the promotion of every pawn.
RoomToPromote == \A fen \in Fens, c \in Colors : Promoted(fen.pieces, c) < HALF

LEMMA PromotedIs ==
  ASSUME NEW P \in Men, NEW c \in Colors
  PROVE  /\ \A p \in PieceTypes : Cardinality(P[c][p]) \in Nat
         /\ Promoted(P, c) = 8192 * Cardinality(P[c][PAWN]) + 16 * Cardinality(P[c][NIGHT]) + 128 * Cardinality(P[c][BISHOP])
                                + 1024 * Cardinality(P[c][ROOK]) + 8192 * Cardinality(P[c][QUEEN])
         /\ HalfOfMen(P, c) <= Promoted(P, c)
<1>1. /\ \A p \in PieceTypes : Cardinality(P[c][p]) \in Nat
      /\ HalfOfMen(P, c) = Cardinality(P[c][PAWN]) + 16 * Cardinality(P[c][NIGHT]) + 128 * Cardinality(P[c][BISHOP])
                                + 1024 * Cardinality(P[c][ROOK]) + 8192 * Cardinality(P[c][QUEEN])
  BY CountsOfMen
<1>2. VALUES[QUEEN] = 8192 /\ PieceTypes = {PAWN, NIGHT, BISHOP, ROOK, QUEEN, KING}
  BY WeightsAre
<1>3. PICK n1, n2, n3, n4, n5 : /\ n1 = Cardinality(P[c][PAWN]) /\ n2 = Cardinality(P[c][NIGHT])
                                /\ n3 = Cardinality(P[c][BISHOP]) /\ n4 = Cardinality(P[c][ROOK]) /\ n5 = Cardinality(P[c][QUEEN])
  OBVIOUS
<1>4. n1 \in Nat /\ n2 \in Nat /\ n3 \in Nat /\ n4 \in Nat /\ n5 \in Nat
  BY <1>1, <1>2, <1>3
<1>5. PICK h : h = HalfOfMen(P, c)
  OBVIOUS
<1>6. h = n1 + 16 * n2 + 128 * n3 + 1024 * n4 + 8192 * n5
  BY <1>1, <1>3, <1>5
<1>7. Promoted(P, c) = h + (8192 - 1) * n1
  BY <1>2, <1>3, <1>5 DEF Promoted
<1>8. Promoted(P, c) = 8192 * n1 + 16 * n2 + 128 * n3 + 1024 * n4 + 8192 * n5 /\ h <= Promoted(P, c)
  BY <1>4, <1>6, <1>7
<1> QED BY <1>1, <1>3, <1>5, <1>8

\* Neither side's count grows when none of its pieces is new, or when a piece has
\* replaced a pawn.
LEMMA PromotedFalls ==
  ASSUME NEW P \in Men, NEW Q \in Men, NEW c \in Colors, NEW r \in PieceTypes, NEW n \in {0, 1}, r # PAWN \/ n = 0,
         \A p \in PieceTypes : Cardinality(Q[c][p]) <= Cardinality(P[c][p]) + (IF p = r THEN n ELSE 0),
         Cardinality(Q[c][PAWN]) + n <= Cardinality(P[c][PAWN])
  PROVE  Promoted(Q, c) <= Promoted(P, c)
<1>1. /\ \A p \in PieceTypes : Cardinality(P[c][p]) \in Nat /\ Cardinality(Q[c][p]) \in Nat
      /\ Promoted(P, c) = 8192 * Cardinality(P[c][PAWN]) + 16 * Cardinality(P[c][NIGHT]) + 128 * Cardinality(P[c][BISHOP])
                                + 1024 * Cardinality(P[c][ROOK]) + 8192 * Cardinality(P[c][QUEEN])
      /\ Promoted(Q, c) = 8192 * Cardinality(Q[c][PAWN]) + 16 * Cardinality(Q[c][NIGHT]) + 128 * Cardinality(Q[c][BISHOP])
                                + 1024 * Cardinality(Q[c][ROOK]) + 8192 * Cardinality(Q[c][QUEEN])
  BY PromotedIs
<1>2. PICK n1, n2, n3, n4, n5 : /\ n1 = Cardinality(P[c][PAWN]) /\ n2 = Cardinality(P[c][NIGHT])
                                /\ n3 = Cardinality(P[c][BISHOP]) /\ n4 = Cardinality(P[c][ROOK]) /\ n5 = Cardinality(P[c][QUEEN])
  OBVIOUS
<1>3. PICK k1, k2, k3, k4, k5 : /\ k1 = Cardinality(Q[c][PAWN]) /\ k2 = Cardinality(Q[c][NIGHT])
                                /\ k3 = Cardinality(Q[c][BISHOP]) /\ k4 = Cardinality(Q[c][ROOK]) /\ k5 = Cardinality(Q[c][QUEEN])
  OBVIOUS
<1>4. /\ PAWN \in PieceTypes /\ NIGHT \in PieceTypes /\ BISHOP \in PieceTypes /\ ROOK \in PieceTypes /\ QUEEN \in PieceTypes
      /\ r \in {PAWN, NIGHT, BISHOP, ROOK, QUEEN, KING}
  BY WeightsAre
<1>5. /\ n1 \in Nat /\ n2 \in Nat /\ n3 \in Nat /\ n4 \in Nat /\ n5 \in Nat
      /\ k1 \in Nat /\ k2 \in Nat /\ k3 \in Nat /\ k4 \in Nat /\ k5 \in Nat
  BY <1>1, <1>2, <1>3, <1>4
<1>6. /\ k1 + n <= n1
      /\ k2 <= n2 + (IF NIGHT = r THEN n ELSE 0) /\ k3 <= n3 + (IF BISHOP = r THEN n ELSE 0)
      /\ k4 <= n4 + (IF ROOK = r THEN n ELSE 0) /\ k5 <= n5 + (IF QUEEN = r THEN n ELSE 0)
  BY <1>2, <1>3, <1>4
<1>7. 8192 * k1 + 16 * k2 + 128 * k3 + 1024 * k4 + 8192 * k5 <= 8192 * n1 + 16 * n2 + 128 * n3 + 1024 * n4 + 8192 * n5
  BY <1>5, <1>6 DEF NIGHT, BISHOP, ROOK, QUEEN
<1> QED BY <1>1, <1>2, <1>3, <1>7

\* The squares of a kind of piece that loses one and gains one.
LEMMA MenBound ==
  ASSUME NEW S \in SUBSET Squares, NEW T, NEW from \in Squares, NEW to \in Squares
  PROVE  /\ T \subseteq S => Cardinality(T) <= Cardinality(S)
         /\ T \subseteq S \cup {to} => Cardinality(T) <= Cardinality(S) + 1
         /\ from \in S /\ T \subseteq S \ {from} => Cardinality(T) + 1 <= Cardinality(S)
         /\ from \in S /\ T \subseteq (S \ {from}) \cup {to} => Cardinality(T) <= Cardinality(S)
<1>1. IsFiniteSet(S) /\ Cardinality(S) \in Nat
  BY CountsAre
<1>2. \A A \in SUBSET Squares : T \subseteq A => Cardinality(T) <= Cardinality(A) /\ Cardinality(T) \in Nat
  BY CountsAre, FS_Subset
<1>3. S \ {from} \in SUBSET Squares /\ S \cup {to} \in SUBSET Squares /\ (S \ {from}) \cup {to} \in SUBSET Squares
  OBVIOUS
<1>4. from \in S => Cardinality(S \ {from}) = Cardinality(S) - 1
  BY SquaresMoved
<1>5. Cardinality(S \cup {to}) <= Cardinality(S) + 1
  <2>1. CASE to \in S
    <3>1. S \cup {to} = S
      BY <2>1
    <3> QED BY <1>1, <3>1
  <2>2. CASE to \notin S
    BY <1>1, <2>2, SquaresMoved
  <2> QED BY <2>1, <2>2
<1>6. Cardinality((S \ {from}) \cup {to}) <= Cardinality(S \ {from}) + 1 /\ Cardinality(S \ {from}) \in Nat
  <2>1. PICK U : U = S \ {from}
    OBVIOUS
  <2>2. U \in SUBSET Squares /\ Cardinality(U) \in Nat
    BY <2>1, CountsAre
  <2>3. CASE to \in U
    <3>1. U \cup {to} = U
      BY <2>3
    <3> QED BY <2>1, <2>2, <3>1
  <2>4. CASE to \notin U
    BY <2>1, <2>2, <2>4, SquaresMoved
  <2> QED BY <2>3, <2>4
<1>7. T \subseteq S => Cardinality(T) <= Cardinality(S)
  BY <1>2
<1>8. T \subseteq S \cup {to} => Cardinality(T) <= Cardinality(S) + 1
  BY <1>2, <1>3, CountsAre, <1>1, <1>5
<1>9. from \in S /\ T \subseteq S \ {from} => Cardinality(T) + 1 <= Cardinality(S)
  BY <1>2, <1>3, <1>1, <1>4
<1>10. from \in S /\ T \subseteq (S \ {from}) \cup {to} => Cardinality(T) <= Cardinality(S)
  BY <1>2, <1>3, CountsAre, <1>1, <1>4, <1>6
<1> QED BY <1>7, <1>8, <1>9, <1>10

-----------------------------------------------------------------------------
(***************************************************************************)
(* No move takes the room that the key has for promotions.                 *)
(***************************************************************************)
\* A side of whose pieces one goes to another square, a pawn perhaps as
\* another piece.
LEMMA MoverFalls ==
  ASSUME NEW P \in Men, NEW Q \in Men, NEW c \in Colors, NEW from \in Squares, NEW to \in Squares,
         NEW p \in PieceTypes, NEW q \in PieceTypes, q = p \/ (p = PAWN /\ q # PAWN),
         from \in P[c][p],
         \A r \in PieceTypes : Q[c][r] \subseteq (P[c][r] \ (IF r = p THEN {from} ELSE {})) \cup (IF r = q THEN {to} ELSE {})
  PROVE  Promoted(Q, c) <= Promoted(P, c)
<1>1. \A r \in PieceTypes : P[c][r] \in SUBSET Squares /\ Cardinality(P[c][r]) \in Nat /\ Cardinality(Q[c][r]) \in Nat
  BY PromotedIs DEF Men
<1>2. PAWN \in PieceTypes /\ QUEEN \in PieceTypes /\ QUEEN # PAWN
  BY WeightsAre DEF QUEEN, PAWN
<1>3. CASE q = p
  <2>1. \A r \in PieceTypes : Cardinality(Q[c][r]) <= Cardinality(P[c][r])
    <3> TAKE r \in PieceTypes
    <3>1. CASE r = p
      BY <1>3, <3>1, <1>1, MenBound
    <3>2. CASE r # p
      BY <1>3, <3>2, <1>1, MenBound
    <3> QED BY <3>1, <3>2
  <2>2. \A r \in PieceTypes : Cardinality(Q[c][r]) <= Cardinality(P[c][r]) + (IF r = QUEEN THEN 0 ELSE 0)
    BY <1>1, <2>1
  <2>3. Cardinality(Q[c][PAWN]) + 0 <= Cardinality(P[c][PAWN])
    BY <1>1, <1>2, <2>1
  <2> QED BY <1>2, <2>2, <2>3, PromotedFalls
<1>4. CASE p = PAWN /\ q # PAWN
  <2>1. Cardinality(Q[c][PAWN]) + 1 <= Cardinality(P[c][PAWN])
    BY <1>2, <1>4, <1>1, MenBound
  <2>2. \A r \in PieceTypes : Cardinality(Q[c][r]) <= Cardinality(P[c][r]) + (IF r = q THEN 1 ELSE 0)
    <3> TAKE r \in PieceTypes
    <3>1. CASE r = q
      BY <3>1, <1>1, MenBound
    <3>2. CASE r # q
      BY <3>2, <1>1, MenBound
    <3> QED BY <3>1, <3>2
  <2> QED BY <1>4, <2>1, <2>2, PromotedFalls
<1> QED BY <1>3, <1>4

\* A side none of whose kinds of pieces has more men.
LEMMA SideFalls ==
  ASSUME NEW P \in Men, NEW Q \in Men, NEW c \in Colors,
         \A r \in PieceTypes : Cardinality(Q[c][r]) <= Cardinality(P[c][r])
  PROVE  Promoted(Q, c) <= Promoted(P, c)
<1>1. \A r \in PieceTypes : Cardinality(P[c][r]) \in Nat /\ Cardinality(Q[c][r]) \in Nat
  BY PromotedIs
<1>2. PAWN \in PieceTypes /\ QUEEN \in PieceTypes /\ QUEEN # PAWN
  BY WeightsAre DEF QUEEN, PAWN
<1>3. \A r \in PieceTypes : Cardinality(Q[c][r]) <= Cardinality(P[c][r]) + (IF r = QUEEN THEN 0 ELSE 0)
  BY <1>1
<1>4. Cardinality(Q[c][PAWN]) + 0 <= Cardinality(P[c][PAWN])
  BY <1>1, <1>2
<1> QED BY <1>2, <1>3, <1>4, PromotedFalls

LEMMA SoundMen ==
  ASSUME NEW b, Sound(b)
  PROVE  b.pieces \in Men /\ b.colorToMove \in Colors
<1> QED BY Zenon DEF Sound, Kept, IsBoard, PlacesTyped, Men

LEMMA OrdinaryRoom ==
  ASSUME NEW b, Sound(b), RoomFor(b), NEW m, OrdinaryFacts(b, m), NEW x, x = DoOrdinaryMove(b, m), Sound(x)
  PROVE  RoomFor(x)
<1>1. b.pieces \in Men /\ x.pieces \in Men
  BY SoundMen
<1>2. /\ b.colorToMove \in Colors /\ m.from \in Squares /\ m.to \in Squares /\ m.source \in PieceTypes
      /\ Placed(m) \in PieceTypes /\ m.from \in b.pieces[b.colorToMove][m.source]
  BY OrdinaryMen
<1>3. Placed(m) = m.source \/ (m.source = PAWN /\ Placed(m) # PAWN)
  BY PlacedIs
<1>4. \A c \in Colors, p \in PieceTypes : \A s \in x.pieces[c][p] :
         \/ c = b.colorToMove /\ s = m.to /\ Placed(m) = p
         \/ s \in b.pieces[c][p] /\ s # m.from
  <2> TAKE c \in Colors, p \in PieceTypes
  <2> TAKE s \in x.pieces[c][p]
  <2>1. s \in Squares
    BY <1>1 DEF Men
  <2> QED BY <2>1, OrdinaryStands
<1> SUFFICES ASSUME NEW c \in Colors
             PROVE  Promoted(x.pieces, c) < HALF
  BY Zenon DEF RoomFor
<1>5. Promoted(b.pieces, c) < HALF
  BY Zenon DEF RoomFor
<1>6. Promoted(x.pieces, c) <= Promoted(b.pieces, c)
  <2>1. CASE c = b.colorToMove
    <3>1. \A r \in PieceTypes : x.pieces[c][r] \subseteq (b.pieces[c][r] \ (IF r = m.source THEN {m.from} ELSE {}))
                                                           \cup (IF r = Placed(m) THEN {m.to} ELSE {})
      BY <1>4
    <3>2. m.from \in b.pieces[c][m.source]
      BY <1>2, <2>1
    <3>3. PICK P, Q, from, to, p, q : /\ P = b.pieces /\ Q = x.pieces /\ from = m.from /\ to = m.to
                                      /\ p = m.source /\ q = Placed(m)
      OBVIOUS
    <3>4. /\ P \in Men /\ Q \in Men /\ from \in Squares /\ to \in Squares /\ p \in PieceTypes /\ q \in PieceTypes
          /\ from \in P[c][p] /\ (q = p \/ (p = PAWN /\ q # PAWN))
      BY <1>1, <1>2, <1>3, <3>2, <3>3
    <3>5. \A r \in PieceTypes : Q[c][r] \subseteq (P[c][r] \ (IF r = p THEN {from} ELSE {})) \cup (IF r = q THEN {to} ELSE {})
      BY ONLY <3>1, <3>3
    <3>6. Promoted(Q, c) <= Promoted(P, c)
      BY ONLY c \in Colors, <3>4, <3>5, MoverFalls
    <3> QED BY <3>3, <3>6
  <2>2. CASE c # b.colorToMove
    <3>1. \A r \in PieceTypes : Cardinality(x.pieces[c][r]) <= Cardinality(b.pieces[c][r])
      <4> TAKE r \in PieceTypes
      <4>1. x.pieces[c][r] \subseteq b.pieces[c][r] /\ b.pieces[c][r] \in SUBSET Squares
        BY <1>1, <1>4, <2>2 DEF Men
      <4> QED BY <1>2, <4>1, MenBound
    <3> QED BY <1>1, <3>1, SideFalls
  <2> QED BY <2>1, <2>2
<1>7. Promoted(b.pieces, c) \in Nat /\ Promoted(x.pieces, c) \in Nat
  BY <1>1, PromotedIs, WeightsAre
<1>8. HALF \in Int
  BY DEF HALF
<1> QED BY <1>5, <1>6, <1>7, <1>8

LEMMA CastlingRoom ==
  ASSUME NEW b, Sound(b), RoomFor(b), NEW m, CastlingFacts(b, m), NEW x, x = doCastling960(b, m), Sound(x)
  PROVE  RoomFor(x)
<1>1. b.pieces \in Men /\ x.pieces \in Men /\ b.colorToMove \in Colors
  BY SoundMen
<1>2. PICK from, to, rf, rt : from = m.from /\ to = m.to /\ rf = CastledSquares(b, m).rookFrom /\ rt = CastledSquares(b, m).rookTo
  OBVIOUS
<1>3. /\ from \in b.pieces[b.colorToMove][KING] /\ rf \in b.pieces[b.colorToMove][ROOK]
      /\ to \in Squares /\ rt \in Squares
  BY <1>2, Zenon DEF CastlingFacts
<1>4. KING \in PieceTypes /\ ROOK \in PieceTypes /\ KING # ROOK
  BY WeightsAre DEF KING, ROOK
<1>5. from \in Squares /\ rf \in Squares
  BY <1>1, <1>3, <1>4 DEF Men
<1>6. \A c \in Colors, p \in PieceTypes : \A s \in x.pieces[c][p] :
         \/ c = b.colorToMove /\ s = to /\ p = KING
         \/ c = b.colorToMove /\ s = rt /\ p = ROOK
         \/ s \in b.pieces[c][p] /\ s # from /\ s # rf
  <2> TAKE c \in Colors, p \in PieceTypes
  <2> TAKE s \in x.pieces[c][p]
  <2>1. s \in Squares
    BY <1>1 DEF Men
  <2>2. CastlingGone(b, m) = {from, rf}
    BY <1>2, Zenon DEF CastlingGone
  <2> QED BY <1>2, <2>1, <2>2, CastlingStands
<1> SUFFICES ASSUME NEW c \in Colors
             PROVE  Promoted(x.pieces, c) < HALF
  BY Zenon DEF RoomFor
<1>7. Promoted(b.pieces, c) < HALF
  BY Zenon DEF RoomFor
<1>8. \A r \in PieceTypes : Cardinality(x.pieces[c][r]) <= Cardinality(b.pieces[c][r])
  <2> TAKE r \in PieceTypes
  <2>1. b.pieces[c][r] \in SUBSET Squares
    BY <1>1 DEF Men
  <2>2. CASE c = b.colorToMove /\ r = KING
    BY <1>3, <1>4, <1>6, <2>2, <1>5, <2>1, MenBound
  <2>3. CASE c = b.colorToMove /\ r = ROOK
    BY <1>3, <1>4, <1>6, <2>3, <1>5, <2>1, MenBound
  <2>4. CASE c # b.colorToMove \/ r \notin {KING, ROOK}
    BY <1>6, <2>4, <1>3, <1>5, <2>1, MenBound
  <2> QED BY <2>2, <2>3, <2>4
<1>9. Promoted(x.pieces, c) <= Promoted(b.pieces, c)
  BY <1>1, <1>8, SideFalls
<1>10. Promoted(b.pieces, c) \in Nat /\ Promoted(x.pieces, c) \in Nat
  BY <1>1, PromotedIs, WeightsAre
<1>11. HALF \in Int
  BY DEF HALF
<1> QED BY <1>7, <1>9, <1>10, <1>11

LEMMA RoomCounts ==
  ASSUME NEW b, Sound(b), RoomFor(b)
  PROVE  CountsHold(b)
<1>1. b.pieces \in Men
  BY SoundMen
<1> SUFFICES ASSUME NEW c \in Colors
             PROVE  HalfOfMen(b.pieces, c) < HALF
  BY Zenon DEF CountsHold
<1>2. Promoted(b.pieces, c) < HALF
  BY Zenon DEF RoomFor
<1>3. HalfOfMen(b.pieces, c) <= Promoted(b.pieces, c)
  BY <1>1, PromotedIs
<1>4. /\ HalfOfMen(b.pieces, c) \in Int /\ Promoted(b.pieces, c) \in Int
  BY <1>1, PromotedIs, WeightsAre, CountsOfMen
<1>5. HALF \in Int
  BY DEF HALF
<1> QED BY <1>2, <1>3, <1>4, <1>5

-----------------------------------------------------------------------------
(***************************************************************************)
(* Behaviours whose counts always fit.                                     *)
(***************************************************************************)
RoomInv == GuardInv /\ RoomFor(cb) /\ \A i \in 1..Ply : RoomFor(past[i])

LEMMA RoomOfMen ==
  ASSUME NEW b, NEW x, b.pieces = x.pieces, RoomFor(x)
  PROVE  RoomFor(b)
<1> QED BY Zenon DEF RoomFor

LEMMA RoomHolds ==
  ASSUME RoomInv
  PROVE  MaterialHolds
<1>1. Sound(cb) /\ RoomFor(cb)
  BY Zenon DEF RoomInv, GuardInv, FitInv, BoardInv
<1> QED BY <1>1, RoomCounts, Zenon DEF MaterialHolds

LEMMA InitRoom ==
  ASSUME KeysHaveSlots, RoomToPromote, Init
  PROVE  RoomInv
<1>1. PICK fen \in Fens : cb = getNewCB(fen)
  BY DEF Init
<1>2. WellFormed(fen)
  BY FensAssumption
<1>3. cb.history = <<>> /\ Sound(cb) /\ cb.pieces = fen.pieces
  BY <1>1, NewFields, <1>2, NewBoardSound DEF NewResult
<1>4. RoomFor(cb)
  BY <1>3, Zenon DEF RoomFor, RoomToPromote
<1>5. MaterialHolds
  BY <1>3, <1>4, RoomCounts, Zenon DEF MaterialHolds
<1>6. GuardInv
  BY <1>5, InitGuards
<1>7. \A i \in 1..Ply : RoomFor(past[i])
  <2>1. Ply = 0
    BY <1>3 DEF Ply
  <2> QED BY <2>1
<1> QED BY <1>4, <1>6, <1>7, Zenon DEF RoomInv

\* A step down leaves boards with room on boards with room.
LEMMA DeepenRoom ==
  ASSUME BoardInv, BoardInv', NEW b, RoomFor(b), past' = Append(past, b), \A i \in 1..Ply : RoomFor(past[i])
  PROVE  \A i \in 1..Ply' : RoomFor(past'[i])
<1>1. Ply \in Nat /\ IsSequence(past) /\ Len(past) = Ply /\ Len(past') = Ply'
  BY KeyIsMade DEF BoardInv
<1>2. Ply' = Ply + 1 /\ past'[Ply + 1] = b /\ \A i \in 1..Ply : past'[i] = past[i]
  BY <1>1, AppendedBack
<1> TAKE i \in 1..Ply'
<1>3. i \in 1..Ply \/ i = Ply + 1
  BY <1>1, <1>2
<1>4. CASE i \in 1..Ply
  BY <1>2, <1>4
<1>5. CASE i = Ply + 1
  BY <1>2, <1>5
<1> QED BY <1>3, <1>4, <1>5

LEMMA RoomStep ==
  ASSUME KeysHaveSlots, RoomInv, [Next]_vars
  PROVE  RoomInv'
<1>0. /\ GuardInv /\ FitInv /\ BoardInv /\ RoomFor(cb) /\ (\A i \in 1..Ply : RoomFor(past[i])) /\ KingsStand
      /\ Sound(cb) /\ MaterialHolds
  BY GuardStands, RoomHolds, Zenon DEF RoomInv, GuardInv, FitInv, BoardInv
<1>1. FitInv' /\ BoardInv'
  BY <1>0, FitStep DEF FitInv
<1>2. PICK b : b = RefreshPins(cb)
  OBVIOUS
<1>3. Ply \in Nat /\ IsSequence(past) /\ Len(past) = Ply /\ Len(past') = Ply'
  BY <1>0, <1>1, KeyIsMade DEF BoardInv
<1>4. Sound(b) /\ b.pinnedPiecesDirty = FALSE /\ b.pieces = cb.pieces
  BY <1>0, <1>2, Refreshed DEF ExceptPins
<1>5. RoomFor(b)
  BY <1>0, <1>4, RoomOfMen
<1>6. PICK x : x = cb'
  OBVIOUS
<1>7. Sound(x)
  <2>1. Sound(cb')
    BY <1>1, Zenon DEF BoardInv
  <2> QED BY <1>6, <2>1
<1>8. ASSUME RoomFor(x), \A i \in 1..Ply' : RoomFor(past'[i])
      PROVE  RoomInv'
  <2>1. CountsHold(x)
    BY <1>7, <1>8, RoomCounts
  <2>2. MaterialHolds'
    BY <1>6, <2>1, Zenon DEF MaterialHolds, CountsHold
  <2>3. GuardInv'
    BY <1>0, <2>2, GuardStep
  <2>4. RoomFor(cb)' /\ (\A i \in 1..Ply : RoomFor(past[i]))'
    BY <1>6, <1>8, Zenon DEF RoomFor
  <2> QED BY <2>3, <2>4, Zenon DEF RoomInv
<1>9. CASE MakeMove
  <2>1. PICK m \in LegalMoves(cb) : Deepen(doMove(cb, m))
    BY <1>9 DEF MakeMove
  <2>2. MoveLeads(b, m, cb')
    BY <1>0, <1>2, <2>1, MadeMoveLeads
  <2>3. Leads(b, m, x) /\ m # NO_MOVE
    BY <1>6, <2>2 DEF MoveLeads
  <2>4. RoomFor(x)
    <3>1. CASE ~is_castling(m)
      BY <2>3, <3>1, <1>4, <1>5, <1>7, OrdinaryRoom DEF Leads
    <3>2. CASE is_castling(m)
      BY <2>3, <3>2, <1>4, <1>5, <1>7, CastlingRoom DEF Leads
    <3> QED BY <3>1, <3>2
  <2>5. past' = Append(past, b)
    BY <1>2, <2>1 DEF Deepen
  <2>6. \A i \in 1..Ply' : RoomFor(past'[i])
    BY <1>0, <1>1, <1>5, <2>5, DeepenRoom
  <2> QED BY <1>8, <2>4, <2>6
<1>10. CASE MakeNull
  <2>1. cb' = doNullMove(cb) /\ past' = Append(past, b)
    BY <1>2, <1>10 DEF MakeNull, Deepen
  <2>2. NullResult(b, x)
    BY <1>0, <1>2, Refreshed, <1>4, <1>6, <2>1, NullFields DEF doNullMove, Sound, Kept
  <2>3. RoomFor(x)
    <3>1. x.pieces = b.pieces
      BY <2>2, Zenon DEF NullResult, PlacesKept
    <3> QED BY <1>5, <3>1, RoomOfMen
  <2>4. \A i \in 1..Ply' : RoomFor(past'[i])
    BY <1>0, <1>1, <1>5, <2>1, DeepenRoom
  <2> QED BY <1>8, <2>3, <2>4
<1>11. CASE UnmakeMove \/ UnmakeNull
  <2>1. Ply > 0 /\ cb' = past[Ply] /\ past' = SubSeq(past, 1, Ply - 1)
    BY <1>0, <1>11, UnmakeGives
  <2>2. RoomFor(x)
    BY <1>0, <1>3, <1>6, <2>1
  <2>3. Ply' = Ply - 1 /\ \A i \in 1..(Ply - 1) : past'[i] = past[i]
    <3> DEFINE S == {past[i] : i \in DOMAIN past}
    <3>1. past \in Seq(S) /\ Len(past) = Ply /\ Ply - 1 \in Nat /\ Ply - 1 <= Len(past)
      BY <1>3, <2>1 DEF IsSequence
    <3> HIDE DEF S
    <3>2. Len(past') = Ply - 1 /\ \A i \in 1..(Ply - 1) : past'[i] = past[i]
      BY <2>1, <3>1
    <3> QED BY <1>3, <3>2
  <2>4. \A i \in 1..Ply' : RoomFor(past'[i])
    <3> TAKE i \in 1..Ply'
    <3>1. i \in 1..Ply /\ past'[i] = past[i]
      BY <1>3, <2>1, <2>3
    <3> QED BY <1>0, <3>1
  <2> QED BY <1>8, <2>2, <2>4
<1>12. CASE Refresh
  BY <1>0, <1>2, <1>12, RefreshStepKeeps, <1>5, <1>6, <1>8 DEF Refresh
<1>13. CASE UNCHANGED vars
  BY <1>0, <1>13, StutterKeeps, <1>6, <1>8 DEF vars
<1> QED BY <1>9, <1>10, <1>11, <1>12, <1>13 DEF Next

\* From positions whose pawns may all become queens without filling the field of
\* the queens, the counts of the pieces fit the material key for ever: a
\* promotion trades a pawn for another piece and no move makes a pawn.  Then the
\* king that waits can never be taken.
THEOREM CountsAlwaysHold ==
  ASSUME KeysHaveSlots, RoomToPromote
  PROVE  Spec => [](MaterialHolds /\ KingsStand)
<1>1. Init => RoomInv
  BY InitRoom
<1>2. RoomInv /\ [Next]_vars => RoomInv'
  BY RoomStep
<1>3. RoomInv => MaterialHolds /\ KingsStand
  BY RoomHolds, GuardStands DEF RoomInv
<1> QED BY <1>1, <1>2, <1>3, PTL DEF Spec

\* What was shown of behaviours in which every king stands holds whenever the
\* counts of the pieces fit the material key.
THEOREM BoardIsRight ==
  ASSUME KeysHaveSlots
  PROVE  Spec /\ []MaterialHolds
           => UndoRestores /\ [](RepetitionsCounted /\ IncrementalState /\ AccumulatorsFresh /\ UciRoundTrip /\ CachesExact)
<1>1. Spec /\ []MaterialHolds => []KingsStand
  BY KingsAlwaysStand
<1>2. Spec /\ []KingsStand => UndoRestores
  BY UndoIsExact
<1>3. Spec /\ []KingsStand => []RepetitionsCounted
  BY RepetitionsAreCounted
<1>4. Spec /\ []KingsStand => []IncrementalState
  BY StateIsIncremental
<1>5. Spec /\ []KingsStand => []AccumulatorsFresh
  BY AccumulatorsFollow
<1>6. Spec /\ []KingsStand => []UciRoundTrip
  BY TextNamesTheMove
<1>7. Spec /\ []MaterialHolds => []CachesExact
  BY CachesAreExact
<1> HIDE DEF Spec, MaterialHolds, KingsStand, UndoRestores
<1> QED BY <1>1, <1>2, <1>3, <1>4, <1>5, <1>6, <1>7, PTL

-----------------------------------------------------------------------------
(***************************************************************************)
(* The board after a move, read as a position, is the position that the    *)
(* laws of chess lead to.                                                  *)
(***************************************************************************)

\* Whatever says of every square what stands there is the placement of a board.
LEMMA PlacementIs ==
  ASSUME NEW x, Laid(x), NEW f, f = [s \in DOMAIN f |-> f[s]], DOMAIN f = x.allPieces,
         \A s \in x.allPieces : /\ f[s] = <<f[s][1], f[s][2]>> /\ f[s][1] \in Colors /\ f[s][2] \in PieceTypes
                                /\ s \in x.pieces[f[s][1]][f[s][2]]
  PROVE  f = PositionOf(x).at
<1> DEFINE at == PositionOf(x).at
<1>1. PICK pos : pos = PositionOf(x)
  OBVIOUS
<1>2. MenOn(at, x, x.allPieces)
  BY <1>1, PositionIs
<1>3. at = [s \in x.allPieces |-> at[s]]
  BY DEF PositionOf
<1> HIDE DEF at
<1>4. \A s \in x.allPieces : f[s] = at[s]
  <2> TAKE s \in x.allPieces
  <2>1. PICK c, p : c = f[s][1] /\ p = f[s][2]
    OBVIOUS
  <2>2. f[s] = <<c, p>> /\ c \in Colors /\ p \in PieceTypes /\ s \in x.pieces[c][p]
    BY <2>1
  <2>3. at[s] = <<at[s][1], at[s][2]>> /\ c = at[s][1] /\ p = at[s][2]
    BY <1>2, <2>2, MenRead
  <2> QED BY <2>2, <2>3
<1> QED BY <1>3, <1>4 DEF at

\* An ordinary move places the pieces as the laws do.
LEMMA OrdinaryPlaced ==
  ASSUME NEW b, Sound(b), NEW m, OrdinaryFacts(b, m), ~is_castling(m), NEW x, x = DoOrdinaryMove(b, m), Sound(x)
  PROVE  After(PositionOf(b), m) = PositionOf(x).at
<1> DEFINE us == b.colorToMove
           at == PositionOf(b).at
           left == IF is_ep(m) THEN {m.from, Target(m.to, <<0, -Up(us)>>, 1)} ELSE {m.from}
           f == [s \in (b.allPieces \ left) \cup {m.to} |-> IF s \in {m.to} THEN <<us, Placed(m)>> ELSE at[s]]
<1>1. Laid(b) /\ Laid(x)
  BY SoundLaid
<1>2. MenOn(at, b, b.allPieces)
  BY <1>1, PositionIs
<1>3. /\ us \in Colors /\ m.from \in Squares /\ m.to \in Squares /\ m.from # m.to
      /\ m.source \in PieceTypes /\ Placed(m) \in PieceTypes
      /\ m.attacked # EMPTY => CaptureSquare(b, m) \in Squares
  BY OrdinaryMen
<1>4. is_ep(m) => Captured(b, m) = {Target(m.to, <<0, -Up(us)>>, 1)}
  <2> SUFFICES ASSUME is_ep(m) PROVE Captured(b, m) = {Target(m.to, <<0, -Up(us)>>, 1)}
    OBVIOUS
  <2>1. m.attacked # EMPTY
    BY DEF OrdinaryFacts
  <2>2. CaptureSquare(b, m) = m.to + Forward(Opponent(us))
    BY DEF CaptureSquare
  <2>3. Target(m.to, <<0, -Up(us)>>, 1) = CaptureSquare(b, m)
    BY <1>3, <2>1, <2>2, EpTarget
  <2> QED BY <2>1, <2>3 DEF Captured
<1>5. /\ x.allPieces \subseteq Squares /\ b.allPieces \subseteq Squares
      /\ \A s \in Squares : s \in x.allPieces <=> s = m.to \/ (s \in b.allPieces /\ s # m.from /\ s \notin Captured(b, m))
      /\ ~is_ep(m) => Captured(b, m) \subseteq {m.to}
  BY OrdinaryNow, SoundSays
<1>6. After(PositionOf(b), m) = f
  <2>1. PositionOf(b).side = us /\ DOMAIN PositionOf(b).at = b.allPieces
    BY DEF PositionOf
  <2>2. After(PositionOf(b), m) = [s \in (DOMAIN PositionOf(b).at \ left) \cup {m.to} |->
                                     IF s \in {m.to} THEN <<us, Placed(m)>> ELSE PositionOf(b).at[s]]
    <3>1. \A S : S \cup {} = S
      OBVIOUS
    <3>2. PICK pos : pos = PositionOf(b)
      OBVIOUS
    <3>3. left = CASE is_castling(m) -> {m.from, pos.home.rook[CHOOSE r \in {8, 4, 2, 1} : KingTo(r) = m.to]}
                [] is_ep(m)       -> {m.from, Target(m.to, <<0, -Up(us)>>, 1)}
                [] OTHER          -> {m.from}
      BY Zenon
    <3> HIDE DEF left
    <3> QED BY <2>1, <3>1, <3>2, <3>3 DEF After, Placed
  <2> QED BY <2>1, <2>2
<1>7. DOMAIN f = x.allPieces
  BY <1>3, <1>4, <1>5
<1>9. f = [s \in DOMAIN f |-> f[s]]
  BY <1>7
<1>11. \A s \in x.allPieces : f[s] = IF s = m.to THEN <<us, Placed(m)>> ELSE at[s]
  BY <1>7
<1> HIDE DEF f
<1>8. \A s \in x.allPieces : /\ f[s] = <<f[s][1], f[s][2]>> /\ f[s][1] \in Colors /\ f[s][2] \in PieceTypes
                             /\ s \in x.pieces[f[s][1]][f[s][2]]
  <2> TAKE s \in x.allPieces
  <2>0. s \in Squares
    BY <1>5
  <2>1. CASE s = m.to
    <3>1. f[s] = <<us, Placed(m)>>
      BY <1>11, <2>1
    <3>2. s \in x.pieces[us][Placed(m)]
      BY <1>3, <2>0, <2>1, OrdinaryStands
    <3>3. PICK p : p = Placed(m)
      OBVIOUS
    <3> QED BY <1>3, <3>1, <3>2, <3>3
  <2>2. CASE s # m.to
    <3>1. s \in b.allPieces /\ s # m.from /\ s \notin Captured(b, m)
      BY <1>5, <2>0, <2>2
    <3>2. f[s] = at[s]
      BY <1>11, <2>2
    <3>3. PICK c, p : c = at[s][1] /\ p = at[s][2]
      OBVIOUS
    <3>4. at[s] = <<c, p>> /\ c \in Colors /\ p \in PieceTypes /\ s \in b.pieces[c][p]
      BY <1>1, <1>2, <3>1, <3>3, MenRead
    <3>5. s \in x.pieces[c][p]
      BY <2>0, <3>1, <3>4, OrdinaryStands
    <3> QED BY <3>2, <3>4, <3>5
  <2> QED BY <2>1, <2>2
<1> QED BY <1>1, <1>6, <1>7, <1>8, <1>9, PlacementIs

\* Castling places the king and the rook as the laws do, where they cross too.
LEMMA CastlingPlaced ==
  ASSUME NEW b, Sound(b), NEW m, CastlingFacts(b, m), is_castling(m), NEW x, x = doCastling960(b, m), Sound(x)
  PROVE  After(PositionOf(b), m) = PositionOf(x).at
<1> DEFINE us == b.colorToMove
           at == PositionOf(b).at
<1>1. Laid(b) /\ Laid(x)
  BY SoundLaid
<1>2. MenOn(at, b, b.allPieces)
  BY <1>1, PositionIs
<1>3. PICK r \in b.castlingRights :
         /\ OwnerOf(r) = us /\ CastledSquares(b, m).rookFrom = b.castlingConfig.rook[r]
         /\ m.to = KING_TO[r] /\ CastledSquares(b, m).rookTo = ROOK_TO[r]
  BY Zenon DEF CastlingFacts
<1>4. r \in Rights
  BY DEF Sound
<1>5. PICK from, to, rf, rt : from = m.from /\ to = m.to /\ rf = CastledSquares(b, m).rookFrom /\ rt = CastledSquares(b, m).rookTo
  OBVIOUS
<1>6. /\ from \in b.pieces[us][KING] /\ rf \in b.pieces[us][ROOK]
      /\ to \in Squares /\ rt \in Squares /\ to # rt
      /\ \A s \in {to, rt} : s \in b.allPieces => s \in {from, rf}
  BY <1>5, Zenon DEF CastlingFacts
<1>7. us \in Colors /\ KING \in PieceTypes /\ ROOK \in PieceTypes /\ x.allPieces \subseteq Squares /\ b.allPieces \subseteq Squares
  BY SoundSays, PieceCodes
<1> DEFINE f == [s \in (b.allPieces \ {from, rf}) \cup {to, rt} |->
                   IF s = rt THEN <<us, ROOK>> ELSE IF s = to THEN <<us, KING>> ELSE at[s]]
<1>8. After(PositionOf(b), m) = f
  <2>1. PICK pos : pos = PositionOf(b)
    OBVIOUS
  <2>2. pos.side = us /\ DOMAIN pos.at = b.allPieces /\ pos.home = b.castlingConfig /\ pos.at = at
    BY <2>1 DEF PositionOf
  <2>3. (CHOOSE q \in {8, 4, 2, 1} : KingTo(q) = m.to) = r /\ RookTo(r) = rt
    BY <1>3, <1>4, <1>5, CornersAgree
  <2>4. ~is_promotion(m) /\ m.source = KING
    BY DEF is_promotion, is_castling, TYPE_CASTLING, PromotionTypes, NIGHT, BISHOP, ROOK, QUEEN, CastlingFacts
  <2> DEFINE castled == CHOOSE q \in {8, 4, 2, 1} : KingTo(q) = m.to
             left == CASE is_castling(m) -> {m.from, pos.home.rook[castled]}
                       [] is_ep(m)       -> {m.from, Target(m.to, <<0, -Up(pos.side)>>, 1)}
                       [] OTHER          -> {m.from}
             put(s) == IF is_castling(m) /\ s = RookTo(castled) THEN <<pos.side, ROOK>>
                       ELSE <<pos.side, IF is_promotion(m) THEN m.type ELSE m.source>>
             filled == {m.to} \cup (IF is_castling(m) THEN {RookTo(castled)} ELSE {})
  <2>5. After(pos, m) = [s \in (DOMAIN pos.at \ left) \cup filled |-> IF s \in filled THEN put(s) ELSE pos.at[s]]
    BY Zenon DEF After
  <2>51. castled = r /\ RookTo(castled) = rt
    BY <2>3
  <2> HIDE DEF castled
  <2>50. is_castling(m) /\ ~is_ep(m)
    BY TypesDiffer DEF is_castling, is_ep
  <2>52. left = {m.from, pos.home.rook[r]}
    BY <2>50, <2>51, Zenon
  <2>53. filled = {to, rt}
    BY <1>5, <2>51
  <2>54. \A s : put(s) = IF s = rt THEN <<us, ROOK>> ELSE <<us, KING>>
    BY <2>2, <2>4, <2>51
  <2> HIDE DEF left, filled, put
  <2>6. pos.home.rook[r] = rf
    BY <1>3, <1>5, <2>2
  <2>7. After(pos, m) = [s \in (b.allPieces \ {from, rf}) \cup {to, rt} |->
                IF s \in {to, rt} THEN (IF s = rt THEN <<us, ROOK>> ELSE <<us, KING>>) ELSE at[s]]
    BY <1>5, <2>2, <2>5, <2>52, <2>53, <2>54, <2>6
  <2> HIDE DEF at, us
  <2>9. f = [s \in (b.allPieces \ {from, rf}) \cup {to, rt} |->
                IF s \in {to, rt} THEN (IF s = rt THEN <<us, ROOK>> ELSE <<us, KING>>) ELSE at[s]]
    OBVIOUS
  <2> QED BY <2>1, <2>7, <2>9
<1>9. CastlingGone(b, m) = {from, rf}
  BY <1>5, Zenon DEF CastlingGone
<1>10. \A c \in Colors, p \in PieceTypes, s \in Squares :
         s \in x.pieces[c][p] <=>
           \/ c = us /\ s = to /\ p = KING
           \/ c = us /\ s = rt /\ p = ROOK
           \/ s \in b.pieces[c][p] /\ s \notin {from, rf}
  <2> TAKE c \in Colors, p \in PieceTypes, s \in Squares
  <2> QED BY <1>5, <1>9, CastlingStands
<1>11. \A s \in Squares : /\ s \in b.allPieces <=> \E c \in Colors, p \in PieceTypes : s \in b.pieces[c][p]
                          /\ s \in x.allPieces <=> \E c \in Colors, p \in PieceTypes : s \in x.pieces[c][p]
  BY <1>1, AllIs DEF Laid
<1>12. \A s : s \in DOMAIN f <=> s \in x.allPieces
  <2> TAKE s
  <2>1. s \in DOMAIN f <=> s = to \/ s = rt \/ (s \in b.allPieces /\ s \notin {from, rf})
    OBVIOUS
  <2>2. CASE s \in Squares
    BY <1>7, <1>10, <1>11, <2>2, <2>1
  <2>3. CASE s \notin Squares
    BY <1>6, <1>7, <2>1, <2>3
  <2> QED BY <2>2, <2>3
<1>13. DOMAIN f = x.allPieces
  BY <1>12
<1>14. f = [s \in DOMAIN f |-> f[s]]
  BY <1>13
<1>15. \A s \in x.allPieces : f[s] = IF s = rt THEN <<us, ROOK>> ELSE IF s = to THEN <<us, KING>> ELSE at[s]
  BY <1>13
<1>16. \A s \in x.allPieces : s = to \/ s = rt \/ (s \in b.allPieces /\ s \notin {from, rf})
  BY <1>13
<1> HIDE DEF f
<1>17. \A s \in x.allPieces : /\ f[s] = <<f[s][1], f[s][2]>> /\ f[s][1] \in Colors /\ f[s][2] \in PieceTypes
                              /\ s \in x.pieces[f[s][1]][f[s][2]]
  <2> TAKE s \in x.allPieces
  <2>0. s \in Squares
    BY <1>7
  <2>1. CASE s = rt
    BY <1>7, <1>10, <1>15, <2>0, <2>1
  <2>2. CASE s = to
    BY <1>6, <1>7, <1>10, <1>15, <2>0, <2>2
  <2>3. CASE s # to /\ s # rt
    <3>1. s \in b.allPieces /\ s \notin {from, rf} /\ f[s] = at[s]
      BY <1>15, <1>16, <2>3
    <3>2. PICK c, p : c = at[s][1] /\ p = at[s][2]
      OBVIOUS
    <3>3. at[s] = <<c, p>> /\ c \in Colors /\ p \in PieceTypes /\ s \in b.pieces[c][p]
      BY <1>1, <1>2, <3>1, <3>2, MenRead
    <3>4. s \in x.pieces[c][p]
      BY <1>10, <2>0, <3>1, <3>3
    <3> QED BY <3>1, <3>3, <3>4
  <2> QED BY <2>1, <2>2, <2>3
<1> QED BY <1>1, <1>8, <1>13, <1>14, <1>17, PlacementIs

\* What a move leaves of the castling rights is what the laws leave.
LEMMA OrdinaryRightsLeft ==
  ASSUME NEW b, Sound(b), NEW m, OrdinaryFacts(b, m), OrdinaryFits(b, m), NEW pos, pos = PositionOf(b)
  PROVE  RightsAfter(b, m) = RightsLeft(pos, m)
<1> DEFINE us == b.colorToMove
           cfg == b.castlingConfig
<1>1. /\ PlacesTyped(b) /\ WhoIsWhere(b) /\ us \in Colors /\ b.castlingRights \subseteq Rights /\ RightsSound(b)
      /\ \A c \in Colors : b.pieces[c][KING] = {b.kingIndex[c]} /\ b.kingIndex[c] \in Squares
  BY SoundSays DEF Sound
<1>2. pos.rights = b.castlingRights /\ pos.home = cfg
  BY DEF PositionOf
<1>3. /\ m.from \in Squares /\ m.to \in Squares
      /\ m.source \in PieceTypes /\ m.attacked \in EMPTY..QUEEN
      /\ m.from \in b.pieces[us][m.source]
      /\ m.to \notin b.friendlyPieces[us]
      /\ m.attacked = EMPTY => m.to \notin b.allPieces
      /\ m.attacked # EMPTY => /\ m.attacked \in PieceTypes
                               /\ CaptureSquare(b, m) \in b.pieces[Opponent(us)][m.attacked]
                               /\ CaptureSquare(b, m) # m.to => m.to \notin b.allPieces
  BY DEF OrdinaryFacts
<1>4. \A r \in b.castlingRights :
        /\ r \in Rights /\ OwnerOf(r) \in Colors /\ Owner(r) = OwnerOf(r)
        /\ cfg.king[OwnerOf(r)] \in b.pieces[OwnerOf(r)][KING]
        /\ cfg.rook[r] \in b.pieces[OwnerOf(r)][ROOK]
        /\ \A q \in Rights : q > r => cfg.rook[q] # cfg.rook[r]
  <2> TAKE r \in b.castlingRights
  <2>1. r \in Rights /\ Owner(r) = OwnerOf(r) /\ OwnerOf(r) \in Colors
    BY <1>1, ColorsTwo, CornersAgree DEF OwnerOf
  <2> QED BY <1>1, <2>1 DEF RightsSound
<1>5. \A c \in Colors, p \in PieceTypes : \A s \in b.pieces[c][p] :
         /\ s = m.from => c = us /\ p = m.source
         /\ s = m.to => c = Opponent(us) /\ p = m.attacked
  <2> TAKE c \in Colors, p \in PieceTypes
  <2> TAKE s \in b.pieces[c][p]
  <2>1. s = m.from => c = us /\ p = m.source
    BY <1>1, <1>3, FriendIs
  <2>2. ASSUME s = m.to PROVE c = Opponent(us) /\ p = m.attacked
    BY <1>1, <1>3, <2>2, FriendIs, ColorsTwo
  <2> QED BY <2>1, <2>2
<1>6. KING \in PieceTypes /\ ROOK \in PieceTypes /\ KING # ROOK /\ KING \notin EMPTY..QUEEN
  BY PieceCodes DEF EMPTY
<1>7. \A r \in b.castlingRights : r \in RightsAfter(b, m) => {m.from, m.to} \cap {cfg.king[OwnerOf(r)], cfg.rook[r]} = {}
  <2> TAKE r \in b.castlingRights
  <2> HAVE r \in RightsAfter(b, m)
  <2>1. /\ m.source = KING => OwnerOf(r) # us
        /\ m.source = ROOK => cfg.rook[r] # m.from
        /\ m.attacked = ROOK => cfg.rook[r] # m.to
    BY <1>1, <1>4, RightsAfterAre
  <2> QED BY <1>3, <1>4, <1>5, <1>6, <2>1
<1>8. \A r \in b.castlingRights : {m.from, m.to} \cap {cfg.king[OwnerOf(r)], cfg.rook[r]} = {} => r \in RightsAfter(b, m)
  <2> TAKE r \in b.castlingRights
  <2> HAVE {m.from, m.to} \cap {cfg.king[OwnerOf(r)], cfg.rook[r]} = {}
  <2>1. cfg.king[OwnerOf(r)] # m.from /\ cfg.rook[r] # m.from /\ cfg.rook[r] # m.to
    OBVIOUS
  <2>2. m.source = KING => r \notin RightsOf(us)
    <3> SUFFICES ASSUME m.source = KING, r \in RightsOf(us) PROVE FALSE
      OBVIOUS
    <3>1. OwnerOf(r) = us
      BY <1>1, <1>4, ColorsTwo DEF OwnerOf, RightsOf, WHITE, BLACK
    <3> QED BY <1>1, <1>3, <1>4, <2>1, <3>1
  <2>3. \A rights, sq : r \in rights /\ cfg.rook[r] # sq => r \in getRookMovedOrAttackedCastlingRights(rights, sq, cfg)
    BY Zenon DEF getRookMovedOrAttackedCastlingRights
  <2>4. r \in (CASE m.source = ROOK -> getRookMovedOrAttackedCastlingRights(b.castlingRights, m.from, cfg)
                 [] m.source = KING -> getKingMovedCastlingRights(b.castlingRights, us)
                 [] OTHER           -> b.castlingRights)
    <3>1. CASE m.source = ROOK
      BY <1>6, <2>1, <2>3, <3>1
    <3>2. CASE m.source = KING
      BY <1>6, <2>2, <3>2 DEF getKingMovedCastlingRights
    <3>3. CASE m.source # ROOK /\ m.source # KING
      BY <3>3
    <3> QED BY <3>1, <3>2, <3>3
  <2> QED BY <2>1, <2>3, <2>4 DEF RightsAfter
<1>9. RightsAfter(b, m) \subseteq b.castlingRights
  BY <1>1, RightsAfterAre
<1>10. RightsLeft(pos, m) = {r \in b.castlingRights : {m.from, m.to} \cap {cfg.king[Owner(r)], cfg.rook[r]} = {}}
  BY <1>2 DEF RightsLeft
<1>11. \A r \in b.castlingRights : Owner(r) = OwnerOf(r)
  BY <1>4
<1> HIDE DEF us, cfg
<1> QED BY <1>7, <1>8, <1>9, <1>10, <1>11

\* The en-passant square after a move is the one the laws give.
LEMMA OrdinaryEpSquare ==
  ASSUME NEW b, Sound(b), NEW m, OrdinaryFacts(b, m), OrdinaryFits(b, m), Makes(b, m), ~is_castling(m),
         NEW pos, pos = PositionOf(b)
  PROVE  EpAfter(b, m) = EpSquare(pos, m)
<1> DEFINE us == b.colorToMove
           e == m.from + Forward(us)
<1>1. /\ us \in Colors /\ Opponent(us) \in Colors /\ m.from \in Squares /\ m.to \in Squares
      /\ m.source \in PieceTypes /\ m.from # m.to
  BY SoundSays DEF OrdinaryFacts
<1>2. Laid(b) /\ MenOn(pos.at, b, b.allPieces) /\ pos.side = us
      /\ \A c \in Colors : \A s : Owns(pos, c, s) <=> s \in b.friendlyPieces[c]
  BY SoundLaid, PositionIs
<1>3. \A s : Owns(pos, Opponent(us), s) /\ Piece(pos, s) = PAWN <=> s \in b.pieces[Opponent(us)][PAWN]
  <2> TAKE s
  <2>1. s \in b.pieces[Opponent(us)][PAWN] => s \in b.friendlyPieces[Opponent(us)] /\ s \in b.allPieces
    BY <1>1, <1>2, PieceCodes, FriendIs DEF Laid
  <2>2. s \in b.friendlyPieces[Opponent(us)] => s \in b.allPieces
    BY <1>1, <1>2, ColorsTwo DEF Laid, WhoIsWhere
  <2>3. s \in b.allPieces => (Piece(pos, s) = PAWN /\ pos.at[s][1] = Opponent(us) <=> s \in b.pieces[Opponent(us)][PAWN])
    BY <1>1, <1>2, PieceCodes, MenRead DEF Piece
  <2>4. Owns(pos, Opponent(us), s) <=> s \in b.allPieces /\ pos.at[s][1] = Opponent(us)
    BY <1>2 DEF Owns, On, MenOn
  <2> QED BY <2>1, <2>2, <2>3, <2>4
<1>4. ASSUME m.source = PAWN, m.to = m.from + 2 * Forward(us), ~is_promotion(m)
      PROVE  EpAfter(b, m) = EpSquare(pos, m)
  <2>1. /\ e \in Squares /\ Target(m.to, <<0, -Up(us)>>, 1) = e
        /\ IN_BETWEEN[m.from][m.to] = {e} /\ Least({e}) = e
        /\ m.from - m.to \in {16, -16}
        /\ \A q : q \in Steps(m.to, {<<1, 0>>, <<-1, 0>>}) <=> q \in PAWN_ATTACKS[us][e]
    BY <1>1, <1>4, DoubleStepIs
  <2>2. EpAfter(b, m) = IF PAWN_ATTACKS[us][e] \cap b.pieces[Opponent(us)][PAWN] # {} THEN e ELSE 0
    BY <1>4, <2>1 DEF EpAfter
  <2>3. EpSquare(pos, m) = IF \E s \in Steps(m.to, {<<1, 0>>, <<-1, 0>>}) : Owns(pos, Opponent(us), s) /\ Piece(pos, s) = PAWN
                           THEN e ELSE 0
    BY <1>2, <1>4, <2>1 DEF EpSquare
  <2>4. (\E s \in Steps(m.to, {<<1, 0>>, <<-1, 0>>}) : Owns(pos, Opponent(us), s) /\ Piece(pos, s) = PAWN)
        <=> PAWN_ATTACKS[us][e] \cap b.pieces[Opponent(us)][PAWN] # {}
    BY <1>3, <2>1
  <2> QED BY <2>2, <2>3, <2>4
<1>5. ASSUME m.source = PAWN, m.from - m.to \in {16, -16} PROVE m.to = m.from + 2 * Forward(us) /\ ~is_promotion(m)
  <2>1. Forward(us) \in {8, -8}
    BY <1>1, ColorsTwo DEF Forward
  <2>2. CASE m.attacked = EMPTY
    BY <1>1, <1>5, <2>1, <2>2 DEF Squares, Makes
  <2>3. CASE m.attacked # EMPTY /\ ~is_ep(m)
    BY <1>5, <2>3, <1>1, TakesAslant DEF Makes
  <2>4. CASE is_ep(m)
    BY <2>4, <1>1, TakesAslant, <1>5 DEF Makes, Squares
  <2>5. is_ep(m) => m.attacked # EMPTY
    BY DEF OrdinaryFacts
  <2> QED BY <2>2, <2>3, <2>4
<1>6. CASE m.source = PAWN /\ m.to = m.from + 2 * Forward(us) /\ ~is_promotion(m)
  BY <1>4, <1>6
<1>7. CASE ~(m.source = PAWN /\ m.to = m.from + 2 * Forward(us) /\ ~is_promotion(m))
  BY <1>5, <1>7 DEF EpSquare, OrdinaryFits, EpFits, EpAfter
<1> QED BY <1>6, <1>7

\* A position, field by field, and the one after a move.
LEMMA PositionFields ==
  ASSUME NEW b
  PROVE  PositionOf(b) = [at |-> PositionOf(b).at, side |-> b.colorToMove, rights |-> b.castlingRights,
                          home |-> b.castlingConfig, ep |-> b.epIndex, clock |-> b.lastCaptureOrPawnMoveBefore]
BY DEF PositionOf

\* A position by its fields.
IsPosition(pos, at, side, rights, home, ep, clock) ==
  pos = [at |-> at, side |-> side, rights |-> rights, home |-> home, ep |-> ep, clock |-> clock]

\* The fields of the position after a move, and after a pass,
LEMMA PlayedFields ==
  ASSUME NEW at, NEW side, NEW rights, NEW home, NEW ep, NEW clock,
         NEW pos, IsPosition(pos, at, side, rights, home, ep, clock), NEW m
  PROVE  /\ Played(pos, m) = [at |-> After(pos, m), side |-> Opponent(side), rights |-> RightsLeft(pos, m), home |-> home,
                              ep |-> EpSquare(pos, m),
                              clock |-> IF m.source = PAWN \/ m.attacked # EMPTY THEN 0 ELSE clock + 1]
         /\ NullMoved(pos) = [at |-> at, side |-> Opponent(side), rights |-> rights, home |-> home, ep |-> 0, clock |-> clock]
<1> DEFINE a == After(pos, m)
           l == RightsLeft(pos, m)
           e == EpSquare(pos, m)
<1>1. Played(pos, m) = [pos EXCEPT !.at = a, !.side = Opponent(@), !.rights = l, !.ep = e,
                                   !.clock = IF m.source = PAWN \/ m.attacked # EMPTY THEN 0 ELSE @ + 1]
  BY Zenon DEF Played
<1> HIDE DEF a, l, e
<1>2. Played(pos, m) = [at |-> a, side |-> Opponent(side), rights |-> l, home |-> home, ep |-> e,
                        clock |-> IF m.source = PAWN \/ m.attacked # EMPTY THEN 0 ELSE clock + 1]
  BY <1>1 DEF IsPosition
<1>3. NullMoved(pos) = [at |-> at, side |-> Opponent(side), rights |-> rights, home |-> home, ep |-> 0, clock |-> clock]
  <2>1. NullMoved(pos) = [pos EXCEPT !.side = Opponent(@), !.ep = 0]
    BY Zenon DEF NullMoved
  <2>2. PICK them : them = Opponent(side)
    OBVIOUS
  <2>3. pos.side = side
    BY DEF IsPosition
  <2>4. NullMoved(pos) = [pos EXCEPT !.side = them, !.ep = 0]
    BY <2>1, <2>2, <2>3
  <2> QED BY <2>2, <2>4 DEF IsPosition
<1> QED BY <1>2, <1>3 DEF a, l, e

\* and of those of a board.
LEMMA PlayedOn ==
  ASSUME NEW b, NEW pos, pos = PositionOf(b), NEW m
  PROVE  /\ Played(pos, m) = [at |-> After(pos, m), side |-> Opponent(b.colorToMove), rights |-> RightsLeft(pos, m),
                              home |-> b.castlingConfig, ep |-> EpSquare(pos, m),
                              clock |-> IF m.source = PAWN \/ m.attacked # EMPTY THEN 0 ELSE b.lastCaptureOrPawnMoveBefore + 1]
         /\ NullMoved(pos) = [at |-> pos.at, side |-> Opponent(b.colorToMove), rights |-> b.castlingRights,
                              home |-> b.castlingConfig, ep |-> 0, clock |-> b.lastCaptureOrPawnMoveBefore]
<1>1. PICK at, side, rights, home, ep, clock :
        /\ at = pos.at /\ side = b.colorToMove /\ rights = b.castlingRights /\ home = b.castlingConfig
        /\ ep = b.epIndex /\ clock = b.lastCaptureOrPawnMoveBefore
  OBVIOUS
<1>2. IsPosition(pos, at, side, rights, home, ep, clock)
  BY <1>1, PositionFields DEF IsPosition
<1>3. /\ Played(pos, m) = [at |-> After(pos, m), side |-> Opponent(side), rights |-> RightsLeft(pos, m), home |-> home,
                              ep |-> EpSquare(pos, m),
                              clock |-> IF m.source = PAWN \/ m.attacked # EMPTY THEN 0 ELSE clock + 1]
      /\ NullMoved(pos) = [at |-> at, side |-> Opponent(side), rights |-> rights, home |-> home, ep |-> 0, clock |-> clock]
  BY <1>2, PlayedFields
<1> QED BY <1>1, <1>3

\* An ordinary move has the effect on the position that the laws give it.
LEMMA OrdinaryPlayed ==
  ASSUME NEW b, Sound(b), NEW m, OrdinaryFacts(b, m), OrdinaryFits(b, m), Makes(b, m), ~is_castling(m),
         NEW x, x = DoOrdinaryMove(b, m)
  PROVE  PositionOf(x) = Played(PositionOf(b), m)
<1> DEFINE pos == PositionOf(b)
           at == PositionOf(x).at
<1>1. OrdinaryResult(b, m, x) /\ Sound(x)
  BY OrdinarySays, OrdinarySound
<1>2. x.colorToMove = Opponent(b.colorToMove) /\ x.epIndex = EpAfter(b, m) /\ x.castlingRights = RightsAfter(b, m)
      /\ x.castlingConfig = b.castlingConfig /\ x.lastCaptureOrPawnMoveBefore = PliesAfter(b, m)
  BY ONLY <1>1, Zenon DEF OrdinaryResult
<1>3. After(pos, m) = at
  BY <1>1, OrdinaryPlaced
<1>4. RightsAfter(b, m) = RightsLeft(pos, m)
  BY OrdinaryRightsLeft
<1>5. EpAfter(b, m) = EpSquare(pos, m)
  BY OrdinaryEpSquare
<1>6. Played(pos, m) = [at |-> After(pos, m), side |-> Opponent(b.colorToMove), rights |-> RightsLeft(pos, m),
                        home |-> b.castlingConfig, ep |-> EpSquare(pos, m),
                        clock |-> IF m.source = PAWN \/ m.attacked # EMPTY THEN 0 ELSE b.lastCaptureOrPawnMoveBefore + 1]
  BY PlayedOn
<1>7. PositionOf(x) = [at |-> at, side |-> x.colorToMove, rights |-> x.castlingRights,
                       home |-> x.castlingConfig, ep |-> x.epIndex, clock |-> x.lastCaptureOrPawnMoveBefore]
  BY PositionFields
<1>8. PliesAfter(b, m) = IF m.source = PAWN \/ m.attacked # EMPTY THEN 0 ELSE b.lastCaptureOrPawnMoveBefore + 1
  BY DEF PliesAfter
<1> HIDE DEF pos, at
<1> QED BY <1>2, <1>3, <1>4, <1>5, <1>6, <1>7, <1>8 DEF pos

\* So has a castling, which loses both rights of its side.
LEMMA CastlingRightsLeft ==
  ASSUME NEW b, Sound(b), NEW m, CastlingFacts(b, m), NEW pos, pos = PositionOf(b)
  PROVE  getKingMovedCastlingRights(b.castlingRights, b.colorToMove) = RightsLeft(pos, m)
<1> DEFINE us == b.colorToMove
           cfg == b.castlingConfig
<1>1. /\ us \in Colors /\ b.castlingRights \subseteq Rights /\ RightsSound(b) /\ PlacesTyped(b) /\ WhoIsWhere(b)
      /\ \A c \in Colors : b.pieces[c][KING] = {b.kingIndex[c]} /\ b.kingIndex[c] \in Squares
  BY SoundSays DEF Sound
<1>2. pos.rights = b.castlingRights /\ pos.home = cfg
  BY DEF PositionOf
<1>3. PICK r \in b.castlingRights :
         /\ OwnerOf(r) = us /\ CastledSquares(b, m).rookFrom = b.castlingConfig.rook[r]
         /\ m.to = KING_TO[r] /\ CastledSquares(b, m).rookTo = ROOK_TO[r]
  BY Zenon DEF CastlingFacts
<1>4. m.from = b.kingIndex[us]
  BY <1>1 DEF CastlingFacts
<1>5. /\ m.to \in b.allPieces => m.to \in {m.from, cfg.rook[r]}
      /\ m.from \in b.pieces[us][KING]
  BY <1>3 DEF CastlingFacts
<1>6. cfg.rook[r] \in b.pieces[us][ROOK]
  BY <1>1, <1>3 DEF RightsSound
<1>7. KING \in PieceTypes /\ ROOK \in PieceTypes /\ KING # ROOK
  BY PieceCodes
<1>8. \A q \in b.castlingRights :
        /\ q \in Rights /\ Owner(q) = OwnerOf(q) /\ OwnerOf(q) \in Colors
        /\ q \in RightsOf(us) <=> OwnerOf(q) = us
        /\ cfg.king[OwnerOf(q)] = b.kingIndex[OwnerOf(q)]
        /\ cfg.rook[q] \in b.pieces[OwnerOf(q)][ROOK]
  <2> TAKE q \in b.castlingRights
  <2>1. q \in Rights /\ Owner(q) = OwnerOf(q) /\ OwnerOf(q) \in Colors
    BY <1>1, ColorsTwo, CornersAgree DEF OwnerOf
  <2>2. q \in RightsOf(us) <=> OwnerOf(q) = us
    BY <1>1, <2>1, ColorsTwo DEF OwnerOf, RightsOf, WHITE, BLACK, Rights
  <2> QED BY <1>1, <2>1, <2>2 DEF RightsSound
<1>9. \A q \in b.castlingRights :
        OwnerOf(q) # us => {m.from, m.to} \cap {cfg.king[OwnerOf(q)], cfg.rook[q]} = {}
  <2> TAKE q \in b.castlingRights
  <2> HAVE OwnerOf(q) # us
  <2>1. b.kingIndex[OwnerOf(q)] \in b.pieces[OwnerOf(q)][KING] /\ cfg.rook[q] \in b.pieces[OwnerOf(q)][ROOK]
    BY <1>1, <1>8
  <2>2. b.kingIndex[OwnerOf(q)] \in b.allPieces /\ cfg.rook[q] \in b.allPieces
    BY <1>1, <1>7, <1>8, <2>1, FriendIs
  <2>3. \A p \in PieceTypes : \A s \in b.pieces[us][p] : s # b.kingIndex[OwnerOf(q)] /\ s # cfg.rook[q]
    BY <1>1, <1>7, <1>8, <2>1, FriendIs
  <2> QED BY <1>5, <1>6, <1>7, <1>8, <2>2, <2>3
<1>10. RightsLeft(pos, m) = {q \in b.castlingRights : {m.from, m.to} \cap {cfg.king[Owner(q)], cfg.rook[q]} = {}}
  BY <1>2 DEF RightsLeft
<1>11. \A q \in b.castlingRights : OwnerOf(q) = us => m.from = cfg.king[OwnerOf(q)]
  BY <1>4, <1>8
<1> HIDE DEF us, cfg
<1>12. \A q : q \in RightsLeft(pos, m) <=> q \in b.castlingRights \ RightsOf(us)
  BY <1>8, <1>9, <1>10, <1>11
<1> QED BY <1>12 DEF getKingMovedCastlingRights, us

\* Castling leads to the position of the laws.
LEMMA CastlingPlayed ==
  ASSUME NEW b, Sound(b), NEW m, CastlingFacts(b, m), is_castling(m), NEW x, x = doCastling960(b, m)
  PROVE  PositionOf(x) = Played(PositionOf(b), m)
<1> DEFINE pos == PositionOf(b)
           at == PositionOf(x).at
<1>1. CastlingResult(b, m, x) /\ Sound(x)
  BY CastlingSays, CastlingSound
<1>2. x.colorToMove = Opponent(b.colorToMove) /\ x.epIndex = 0
      /\ x.castlingRights = getKingMovedCastlingRights(b.castlingRights, b.colorToMove)
      /\ x.castlingConfig = b.castlingConfig /\ x.lastCaptureOrPawnMoveBefore = b.lastCaptureOrPawnMoveBefore + 1
  BY ONLY <1>1, Zenon DEF CastlingResult
<1>3. After(pos, m) = at
  BY <1>1, CastlingPlaced
<1>4. getKingMovedCastlingRights(b.castlingRights, b.colorToMove) = RightsLeft(pos, m)
  BY CastlingRightsLeft
<1>5. m.source # PAWN /\ m.attacked = EMPTY
  BY PieceCodes DEF CastlingFacts
<1>51. EpSquare(pos, m) = 0
  BY <1>5 DEF EpSquare
<1>6. Played(pos, m) = [at |-> After(pos, m), side |-> Opponent(b.colorToMove), rights |-> RightsLeft(pos, m),
                        home |-> b.castlingConfig, ep |-> EpSquare(pos, m),
                        clock |-> IF m.source = PAWN \/ m.attacked # EMPTY THEN 0 ELSE b.lastCaptureOrPawnMoveBefore + 1]
  BY PlayedOn
<1>7. PositionOf(x) = [at |-> at, side |-> x.colorToMove, rights |-> x.castlingRights,
                       home |-> x.castlingConfig, ep |-> x.epIndex, clock |-> x.lastCaptureOrPawnMoveBefore]
  BY PositionFields
<1> HIDE DEF pos, at
<1> QED BY <1>2, <1>3, <1>4, <1>5, <1>51, <1>6, <1>7 DEF pos

\* Boards that differ in their pins and what comes of them stand for one position.
LEMMA PositionExceptPins ==
  ASSUME NEW b, NEW x, ExceptPins(x, b)
  PROVE  PositionOf(x) = PositionOf(b)
BY DEF ExceptPins, PositionOf

\* The null move passes.
LEMMA NullPlayed ==
  ASSUME NEW b, Sound(b), b.pinnedPiecesDirty = FALSE, NEW x, x = doNullMove(b)
  PROVE  PositionOf(x) = NullMoved(PositionOf(b))
<1>1. NullResult(b, x)
  BY SoundSays, NullFields
<1>2. /\ x.allPieces = b.allPieces /\ x.friendlyPieces = b.friendlyPieces /\ x.pieceIndexes = b.pieceIndexes
      /\ x.colorToMove = Opponent(b.colorToMove) /\ x.epIndex = 0 /\ x.castlingRights = b.castlingRights
      /\ x.castlingConfig = b.castlingConfig /\ x.lastCaptureOrPawnMoveBefore = b.lastCaptureOrPawnMoveBefore
  BY ONLY <1>1, Zenon DEF NullResult, PlacesKept
<1>3. PositionOf(x).at = PositionOf(b).at
  BY <1>2 DEF PositionOf
<1>4. NullMoved(PositionOf(b)) = [at |-> PositionOf(b).at, side |-> Opponent(b.colorToMove), rights |-> b.castlingRights,
                                  home |-> b.castlingConfig, ep |-> 0, clock |-> b.lastCaptureOrPawnMoveBefore]
  BY PlayedOn
<1> QED BY <1>2, <1>3, <1>4, PositionFields

-----------------------------------------------------------------------------
(***************************************************************************)
(* What the code plays is legal.                                           *)
(***************************************************************************)

\* What the laws list among the moves of a piece.
LEMMA PieceMovesHave ==
  ASSUME NEW pos, NEW s, NEW t, NEW p, NEW a, NEW y, p = Piece(pos, s),
         a = (IF On(pos, t) THEN Piece(pos, t) ELSE EMPTY),
         y \in (IF p = PAWN /\ RankOf(t) = LastRank(pos.side) THEN PromotionTypes ELSE {TYPE_NORMAL}),
         t \in (IF p = PAWN THEN PawnTargets(pos, s)
                ELSE {u \in Reached(pos.side, p, s, DOMAIN pos.at) : ~Owns(pos, pos.side, u)})
  PROVE  [from |-> s, to |-> t, source |-> p, attacked |-> a, type |-> y] \in PieceMoves(pos, s)
<1> DEFINE q == Piece(pos, s)
           reach == IF q = PAWN THEN PawnTargets(pos, s)
                    ELSE {u \in Reached(pos.side, q, s, DOMAIN pos.at) : ~Owns(pos, pos.side, u)}
           types(u) == IF q = PAWN /\ RankOf(u) = LastRank(pos.side) THEN PromotionTypes ELSE {TYPE_NORMAL}
           taken(u) == IF On(pos, u) THEN Piece(pos, u) ELSE EMPTY
           plain == UNION {{[from |-> s, to |-> u, source |-> q, attacked |-> taken(u), type |-> ty] :
                              ty \in types(u)} : u \in reach}
<1>1. plain \subseteq PieceMoves(pos, s)
  BY Zenon DEF PieceMoves
<1>2. t \in reach /\ y \in types(t) /\ a = taken(t) /\ p = q
  BY Zenon
<1> HIDE DEF reach, types, taken, q
<1>3. [from |-> s, to |-> t, source |-> p, attacked |-> a, type |-> y] \in plain
  BY <1>2
<1> HIDE DEF plain
<1> QED BY <1>1, <1>3

\* What they list of a capture en passant.
LEMMA PieceMovesHaveEp ==
  ASSUME NEW pos, NEW s, NEW t, t = pos.ep, t # 0, Piece(pos, s) = PAWN, t \in Reached(pos.side, PAWN, s, {})
  PROVE  create_ep(s, t) \in PieceMoves(pos, s)
<1> DEFINE p == Piece(pos, s)
           eps == {create_ep(s, u) : u \in {x \in {pos.ep} : /\ x # 0 /\ p = PAWN
                                                     /\ x \in Reached(pos.side, PAWN, s, {})}}
<1>1. eps \subseteq PieceMoves(pos, s)
  BY Zenon DEF PieceMoves
<1>2. create_ep(s, t) \in eps
  BY Zenon
<1> HIDE DEF eps
<1> QED BY <1>1, <1>2

\* Every ordinary move of the generator is among those that the laws list.
LEMMA OrdinaryPseudoLegal ==
  ASSUME NEW b, Sound(b), NEW m, MoveOK(b, m), Makes(b, m), Marches(b, m), OrdinaryFacts(b, m), ~is_castling(m),
         NEW pos, pos = PositionOf(b)
  PROVE  m \in PseudoLegal(pos)
<1> DEFINE us == b.colorToMove
           them == Opponent(b.colorToMove)
<1>1. /\ Laid(b) /\ PlacesTyped(b) /\ WhoIsWhere(b) /\ us \in Colors /\ them \in Colors /\ them # us /\ OrdinaryFits(b, m)
      /\ m.from \in Squares /\ m.to \in Squares /\ m.from # m.to /\ m.source \in PieceTypes
      /\ m.from \in b.pieces[us][m.source] /\ m.to \notin b.friendlyPieces[us]
      /\ MoveFits(b, m)
  BY SoundSays, SoundLaid DEF MoveOK, OrdinaryFacts
<1>2. /\ MenOn(pos.at, b, b.allPieces) /\ pos.side = us /\ pos.ep = b.epIndex /\ DOMAIN pos.at = b.allPieces
      /\ \A c \in Colors : \A s : Owns(pos, c, s) <=> s \in b.friendlyPieces[c]
      /\ b.allPieces \subseteq Squares
  BY <1>1, PositionIs DEF PositionOf, MenOn, PlacesTyped
<1>3. \A s \in b.allPieces : \A c \in Colors, p \in PieceTypes : s \in b.pieces[c][p] => Piece(pos, s) = p
  BY <1>1, <1>2, MenRead DEF Piece
<1>4. \A s : On(pos, s) <=> s \in b.allPieces
  BY <1>2 DEF On
<1>5. m.from \in b.allPieces /\ Piece(pos, m.from) = m.source /\ Owns(pos, us, m.from)
  BY <1>1, <1>2, <1>3, FriendIs
<1>6. PieceMoves(pos, m.from) \subseteq PseudoLegal(pos)
  BY <1>2, <1>5 DEF PseudoLegal
<1>7. m = [from |-> m.from, to |-> m.to, source |-> m.source, attacked |-> m.attacked, type |-> m.type]
  BY Zenon DEF Makes
<1>8. CASE is_ep(m)
  <2>1. m.source = PAWN /\ m.attacked = PAWN /\ m.to = b.epIndex /\ b.epIndex # 0 /\ m.type = TYPE_EP
    BY <1>1, <1>8 DEF OrdinaryFits, is_ep
  <2>2. m.from \in PAWN_ATTACKS[them][m.to]
    BY <1>8 DEF Makes
  <2>3. m.to \in PAWN_ATTACKS[us][m.from]
    BY <1>1, <2>2, ReachBothWays
  <2>4. m.to \in Reached(us, PAWN, m.from, {})
    BY <1>1, <2>3, StepsReach, AimsAre
  <2>5. m = create_ep(m.from, m.to)
    BY <1>7, <2>1 DEF create_ep
  <2>6. create_ep(m.from, m.to) \in PieceMoves(pos, m.from)
    BY <1>2, <1>5, <2>1, <2>4, PieceMovesHaveEp
  <2> QED BY <1>6, <2>5, <2>6
<1>9. CASE ~is_ep(m)
  <2>1. m.attacked = (IF On(pos, m.to) THEN Piece(pos, m.to) ELSE EMPTY)
    BY <1>1, <1>9, <1>3, FriendIs, <1>4 DEF OrdinaryFits, OrdinaryFacts, is_ep
  <2>2. m.type \in {TYPE_NORMAL} \cup PromotionTypes /\ (m.type \in PromotionTypes => m.source = PAWN)
    BY <1>1, <1>9 DEF OrdinaryFits, is_ep, is_promotion
  <2>3. CASE m.source # PAWN
    <3>1. Aims(m.source, us, m.from, m.to) /\ IN_BETWEEN[m.from][m.to] \cap b.allPieces = {}
      <4>1. CASE m.source \in NIGHT..QUEEN
        BY <4>1, <1>1, ReachIs DEF Makes
      <4>2. CASE m.source = KING
        BY <4>2, AimsAre, <1>1, StepsClear DEF Makes
      <4> QED BY <1>1, <2>3, <4>1, <4>2, PieceCodes
    <3>2. m.to \in Reached(us, m.source, m.from, b.allPieces)
      BY <1>1, <1>2, <3>1, ReachedIs
    <3>3. ~Owns(pos, us, m.to)
      BY <1>1, <1>2
    <3>4. m.to \in {u \in Reached(pos.side, m.source, m.from, DOMAIN pos.at) : ~Owns(pos, pos.side, u)}
      BY <1>2, <3>2, <3>3
    <3>5. m.type \in {TYPE_NORMAL}
      BY <2>2, <2>3
    <3>6. [from |-> m.from, to |-> m.to, source |-> m.source, attacked |-> m.attacked, type |-> m.type] \in PieceMoves(pos, m.from)
      BY <1>5, <2>1, <2>3, <3>4, <3>5, PieceMovesHave
    <3> QED BY <1>6, <1>7, <3>6
  <2>4. CASE m.source = PAWN
    <3>1. /\ is_promotion(m) <=> m.from \in PromotionRank(us)
          /\ m.to = m.from + 2 * Forward(us) => m.from \in HomeRank(us)
      BY <1>9, <2>4, Zenon DEF Marches
    <3>2. PICK c \in Colors : c = us
      BY <1>1
    <3>3. /\ m.from \in PromotionRank(us) <=> RankOf(m.from) + Up(us) = LastRank(us)
          /\ m.from \in HomeRank(us) <=> RankOf(m.from) = SecondRank(us)
          /\ m.from \in HomeRank(us) => RankOf(m.from) + 2 * Up(us) # LastRank(us) /\ m.from \notin PromotionRank(us)
      BY <1>1, PawnRanks
    <3>4. /\ \A u : u \in Reached(us, PAWN, m.from, {}) /\ Owns(pos, them, u) => u \in PawnTargets(pos, m.from)
          /\ LET one == Target(m.from, <<0, Up(us)>>, 1)
                 two == Target(m.from, <<0, Up(us)>>, 2)
             IN one # -1 /\ ~On(pos, one) => /\ one \in PawnTargets(pos, m.from)
                                             /\ RankOf(m.from) = SecondRank(us) /\ ~On(pos, two) => two \in PawnTargets(pos, m.from)
      BY <1>2, Zenon DEF PawnTargets
    <3>5. m.to \in PawnTargets(pos, m.from) /\ (m.from \in PromotionRank(us) <=> RankOf(m.to) = LastRank(us))
      <4>1. CASE m.attacked # EMPTY
        <5>1. m.to \in PAWN_ATTACKS[us][m.from]
          BY <1>9, <2>4, <4>1 DEF Makes
        <5>2. m.to \in Reached(us, PAWN, m.from, {})
          BY <1>1, <5>1, StepsReach, AimsAre
        <5>3. Owns(pos, them, m.to)
          BY <1>1, <1>9, <4>1, <1>2, FriendIs DEF OrdinaryFits, OrdinaryFacts, is_ep
        <5>4. RankOf(m.to) = RankOf(m.from) + Up(us)
          BY <1>1, <5>1, StepsAre, Coordinates DEF Up
        <5> QED BY <3>3, <3>4, <5>2, <5>3, <5>4
      <4>2. CASE m.attacked = EMPTY
        <5>1. m.to = m.from + Forward(us) \/ (m.to = m.from + 2 * Forward(us) /\ ~is_promotion(m))
          BY <2>4, <4>2 DEF Makes
        <5>2. ~On(pos, m.to)
          BY <1>1, <1>4, <4>2 DEF OrdinaryFits
        <5>3. CASE m.to = m.from + Forward(us)
          <6>1. m.to = m.from + 1 * Forward(us)
            BY <5>3 DEF Forward
          <6>2. RankOf(m.to) = RankOf(m.from) + 1 * Up(us) /\ Target(m.from, <<0, Up(us)>>, 1) = m.to
            BY <1>1, <6>1, PawnWays
          <6>3. 1 * Up(us) = Up(us)
            BY DEF Up
          <6>4. m.to # -1
            BY <1>1 DEF Squares
          <6> QED BY <3>3, <3>4, <5>2, <6>2, <6>3, <6>4
        <5>4. CASE m.to = m.from + 2 * Forward(us) /\ ~is_promotion(m)
          <6>1. /\ RankOf(m.to) = RankOf(m.from) + 2 * Up(us) /\ Target(m.from, <<0, Up(us)>>, 2) = m.to
                /\ m.from + Forward(us) \in Squares
            BY <1>1, <5>4, PawnWays
          <6>2. IN_BETWEEN[m.from][m.to] = {m.from + Forward(us)}
            BY <1>1, <5>4, PawnDoubleStep
          <6>3. m.from + Forward(us) \notin b.allPieces
            BY <1>1, <2>4, <5>4, <6>2 DEF OrdinaryFits, EpFits
          <6>4. Target(m.from, <<0, Up(us)>>, 1) = m.from + Forward(us)
            <7>1. PICK t \in Squares : t = m.from + Forward(us)
              BY <6>1
            <7>2. t = m.from + 1 * Forward(us)
              BY <7>1 DEF Forward
            <7> QED BY <1>1, <7>1, <7>2, PawnWays
          <6>5. RankOf(m.from) = SecondRank(us) /\ RankOf(m.to) # LastRank(us) /\ m.from \notin PromotionRank(us)
            BY <3>1, <3>3, <5>4, <6>1
          <6>6. m.from + Forward(us) # -1
            BY <6>1 DEF Squares
          <6> QED BY <1>4, <3>4, <5>2, <6>1, <6>3, <6>4, <6>5, <6>6
        <5> QED BY <5>1, <5>3, <5>4
      <4> QED BY <4>1, <4>2
    <3>6. m.type \in (IF m.source = PAWN /\ RankOf(m.to) = LastRank(pos.side) THEN PromotionTypes ELSE {TYPE_NORMAL})
      BY <1>2, <2>2, <2>4, <3>1, <3>5 DEF is_promotion
    <3>7. m.to \in (IF m.source = PAWN THEN PawnTargets(pos, m.from)
                    ELSE {u \in Reached(pos.side, m.source, m.from, DOMAIN pos.at) : ~Owns(pos, pos.side, u)})
      BY <2>4, <3>5
    <3>8. [from |-> m.from, to |-> m.to, source |-> m.source, attacked |-> m.attacked, type |-> m.type] \in PieceMoves(pos, m.from)
      BY <1>5, <2>1, <3>6, <3>7, PieceMovesHave
    <3> QED BY <1>6, <1>7, <3>8
  <2> QED BY <2>3, <2>4
<1> QED BY <1>8, <1>9

\* The kings and the rooks of the rights stand on the ranks that they castle along.
HomeFits(b) ==
  \A r \in b.castlingRights :
    /\ RankOf(b.castlingConfig.king[OwnerOf(r)]) = RankOf(KING_TO[r])
    /\ RankOf(b.castlingConfig.rook[r]) = RankOf(ROOK_TO[r])
    /\ IF r \in {8, 2} THEN b.castlingConfig.rook[r] <= b.castlingConfig.king[OwnerOf(r)]
                        ELSE b.castlingConfig.king[OwnerOf(r)] <= b.castlingConfig.rook[r]

\* Every castling of the generator is one of the laws.
LEMMA CastlingPseudoLegal ==
  ASSUME NEW b, Sound(b), KingSafe(b), ChecksFit(b), HomeFits(b), NEW m, CastlingFacts(b, m), Makes(b, m), is_castling(m),
         NEW pos, pos = PositionOf(b)
  PROVE  m \in PseudoLegal(pos)
<1> DEFINE us == b.colorToMove
           them == Opponent(b.colorToMove)
           cfg == b.castlingConfig
<1>1. /\ Laid(b) /\ PlacesTyped(b) /\ WhoIsWhere(b) /\ us \in Colors /\ them \in Colors /\ them # us /\ Opponent(them) = us
      /\ b.pieces \in Men /\ b.allPieces \subseteq Squares
      /\ b.pieces[us][KING] = {b.kingIndex[us]} /\ b.kingIndex[us] \in Squares
      /\ b.castlingRights \subseteq Rights /\ RightsSound(b)
  BY SoundSays, SoundLaid DEF Sound
<1>2. /\ MenOn(pos.at, b, b.allPieces) /\ pos.side = us /\ DOMAIN pos.at = b.allPieces
      /\ pos.rights = b.castlingRights /\ pos.home = cfg
  BY <1>1, PositionIs DEF PositionOf, MenOn
<1>3. PICK r \in b.castlingRights : OwnerOf(r) = us /\ m.to = KING_TO[r]
  BY DEF CastlingFacts
<1>4. r \in Rights /\ KING_TO[r] \in Squares /\ ROOK_TO[r] \in Squares /\ RightOfTarget(m.to) = r
  BY <1>1, <1>3, TargetsDiffer
<1>5. cfg.king[us] = m.from /\ m.from = b.kingIndex[us]
  BY <1>1, <1>3 DEF RightsSound, CastlingFacts
<1>51. b.pieces[us][KING] = {m.from}
  BY DEF CastlingFacts
<1> DEFINE rook == cfg.rook[r]
           others == b.allPieces \ {m.from, rook}
<1>6. rook \in Squares /\ m.from \in Squares
  BY <1>1, <1>3, <1>5, FriendIs, PieceCodes DEF RightsSound
<1>7. /\ b.checkingPieces = {}
      /\ others \cap KingWay(cfg, r) = {} /\ others \cap RookWay(cfg, r) = {}
      /\ \A s \in KingWay(cfg, r) : ~is_in_check_including_king(s, us, b.pieces[them], others, TRUE)
  <2>1. isValidCastlingMove(b, m.from, m.to)
    BY DEF Makes
  <2>2. (IF m.from \in b.pieces[WHITE][KING] THEN WHITE ELSE BLACK) = us
    <3>1. b.pieces[us][KING] = {m.from} /\ m.from \notin b.pieces[them][KING]
      <4>1. b.pieces[us][KING] = {m.from}
        BY <1>51
      <4>2. KING \in PieceTypes
        BY TypesDiffer
      <4>3. PlacesTyped(b) /\ WhoIsWhere(b) /\ us \in Colors /\ them \in Colors /\ them # us
        BY <1>1
      <4>4. m.from \in b.pieces[us][KING]
        BY <4>1
      <4>5. \A d \in Colors, q \in PieceTypes : m.from \in b.pieces[d][q] => d = us
        BY <4>2, <4>3, <4>4, FriendIs
      <4> QED BY <4>1, <4>2, <4>3, <4>5
    <3>2. (us = WHITE /\ them = BLACK) \/ (us = BLACK /\ them = WHITE)
      BY <1>1 DEF Colors, WHITE, BLACK
    <3> QED BY <3>1, <3>2
  <2>3. b.allPieces \ {b.castlingConfig.king[OwnerOf(RightOfTarget(m.to))], b.castlingConfig.rook[RightOfTarget(m.to)]} = others
    BY <1>3, <1>4, <1>5
  <2> HIDE DEF others
  <2>4. /\ b.checkingPieces = {}
        /\ others \cap KingWay(b.castlingConfig, RightOfTarget(m.to)) = {}
        /\ others \cap RookWay(b.castlingConfig, RightOfTarget(m.to)) = {}
        /\ \A s \in KingWay(b.castlingConfig, RightOfTarget(m.to)) :
             ~is_in_check_including_king(s, us, b.pieces[Opponent(us)], others, TRUE)
    BY <2>1, <2>2, <2>3, Zenon DEF isValidCastlingMove
  <2> QED BY <1>4, <2>4
<1>8. /\ KingWay(cfg, r) = IN_BETWEEN[m.from][m.to] \cup {m.to}
      /\ RookWay(cfg, r) = IN_BETWEEN[rook][ROOK_TO[r]] \cup {ROOK_TO[r]}
  BY <1>3, <1>5 DEF KingWay, RookWay
<1>9. /\ Span(m.from, m.to) = {m.from, m.to} \cup IN_BETWEEN[m.from][m.to]
      /\ Span(rook, ROOK_TO[r]) = {rook, ROOK_TO[r]} \cup IN_BETWEEN[rook][ROOK_TO[r]]
  <2>1. RankOf(m.from) = RankOf(m.to) /\ RankOf(rook) = RankOf(ROOK_TO[r])
    BY <1>3, <1>5 DEF HomeFits
  <2> HIDE DEF rook
  <2> QED BY <1>3, <1>4, <1>6, <2>1, SpanIs
<1>10. (Span(m.from, m.to) \cup Span(rook, ROOK_TO[r])) \cap others = {}
  <2> HIDE DEF rook
  <2> QED BY <1>7, <1>8, <1>9
<1> DEFINE S == b.allPieces \ {m.from}
           lifted == [s \in DOMAIN pos.at \ {m.from} |-> pos.at[s]]
<1>11. MenOn(lifted, b, S)
  BY <1>2 DEF MenOn
<1>12. \A s \in Span(m.from, m.to) : Attacking(lifted, them, s) = {}
  <2> SUFFICES ASSUME NEW s \in Span(m.from, m.to), NEW a \in Attacking(lifted, them, s) PROVE FALSE
    OBVIOUS
  <2>0. s \in Squares
    BY <1>1, <1>4, <1>3, <1>5 DEF Span, Squares
  <2> HIDE DEF lifted, others, S, rook
  <2>1. a \in S /\ Hits(b.pieces, them, PieceTypes, a, s, S)
    BY <1>1, <1>11, <2>0, AttackingIs
  <2>2. PICK p \in PieceTypes : a \in b.pieces[them][p] /\ Aims(p, them, a, s) /\ IN_BETWEEN[a][s] \cap S = {}
    BY <2>1 DEF Hits
  <2>3. a \in Squares
    BY <1>1, <2>2 DEF Men
  <2>4. CASE s = m.from
    <3>1. s \notin IN_BETWEEN[a][s]
      BY <2>0, <2>3, BetweenLines
    <3>2. IN_BETWEEN[a][s] \cap b.allPieces = {}
      BY <2>2, <2>4, <3>1 DEF S
    <3>3. Hits(b.pieces, them, PieceTypes, a, b.kingIndex[us], b.allPieces)
      BY <1>5, <2>2, <2>4, <3>2 DEF Hits
    <3>4. a \in b.checkingPieces
      BY <3>3, HitterIs
    <3> QED BY <1>7, <3>4
  <2>5. CASE s # m.from
    <3>1. s \in KingWay(cfg, r)
      BY <1>8, <1>9, <2>5
    <3>2. ~is_in_check_including_king(s, us, b.pieces[them], others, TRUE)
      BY <1>7, <3>1
    <3>3. IN_BETWEEN[a][s] \cap others = {}
      BY <2>2 DEF S, others
    <3>4. Hits(b.pieces, them, PieceTypes, a, s, others)
      BY <2>2, <3>3 DEF Hits
    <3>5. is_in_check_including_king(s, us, b.pieces[them], others, TRUE)
      <4>1. us = Opponent(them) /\ them \in Colors /\ b.pieces \in Men
        BY <1>1
      <4> HIDE DEF us, them
      <4> QED BY ONLY <2>0, <3>4, <4>1, CheckIs
    <3> QED BY <3>2, <3>5
  <2> QED BY <2>4, <2>5
<1>13. KingTo(r) = m.to /\ RookTo(r) = ROOK_TO[r] /\ Owner(r) = us /\ r \in {8, 4, 2, 1}
  BY <1>3, <1>4, CornersAgree DEF Rights
<1>14. MayCastle(pos, r)
  <2>1. pos.home.king[Owner(r)] = m.from /\ pos.home.rook[r] = rook /\ r \in pos.rights /\ Owner(r) = pos.side
        /\ DOMAIN pos.at = b.allPieces /\ Opponent(pos.side) = them
    BY <1>2, <1>3, <1>5, <1>13
  <2>2. \A s \in Span(m.from, m.to) : Attacking([q \in DOMAIN pos.at \ {m.from} |-> pos.at[q]], Opponent(pos.side), s) = {}
    BY <1>12, <2>1
  <2>3. (Span(m.from, KingTo(r)) \cup Span(rook, RookTo(r))) \cap (DOMAIN pos.at \ {m.from, rook}) = {}
    BY <1>10, <1>13, <2>1
  <2> HIDE DEF rook, us, them, others, S, lifted
  <2> QED BY <1>13, <2>1, <2>2, <2>3, Zenon DEF MayCastle
<1>15. m = create_castling(m.from, m.to)
  BY DEF Makes, CastlingFacts, is_castling, create_castling
<1>16. pos.home.king[pos.side] = m.from
  BY <1>2, <1>5
<1> HIDE DEF us, them, cfg, rook, others, S, lifted
<1>17. m \in Castlings(pos)
  BY <1>13, <1>14, <1>15, <1>16 DEF Castlings
<1> QED BY <1>17 DEF PseudoLegal

\* After a move that keeps the king safe the laws see no check.
LEMMA NoCheckAfter ==
  ASSUME NEW b, Sound(b), NEW x, Sound(x), KingSafe(x), x.colorToMove = Opponent(b.colorToMove),
         NEW at, at = PositionOf(x).at, NEW pos, pos = PositionOf(b)
  PROVE  Checkers([pos EXCEPT !.at = at], pos.side) = {}
<1> DEFINE us == b.colorToMove
           them == Opponent(us)
           new == [pos EXCEPT !.at = at]
<1>1. us \in Colors /\ them \in Colors /\ Opponent(them) = us /\ Laid(x) /\ Laid(b)
  BY SoundSays, SoundLaid
<1>2. new.at = at /\ pos.side = us
  BY DEF PositionOf
<1> HIDE DEF new
<1>3. KingSquare(new, us) = KingSquare(PositionOf(x), us)
  BY <1>2 DEF KingSquare
<1>4. Checkers(new, us) = Checkers(PositionOf(x), us)
  BY <1>2, <1>3 DEF Checkers
<1>5. \A s : s \notin Checkers(PositionOf(x), us)
  <2> SUFFICES ASSUME NEW s, s \in Checkers(PositionOf(x), us) PROVE FALSE
    OBVIOUS
  <2>1. Hits(x.pieces, Opponent(us), PieceTypes, s, x.kingIndex[us], x.allPieces)
    BY <1>1, CheckersAre
  <2> QED BY <1>1, <2>1 DEF KingSafe
<1> QED BY <1>2, <1>4, <1>5 DEF new

\* the board that a move makes
Made(b, m) == IF is_castling(m) THEN doCastling960(b, m) ELSE DoOrdinaryMove(b, m)

\* A move that the code plays leaves a sound board, the own king safe, and leads
\* where the laws say.
LEMMA PlaysSafely ==
  ASSUME NEW b, Sound(b), KeyTells(b), Guarded(b), b.pinnedPiecesDirty = FALSE,
         NEW m \in generateMoves(b) \cup generateAttacks(b), isLegal(b, m), NEW x, x = Made(b, m)
  PROVE  /\ MoveOK(b, m) /\ Makes(b, m) /\ m.attacked # KING /\ Leads(b, m, x)
         /\ is_castling(m) => CastlingFacts(b, m)
         /\ ~is_castling(m) => OrdinaryFacts(b, m) /\ OrdinaryFits(b, m)
         /\ Sound(x) /\ KingSafe(x) /\ ChecksFit(x) /\ x.colorToMove = Opponent(b.colorToMove)
         /\ PositionOf(x) = Played(PositionOf(b), m) /\ After(PositionOf(b), m) = PositionOf(x).at
<1>1. KingSafe(b)
  BY DEF Guarded
<1>2. MoveOK(b, m) /\ Makes(b, m) /\ m.attacked # KING
  BY <1>1, GeneratorFits, GeneratorMakes, NoKingTaken
<1>3. (is_castling(m) => CastlingFacts(b, m)) /\ (~is_castling(m) => OrdinaryFacts(b, m) /\ OrdinaryFits(b, m))
  BY <1>2, FactsOfMove DEF MoveOK
<1>4. CASE is_castling(m)
  <2>1. CastlingFacts(b, m) /\ x = doCastling960(b, m)
    BY <1>3, <1>4 DEF Made
  <2>2. Sound(x) /\ Guarded(x)
    BY <1>2, <1>4, <2>1, CastlingSound, CastlingGuards
  <2>3. PositionOf(x) = Played(PositionOf(b), m) /\ After(PositionOf(b), m) = PositionOf(x).at
    BY <1>4, <2>1, <2>2, CastlingPlayed, CastlingPlaced
  <2>4. x.colorToMove = Opponent(b.colorToMove)
    <3>1. CastlingResult(b, m, x)
      BY <2>1, CastlingSays
    <3> QED BY ONLY <3>1, Zenon DEF CastlingResult
  <2> QED BY <1>2, <1>3, <1>4, <2>1, <2>2, <2>3, <2>4 DEF Guarded, Leads
<1>5. CASE ~is_castling(m)
  <2>1. OrdinaryFacts(b, m) /\ OrdinaryFits(b, m) /\ x = DoOrdinaryMove(b, m)
    BY <1>3, <1>5 DEF Made
  <2>2. Sound(x) /\ KingSafe(x) /\ ChecksFit(x)
    BY <1>2, <1>5, <2>1, OrdinarySound, OrdinarySafe, OrdinaryChecksFit
  <2>3. PositionOf(x) = Played(PositionOf(b), m) /\ After(PositionOf(b), m) = PositionOf(x).at
    BY <1>2, <1>5, <2>1, <2>2, OrdinaryPlayed, OrdinaryPlaced
  <2>4. x.colorToMove = Opponent(b.colorToMove)
    BY <2>1, OrdinaryNow
  <2> QED BY <1>2, <1>3, <1>5, <2>1, <2>2, <2>3, <2>4 DEF Leads
<1> QED BY <1>4, <1>5

\* A move that the code plays is legal, and leads where the laws say.
LEMMA PlaysLawfully ==
  ASSUME NEW b, Sound(b), KeyTells(b), Guarded(b), b.pinnedPiecesDirty = FALSE, HomeFits(b),
         NEW m \in generateMoves(b) \cup generateAttacks(b), isLegal(b, m)
  PROVE  m \in Legal(PositionOf(b)) /\ PositionOf(Made(b, m)) = Played(PositionOf(b), m) /\ m.attacked # KING
<1> DEFINE pos == PositionOf(b)
<1>1. PICK x : x = Made(b, m)
  OBVIOUS
<1>2. /\ MoveOK(b, m) /\ Makes(b, m) /\ m.attacked # KING
      /\ is_castling(m) => CastlingFacts(b, m)
      /\ ~is_castling(m) => OrdinaryFacts(b, m)
      /\ Sound(x) /\ KingSafe(x) /\ x.colorToMove = Opponent(b.colorToMove)
      /\ PositionOf(x) = Played(pos, m) /\ After(pos, m) = PositionOf(x).at
  BY <1>1, PlaysSafely
<1>3. m \in PseudoLegal(pos)
  <2>1. CASE is_castling(m)
    BY <1>2, <2>1, CastlingPseudoLegal DEF Guarded
  <2>2. CASE ~is_castling(m)
    <3>1. Marches(b, m)
      BY GeneratorMarches
    <3> QED BY <1>2, <2>2, <3>1, OrdinaryPseudoLegal
  <2> QED BY <2>1, <2>2
<1>4. Checkers([pos EXCEPT !.at = After(pos, m)], pos.side) = {}
  BY <1>2, NoCheckAfter
<1> QED BY <1>1, <1>2, <1>3, <1>4, Zenon DEF Legal

\* The laws let the side pass that the board does not find in check.
LEMMA PassesLegally ==
  ASSUME NEW b, Sound(b), KingSafe(b), ChecksFit(b), b.checkingPieces = {}, NEW pos, pos = PositionOf(b)
  PROVE  Checkers(pos, pos.side) = {}
<1>1. b.colorToMove \in Colors /\ Laid(b) /\ pos.side = b.colorToMove
  BY SoundSays, SoundLaid, PositionIs
<1> SUFFICES ASSUME NEW s, s \in Checkers(pos, pos.side) PROVE FALSE
  OBVIOUS
<1>2. Hits(b.pieces, Opponent(b.colorToMove), PieceTypes, s, b.kingIndex[b.colorToMove], b.allPieces)
  BY <1>1, CheckersAre
<1>3. s \in b.checkingPieces
  BY <1>2, HitterIs
<1> QED BY <1>3

-----------------------------------------------------------------------------
(***************************************************************************)
(* Castling from home, all the way down.                                   *)
(***************************************************************************)

\* Home squares stay home: rights are only lost.
LEMMA HomeExceptPins ==
  ASSUME NEW b, HomeFits(b), NEW x, ExceptPins(x, b)
  PROVE  HomeFits(x)
BY DEF HomeFits, ExceptPins

LEMMA LeadsHome ==
  ASSUME NEW b, Sound(b), b.pinnedPiecesDirty = FALSE, HomeFits(b), NEW m, NEW x, Leads(b, m, x)
  PROVE  HomeFits(x)
<1>1. CASE m = NO_MOVE /\ x = doNullMove(b)
  <2>1. NullResult(b, x)
    BY <1>1, SoundSays, NullFields
  <2>2. x.castlingRights = b.castlingRights /\ x.castlingConfig = b.castlingConfig
    BY ONLY <2>1, Zenon DEF NullResult
  <2> QED BY <2>2 DEF HomeFits
<1>2. CASE ~is_castling(m) /\ OrdinaryFacts(b, m) /\ x = DoOrdinaryMove(b, m)
  <2>1. OrdinaryResult(b, m, x)
    BY <1>2, OrdinarySays
  <2>2. x.castlingRights = RightsAfter(b, m) /\ x.castlingConfig = b.castlingConfig
    BY ONLY <2>1, Zenon DEF OrdinaryResult
  <2>3. RightsAfter(b, m) \subseteq b.castlingRights
    BY SoundSays, RightsAfterAre DEF Sound
  <2> QED BY <2>2, <2>3 DEF HomeFits
<1>3. CASE is_castling(m) /\ CastlingFacts(b, m) /\ x = doCastling960(b, m)
  <2>1. CastlingResult(b, m, x)
    BY <1>3, CastlingSays
  <2>2. /\ x.castlingRights = getKingMovedCastlingRights(b.castlingRights, b.colorToMove)
        /\ x.castlingConfig = b.castlingConfig
    BY ONLY <2>1, Zenon DEF CastlingResult
  <2>3. getKingMovedCastlingRights(b.castlingRights, b.colorToMove) \subseteq b.castlingRights
    BY DEF getKingMovedCastlingRights
  <2> QED BY <2>2, <2>3 DEF HomeFits
<1> QED BY <1>1, <1>2, <1>3 DEF Leads

\* The side that has a castling right has its king on its first rank.  The code
\* does not ask for it: a FEN may give rights to a king elsewhere, and the code
\* then castles from there, which no law lets it do.
KingsAtHome == \A fen \in Fens : \A r \in fen.castlingRights : RankOf(Least(fen.pieces[OwnerOf(r)][KING])) = RankOf(CORNER[r])

\* A board that is set up castles along the first ranks.
LEMMA NewHome ==
  ASSUME KingsAtHome, NEW fen \in Fens, NEW x, x = getNewCB(fen)
  PROVE  HomeFits(x)
<1>1. WellFormed(fen)
  BY FensAssumption
<1>2. NewResult(fen, x)
  BY <1>1, NewFields
<1>3. /\ x.castlingRights = fen.castlingRights
      /\ x.castlingConfig = detectCastlingConfig(NewIndexes(fen), NewKings(fen))
  BY ONLY <1>2, Zenon DEF NewResult
<1>4. fen.castlingRights \subseteq Rights
  BY <1>1, Zenon DEF WellFormed
<1>5. NewKings(fen) \in [Colors -> Squares]
  <2>1. x.kingIndex \in [Colors -> Squares]
    BY <1>1, NewPlaces
  <2>2. x.kingIndex = NewKings(fen)
    BY ONLY <1>2, Zenon DEF NewResult
  <2> QED BY <2>1, <2>2
<1>6. ASSUME NEW r \in x.castlingRights
      PROVE  /\ RankOf(x.castlingConfig.king[OwnerOf(r)]) = RankOf(KING_TO[r])
             /\ RankOf(x.castlingConfig.rook[r]) = RankOf(ROOK_TO[r])
             /\ IF r \in {8, 2} THEN x.castlingConfig.rook[r] <= x.castlingConfig.king[OwnerOf(r)]
                                 ELSE x.castlingConfig.king[OwnerOf(r)] <= x.castlingConfig.rook[r]
  <2>1. r \in Rights /\ OwnerOf(r) \in Colors /\ RankOf(Least(fen.pieces[OwnerOf(r)][KING])) = RankOf(CORNER[r])
    BY <1>3, <1>4, <1>6 DEF KingsAtHome, OwnerOf, Colors, WHITE, BLACK
  <2>2. RankOf(NewKings(fen)[OwnerOf(r)]) = RankOf(CORNER[r])
    BY <2>1 DEF NewKings
  <2>3. x.castlingConfig.king = NewKings(fen)
    BY <1>3 DEF detectCastlingConfig
  <2>4. /\ RankOf(x.castlingConfig.rook[r]) = RankOf(CORNER[r])
        /\ IF r \in {8, 2} THEN x.castlingConfig.rook[r] <= NewKings(fen)[OwnerOf(r)]
                            ELSE NewKings(fen)[OwnerOf(r)] <= x.castlingConfig.rook[r]
    BY <1>3, <1>5, <2>1, <2>2, DetectedHome
  <2>5. RankOf(CORNER[r]) = RankOf(KING_TO[r]) /\ RankOf(CORNER[r]) = RankOf(ROOK_TO[r])
    BY <2>1 DEF CORNER, KING_TO, ROOK_TO, Rights, RankOf
  <2> QED BY <2>2, <2>3, <2>4, <2>5
<1> QED BY <1>6, Zenon DEF HomeFits

\* A step of the session plays a legal move or passes, from the board with its
\* pins renewed, takes the last board back, or leaves all but the pins as it is.
DownBy(b, x) == /\ \E m \in generateMoves(b) \cup generateAttacks(b) : isLegal(b, m) /\ m # NO_MOVE /\ Leads(b, m, x)
                 /\ past' = Append(past, b)

Passing(b, x) == b.checkingPieces = {} /\ x = doNullMove(b) /\ past' = Append(past, b)

ComingBack(x) == Ply > 0 /\ x = past[Ply] /\ Ply' = Ply - 1 /\ \A i \in 1..(Ply - 1) : past'[i] = past[i]

Staying(b, x) == (x = b \/ x = cb) /\ past' = past /\ Ply' = Ply

\* These are all the steps.
LEMMA SessionStepIs ==
  ASSUME GuardInv, [Next]_vars, NEW b, b = RefreshPins(cb), NEW x, x = cb', BoardInv'
  PROVE  DownBy(b, x) \/ Passing(b, x) \/ ComingBack(x) \/ Staying(b, x)
<1>0. BoardInv /\ KingsStand
  BY GuardStands, Zenon DEF GuardInv, FitInv
<1>1. Ply \in Nat /\ IsSequence(past) /\ Len(past) = Ply /\ Len(past') = Ply'
  BY <1>0, KeyIsMade DEF BoardInv
<1>2. CASE MakeMove
  <2>1. PICK m \in LegalMoves(cb) : Deepen(doMove(cb, m))
    BY <1>2 DEF MakeMove
  <2>2. MoveLeads(b, m, cb')
    BY <1>0, <2>1, MadeMoveLeads
  <2>3. m \in generateMoves(b) \cup generateAttacks(b) /\ isLegal(b, m)
    BY <2>1 DEF LegalMoves
  <2>4. Leads(b, m, x) /\ m # NO_MOVE
    BY <2>2 DEF MoveLeads
  <2>5. past' = Append(past, b)
    BY <2>1 DEF Deepen
  <2> QED BY <2>3, <2>4, <2>5 DEF DownBy
<1>3. CASE MakeNull
  <2>1. cb.checkingPieces = {} /\ cb' = doNullMove(cb) /\ past' = Append(past, b)
    BY <1>3 DEF MakeNull, Deepen
  <2>2. /\ RefreshPins(b) = b /\ b.zobristKey = cb.zobristKey /\ b.epIndex = cb.epIndex
        /\ b.checkingPieces = cb.checkingPieces
    BY <1>0, Refreshed
  <2>3. doNullMove(cb) = doNullMove(b)
    BY <2>2, Zenon DEF doNullMove
  <2> QED BY <2>1, <2>2, <2>3 DEF Passing
<1>4. CASE UnmakeMove \/ UnmakeNull
  <2>1. Ply > 0 /\ cb' = past[Ply] /\ past' = SubSeq(past, 1, Ply - 1)
    BY <1>0, <1>4, UnmakeGives
  <2> DEFINE S == {past[i] : i \in DOMAIN past}
  <2>2. past \in Seq(S) /\ Len(past) = Ply /\ Ply - 1 \in Nat /\ Ply - 1 <= Len(past)
    BY <1>1, <2>1 DEF IsSequence
  <2> HIDE DEF S
  <2>3. Len(past') = Ply - 1 /\ \A i \in 1..(Ply - 1) : past'[i] = past[i]
    BY <2>1, <2>2
  <2> QED BY <1>1, <2>1, <2>3 DEF ComingBack
<1>5. CASE Refresh
  BY <1>0, <1>5, RefreshStepKeeps DEF Refresh, Staying
<1>6. CASE UNCHANGED vars
  BY <1>0, <1>6, StutterKeeps DEF vars, Staying
<1> QED BY <1>2, <1>3, <1>4, <1>5, <1>6 DEF Next

\* Guarded boards, whose rights are those of kings and rooks at home.
HomeInv == GuardInv /\ HomeFits(cb) /\ \A i \in 1..Ply : HomeFits(past[i])

\* It holds at first,
LEMMA InitHome ==
  ASSUME KeysHaveSlots, KingsAtHome, Init, MaterialHolds
  PROVE  HomeInv
<1>1. GuardInv
  BY InitGuards
<1>2. PICK fen \in Fens : cb = getNewCB(fen)
  BY DEF Init
<1>3. WellFormed(fen)
  BY FensAssumption
<1>4. cb.history = <<>>
  BY <1>2, <1>3, NewBoardSound
<1>5. Ply = 0
  BY <1>4 DEF Ply
<1>6. HomeFits(cb)
  BY <1>2, NewHome
<1>7. \A i \in 1..Ply : HomeFits(past[i])
  BY <1>5
<1> QED BY <1>1, <1>6, <1>7, Zenon DEF HomeInv

\* and every step keeps it.
LEMMA HomeStep ==
  ASSUME KeysHaveSlots, HomeInv, MaterialHolds, MaterialHolds', [Next]_vars
  PROVE  HomeInv'
<1>0. GuardInv /\ BoardInv /\ HomeFits(cb) /\ (\A i \in 1..Ply : HomeFits(past[i]))
  BY Zenon DEF HomeInv, GuardInv, FitInv
<1>1. GuardInv' /\ BoardInv'
  <2>1. GuardInv'
    BY <1>0, GuardStep
  <2> QED BY <2>1, Zenon DEF GuardInv, FitInv
<1>2. PICK b : b = RefreshPins(cb)
  OBVIOUS
<1>3. Ply \in Nat /\ IsSequence(past) /\ Len(past) = Ply /\ Len(past') = Ply'
  BY <1>0, <1>1, KeyIsMade DEF BoardInv
<1>4. Sound(b) /\ b.pinnedPiecesDirty = FALSE /\ ExceptPins(b, cb)
  BY <1>0, <1>2, Refreshed
<1>5. HomeFits(b)
  BY <1>0, <1>4, HomeExceptPins
<1>6. PICK x : x = cb'
  OBVIOUS
<1>7. ASSUME HomeFits(x), \A i \in 1..Ply' : HomeFits(past'[i])
      PROVE  HomeInv'
  BY <1>6, <1>7, <1>1 DEF HomeFits, HomeInv
<1>8. ASSUME past' = Append(past, b)
      PROVE  \A i \in 1..Ply' : HomeFits(past'[i])
  <2>1. Ply' = Ply + 1 /\ past'[Ply + 1] = b /\ \A i \in 1..Ply : past'[i] = past[i]
    BY <1>3, <1>8, AppendedBack
  <2> TAKE i \in 1..Ply'
  <2>2. i \in 1..Ply \/ i = Ply + 1
    BY <1>3, <2>1
  <2>3. CASE i \in 1..Ply
    BY <1>0, <2>1, <2>3
  <2>4. CASE i = Ply + 1
    BY <1>5, <2>1, <2>4
  <2> QED BY <2>2, <2>3, <2>4
<1>9. DownBy(b, x) \/ Passing(b, x) \/ ComingBack(x) \/ Staying(b, x)
  BY <1>0, <1>1, <1>2, <1>6, SessionStepIs
<1>10. CASE DownBy(b, x)
  <2>1. PICK m \in generateMoves(b) \cup generateAttacks(b) : Leads(b, m, x)
    BY <1>10 DEF DownBy
  <2>2. HomeFits(x)
    BY <1>4, <1>5, <2>1, LeadsHome
  <2> QED BY <1>7, <1>8, <1>10, <2>2 DEF DownBy
<1>11. CASE Passing(b, x)
  <2>1. NullResult(b, x)
    BY <1>4, <1>11, SoundSays, NullFields DEF Passing
  <2>2. x.castlingRights = b.castlingRights /\ x.castlingConfig = b.castlingConfig
    BY ONLY <2>1, Zenon DEF NullResult
  <2>3. HomeFits(x)
    BY <1>5, <2>2 DEF HomeFits
  <2> QED BY <1>7, <1>8, <1>11, <2>3 DEF Passing
<1>12. CASE ComingBack(x)
  <2>1. HomeFits(x)
    BY <1>0, <1>3, <1>12 DEF ComingBack
  <2>2. \A i \in 1..Ply' : HomeFits(past'[i])
    <3> TAKE i \in 1..Ply'
    <3>1. i \in 1..Ply /\ past'[i] = past[i]
      BY <1>3, <1>12 DEF ComingBack
    <3> QED BY <1>0, <3>1
  <2> QED BY <1>7, <2>1, <2>2
<1>13. CASE Staying(b, x)
  BY <1>0, <1>5, <1>13, <1>7 DEF Staying
<1> QED BY <1>9, <1>10, <1>11, <1>12, <1>13

-----------------------------------------------------------------------------
(***************************************************************************)
(* The board implements the game by the laws of chess.                     *)
(***************************************************************************)

\* The laws that the game is played by are those that the positions of the board
\* are judged by.
LEMMA SameLaws ==
  ASSUME NEW p
  PROVE  /\ \A c : Chess!Checkers(p, c) = Checkers(p, c)
         /\ \A m : Chess!Played(p, m) = Played(p, m)
         /\ Chess!Legal(p) = Legal(p) /\ Chess!NullMoved(p) = NullMoved(p)
<1> USE DEF Opponent, FileOf, RankOf, WHITE, BLACK, EMPTY, PAWN, NIGHT, BISHOP, ROOK, QUEEN, KING, PieceTypes,
            Squares, TYPE_NORMAL, TYPE_EP, TYPE_CASTLING, PromotionTypes, create_ep, create_castling,
            is_promotion, is_ep, is_castling, On, Piece, Owns, KingSquare, Target, Straight, Diagonal, Jumps,
            Up, Steps, Slides, Reached, Attacking, Checkers, LastRank, SecondRank, PawnTargets, PieceMoves,
            KingTo, RookTo, Owner, Span, After, MayCastle, Castlings, PseudoLegal, Legal, RightsLeft, EpSquare,
            Played, NullMoved, Chess!Opponent, Chess!FileOf, Chess!RankOf, Chess!WHITE, Chess!BLACK,
            Chess!EMPTY, Chess!PAWN, Chess!NIGHT, Chess!BISHOP, Chess!ROOK, Chess!QUEEN, Chess!KING,
            Chess!PieceTypes, Chess!Squares, Chess!TYPE_NORMAL, Chess!TYPE_EP, Chess!TYPE_CASTLING,
            Chess!PromotionTypes, Chess!create_ep, Chess!create_castling, Chess!is_promotion, Chess!is_ep,
            Chess!is_castling, Chess!On, Chess!Piece, Chess!Owns, Chess!KingSquare, Chess!Target,
            Chess!Straight, Chess!Diagonal, Chess!Jumps, Chess!Up, Chess!Steps, Chess!Slides, Chess!Reached,
            Chess!Attacking, Chess!Checkers, Chess!LastRank, Chess!SecondRank, Chess!PawnTargets,
            Chess!PieceMoves, Chess!KingTo, Chess!RookTo, Chess!Owner, Chess!Span, Chess!After, Chess!MayCastle,
            Chess!Castlings, Chess!PseudoLegal, Chess!Legal, Chess!RightsLeft, Chess!EpSquare, Chess!Played,
            Chess!NullMoved
<1>1. ASSUME NEW c PROVE Chess!Checkers(p, c) = Checkers(p, c)
  BY Zenon
<1>2. ASSUME NEW m PROVE Chess!Played(p, m) = Played(p, m)
  BY Zenon
<1>3. Chess!Legal(p) = Legal(p)
  BY Zenon
<1>4. Chess!NullMoved(p) = NullMoved(p)
  BY Zenon
<1> HIDE DEF Opponent, FileOf, RankOf, WHITE, BLACK, EMPTY, PAWN, NIGHT, BISHOP, ROOK, QUEEN, KING, PieceTypes,
            Squares, TYPE_NORMAL, TYPE_EP, TYPE_CASTLING, PromotionTypes, create_ep, create_castling,
            is_promotion, is_ep, is_castling, On, Piece, Owns, KingSquare, Target, Straight, Diagonal, Jumps,
            Up, Steps, Slides, Reached, Attacking, Checkers, LastRank, SecondRank, PawnTargets, PieceMoves,
            KingTo, RookTo, Owner, Span, After, MayCastle, Castlings, PseudoLegal, Legal, RightsLeft, EpSquare,
            Played, NullMoved, Chess!Opponent, Chess!FileOf, Chess!RankOf, Chess!WHITE, Chess!BLACK,
            Chess!EMPTY, Chess!PAWN, Chess!NIGHT, Chess!BISHOP, Chess!ROOK, Chess!QUEEN, Chess!KING,
            Chess!PieceTypes, Chess!Squares, Chess!TYPE_NORMAL, Chess!TYPE_EP, Chess!TYPE_CASTLING,
            Chess!PromotionTypes, Chess!create_ep, Chess!create_castling, Chess!is_promotion, Chess!is_ep,
            Chess!is_castling, Chess!On, Chess!Piece, Chess!Owns, Chess!KingSquare, Chess!Target,
            Chess!Straight, Chess!Diagonal, Chess!Jumps, Chess!Up, Chess!Steps, Chess!Slides, Chess!Reached,
            Chess!Attacking, Chess!Checkers, Chess!LastRank, Chess!SecondRank, Chess!PawnTargets,
            Chess!PieceMoves, Chess!KingTo, Chess!RookTo, Chess!Owner, Chess!Span, Chess!After, Chess!MayCastle,
            Chess!Castlings, Chess!PseudoLegal, Chess!Legal, Chess!RightsLeft, Chess!EpSquare, Chess!Played,
            Chess!NullMoved
<1> QED BY <1>1, <1>2, <1>3, <1>4, Zenon

\* The positions before, of the boards before.
PositionsOf(s) == [i \in 1..Len(s) |-> PositionOf(s[i])]

\* They grow by the position of the board that is left,
LEMMA PositionsGrow ==
  ASSUME NEW s, IsSequence(s), NEW b
  PROVE  PositionsOf(Append(s, b)) = Append(PositionsOf(s), PositionOf(b))
<1>1. PICK t : t = Append(s, b)
  OBVIOUS
<1>2. Len(s) \in Nat /\ Len(t) = Len(s) + 1 /\ t[Len(s) + 1] = b /\ \A i \in 1..Len(s) : t[i] = s[i]
  BY <1>1, AppendedBack
<1>3. PICK n, ps, pt, p : n = Len(s) /\ ps = PositionsOf(s) /\ pt = PositionsOf(t) /\ p = PositionOf(b)
  OBVIOUS
<1>4. ps = [i \in 1..n |-> PositionOf(s[i])] /\ pt = [i \in 1..(n + 1) |-> PositionOf(t[i])] /\ n \in Nat
  BY <1>2, <1>3 DEF PositionsOf
<1>5. \A i \in 1..n : pt[i] = ps[i]
  BY <1>2, <1>3, <1>4
<1>6. pt[n + 1] = p
  BY <1>2, <1>3, <1>4
<1> DEFINE S == {pt[i] : i \in 1..(n + 1)}
<1>7. pt = [i \in 1..(n + 1) |-> pt[i]] /\ ps = [i \in 1..n |-> ps[i]]
  BY <1>4
<1>8. (\A i \in 1..(n + 1) : pt[i] \in S) /\ (\A i \in 1..n : ps[i] \in S) /\ p \in S
  BY <1>4, <1>5, <1>6
<1> HIDE DEF S
<1>9. pt \in Seq(S) /\ ps \in Seq(S) /\ Len(pt) = n + 1 /\ Len(ps) = n
  BY <1>4, <1>7, <1>8
<1>10. PICK a : a = Append(ps, p)
  OBVIOUS
<1>11. a \in Seq(S) /\ Len(a) = n + 1 /\ a[n + 1] = p /\ \A i \in 1..n : a[i] = ps[i]
  BY <1>8, <1>9, <1>10
<1>12. \A i \in 1..Len(pt) : pt[i] = a[i]
  <2> TAKE i \in 1..Len(pt)
  <2>1. i \in 1..n \/ i = n + 1
    BY <1>4, <1>9
  <2> QED BY <1>5, <1>6, <1>11, <2>1
<1>13. pt = a
  BY <1>9, <1>11, <1>12, SeqEqual
<1> QED BY <1>1, <1>3, <1>10, <1>13

\* and shrink by the last.
LEMMA PositionsShrink ==
  ASSUME NEW s, NEW t, NEW n \in Nat, n > 0, Len(s) = n, Len(t) = n - 1, \A i \in 1..(n - 1) : t[i] = s[i]
  PROVE  /\ PositionsOf(s) # <<>> /\ Len(PositionsOf(s)) = n /\ PositionsOf(s)[n] = PositionOf(s[n])
         /\ PositionsOf(t) = SubSeq(PositionsOf(s), 1, n - 1)
<1>1. PICK ps, pt : ps = PositionsOf(s) /\ pt = PositionsOf(t)
  OBVIOUS
<1>2. ps = [i \in 1..n |-> PositionOf(s[i])] /\ pt = [i \in 1..(n - 1) |-> PositionOf(t[i])]
  BY <1>1 DEF PositionsOf
<1>3. \A i \in 1..(n - 1) : pt[i] = ps[i]
  BY <1>2
<1> DEFINE S == {ps[i] : i \in 1..n}
<1>4. ps = [i \in 1..n |-> ps[i]] /\ pt = [i \in 1..(n - 1) |-> pt[i]]
  BY <1>2
<1>5. (\A i \in 1..n : ps[i] \in S) /\ (\A i \in 1..(n - 1) : pt[i] \in S)
  BY <1>3
<1> HIDE DEF S
<1>6. n - 1 \in Nat
  OBVIOUS
<1>7. ps \in Seq(S) /\ pt \in Seq(S) /\ Len(ps) = n /\ Len(pt) = n - 1
  BY <1>4, <1>5, <1>6
<1>8. PICK u : u = SubSeq(ps, 1, n - 1)
  OBVIOUS
<1>9. u \in Seq(S) /\ Len(u) = n - 1 /\ \A i \in 1..(n - 1) : u[i] = ps[i]
  BY <1>6, <1>7, <1>8
<1>10. pt = u
  BY <1>3, <1>7, <1>9, SeqEqual
<1>11. ps # <<>> /\ ps[n] = PositionOf(s[n])
  BY <1>2, <1>7
<1> QED BY <1>1, <1>7, <1>8, <1>10, <1>11

\* The session starts at a root of the game.
LEMMA GameStarts ==
  ASSUME Init
  PROVE  Chess!GameInit
<1>1. PositionOf(cb) \in RootPositions
  BY DEF Init, RootPositions
<1>2. past = <<>>
  BY DEF Init
<1>3. [i \in 1..Len(past) |-> PositionOf(past[i])] = <<>>
  BY <1>2
<1> QED BY <1>1, <1>3 DEF Chess!GameInit

\* A step of the board is a step of the game, or none.
LEMMA GameSteps ==
  ASSUME HomeInv, HomeInv', MaterialHolds, MaterialHolds', [Next]_vars
  PROVE  [Chess!GameNext]_(Chess!gameVars)
<1>0. GuardInv /\ FitInv /\ BoardInv /\ HomeFits(cb) /\ Guarded(cb) /\ Sound(cb) /\ Fits(cb) /\ cb.pinnedPiecesDirty \in BOOLEAN
  BY Zenon DEF HomeInv, GuardInv, FitInv, BoardInv
<1>1. GuardInv' /\ FitInv' /\ BoardInv'
  BY Zenon DEF HomeInv, GuardInv, FitInv
<1>2. PICK b, x : b = RefreshPins(cb) /\ x = cb'
  OBVIOUS
<1>3. Ply \in Nat /\ IsSequence(past) /\ Len(past) = Ply /\ Len(past') = Ply'
  BY <1>0, <1>1, KeyIsMade DEF BoardInv
<1>4. Sound(b) /\ b.pinnedPiecesDirty = FALSE /\ ExceptPins(b, cb) /\ Guarded(b)
  BY <1>0, <1>2, Refreshed, RefreshGuards
<1>5. HomeFits(b)
  BY <1>0, <1>4, HomeExceptPins
<1>6. KeyTells(b)
  BY <1>4, <1>0, FitsTell DEF ExceptPins, MaterialHolds
<1>8. PICK pos, before, pos2, before2 : /\ pos = PositionOf(cb) /\ before = PositionsOf(past)
                                        /\ pos2 = PositionOf(x) /\ before2 = PositionsOf(past')
  OBVIOUS
<1>9. PositionOf(b) = pos
  BY <1>4, <1>8, PositionExceptPins
<1>10. /\ PositionOf(cb) = pos /\ PositionOf(cb)' = pos2
       /\ [i \in 1..Len(past) |-> PositionOf(past[i])] = before
       /\ [i \in 1..Len(past) |-> PositionOf(past[i])]' = before2
  BY <1>2, <1>8 DEF PositionOf, PositionsOf
<1>11. ASSUME NEW m \in Legal(pos), pos2 = Played(pos, m), before2 = Append(before, pos)
       PROVE  Chess!GameNext
  BY <1>11, SameLaws, <1>10 DEF Chess!GameNext, Chess!Play
<1>12. ASSUME Checkers(pos, pos.side) = {}, pos2 = NullMoved(pos), before2 = Append(before, pos)
       PROVE  Chess!GameNext
  BY <1>12, SameLaws, <1>10 DEF Chess!GameNext, Chess!Pass
<1>13. ASSUME before # <<>>, pos2 = before[Len(before)], before2 = SubSeq(before, 1, Len(before) - 1)
       PROVE  Chess!GameNext
  BY <1>10, <1>13, Zenon DEF Chess!GameNext, Chess!TakeBack
<1>14. ASSUME pos2 = pos, before2 = before
       PROVE  UNCHANGED Chess!gameVars
  BY <1>10, <1>14, Zenon DEF Chess!gameVars
<1>15. DownBy(b, x) \/ Passing(b, x) \/ ComingBack(x) \/ Staying(b, x)
  BY <1>0, <1>1, <1>2, SessionStepIs
<1>16. CASE DownBy(b, x)
  <2>1. PICK m \in generateMoves(b) \cup generateAttacks(b) : isLegal(b, m) /\ m # NO_MOVE /\ Leads(b, m, x)
    BY <1>16 DEF DownBy
  <2>2. x = Made(b, m)
    BY <2>1 DEF Leads, Made
  <2>3. m \in Legal(pos) /\ pos2 = Played(pos, m)
    BY <1>4, <1>5, <1>6, <1>8, <1>9, <2>1, <2>2, PlaysLawfully
  <2>4. before2 = Append(before, pos)
    BY <1>3, <1>8, <1>9, <1>16, PositionsGrow DEF DownBy
  <2> QED BY <1>11, <2>3, <2>4
<1>17. CASE Passing(b, x)
  BY <1>4, <1>9, <1>17, PassesLegally, <1>8, NullPlayed, <1>3, PositionsGrow, <1>12 DEF Passing, Guarded
<1>18. CASE ComingBack(x)
  BY <1>3, <1>18, <1>8, PositionsShrink, <1>13 DEF ComingBack
<1>19. CASE Staying(b, x)
  <2>1. pos2 = pos /\ before2 = before
    BY <1>8, <1>9, <1>19 DEF Staying
  <2> QED BY <1>14, <2>1
<1> QED BY <1>15, <1>16, <1>17, <1>18, <1>19

\* The board implements the game by the laws of chess, while the counts of the
\* pieces fit their fields of the material key and when the rights of the root
\* are those of kings at home: every move that the search makes is a legal move
\* of the position with the effect that the laws give it, a null move passes
\* when the side to move is not in check, and what is taken back brings the
\* position before back.
THEOREM BoardPlaysChess ==
  ASSUME KeysHaveSlots, KingsAtHome
  PROVE  Spec /\ []MaterialHolds => Implements
<1>1. Init => Chess!GameInit
  BY GameStarts
<1>2. Init /\ MaterialHolds => HomeInv
  BY InitHome
<1>3. HomeInv /\ MaterialHolds /\ MaterialHolds' /\ [Next]_vars => HomeInv'
  BY HomeStep
<1>4. HomeInv /\ HomeInv' /\ MaterialHolds /\ MaterialHolds' /\ [Next]_vars => [Chess!GameNext]_(Chess!gameVars)
  BY GameSteps
<1> QED BY <1>1, <1>2, <1>3, <1>4, PTL DEF Spec, Implements, Chess!Game

\* So it does from positions with room for the promotion of every pawn.
THEOREM BoardPlaysOn ==
  ASSUME KeysHaveSlots, KingsAtHome, RoomToPromote
  PROVE  Spec => Implements
<1>1. Spec => [](MaterialHolds /\ KingsStand)
  BY CountsAlwaysHold
<1>2. Spec /\ []MaterialHolds => Implements
  BY BoardPlaysChess
<1> QED BY <1>1, <1>2, PTL

-----------------------------------------------------------------------------
(***************************************************************************)
(* Checks foreseen: givesCheck() lays out the men of the side that moves,  *)
(* the board of the move is searched for attackers in full.                *)
(***************************************************************************)

\* givesCheck() looks at the board that the move makes.
LEMMA GivesCheckSees ==
  ASSUME NEW b, Sound(b), NEW m, OrdinaryFacts(b, m), ~is_castling(m), NEW x, x = DoOrdinaryMove(b, m), Sound(x),
         NEW c, c.pieces = b.pieces, c.allPieces = b.allPieces, c.kingIndex = b.kingIndex, c.colorToMove = b.colorToMove
  PROVE  givesCheck(c, m) <=> checkingPiecesFull(x) # {}
<1>1. PICK us, them, k : us = b.colorToMove /\ them = Opponent(us) /\ k = b.kingIndex[them]
  OBVIOUS
<1>2. /\ us \in Colors /\ them \in Colors /\ Opponent(them) = us /\ k \in Squares /\ b.pieces \in Men
      /\ x.pieces \in Men /\ x.colorToMove = them /\ x.kingIndex[them] = k
  BY <1>1, SoundSays, OrdinaryNow
<1>3. PICK gone : gone = IF m.source = KING THEN b.pieces[us] ELSE [b.pieces[us] EXCEPT ![m.source] = @ \ {m.from}]
  OBVIOUS
<1>4. PICK ours : ours = IF m.source = KING THEN gone ELSE [gone EXCEPT ![Placed(m)] = @ \cup {m.to}]
  OBVIOUS
<1>5. givesCheck(c, m) <=> Attackers(k, them, ours, OccupiedAfter(b, m)) # {}
  BY <1>1, <1>3, <1>4 DEF OccupiedAfter, EpCaptured, CaptureSquare, givesCheck
<1>6. OccupiedAfter(b, m) = x.allPieces
  <2>1. \A s : s \in OccupiedAfter(b, m) => s \in Squares
    BY SoundSays DEF OccupiedAfter, OrdinaryFacts
  <2>2. \A s \in Squares : s \in x.allPieces <=> s = m.to \/ (s \in b.allPieces /\ s # m.from /\ s \notin Captured(b, m))
    BY OrdinaryNow
  <2>3. is_ep(m) => EpCaptured(b, m) = Captured(b, m) /\ m.to \notin Captured(b, m)
    BY DEF EpCaptured, Captured, OrdinaryFacts
  <2>4. ~is_ep(m) => EpCaptured(b, m) = {} /\ Captured(b, m) \subseteq {m.to}
    BY OrdinaryNow DEF EpCaptured
  <2>5. x.allPieces \subseteq Squares
    BY OrdinaryNow
  <2>6. \A s \in Squares : s \in OccupiedAfter(b, m) <=> s \in x.allPieces
    BY <2>2, <2>3, <2>4 DEF OccupiedAfter, OrdinaryFacts
  <2> QED BY <2>1, <2>5, <2>6
<1>7. \A p \in PAWN..QUEEN : ours[p] = x.pieces[us][p]
  <2> SUFFICES ASSUME NEW p \in PAWN..QUEEN PROVE ours[p] = x.pieces[us][p]
    OBVIOUS
  <2>1. p \in PieceTypes /\ p # KING
    BY PieceCodes
  <2>2. DOMAIN b.pieces[us] = PieceTypes /\ b.pieces[us][p] \subseteq Squares /\ x.pieces[us][p] \subseteq Squares
    BY <1>2, <2>1 DEF Men
  <2>3. m.to \in Squares /\ m.source \in PieceTypes /\ Placed(m) \in PieceTypes
    BY PlacedIs DEF OrdinaryFacts
  <2>4. ours[p] = (IF p = m.source THEN b.pieces[us][p] \ {m.from} ELSE b.pieces[us][p])
                    \cup (IF p = Placed(m) THEN {m.to} ELSE {})
    <3>1. CASE m.source = KING
      <4>1. Placed(m) = KING
        BY <3>1, PlacedIs, TypesDiffer
      <4> QED BY <1>3, <1>4, <2>1, <3>1, <4>1
    <3>2. CASE m.source # KING
      BY <1>3, <1>4, <2>1, <2>2, <2>3, <3>2
    <3> QED BY <3>1, <3>2
  <2>5. \A s \in Squares : s \in x.pieces[us][p] <=>
            (s = m.to /\ Placed(m) = p) \/ (s \in b.pieces[us][p] /\ s # m.from /\ s \notin Captured(b, m))
    BY <1>1, <1>2, <2>1, OrdinaryStands
  <2>6. \A s \in b.pieces[us][p] : s \notin Captured(b, m)
    BY <1>1, SoundSays, <1>2, <2>1 DEF Captured, OrdinaryFacts, WhoIsWhere, OnePieceEach
  <2>7. p # m.source => m.from \notin b.pieces[us][p]
    <3>1. m.from \in b.pieces[us][m.source] /\ PlacesTyped(b) /\ WhoIsWhere(b) /\ m.source \in PieceTypes
      BY <1>1, SoundSays DEF OrdinaryFacts
    <3>2. \A q \in PieceTypes : m.from \in b.pieces[us][q] => q = m.source
      BY ONLY <1>2, <3>1, FriendIs
    <3> QED BY <2>1, <3>2
  <2>8. \A s \in Squares : s \in ours[p] <=> s \in x.pieces[us][p]
    BY <2>4, <2>5, <2>6, <2>7
  <2>9. ours[p] \subseteq Squares
    BY <2>2, <2>3, <2>4
  <2> QED BY <2>2, <2>8, <2>9
<1>8. Attackers(k, them, ours, x.allPieces) = Attackers(k, them, x.pieces[us], x.allPieces)
  BY PieceCodes, <1>7 DEF Attackers
<1> QED BY <1>2, <1>5, <1>6, <1>8 DEF checkingPiecesFull

\* What a full search finds is what the laws call check, while the other king is safe.
LEMMA FullSearchIs ==
  ASSUME NEW x, Sound(x), KingSafe(x), ChecksFit(x)
  PROVE  checkingPiecesFull(x) # {} <=> Checkers(PositionOf(x), x.colorToMove) # {}
<1>1. Laid(x) /\ x.colorToMove \in Colors /\ x.checkingPieces = checkingPiecesFull(x)
  BY SoundLaid, SoundSays DEF ChecksFit
<1>2. \A s : s \in Checkers(PositionOf(x), x.colorToMove) <=>
               Hits(x.pieces, Opponent(x.colorToMove), PieceTypes, s, x.kingIndex[x.colorToMove], x.allPieces)
  BY <1>1, CheckersAre
<1>3. \A s : s \in x.checkingPieces => s \in Checkers(PositionOf(x), x.colorToMove)
  <2> SUFFICES ASSUME NEW s, s \in x.checkingPieces PROVE s \in Checkers(PositionOf(x), x.colorToMove)
    OBVIOUS
  <2>1. Hits(x.pieces, Opponent(x.colorToMove), PAWN..QUEEN, s, x.kingIndex[x.colorToMove], x.allPieces)
    BY CheckerHits
  <2>2. PAWN..QUEEN \subseteq PieceTypes
    BY PieceCodes
  <2> QED BY <1>2, <2>1, <2>2 DEF Hits
<1>4. \A s : s \in Checkers(PositionOf(x), x.colorToMove) => s \in x.checkingPieces
  BY <1>2, HitterIs
<1> QED BY <1>1, <1>3, <1>4

\* givesCheck() tells what the laws say.
LEMMA GivesCheckTells ==
  ASSUME GuardInv, MaterialHolds
  PROVE  GivesCheckExact
<1>1. PICK b : b = RefreshPins(cb)
  OBVIOUS
<1>2. Sound(cb) /\ Fits(cb) /\ Guarded(cb) /\ cb.pinnedPiecesDirty \in BOOLEAN /\ BoardInv
  BY Zenon DEF GuardInv, FitInv, BoardInv
<1>3. Sound(b) /\ b.pinnedPiecesDirty = FALSE /\ ExceptPins(b, cb) /\ Guarded(b) /\ RefreshPins(b) = b
  BY <1>1, <1>2, Refreshed, RefreshGuards
<1>4. /\ b.pieces = cb.pieces /\ b.materialKey = cb.materialKey /\ b.allPieces = cb.allPieces
      /\ b.kingIndex = cb.kingIndex /\ b.colorToMove = cb.colorToMove
  BY <1>3 DEF ExceptPins
<1>5. KeyTells(b) /\ PositionOf(b) = PositionOf(cb)
  BY <1>2, <1>3, <1>4, FitsTell, PositionExceptPins DEF MaterialHolds
<1> SUFFICES ASSUME NEW m \in LegalMoves(cb)
             PROVE  givesCheck(cb, m) <=> Checkers(Played(PositionOf(cb), m), Opponent(PositionOf(cb).side)) # {}
  BY Zenon DEF GivesCheckExact
<1>6. m \in generateMoves(b) \cup generateAttacks(b) /\ isLegal(b, m)
  BY <1>1 DEF LegalMoves
<1>7. PICK x : x = Made(b, m)
  OBVIOUS
<1>8. /\ ~is_castling(m) => OrdinaryFacts(b, m)
      /\ Sound(x) /\ KingSafe(x) /\ ChecksFit(x) /\ x.colorToMove = Opponent(b.colorToMove)
      /\ PositionOf(x) = Played(PositionOf(b), m)
  BY <1>3, <1>5, <1>6, <1>7, PlaysSafely
<1>9. givesCheck(cb, m) <=> checkingPiecesFull(x) # {}
  <2>1. CASE is_castling(m)
    BY <1>1, <1>7, <2>1, <1>8 DEF doMove, Made, givesCheck, ChecksFit
  <2>2. CASE ~is_castling(m)
    BY <1>7, <2>2, <1>3, <1>4, <1>8, GivesCheckSees DEF Made
  <2> QED BY <2>1, <2>2
<1>10. PositionOf(cb).side = cb.colorToMove
  BY DEF PositionOf
<1> QED BY <1>4, <1>5, <1>8, <1>9, <1>10, FullSearchIs

\* While the counts of the pieces fit their fields of the material key,
\* givesCheck(), which the search asks before it makes a move, tells of every
\* legal move whether the king of the side to move next is attacked afterwards,
\* promotions, captures en passant and castling included.
THEOREM GivesCheckIsRight ==
  ASSUME KeysHaveSlots
  PROVE  Spec /\ []MaterialHolds => []GivesCheckExact
<1>1. Spec /\ []MaterialHolds => []GuardInv
  BY BoardStaysGuarded
<1>2. GuardInv /\ MaterialHolds => GivesCheckExact
  BY GivesCheckTells
<1> QED BY <1>1, <1>2, PTL

-----------------------------------------------------------------------------
(***************************************************************************)
(* What answers a check.                                                   *)
(***************************************************************************)

\* The line of a pin runs from the king to the piece that pins.
LEMMA PinLineRuns ==
  ASSUME NEW k \in Squares, NEW a \in Squares, NEW f \in IN_BETWEEN[k][a], NEW t, t = a \/ t \in IN_BETWEEN[k][a]
  PROVE  t \in PINNED_MOVEMENT[f][k]
<1>1. f \in Squares /\ f \in queen_moves_empty[k] /\ t \in Squares
  BY BetweenLines
<1>2. LINE_STEP[k][f] # 0
  BY <1>1 DEF queen_moves_empty, rook_moves_empty, bishop_moves_empty
<1>3. t = f \/ t \in IN_BETWEEN[k][f] \/ f \in IN_BETWEEN[k][t]
  <2>1. CASE t = a
    BY <2>1
  <2>2. CASE t \in IN_BETWEEN[k][a]
    <3>1. OnLine(k, f, a) /\ OnLine(k, t, a)
      BY <1>1, <2>2, BetweenIs
    <3>2. /\ RankOf(k) \in 0..7 /\ FileOf(k) \in 0..7 /\ RankOf(a) \in 0..7 /\ FileOf(a) \in 0..7
          /\ RankOf(f) \in 0..7 /\ FileOf(f) \in 0..7 /\ RankOf(t) \in 0..7 /\ FileOf(t) \in 0..7
          /\ t = 8 * RankOf(t) + FileOf(t) /\ f = 8 * RankOf(f) + FileOf(f)
      BY <1>1, Coordinates
    <3>3. (RankOf(t) = RankOf(f) /\ FileOf(t) = FileOf(f)) \/ OnLine(k, t, f) \/ OnLine(k, f, t)
      BY ONLY <3>1, <3>2, SMT DEF OnLine, Amid
    <3> QED BY <1>1, <3>2, <3>3, BetweenIs
  <2> QED BY <2>1, <2>2
<1> QED BY <1>1, <1>2, <1>3 DEF PINNED_MOVEMENT

\* One square cannot stop two pieces that look at the king, the one freely, the
\* other past nothing but f.
LEMMA OneStop ==
  ASSUME NEW k \in Squares, NEW s \in Squares, NEW a \in Squares, NEW occupied, NEW f,
         s \in occupied, a \in occupied, s # a, s # f,
         IN_BETWEEN[s][k] \cap occupied = {}, IN_BETWEEN[a][k] \cap occupied \subseteq {f},
         NEW t, t = s \/ t \in IN_BETWEEN[s][k], t = a \/ t \in IN_BETWEEN[a][k]
  PROVE  FALSE
<1>1. s \notin IN_BETWEEN[a][k] /\ a \notin IN_BETWEEN[s][k]
  OBVIOUS
<1>2. t \in IN_BETWEEN[s][k] /\ t \in IN_BETWEEN[a][k]
  BY <1>1
<1>3. /\ IN_BETWEEN[s][k] = IN_BETWEEN[k][s] /\ IN_BETWEEN[a][k] = IN_BETWEEN[k][a]
  BY LinesBothWays
<1>4. s \in IN_BETWEEN[t][a]
  BY <1>1, <1>2, <1>3, BetweenBehind
<1>5. t \in Squares
  BY <1>2, BetweenOnBoard
<1>6. s \in IN_BETWEEN[a][t]
  BY <1>4, <1>5, LinesBothWays
<1> QED BY <1>1, <1>2, <1>5, <1>6, BetweenNearer

\* A piece that only the piece that moves keeps from the king, if any, is taken
\* by the move or met on its way.
LEMMA MustStop ==
  ASSUME NEW b, Sound(b), NEW m, OrdinaryFacts(b, m), m.source # KING, NEW x, x = DoOrdinaryMove(b, m), KingSafe(x),
         NEW us, us = b.colorToMove, NEW them, them = Opponent(us), NEW k, k = b.kingIndex[us],
         NEW p \in PieceTypes, NEW s \in b.pieces[them][p], Aims(p, them, s, k),
         IN_BETWEEN[s][k] \cap b.allPieces \subseteq {m.from}
  PROVE  s \in Captured(b, m) \/ m.to \in IN_BETWEEN[s][k]
<1> SUFFICES ASSUME s \notin Captured(b, m), m.to \notin IN_BETWEEN[s][k] PROVE FALSE
  OBVIOUS
<1>1. /\ us \in Colors /\ them \in Colors /\ Opponent(them) = us /\ them # us /\ k \in Squares /\ s \in Squares
      /\ PlacesTyped(b) /\ WhoIsWhere(b)
  BY SoundSays
<1>2. x.colorToMove = them /\ x.kingIndex[us] = k /\ x.allPieces \subseteq Squares
  BY OrdinaryNow
<1>3. s # m.from
  BY <1>1, FriendIs DEF OrdinaryFacts
<1>4. s \in x.pieces[them][p]
  BY <1>1, <1>3, OrdinaryStands
<1>5. IN_BETWEEN[s][k] \cap x.allPieces = {}
  BY OrdinaryNow, <1>2
<1>6. Hits(x.pieces, them, PieceTypes, s, k, x.allPieces)
  BY <1>4, <1>5 DEF Hits
<1> QED BY <1>1, <1>2, <1>6 DEF KingSafe

\* What the checks and the pins ask of a move of another piece than the king
Answers(b, m) ==
  /\ m.from \in b.pinnedPieces => b.checkingPieces = {} /\ m.to \in PinLine(b, m.from)
  /\ b.checkingPieces # {} =>
       \E c \in Squares : b.checkingPieces = {c} /\ (m.to = c \/ m.to \in IN_BETWEEN[OurKing(b)][c])

\* is met by the moves that leave the king safe.
LEMMA SafeAnswers ==
  ASSUME NEW b, Sound(b), KeyTells(b), Guarded(b), b.pinnedPiecesDirty = FALSE,
         NEW m, OrdinaryFacts(b, m), ~is_ep(m), m.source # KING, NEW x, x = DoOrdinaryMove(b, m), KingSafe(x)
  PROVE  Answers(b, m)
<1>1. PICK us, them, k : us = b.colorToMove /\ them = Opponent(us) /\ k = b.kingIndex[us]
  OBVIOUS
<1>2. /\ us \in Colors /\ them \in Colors /\ Opponent(them) = us /\ them # us /\ k \in Squares
      /\ PlacesTyped(b) /\ WhoIsWhere(b) /\ ChecksFit(b) /\ PinsFit(b)
      /\ \A c \in Colors, p \in PieceTypes : \A s \in b.pieces[c][p] : s \in Squares /\ s \in b.allPieces
  BY <1>1, SoundSays DEF Guarded
<1>3. /\ m.source \in PieceTypes /\ m.from \in b.pieces[us][m.source] /\ Captured(b, m) \subseteq {m.to}
      /\ m.from \in b.friendlyPieces[us] /\ m.from \notin b.friendlyPieces[them]
      /\ \A p \in PieceTypes : m.from \notin b.pieces[them][p]
  <2>1. m.source \in PieceTypes /\ m.from \in b.pieces[us][m.source] /\ Captured(b, m) \subseteq {m.to}
    BY <1>1, OrdinaryNow DEF OrdinaryFacts
  <2> QED BY ONLY <1>1, <1>2, <2>1, FriendIs
<1> DEFINE Stopped(s) == m.to = s \/ m.to \in IN_BETWEEN[s][k]
           Looks(s, p) == s \in b.pieces[them][p] /\ Aims(p, them, s, k)
<1>4. ASSUME NEW p \in PieceTypes, NEW s, Looks(s, p), IN_BETWEEN[s][k] \cap b.allPieces \subseteq {m.from}
      PROVE  Stopped(s)
  BY <1>1, <1>3, <1>4, MustStop
<1>5. ASSUME NEW s \in b.checkingPieces
      PROVE  /\ s \in Squares /\ s \in b.allPieces /\ IN_BETWEEN[s][k] \cap b.allPieces = {} /\ Stopped(s) /\ s # m.from
             /\ IN_BETWEEN[k][s] = IN_BETWEEN[s][k]
  <2>1. Hits(b.pieces, them, PAWN..QUEEN, s, k, b.allPieces)
    BY <1>1, <1>2, <1>5, CheckerHits
  <2>2. PICK p \in PAWN..QUEEN : Looks(s, p) /\ IN_BETWEEN[s][k] \cap b.allPieces = {}
    BY <2>1 DEF Hits
  <2>3. p \in PieceTypes
    BY PieceCodes
  <2>4. s # m.from
    BY <1>3, <2>2, <2>3
  <2> QED BY <1>2, <1>4, <2>2, <2>3, <2>4, LinesBothWays
<1>6. ASSUME NEW c \in b.checkingPieces, NEW d \in b.checkingPieces PROVE c = d
  <2>1. /\ c \in Squares /\ c \in b.allPieces /\ IN_BETWEEN[c][k] \cap b.allPieces = {} /\ Stopped(c) /\ c # m.from
        /\ d \in Squares /\ d \in b.allPieces /\ IN_BETWEEN[d][k] \cap b.allPieces \subseteq {m.from} /\ Stopped(d)
    BY <1>5
  <2> QED BY ONLY <1>2, <2>1, OneStop
<1>7. ASSUME m.from \in b.pinnedPieces PROVE b.checkingPieces = {} /\ m.to \in PinLine(b, m.from)
  <2>1. m.from \in PinsOf(b) /\ m.from \in b.friendlyPieces[us] /\ m.from \notin b.friendlyPieces[them]
    BY <1>2, <1>3, <1>7 DEF PinsFit
  <2>2. m.from \in LoneBlockers(b, us)
    BY <1>1, <1>2, ColorsTwo, <2>1 DEF PinsOf
  <2>3. Alone(b, us, m.from)
    BY <1>2, <2>2, LoneAre
  <2>4. PICK a \in Squares : /\ \E p \in BISHOP..QUEEN : Looks(a, p)
                             /\ IN_BETWEEN[a][k] \cap b.allPieces = {m.from}
    BY <1>1, <2>3 DEF Alone
  <2>5. PICK p \in PieceTypes : Looks(a, p)
    BY <2>4, PieceCodes
  <2>6. Stopped(a) /\ a \in b.allPieces
    BY <1>2, <1>4, <2>4, <2>5
  <2>7. b.checkingPieces = {}
    <3> SUFFICES ASSUME NEW c \in b.checkingPieces PROVE FALSE
      OBVIOUS
    <3>1. /\ c \in Squares /\ c \in b.allPieces /\ IN_BETWEEN[c][k] \cap b.allPieces = {} /\ Stopped(c) /\ c # m.from
      BY <1>5
    <3>2. a \in Squares /\ a \in b.allPieces /\ IN_BETWEEN[a][k] \cap b.allPieces \subseteq {m.from} /\ Stopped(a) /\ c # a
      BY <2>4, <2>6, <3>1
    <3> QED BY ONLY <1>2, <3>1, <3>2, OneStop
  <2>8. m.to \in PINNED_MOVEMENT[m.from][k]
    BY <1>2, LinesBothWays, <2>4, <2>6, PinLineRuns
  <2> QED BY <1>1, <2>7, <2>8 DEF PinLine, OurKing
<1>8. ASSUME b.checkingPieces # {}
      PROVE  \E c \in Squares : b.checkingPieces = {c} /\ (m.to = c \/ m.to \in IN_BETWEEN[OurKing(b)][c])
  <2>1. PICK c \in b.checkingPieces : TRUE
    BY <1>8
  <2>2. b.checkingPieces = {c}
    BY <1>6
  <2> QED BY <1>1, <1>5, <2>2 DEF OurKing
<1> QED BY <1>7, <1>8 DEF Answers

-----------------------------------------------------------------------------
(***************************************************************************)
(* The moves that the laws list, as the generator knows them.              *)
(***************************************************************************)

\* A move of a piece, not en passant, that the laws list
PlainMove(b, m) ==
  LET us == b.colorToMove
  IN /\ m = [from |-> m.from, to |-> m.to, source |-> m.source, attacked |-> m.attacked, type |-> m.type]
     /\ m.source \in PieceTypes /\ m.from \in b.pieces[us][m.source] /\ m.from \in Squares
     /\ m.to \in Squares /\ m.to \notin b.friendlyPieces[us] /\ m.attacked = b.pieceIndexes[m.to]
     /\ m.type \in (IF m.source = PAWN /\ m.from \in PromotionRank(us) THEN PromotionTypes ELSE {TYPE_NORMAL})
     /\ m.source # PAWN => Aims(m.source, us, m.from, m.to) /\ IN_BETWEEN[m.from][m.to] \cap b.allPieces = {}
     /\ m.source = PAWN => \/ m.to \in PAWN_ATTACKS[us][m.from] /\ m.attacked # EMPTY
                           \/ m.to = m.from + Forward(us) /\ m.attacked = EMPTY
                           \/ /\ m.to = m.from + 2 * Forward(us) /\ m.attacked = EMPTY
                              /\ m.from \in HomeRank(us) /\ m.from + Forward(us) \in Empties(b)

\* The targets that the laws give a pawn.
LEMMA PawnTargetsAre ==
  ASSUME NEW b, Sound(b), NEW pos, pos = PositionOf(b), NEW us, us = b.colorToMove,
         NEW s \in Squares, NEW t \in PawnTargets(pos, s)
  PROVE  /\ t \in Squares
         /\ \/ t \in PAWN_ATTACKS[us][s] /\ t \in b.friendlyPieces[Opponent(us)]
            \/ t = s + Forward(us) /\ t \notin b.allPieces
            \/ t = s + 2 * Forward(us) /\ t \notin b.allPieces /\ s \in HomeRank(us) /\ s + Forward(us) \in Empties(b)
         /\ RankOf(t) = LastRank(us) <=> s \in PromotionRank(us)
<1>1. us \in Colors /\ Opponent(us) \in Colors /\ Laid(b)
  BY SoundSays, SoundLaid
<1>2. /\ pos.side = us /\ \A q : Owns(pos, Opponent(us), q) <=> q \in b.friendlyPieces[Opponent(us)]
      /\ \A q : On(pos, q) <=> q \in b.allPieces
  BY <1>1, PositionIs DEF On, MenOn
<1>3. PICK one, two : one = Target(s, <<0, Up(us)>>, 1) /\ two = Target(s, <<0, Up(us)>>, 2)
  OBVIOUS
<1>4. /\ Up(us) \in {1, -1} /\ Forward(us) = 8 * Up(us) /\ LastRank(us) \in {0, 7} /\ SecondRank(us) \in {1, 6}
      /\ (us = WHITE /\ Up(us) = 1 /\ Forward(us) = 8 /\ LastRank(us) = 7 /\ SecondRank(us) = 1)
         \/ (us # WHITE /\ Up(us) = -1 /\ Forward(us) = -8 /\ LastRank(us) = 0 /\ SecondRank(us) = 6)
  BY DEF Up, Forward, LastRank, SecondRank
<1>5. /\ RankOf(s) \in 0..7 /\ FileOf(s) \in 0..7 /\ s = 8 * RankOf(s) + FileOf(s)
      /\ s \in PromotionRank(us) <=> RankOf(s) + Up(us) = LastRank(us)
      /\ s \in HomeRank(us) <=> RankOf(s) = SecondRank(us)
  BY <1>1, Coordinates, PawnRanks
<1>6. \/ t \in Reached(us, PAWN, s, {}) /\ t \in b.friendlyPieces[Opponent(us)]
      \/ t = one /\ one # -1 /\ one \notin b.allPieces
      \/ t = two /\ two \notin b.allPieces /\ one # -1 /\ one \notin b.allPieces /\ RankOf(s) = SecondRank(us)
  BY <1>2, <1>3 DEF PawnTargets
<1>7. /\ one # -1 => one \in Squares /\ FileOf(one) = FileOf(s) /\ RankOf(one) = RankOf(s) + Up(us)
      /\ two # -1 => two \in Squares /\ FileOf(two) = FileOf(s) /\ RankOf(two) = RankOf(s) + 2 * Up(us)
      /\ RankOf(s) = SecondRank(us) => two # -1
  <2>1. PICK y \in Int : y = Up(us)
    BY <1>4
  <2>2. /\ one = -1 \/ one \in Squares
        /\ \A q \in Squares : q = one => FileOf(q) = FileOf(s) + 1 * 0 /\ RankOf(q) = RankOf(s) + 1 * y
    BY <1>3, <2>1, TargetIs
  <2>3. /\ two = -1 \/ two \in Squares
        /\ \A q \in Squares : q = two => FileOf(q) = FileOf(s) + 2 * 0 /\ RankOf(q) = RankOf(s) + 2 * y
    BY <1>3, <2>1, TargetIs
  <2>4. RankOf(s) = SecondRank(us) => two # -1
    <3> SUFFICES ASSUME RankOf(s) = SecondRank(us) PROVE two # -1
      OBVIOUS
    <3>1. PICK q \in Squares : FileOf(q) = FileOf(s) /\ RankOf(q) = RankOf(s) + 2 * y
      <4>1. PICK r \in 0..7 : r = RankOf(s) + 2 * y
        BY <1>4, <2>1
      <4>2. 8 * r + FileOf(s) \in Squares
        BY <1>5 DEF Squares
      <4>3. FileOf(8 * r + FileOf(s)) = FileOf(s) /\ RankOf(8 * r + FileOf(s)) = r
        BY <1>5, <4>2, Coordinates
      <4> QED BY <4>1, <4>2, <4>3
    <3>2. q = Target(s, <<0, y>>, 2)
      BY <3>1, <1>5, TargetIs
    <3> QED BY <1>3, <2>1, <3>2 DEF Squares
  <2> QED BY <1>5, <2>1, <2>2, <2>3, <2>4
<1>8. /\ one # -1 => one = s + Forward(us) /\ one \in 0..63
      /\ two # -1 => two = s + 2 * Forward(us) /\ two \in 0..63
  BY Coordinates, <1>4, <1>5, <1>7 DEF Squares
<1>9. CASE t \in Reached(us, PAWN, s, {}) /\ t \in b.friendlyPieces[Opponent(us)]
  BY <1>1, <1>9, StepsReach, AimsAre, StepsAre, Coordinates, <1>4, <1>5 DEF Up
<1>10. CASE t = one /\ one # -1 /\ one \notin b.allPieces
  BY <1>5, <1>7, <1>8, <1>10
<1>11. CASE t = two /\ two \notin b.allPieces /\ one # -1 /\ one \notin b.allPieces /\ RankOf(s) = SecondRank(us)
  BY <1>4, <1>5, <1>7, <1>11, <1>8 DEF Empties, Squares
<1> QED BY <1>6, <1>9, <1>10, <1>11

\* What the laws list of a piece is such a move or a capture en passant.
LEMMA PieceMovesAre ==
  ASSUME NEW b, Sound(b), NEW pos, pos = PositionOf(b), NEW us, us = b.colorToMove,
         NEW s, Owns(pos, us, s), NEW m \in PieceMoves(pos, s)
  PROVE  PlainMove(b, m) \/ (/\ m = create_ep(s, b.epIndex) /\ b.epIndex # 0 /\ b.epIndex \in Squares
                             /\ s \in b.pieces[us][PAWN] /\ b.epIndex \in PAWN_ATTACKS[us][s])
<1>1. us \in Colors /\ Opponent(us) \in Colors /\ Laid(b) /\ PlacesTyped(b) /\ WhoIsWhere(b) /\ b.epIndex \in Squares
  BY SoundSays, SoundLaid DEF Sound
<1>2. /\ pos.side = us /\ \A c \in Colors : \A q : Owns(pos, c, q) <=> q \in b.friendlyPieces[c]
      /\ MenOn(pos.at, b, b.allPieces) /\ DOMAIN pos.at = b.allPieces /\ pos.ep = b.epIndex
      /\ \A q : On(pos, q) <=> q \in b.allPieces
  BY <1>1, PositionIs DEF On, MenOn, PositionOf
<1>3. PICK p : p = Piece(pos, s)
  OBVIOUS
<1>4. s \in b.allPieces /\ s \in b.friendlyPieces[us] /\ \A q \in b.allPieces : Piece(pos, q) = b.pieceIndexes[q] /\ q \in Squares
  BY <1>1, <1>2, MenRead DEF Owns, Piece, MenOn
<1>5. p \in PieceTypes /\ s \in b.pieces[us][p] /\ s \in Squares
  BY <1>1, <1>3, <1>4 DEF WhoIsWhere
<1>6. \A t \in Squares : b.pieceIndexes[t] = IF On(pos, t) THEN Piece(pos, t) ELSE EMPTY
  BY <1>1, <1>2, <1>4 DEF WhoIsWhere
<1> DEFINE reach == IF Piece(pos, s) = PAWN THEN PawnTargets(pos, s)
                    ELSE {u \in Reached(pos.side, Piece(pos, s), s, DOMAIN pos.at) : ~Owns(pos, pos.side, u)}
           types(u) == IF Piece(pos, s) = PAWN /\ RankOf(u) = LastRank(pos.side) THEN PromotionTypes ELSE {TYPE_NORMAL}
           taken(u) == IF On(pos, u) THEN Piece(pos, u) ELSE EMPTY
           ofPiece == UNION {{[from |-> s, to |-> u, source |-> Piece(pos, s), attacked |-> taken(u), type |-> ty] :
                                ty \in types(u)} : u \in reach}
           ofEp == {create_ep(s, u) : u \in {x \in {pos.ep} : /\ x # 0 /\ Piece(pos, s) = PAWN
                                                            /\ x \in Reached(pos.side, PAWN, s, {})}}
<1>7. m \in ofPiece \cup ofEp
  BY Zenon DEF PieceMoves
<1>8. CASE m \in ofEp
  BY <1>2, <1>3, <1>8, <1>1, <1>5, StepsReach, AimsAre
<1>9. CASE m \in ofPiece
  <2> HIDE DEF reach, types, taken, ofEp
  <2> DEFINE ways(u) == {[from |-> s, to |-> u, source |-> Piece(pos, s), attacked |-> taken(u), type |-> ty] : ty \in types(u)}
  <2>1. m \in UNION {ways(u) : u \in reach}
    BY <1>9
  <2> HIDE DEF ways
  <2>2. PICK t \in reach : m \in ways(t)
    BY <2>1
  <2>3. m \in {[from |-> s, to |-> t, source |-> p, attacked |-> taken(t), type |-> ty] : ty \in types(t)}
    BY <1>3, <2>2 DEF ways
  <2>4. PICK y \in types(t) : m = [from |-> s, to |-> t, source |-> p, attacked |-> taken(t), type |-> y]
    BY <1>3, <2>3
  <2>5. m.from = s /\ m.to = t /\ m.source = p /\ m.attacked = taken(t) /\ m.type = y
    BY <2>4
  <2>6. CASE p # PAWN
    <3>1. t \in Reached(us, p, s, b.allPieces) /\ t \notin b.friendlyPieces[us]
      BY <1>1, <1>2, <1>3, <2>4, <2>6 DEF reach
    <3>2. t \in Squares /\ Aims(p, us, s, t) /\ IN_BETWEEN[s][t] \cap b.allPieces = {}
      BY <1>1, <1>5, <3>1, ReachedIs DEF PlacesTyped
    <3>3. y \in {TYPE_NORMAL}
      BY <1>3, <2>4, <2>6 DEF types
    <3>4. taken(t) = b.pieceIndexes[t]
      BY <1>6, <3>2 DEF taken
    <3> QED BY <1>5, <2>4, <2>5, <2>6, <3>1, <3>2, <3>3, <3>4 DEF PlainMove
  <2>7. CASE p = PAWN
    <3>1. /\ t \in Squares
          /\ \/ t \in PAWN_ATTACKS[us][s] /\ t \in b.friendlyPieces[Opponent(us)]
             \/ t = s + Forward(us) /\ t \notin b.allPieces
             \/ t = s + 2 * Forward(us) /\ t \notin b.allPieces /\ s \in HomeRank(us) /\ s + Forward(us) \in Empties(b)
          /\ RankOf(t) = LastRank(us) <=> s \in PromotionRank(us)
      BY <1>3, <1>5, <2>4, <2>7, PawnTargetsAre DEF reach
    <3>2. y \in (IF p = PAWN /\ s \in PromotionRank(us) THEN PromotionTypes ELSE {TYPE_NORMAL})
      BY <1>2, <1>3, <2>4, <2>7, <3>1 DEF types
    <3>3. taken(t) = b.pieceIndexes[t]
      BY <1>6, <3>1 DEF taken
    <3>4. t \in b.friendlyPieces[Opponent(us)] => b.pieceIndexes[t] # EMPTY /\ t \notin b.friendlyPieces[us]
      BY <1>1, <3>1, ColorsTwo, FriendIs, TypesDiffer DEF WhoIsWhere
    <3>5. t \notin b.allPieces => b.pieceIndexes[t] = EMPTY /\ t \notin b.friendlyPieces[us]
      BY <1>1, ColorsTwo, <3>1 DEF WhoIsWhere, Colors, WHITE, BLACK
    <3>6. /\ t \notin b.friendlyPieces[us]
          /\ \/ t \in PAWN_ATTACKS[us][s] /\ b.pieceIndexes[t] # EMPTY
             \/ t = s + Forward(us) /\ b.pieceIndexes[t] = EMPTY
             \/ /\ t = s + 2 * Forward(us) /\ b.pieceIndexes[t] = EMPTY
                /\ s \in HomeRank(us) /\ s + Forward(us) \in Empties(b)
      BY ONLY <3>1, <3>4, <3>5
    <3>7. /\ m = [from |-> m.from, to |-> m.to, source |-> m.source, attacked |-> m.attacked, type |-> m.type]
          /\ m.from = s /\ m.to = t /\ m.source = PAWN /\ m.attacked = b.pieceIndexes[t] /\ m.type = y
      BY <2>4, <2>5, <2>7, <3>3
    <3>8. us = b.colorToMove /\ PAWN # NIGHT /\ s \in b.pieces[us][PAWN]
      BY <1>5, <2>7 DEF PAWN, NIGHT
    <3> QED BY ONLY <1>1, <1>5, <2>7, <3>1, <3>2, <3>6, <3>7, <3>8 DEF PlainMove
  <2> QED BY <2>6, <2>7
<1> QED BY <1>7, <1>8, <1>9

\* Such a move is one that a board can make,
LEMMA PlainOK ==
  ASSUME NEW b, Sound(b), NEW m, PlainMove(b, m)
  PROVE  /\ MoveOK(b, m) /\ ~is_castling(m) /\ ~is_ep(m)
         /\ m.attacked = EMPTY => m.to \in Empties(b)
         /\ m.attacked # EMPTY => m.to \in Enemies(b) /\ m.to \in b.pieces[Opponent(b.colorToMove)][m.attacked]
<1> DEFINE us == b.colorToMove
           them == Opponent(us)
<1>1. us \in Colors /\ PlacesTyped(b) /\ WhoIsWhere(b) /\ \A c \in Colors : c = us \/ c = them
  BY SoundSays, ColorsTwo
<1>2. /\ m = [from |-> m.from, to |-> m.to, source |-> m.source, attacked |-> m.attacked, type |-> m.type]
      /\ m.source \in PieceTypes /\ m.from \in b.pieces[us][m.source] /\ m.from \in Squares
      /\ m.to \in Squares /\ m.to \notin b.friendlyPieces[us] /\ m.attacked = b.pieceIndexes[m.to]
      /\ m.type \in {TYPE_NORMAL} \cup PromotionTypes /\ (m.source # PAWN => m.type = TYPE_NORMAL)
  BY DEF PlainMove
<1>3. m.attacked = EMPTY => m.to \in Empties(b)
  <2>1. m.to \in b.allPieces => \E c \in Colors, p \in PieceTypes : m.to \in b.pieces[c][p]
    BY <1>1, <1>2, AllIs
  <2>2. m.to \in b.allPieces => m.attacked \in PieceTypes
    BY <1>1, <1>2, <2>1, FriendIs
  <2> QED BY <1>2, <2>2, TypesDiffer DEF Empties
<1>4. m.attacked # EMPTY => m.to \in Enemies(b) /\ m.to \in b.pieces[them][m.attacked]
  <2> SUFFICES ASSUME m.attacked # EMPTY PROVE m.to \in Enemies(b) /\ m.to \in b.pieces[them][m.attacked]
    OBVIOUS
  <2>1. m.to \in b.allPieces
    BY <1>1, <1>2 DEF WhoIsWhere
  <2>2. PICK c \in Colors, p \in PieceTypes : m.to \in b.pieces[c][p]
    BY <1>1, <1>2, <2>1, AllIs
  <2>3. m.to \in b.friendlyPieces[c] /\ p = m.attacked
    BY <1>1, <1>2, <2>2, FriendIs
  <2> QED BY <1>1, <1>2, <2>2, <2>3 DEF Enemies
<1>5. ~is_castling(m) /\ ~is_ep(m)
  BY <1>2, TypesDiffer DEF is_castling, is_ep
<1>6. CASE m.source # PAWN
  <2>1. m.type = TYPE_NORMAL /\ m.from \in Ours(b, m.source)
    BY <1>2, <1>6 DEF Ours
  <2>2. CASE m.attacked = EMPTY
    BY <1>2, <2>1, <2>2, <1>3, <1>4, <1>5, <1>6, PlainFits DEF create_move, create_attack
  <2>3. CASE m.attacked # EMPTY
    BY <1>2, <2>1, <1>3, <1>4, <1>5, <1>6, <2>3, PlainFits DEF create_attack
  <2> QED BY <2>2, <2>3
<1>7. CASE m.source = PAWN
  <2> DEFINE fwd == m.from + Forward(us)
             way == IN_BETWEEN[m.from][m.to]
  <2>1. m.from \in Ours(b, PAWN) /\ m.attacked \in EMPTY..KING
    BY <1>1, <1>2, <1>7 DEF Ours, PlacesTyped
  <2>2. /\ m.to # m.from
        /\ way # {} => way = {fwd} /\ m.to = m.from + 2 * Forward(us) /\ fwd \in Empties(b) /\ m.attacked = EMPTY
    <3>1. CASE m.to \in PAWN_ATTACKS[us][m.from]
      BY <1>1, <1>2, <3>1, PawnCaptureClear
    <3>2. CASE m.to = fwd
      <4>1. PICK c, s : c = us /\ s = m.from
        OBVIOUS
      <4>2. c \in Colors /\ s \in Squares /\ s + Forward(c) \in Squares
        BY <1>1, <1>2, <3>2, <4>1
      <4>3. IN_BETWEEN[s][s + Forward(c)] = {}
        BY ONLY <4>2, PawnStepClear
      <4>4. s + Forward(c) # s
        BY <4>2 DEF Forward, Squares
      <4> QED BY <3>2, <4>1, <4>3, <4>4
    <3>3. CASE m.to = m.from + 2 * Forward(us) /\ m.attacked = EMPTY /\ fwd \in Empties(b)
      <4>1. PICK c, s : c = us /\ s = m.from
        OBVIOUS
      <4>2. c \in Colors /\ s \in Squares /\ s + 2 * Forward(c) \in Squares
        BY <1>1, <1>2, <3>3, <4>1
      <4>3. IN_BETWEEN[s][s + 2 * Forward(c)] \subseteq {s + Forward(c)}
        BY ONLY <4>2, PawnDoubleStep
      <4>4. s + 2 * Forward(c) # s
        BY <4>2 DEF Forward, Squares
      <4> QED BY <3>3, <4>1, <4>3, <4>4
    <3> QED BY <1>7, <3>1, <3>2, <3>3 DEF PlainMove
  <2>3. MoveOK(b, [from |-> m.from, to |-> m.to, source |-> PAWN, attacked |-> m.attacked, type |-> m.type])
    BY <1>3, <1>2, <1>4, <2>1, <2>2, PawnFits DEF Empties
  <2> QED BY <1>2, <1>3, <1>4, <1>5, <1>7, <2>3
<1> QED BY <1>6, <1>7

\* and it takes no king.
LEMMA PlainFacts ==
  ASSUME NEW b, Sound(b), KingSafe(b), NEW m, PlainMove(b, m)
  PROVE  OrdinaryFacts(b, m) /\ OrdinaryFits(b, m) /\ m.attacked # KING
<1> DEFINE us == b.colorToMove
           t == b.kingIndex[Opponent(us)]
<1>1. MoveOK(b, m) /\ ~is_castling(m) /\ (m.attacked # EMPTY => m.to \in b.pieces[Opponent(us)][m.attacked])
  BY PlainOK
<1>2. m.attacked # KING
  <2> SUFFICES ASSUME m.attacked = KING PROVE FALSE
    OBVIOUS
  <2>1. us \in Colors /\ m.to = t /\ t \in Squares /\ m.attacked # EMPTY
    BY <1>1, SoundSays, TypesDiffer
  <2>2. m.source \in PieceTypes /\ m.from \in b.pieces[us][m.source] /\ m.from \in Squares
    BY DEF PlainMove
  <2>3. Aims(m.source, us, m.from, t) /\ IN_BETWEEN[m.from][t] \cap b.allPieces = {}
    <3>1. CASE m.source = PAWN
      BY <2>1, <3>1, <2>2, AimsAre, StepsClear DEF PlainMove
    <3> QED BY <2>1, <3>1 DEF PlainMove
  <2> QED BY <2>2, <2>3 DEF Hits, KingSafe
<1> QED BY <1>1, <1>2, FactsOfMove DEF MoveOK

\* A capture en passant that the laws list is one that a board can make.
LEMMA EpFacts ==
  ASSUME NEW b, Sound(b), NEW s, s \in b.pieces[b.colorToMove][PAWN], b.epIndex # 0,
         b.epIndex \in PAWN_ATTACKS[b.colorToMove][s], NEW m, m = create_ep(s, b.epIndex)
  PROVE  MoveOK(b, m) /\ OrdinaryFacts(b, m) /\ is_ep(m) /\ ~is_castling(m) /\ m.from = s
<1>1. b.colorToMove \in Colors /\ s \in Squares /\ b.epIndex \in Squares /\ b.epIndex \notin b.allPieces /\ s \in b.allPieces
  BY SoundSays, TypesDiffer DEF Sound, EpSound
<1>2. m.from = s /\ m.to = b.epIndex /\ m.source = PAWN /\ m.attacked = PAWN /\ m.type = TYPE_EP
  BY DEF create_ep
<1>3. IN_BETWEEN[s][b.epIndex] = {}
  BY <1>1, PawnCaptureClear
<1>4. EpFits(b, m)
  BY <1>2, <1>3 DEF EpFits
<1>5. OrdinaryFits(b, m)
  BY <1>1, <1>2, <1>4, TypesDiffer DEF OrdinaryFits, is_promotion
<1>6. MoveOK(b, m) /\ is_ep(m) /\ ~is_castling(m)
  BY <1>1, <1>2, <1>5, TypesDiffer DEF MoveOK, MoveFits, is_castling, is_ep
<1> QED BY <1>2, <1>6, FactsOfMove, TypesDiffer

\* No check after a move: the board is one on which the king is safe.
LEMMA NoCheckMeans ==
  ASSUME NEW b, Sound(b), NEW x, Sound(x), x.colorToMove = Opponent(b.colorToMove),
         NEW at, at = PositionOf(x).at, NEW pos, pos = PositionOf(b), Checkers([pos EXCEPT !.at = at], pos.side) = {}
  PROVE  KingSafe(x)
<1> DEFINE us == b.colorToMove
           them == Opponent(us)
           new == [pos EXCEPT !.at = at]
<1>1. us \in Colors /\ them \in Colors /\ Opponent(them) = us /\ Laid(x) /\ Laid(b)
  BY SoundSays, SoundLaid
<1>2. new.at = at /\ pos.side = us /\ Checkers(new, us) = {}
  BY DEF PositionOf
<1> HIDE DEF new
<1>3. KingSquare(new, us) = KingSquare(PositionOf(x), us)
  BY <1>2 DEF KingSquare
<1>4. Checkers(PositionOf(x), us) = {}
  BY <1>2, <1>3 DEF Checkers
<1>5. \A s : ~Hits(x.pieces, them, PieceTypes, s, x.kingIndex[us], x.allPieces)
  BY <1>1, <1>4, CheckersAre
<1> QED BY <1>1, <1>5 DEF KingSafe

-----------------------------------------------------------------------------
(***************************************************************************)
(* A legal step of the king is generated.                                  *)
(***************************************************************************)

\* No piece aims at its own square.
LEMMA AimsElsewhere ==
  ASSUME NEW p \in PieceTypes, NEW c \in Colors, NEW s \in Squares, NEW t \in Squares, Aims(p, c, s, t)
  PROVE  s # t
<1>1. CASE p \in {PAWN, NIGHT, KING}
  BY <1>1, AimsAre, Coordinates, StepsAre
<1>2. CASE p \notin {PAWN, NIGHT, KING}
  <2>1. p \in BISHOP..QUEEN
    BY <1>2, PieceCodes
  <2>2. t \in queen_moves_empty[s]
    BY <2>1, SlidersAim, ReachBothWays
  <2>3. LINE_STEP[s][t] # 0
    BY <2>2 DEF queen_moves_empty, rook_moves_empty, bishop_moves_empty
  <2>4. RankOf(s) \in 0..7 /\ FileOf(s) \in 0..7 /\ RankOf(t) \in 0..7 /\ FileOf(t) \in 0..7
    BY Coordinates
  <2> QED BY <2>3, <2>4, LineStepIs
<1> QED BY <1>1, <1>2

\* A square is safe for the king when no enemy piece sees it past the square that
\* the king leaves.
LEMMA SafeIs ==
  ASSUME NEW b, Sound(b), KeyTells(b), NEW from \in b.allPieces, NEW t \in Squares,
         NEW them, them = Opponent(b.colorToMove), NEW occupied, occupied = b.allPieces \ {from}
  PROVE  IsSafeForKing(b, from, t, EnemyHasMajor(b)) <=> \A s : ~Hits(b.pieces, them, PieceTypes, s, t, occupied)
<1>1. PICK us : us = b.colorToMove /\ us \in Colors /\ them \in Colors /\ us = Opponent(them) /\ b.pieces \in Men
  BY SoundSays
<1>2. b.allPieces (+) {from} = occupied
  BY DEF (+)
<1>3. EnemyHasMajor(b) \in BOOLEAN /\ (~EnemyHasMajor(b) => \A q \in NIGHT..QUEEN : b.pieces[them][q] = {})
  BY <1>1 DEF KeyTells, EnemyHasMajor, has_major_pieces
<1>4. IsSafeForKing(b, from, t, EnemyHasMajor(b)) <=> ~is_in_check_including_king(t, us, b.pieces[them], occupied, EnemyHasMajor(b))
  BY <1>1, <1>2 DEF IsSafeForKing, Enemy
<1>5. CASE EnemyHasMajor(b) = TRUE
  BY <1>1, <1>4, <1>5, CheckIs
<1>6. CASE EnemyHasMajor(b) = FALSE
  <2>1. \A s : Hits(b.pieces, them, PieceTypes, s, t, occupied) <=> Hits(b.pieces, them, {PAWN, KING}, s, t, occupied)
    BY <1>3, <1>6, PieceCodes DEF Hits
  <2>2. is_in_check_including_king(t, us, b.pieces[them], occupied, FALSE) <=> \E s : Hits(b.pieces, them, {PAWN, KING}, s, t, occupied)
    BY <1>1, CheckIs
  <2> QED BY <1>4, <1>6, <2>1, <2>2
<1> QED BY <1>3, <1>5, <1>6

\* A step of the king is safe when its target is.
LEMMA KingStepIs ==
  ASSUME NEW b, Sound(b), KeyTells(b), NEW m, OrdinaryFacts(b, m), OrdinaryFits(b, m), m.source = KING,
         NEW x, x = DoOrdinaryMove(b, m)
  PROVE  IsSafeForKing(b, m.from, m.to, EnemyHasMajor(b)) <=> KingSafe(x)
<1>1. PICK us, them : us = b.colorToMove /\ them = Opponent(us)
  OBVIOUS
<1>2. us \in Colors /\ them \in Colors /\ Opponent(them) = us /\ b.pieces \in Men /\ b.allPieces \subseteq Squares
  BY <1>1, SoundSays
<1>3. /\ x.colorToMove = them /\ x.kingIndex[us] = m.to /\ m.from \in b.allPieces /\ m.from # m.to /\ m.to \in Squares
      /\ m.from \in Squares /\ x.allPieces \subseteq Squares
      /\ \A s \in Squares : s \in x.allPieces <=> s = m.to \/ (s \in b.allPieces /\ s # m.from /\ s \notin Captured(b, m))
  BY <1>1, OrdinaryNow
<1>4. Captured(b, m) \subseteq {m.to}
  <2>1. ~is_ep(m)
    BY DEF OrdinaryFits, is_ep, KING, PAWN
  <2> QED BY <2>1, OrdinaryNow
<1>5. PICK occupied : occupied = b.allPieces \ {m.from}
  OBVIOUS
<1>6. \A s : s \in Squares => (IN_BETWEEN[s][m.to] \cap x.allPieces = {} <=> IN_BETWEEN[s][m.to] \cap occupied = {})
  <2> SUFFICES ASSUME NEW s \in Squares
               PROVE  IN_BETWEEN[s][m.to] \cap x.allPieces = {} <=> IN_BETWEEN[s][m.to] \cap occupied = {}
    OBVIOUS
  <2>1. \A u \in IN_BETWEEN[s][m.to] : u \in Squares /\ u # m.to
    BY <1>3, BetweenLines
  <2> QED BY <1>3, <1>4, <1>5, <2>1
<1>7. \A p \in PieceTypes : \A s : s \in x.pieces[them][p] <=> s \in b.pieces[them][p] /\ s \notin Captured(b, m)
  <2> SUFFICES ASSUME NEW p \in PieceTypes, NEW s PROVE s \in x.pieces[them][p] <=> s \in b.pieces[them][p] /\ s \notin Captured(b, m)
    OBVIOUS
  <2>1. s \in x.pieces[them][p] => s \in b.pieces[them][p] /\ s \notin Captured(b, m)
    BY <1>1, OthersNow
  <2>2. ASSUME s \in b.pieces[them][p], s \notin Captured(b, m) PROVE s \in x.pieces[them][p]
    <3>1. s \in Squares /\ PlacesTyped(b) /\ WhoIsWhere(b) /\ them # us
      BY <1>1, <1>2, <2>2, SoundSays
    <3>2. m.from \in b.pieces[us][KING] /\ KING \in PieceTypes
      BY <1>1, PieceCodes DEF OrdinaryFacts
    <3>3. s # m.from
      BY <1>2, <2>2, <3>1, <3>2, FriendIs
    <3> QED BY <1>2, <2>2, <3>1, <3>3, OrdinaryStands
  <2> QED BY <2>1, <2>2
<1>8. \A s : Hits(x.pieces, them, PieceTypes, s, m.to, x.allPieces) <=> Hits(b.pieces, them, PieceTypes, s, m.to, occupied)
  <2> SUFFICES ASSUME NEW s, NEW p \in PieceTypes
               PROVE  /\ s \in x.pieces[them][p] /\ Aims(p, them, s, m.to) /\ IN_BETWEEN[s][m.to] \cap x.allPieces = {}
                         => s \in b.pieces[them][p] /\ IN_BETWEEN[s][m.to] \cap occupied = {}
                      /\ s \in b.pieces[them][p] /\ Aims(p, them, s, m.to) /\ IN_BETWEEN[s][m.to] \cap occupied = {}
                         => s \in x.pieces[them][p] /\ IN_BETWEEN[s][m.to] \cap x.allPieces = {}
    BY DEF Hits
  <2>1. s \in b.pieces[them][p] => s \in Squares
    BY <1>2, SoundSays
  <2>2. s \in b.pieces[them][p] /\ Aims(p, them, s, m.to) => s # m.to
    BY <1>2, <1>3, <2>1, AimsElsewhere
  <2> QED BY <1>4, <1>6, <1>7, <2>1, <2>2
<1>9. IsSafeForKing(b, m.from, m.to, EnemyHasMajor(b)) <=> \A s : ~Hits(b.pieces, them, PieceTypes, s, m.to, occupied)
  <2>1. PICK f, t : f = m.from /\ t = m.to
    OBVIOUS
  <2>2. Sound(b) /\ KeyTells(b) /\ f \in b.allPieces /\ t \in Squares /\ them = Opponent(b.colorToMove) /\ occupied = b.allPieces \ {f}
    BY <1>1, <1>3, <1>5, <2>1
  <2>3. IsSafeForKing(b, f, t, EnemyHasMajor(b)) <=> \A s : ~Hits(b.pieces, them, PieceTypes, s, t, occupied)
    BY ONLY <2>2, SafeIs
  <2> QED BY <2>1, <2>3
<1>10. KingSafe(x) <=> \A s : ~Hits(x.pieces, them, PieceTypes, s, m.to, x.allPieces)
  BY <1>2, <1>3 DEF KingSafe
<1> QED BY <1>8, <1>9, <1>10

\* Out of check, and in check by one piece.
LEMMA GeneratorIs ==
  ASSUME NEW b
  PROVE  /\ b.checkingPieces = {} => /\ generateMoves(b) = generateNotInCheckMoves(b)
                                     /\ generateAttacks(b) = generateNotInCheckAttacks(b)
         /\ \A c \in Squares : b.checkingPieces = {c} =>
              /\ Checker(b) = c /\ generateAttacks(b) = generateOutOfCheckAttacks(b)
              /\ b.pieceIndexes[c] \notin {PAWN, NIGHT} => generateMoves(b) = generateOutOfSlidingCheckMoves(b)
<1>1. b.checkingPieces = {} => Cardinality(b.checkingPieces) # 1
  BY FS_EmptySet
<1>2. ASSUME NEW c \in Squares, b.checkingPieces = {c}
      PROVE  Cardinality(b.checkingPieces) = 1 /\ b.checkingPieces # {} /\ Checker(b) = c
  BY FS_Singleton, LeastOfOne, <1>2 DEF Checker
<1> QED BY <1>1, <1>2 DEF generateMoves, generateAttacks

\* The king may always move.
LEMMA KingAlways ==
  ASSUME NEW b
  PROVE  addKingMoves(b) \subseteq generateMoves(b) /\ addKingAttacks(b) \subseteq generateAttacks(b)
<1>1. CASE b.checkingPieces = {}
  BY <1>1, GeneratorIs DEF generateNotInCheckMoves, generateNotInCheckAttacks
<1>2. CASE b.checkingPieces # {} /\ Cardinality(b.checkingPieces) = 1
  <2>1. generateAttacks(b) = generateOutOfCheckAttacks(b)
    BY <1>2 DEF generateAttacks
  <2>2. generateMoves(b) = addKingMoves(b) \/ generateMoves(b) = generateOutOfSlidingCheckMoves(b)
    BY <1>2 DEF generateMoves
  <2>3. addKingMoves(b) \subseteq generateOutOfSlidingCheckMoves(b)
    BY DEF generateOutOfSlidingCheckMoves
  <2>4. addKingAttacks(b) \subseteq generateOutOfCheckAttacks(b)
    BY DEF generateOutOfCheckAttacks
  <2> QED BY <2>1, <2>2, <2>3, <2>4
<1>3. CASE b.checkingPieces # {} /\ Cardinality(b.checkingPieces) # 1
  BY <1>3 DEF generateMoves, generateAttacks
<1> QED BY <1>1, <1>2, <1>3

\* Every step of the king to a safe square is generated.
LEMMA KingGenerated ==
  ASSUME NEW b, Sound(b), NEW m, PlainMove(b, m), m.source = KING, IsSafeForKing(b, m.from, m.to, EnemyHasMajor(b))
  PROVE  m \in generateMoves(b) \cup generateAttacks(b)
<1>1. /\ m.from = OurKing(b) /\ m.to \in KING_MOVES[m.from] /\ m.type = TYPE_NORMAL /\ m.attacked = b.pieceIndexes[m.to]
      /\ m = [from |-> m.from, to |-> m.to, source |-> m.source, attacked |-> m.attacked, type |-> m.type]
  BY PieceCodes, SoundSays, AimsAre DEF PlainMove, OurKing
<1>2. (m.attacked = EMPTY => m.to \in Empties(b)) /\ (m.attacked # EMPTY => m.to \in Enemies(b))
  BY PlainOK
<1>3. CASE m.attacked = EMPTY
  <2>1. m = create_move(OurKing(b), m.to, KING)
    BY <1>1, <1>3 DEF create_move, create_attack
  <2>2. m.to \in SafeKingSquares(b, Empties(b))
    BY <1>1, <1>2, <1>3 DEF SafeKingSquares
  <2>3. m \in addKingMoves(b)
    BY <2>1, <2>2 DEF addKingMoves
  <2> QED BY <2>3, KingAlways
<1>4. CASE m.attacked # EMPTY
  <2>1. m = create_attack(OurKing(b), m.to, KING, b.pieceIndexes[m.to])
    BY <1>1, <1>4 DEF create_attack
  <2>2. m.to \in SafeKingSquares(b, Enemies(b))
    BY <1>1, <1>2, <1>4 DEF SafeKingSquares
  <2>3. m \in addKingAttacks(b)
    BY <2>1, <2>2 DEF addKingAttacks
  <2> QED BY <2>3, KingAlways
<1> QED BY <1>3, <1>4

\* A move of another piece that leaves the king safe passes the filter.
LEMMA SafeIsLegal ==
  ASSUME NEW b, Sound(b), NEW m, OrdinaryFacts(b, m), ~is_ep(m), m.source # KING,
         NEW x, x = DoOrdinaryMove(b, m), KingSafe(x)
  PROVE  isLegal(b, m)
<1>1. CASE m.attacked # EMPTY
  BY <1>1 DEF isLegal
<1>2. CASE m.attacked = EMPTY
  <2>1. PICK us, them, k : us = b.colorToMove /\ them = Opponent(us) /\ k = b.kingIndex[us]
    OBVIOUS
  <2>2. /\ us \in Colors /\ them \in Colors /\ Opponent(them) = us /\ them # us /\ k \in Squares /\ b.pieces \in Men
        /\ b.allPieces \subseteq Squares /\ PlacesTyped(b) /\ WhoIsWhere(b)
    BY <2>1, SoundSays
  <2>3. /\ x.colorToMove = them /\ x.kingIndex[us] = k /\ x.allPieces \subseteq Squares /\ m.to \notin b.allPieces
        /\ m.from \in b.allPieces /\ m.from \in Squares /\ m.to \in Squares /\ m.from # m.to /\ Captured(b, m) = {}
        /\ \A s \in Squares : s \in x.allPieces <=> s = m.to \/ (s \in b.allPieces /\ s # m.from /\ s \notin Captured(b, m))
    BY <1>2, <2>1, OrdinaryNow
  <2>4. b.allPieces (+) {m.from} (+) {m.to} = x.allPieces
    <3>1. \A s \in Squares : s \in b.allPieces (+) {m.from} (+) {m.to} <=> s \in x.allPieces
      BY <2>3 DEF (+)
    <3>2. b.allPieces (+) {m.from} (+) {m.to} \subseteq Squares
      BY <2>2, <2>3 DEF (+)
    <3> QED BY <2>3, <3>1, <3>2
  <2>5. \A p \in PieceTypes : \A s \in b.pieces[them][p] : s \in x.pieces[them][p]
    <3> SUFFICES ASSUME NEW p \in PieceTypes, NEW s \in b.pieces[them][p] PROVE s \in x.pieces[them][p]
      OBVIOUS
    <3>1. m.from \in b.pieces[us][m.source] /\ m.source \in PieceTypes
      BY <2>1 DEF OrdinaryFacts
    <3>2. s # m.from
      BY <2>2, <3>1, FriendIs
    <3>3. s \in Squares
      BY <2>2, SoundSays
    <3> QED BY <2>2, <2>3, <3>2, <3>3, OrdinaryStands
  <2>6. \A s : ~Hits(b.pieces, them, PAWN..QUEEN, s, k, x.allPieces)
    <3> SUFFICES ASSUME NEW s, Hits(b.pieces, them, PAWN..QUEEN, s, k, x.allPieces) PROVE FALSE
      OBVIOUS
    <3>1. PAWN..QUEEN \subseteq PieceTypes
      BY PieceCodes
    <3>2. Hits(x.pieces, them, PieceTypes, s, k, x.allPieces)
      BY <2>5, <3>1 DEF Hits
    <3> QED BY <2>2, <2>3, <3>2 DEF KingSafe
  <2>7. ~is_in_check_super(k, us, b.pieces[them], x.allPieces)
    BY <2>2, <2>6, CheckIs
  <2>8. isLegalNonKingMove(b, m)
    BY <2>1, <2>4, <2>7 DEF isLegalNonKingMove, OurKing, Enemy
  <2> QED BY <1>2, <2>8 DEF isLegal
<1> QED BY <1>1, <1>2

-----------------------------------------------------------------------------
(***************************************************************************)
(* A legal move of another piece is generated.                             *)
(***************************************************************************)

\* The squares of a pin are on one line with the pinned piece and the king.
LEMMA PinLineIs ==
  ASSUME NEW k \in Squares, NEW s \in Squares, NEW t \in PINNED_MOVEMENT[s][k]
  PROVE  t \in Squares /\ (t = s \/ OnLine(k, t, s) \/ OnLine(k, s, t))
<1>1. t = s \/ t \in IN_BETWEEN[k][s] \/ (t \in Squares /\ s \in IN_BETWEEN[k][t])
  BY DEF PINNED_MOVEMENT
<1> QED BY <1>1, BetweenIs

\* No knight jumps along a line.
LEMMA JumpsOff ==
  ASSUME NEW k \in Squares, NEW s \in Squares, NEW t \in KNIGHT_MOVES[s]
  PROVE  t \notin PINNED_MOVEMENT[s][k]
<1> SUFFICES ASSUME t \in PINNED_MOVEMENT[s][k] PROVE FALSE
  OBVIOUS
<1>1. t \in Squares /\ (t = s \/ OnLine(k, t, s) \/ OnLine(k, s, t))
  BY PinLineIs
<1>2. WHITE \in Colors
  BY DEF Colors, WHITE, BLACK
<1>3. \/ FileOf(t) - FileOf(s) \in {-1, 1} /\ RankOf(t) - RankOf(s) \in {-2, 2}
      \/ FileOf(t) - FileOf(s) \in {-2, 2} /\ RankOf(t) - RankOf(s) \in {-1, 1}
  BY <1>1, <1>2, StepsAre
<1>4. /\ RankOf(k) \in 0..7 /\ FileOf(k) \in 0..7 /\ RankOf(s) \in 0..7 /\ FileOf(s) \in 0..7
      /\ RankOf(t) \in 0..7 /\ FileOf(t) \in 0..7
  BY <1>1, Coordinates
<1> QED BY <1>1, <1>3, <1>4, SMT DEF OnLine, Amid

\* A pinned piece stands alone between its king and a slider.
LEMMA PinnedAlone ==
  ASSUME NEW b, Sound(b), KeyTells(b), PinsFit(b), b.pinnedPiecesDirty = FALSE, NEW us, us = b.colorToMove,
         NEW s \in b.pinnedPieces, s \in b.friendlyPieces[us]
  PROVE  Alone(b, us, s)
<1>1. us \in Colors /\ PlacesTyped(b) /\ WhoIsWhere(b) /\ \A c \in Colors : c # us => c = Opponent(us)
  BY SoundSays, ColorsTwo
<1>2. PICK c \in Colors : s \in LoneBlockers(b, c) /\ s \in b.friendlyPieces[c]
  BY DEF PinsFit, PinsOf
<1>3. c = us
  <2>1. s \in Squares
    BY <1>1, <1>2 DEF PlacesTyped
  <2>2. PICK p \in PieceTypes : s \in b.pieces[us][p]
    BY <1>1, <2>1 DEF WhoIsWhere
  <2> QED BY <1>1, <1>2, <2>2, FriendIs
<1> QED BY <1>2, <1>3, LoneAre

\* The piece that checks from afar is a slider.
LEMMA CheckerSlides ==
  ASSUME NEW b, Sound(b), ChecksFit(b), NEW c \in Squares, b.checkingPieces = {c}
  PROVE  /\ IN_BETWEEN[OurKing(b)][c] \cap b.allPieces = {} /\ c \in Enemies(b)
         /\ IN_BETWEEN[OurKing(b)][c] # {} => b.pieceIndexes[c] \in BISHOP..QUEEN
<1>1. PICK us, them, k : us = b.colorToMove /\ them = Opponent(us) /\ k = b.kingIndex[us]
  OBVIOUS
<1>2. us \in Colors /\ them \in Colors /\ k \in Squares /\ PlacesTyped(b) /\ WhoIsWhere(b)
  BY <1>1, SoundSays
<1>3. Hits(b.pieces, them, PAWN..QUEEN, c, k, b.allPieces)
  BY <1>1, CheckerHits
<1>4. PICK p \in PAWN..QUEEN : c \in b.pieces[them][p] /\ Aims(p, them, c, k) /\ IN_BETWEEN[c][k] \cap b.allPieces = {}
  BY <1>3 DEF Hits
<1>5. IN_BETWEEN[c][k] = IN_BETWEEN[k][c] /\ p \in PieceTypes
  BY <1>2, LinesBothWays, PieceCodes
<1>6. b.pieceIndexes[c] = p /\ c \in b.friendlyPieces[them]
  BY <1>2, <1>4, <1>5, FriendIs
<1>7. IN_BETWEEN[c][k] # {} => p \in BISHOP..QUEEN
  BY <1>2, <1>4, <1>5, AimsFar
<1> QED BY <1>1, <1>4, <1>5, <1>6, <1>7 DEF OurKing, Enemies

\* Every move of a piece that answers the checks and the pins is generated.
LEMMA PieceGenerated ==
  ASSUME NEW b, Sound(b), ChecksFit(b), NEW m, PlainMove(b, m), m.source \in NIGHT..QUEEN, Answers(b, m)
  PROVE  m \in generateMoves(b) \cup generateAttacks(b)
<1>1. PICK us, p, s, t : us = b.colorToMove /\ p = m.source /\ s = m.from /\ t = m.to
  OBVIOUS
<1>2. /\ s \in Squares /\ t \in Squares /\ p \in NIGHT..QUEEN /\ s \in Ours(b, p) /\ us \in Colors
      /\ Aims(p, us, s, t) /\ IN_BETWEEN[s][t] \cap b.allPieces = {} /\ m.type = TYPE_NORMAL /\ m.attacked = b.pieceIndexes[t]
      /\ m = [from |-> m.from, to |-> m.to, source |-> m.source, attacked |-> m.attacked, type |-> m.type]
  BY <1>1, SoundSays, PieceCodes DEF PlainMove, Ours
<1>3. t \in Reach(b, p, s)
  <2>1. p \in {NIGHT, BISHOP, ROOK, QUEEN}
    BY <1>2, PieceCodes
  <2>2. CASE p = NIGHT
    BY <1>2, <2>2, AimsAre, PieceCodes DEF Reach
  <2>3. CASE p = BISHOP
    BY <1>2, <2>3, AimsAre, PieceCodes DEF Reach, bishop_moves, Unblocked
  <2>4. CASE p = ROOK
    BY <1>2, <2>4, AimsAre, PieceCodes DEF Reach, rook_moves, Unblocked
  <2>5. CASE p = QUEEN
    BY <1>2, <2>5, AimsAre, PieceCodes DEF queen_moves_empty, Reach, queen_moves, rook_moves, bishop_moves, Unblocked
  <2> QED BY <2>1, <2>2, <2>3, <2>4, <2>5
<1>4. (m.attacked = EMPTY => t \in Empties(b)) /\ (m.attacked # EMPTY => t \in Enemies(b))
  BY <1>1, PlainOK
<1>5. \A froms, possible : s \in froms /\ t \in possible =>
        /\ m.attacked = EMPTY => m \in addMoves(b, p, froms, possible)
        /\ m.attacked # EMPTY => m \in addAttacks(b, p, froms, possible)
  <2> SUFFICES ASSUME NEW froms, NEW possible, s \in froms, t \in possible
               PROVE  /\ m.attacked = EMPTY => m \in addMoves(b, p, froms, possible)
                      /\ m.attacked # EMPTY => m \in addAttacks(b, p, froms, possible)
    OBVIOUS
  <2>1. m = create_attack(s, t, p, b.pieceIndexes[t]) /\ (m.attacked = EMPTY => m = create_move(s, t, p))
    BY <1>1, <1>2 DEF create_move, create_attack
  <2>2. t \in Reach(b, p, s) \cap possible
    BY <1>3
  <2> QED BY <2>1, <2>2 DEF addMoves, addAttacks
<1>6. CASE b.checkingPieces = {} /\ s \notin b.pinnedPieces
  <2>1. s \in Unpinned(b, p)
    BY <1>2, <1>6 DEF Unpinned
  <2>2. CASE m.attacked = EMPTY
    BY <1>4, <1>5, <2>1, <2>2, <1>2, <1>6, GeneratorIs DEF generateNotInCheckMoves
  <2>3. CASE m.attacked # EMPTY
    BY <1>4, <1>5, <2>1, <2>3, <1>2, <1>6, GeneratorIs DEF generateNotInCheckAttacks
  <2> QED BY <2>2, <2>3
<1>7. CASE s \in b.pinnedPieces
  <2>1. b.checkingPieces = {} /\ t \in PinLine(b, s)
    BY <1>1, <1>7 DEF Answers
  <2>2. OurKing(b) \in Squares /\ PlacesTyped(b) /\ WhoIsWhere(b)
    BY SoundSays DEF OurKing
  <2>3. p # NIGHT
    BY <1>2, <2>1, <2>2, AimsAre, JumpsOff DEF PinLine
  <2>4. s \in b.friendlyPieces[us] /\ b.pieceIndexes[s] = p /\ p \in BISHOP..QUEEN
    BY <1>2, <2>3, PieceCodes, <1>1, <2>2, FriendIs DEF Ours
  <2>5. s \in PinnedOurs(b, BISHOP..QUEEN)
    BY <1>1, <1>7, <2>4 DEF PinnedOurs
  <2>6. CASE m.attacked = EMPTY
    BY <1>4, <1>5, <2>1, <2>4, <2>6, <2>5, GeneratorIs DEF generateNotInCheckMoves
  <2>7. CASE m.attacked # EMPTY
    BY <1>4, <1>5, <2>1, <2>4, <2>7, <2>5, GeneratorIs DEF generateNotInCheckAttacks
  <2> QED BY <2>6, <2>7
<1>8. CASE b.checkingPieces # {} /\ s \notin b.pinnedPieces
  <2>1. PICK c \in Squares : b.checkingPieces = {c} /\ (t = c \/ t \in IN_BETWEEN[OurKing(b)][c])
    BY <1>1, <1>8 DEF Answers
  <2>2. s \in Unpinned(b, p)
    BY <1>2, <1>8 DEF Unpinned
  <2>3. /\ IN_BETWEEN[OurKing(b)][c] \cap b.allPieces = {} /\ c \in Enemies(b)
        /\ IN_BETWEEN[OurKing(b)][c] # {} => b.pieceIndexes[c] \in BISHOP..QUEEN
    BY <2>1, CheckerSlides
  <2>4. (\A q \in Enemies(b) : q \in b.allPieces) /\ (\A q \in Empties(b) : q \notin b.allPieces)
    BY GeneratorSees
  <2>5. CASE m.attacked = EMPTY
    <3>1. t \in IN_BETWEEN[OurKing(b)][c]
      BY <1>4, <2>1, <2>3, <2>4, <2>5
    <3>2. b.pieceIndexes[c] \notin {PAWN, NIGHT} /\ Checker(b) = c /\ generateMoves(b) = generateOutOfSlidingCheckMoves(b)
      BY <2>1, <2>3, <3>1, GeneratorIs, PieceCodes
    <3>3. m \in addMoves(b, p, Unpinned(b, p), IN_BETWEEN[OurKing(b)][c])
      BY <1>5, <2>2, <2>5, <3>1
    <3>4. m \in generateOutOfSlidingCheckMoves(b)
      BY <1>2, <3>1, <3>2, <3>3 DEF generateOutOfSlidingCheckMoves
    <3> QED BY <3>2, <3>4
  <2>6. CASE m.attacked # EMPTY
    <3>1. t \in b.checkingPieces
      BY <1>4, <2>1, <2>3, <2>4, <2>6
    <3>2. m \in addAttacks(b, p, Unpinned(b, p), b.checkingPieces)
      BY <1>5, <2>2, <2>6, <3>1
    <3>3. m \in generateOutOfCheckAttacks(b)
      BY <1>2, <3>2 DEF generateOutOfCheckAttacks
    <3> QED BY <2>1, <3>3, GeneratorIs
  <2> QED BY <2>5, <2>6
<1> QED BY <1>6, <1>7, <1>8

\* A pinned pawn does not promote ahead: the king or the piece that pins would
\* stand where it goes.
LEMMA PinnedPromotesNot ==
  ASSUME NEW b, Sound(b), NEW us, us = b.colorToMove, NEW s \in PromotionRank(us), Alone(b, us, s),
         NEW t \in Squares, t = s + Forward(us), t \notin b.allPieces
  PROVE  t \notin PinLine(b, s)
<1> SUFFICES ASSUME t \in PinLine(b, s) PROVE FALSE
  OBVIOUS
<1>1. PICK k : k = b.kingIndex[us]
  OBVIOUS
<1>2. us \in Colors /\ Opponent(us) \in Colors /\ k \in Squares /\ k \in b.allPieces /\ s \in Squares
  BY <1>1, SoundSays, PieceCodes DEF PromotionRank, Rank
<1>3. PICK a \in Squares : a \in b.allPieces /\ s \in IN_BETWEEN[a][k]
  <2>1. PICK a \in Squares : /\ \E p \in BISHOP..QUEEN : a \in b.pieces[Opponent(us)][p]
                             /\ IN_BETWEEN[a][k] \cap b.allPieces = {s}
    BY <1>1 DEF Alone
  <2>2. BISHOP..QUEEN \subseteq PieceTypes
    BY PieceCodes
  <2> QED BY <1>2, <2>1, <2>2, SoundSays
<1>4. OnLine(a, s, k)
  BY <1>2, <1>3, BetweenIs
<1>5. t = s \/ OnLine(k, t, s) \/ OnLine(k, s, t)
  BY <1>1, <1>2, PinLineIs DEF PinLine, OurKing
<1>6. RankOf(t) = RankOf(s) + Up(us) /\ FileOf(t) = FileOf(s)
  <2>1. us \in Colors /\ s \in Squares /\ t \in Squares /\ t = s + 1 * Forward(us)
    BY <1>2 DEF Forward
  <2>2. RankOf(t) = RankOf(s) + 1 * Up(us) /\ FileOf(t) = FileOf(s) /\ Target(s, <<0, Up(us)>>, 1) = t
    BY <2>1, PawnWays
  <2>3. 1 * Up(us) = Up(us)
    BY DEF Up
  <2> QED BY <2>2, <2>3
<1>7. RankOf(t) = LastRank(us)
  BY <1>2, <1>6, PawnRanks
<1>8. (Up(us) = 1 /\ LastRank(us) = 7) \/ (Up(us) = -1 /\ LastRank(us) = 0)
  BY <1>2 DEF Up, LastRank, Colors
<1>9. /\ RankOf(k) \in 0..7 /\ FileOf(k) \in 0..7 /\ RankOf(s) \in 0..7 /\ FileOf(s) \in 0..7
      /\ RankOf(t) \in 0..7 /\ FileOf(t) \in 0..7 /\ RankOf(a) \in 0..7 /\ FileOf(a) \in 0..7
      /\ k = 8 * RankOf(k) + FileOf(k) /\ a = 8 * RankOf(a) + FileOf(a) /\ t = 8 * RankOf(t) + FileOf(t)
  BY <1>2, <1>3, Coordinates
<1>10. FileOf(k) = FileOf(s)
  BY <1>5, <1>6, <1>8, <1>9, SMT DEF OnLine, Amid
<1>11. FileOf(a) = FileOf(s) /\ Amid(RankOf(a), RankOf(s), RankOf(k))
  BY <1>4, <1>9, <1>10, SMT DEF OnLine, Amid
<1>12. RankOf(k) = RankOf(t) \/ RankOf(a) = RankOf(t)
  BY <1>6, <1>7, <1>8, <1>9, <1>11, SMT DEF Amid
<1>13. k = t \/ a = t
  BY <1>6, <1>9, <1>10, <1>11, <1>12
<1> QED BY <1>2, <1>3, <1>13

\* Where the generator looks for a move of a pawn.
LEMMA PawnListed ==
  ASSUME NEW b, Sound(b), NEW m, PlainMove(b, m), m.source = PAWN, NEW us, us = b.colorToMove,
         NEW pawns, m.from \in pawns, NEW possible, m.to \in possible, NEW others
  PROVE  /\ m.attacked = EMPTY /\ m.from \notin PromotionRank(us) => m \in addPawnMoves(b, pawns, possible)
         /\ m.attacked = EMPTY /\ m.from \in PromotionRank(us) =>
              m.to = m.from + Forward(us) /\ m \in addPawnAttacksAndPromotions(b, pawns, others, possible)
         /\ m.attacked # EMPTY => m \in addPawnAttacksAndPromotions(b, pawns, possible, others)
<1>1. PICK s, t : s = m.from /\ t = m.to
  OBVIOUS
<1>2. /\ us \in Colors /\ s \in Squares /\ t \in Squares /\ m.attacked = b.pieceIndexes[t]
      /\ m = [from |-> s, to |-> t, source |-> PAWN, attacked |-> m.attacked, type |-> m.type]
      /\ m.type \in (IF s \in PromotionRank(us) THEN PromotionTypes ELSE {TYPE_NORMAL})
      /\ \/ t \in PAWN_ATTACKS[us][s] /\ m.attacked # EMPTY
         \/ t = s + Forward(us) /\ m.attacked = EMPTY
         \/ t = s + 2 * Forward(us) /\ m.attacked = EMPTY /\ s \in HomeRank(us) /\ s + Forward(us) \in Empties(b)
  BY <1>1, SoundSays DEF PlainMove
<1>3. ASSUME m.attacked = EMPTY, s \notin PromotionRank(us) PROVE m \in addPawnMoves(b, pawns, possible)
  BY <1>2, <1>3, <1>1 DEF create_move, create_attack, addPawnMoves
<1>4. ASSUME m.attacked = EMPTY, s \in PromotionRank(us)
      PROVE  t = s + Forward(us) /\ m \in addPawnAttacksAndPromotions(b, pawns, others, possible)
  BY <1>2, <1>4, PawnRanks, <1>1 DEF create_promotion_attack, addPawnAttacksAndPromotions
<1>5. ASSUME m.attacked # EMPTY PROVE m \in addPawnAttacksAndPromotions(b, pawns, possible, others)
  <2>1. t \in PAWN_ATTACKS[us][s]
    BY <1>2, <1>5
  <2>2. CASE s \in PromotionRank(us)
    BY <1>2, <2>2, <1>1, <2>1 DEF create_promotion_attack, addPawnAttacksAndPromotions
  <2>3. CASE s \notin PromotionRank(us)
    BY <1>2, <2>3, <1>1, <2>1 DEF create_attack, addPawnAttacksAndPromotions
  <2> QED BY <2>2, <2>3
<1> QED BY <1>1, <1>3, <1>4, <1>5

\* Every move of a pawn, not en passant, that answers the checks and the pins is
\* generated.
LEMMA PawnGenerated ==
  ASSUME NEW b, Sound(b), KeyTells(b), ChecksFit(b), PinsFit(b), b.pinnedPiecesDirty = FALSE,
         NEW m, PlainMove(b, m), m.source = PAWN, Answers(b, m)
  PROVE  m \in generateMoves(b) \cup generateAttacks(b)
<1>1. PICK us, s, t : us = b.colorToMove /\ s = m.from /\ t = m.to
  OBVIOUS
<1>2. /\ s \in Ours(b, PAWN) /\ s \in Squares /\ t \in Squares /\ s \in b.friendlyPieces[us] /\ b.pieceIndexes[s] = PAWN
      /\ (m.attacked = EMPTY => t \in Empties(b)) /\ (m.attacked # EMPTY => t \in Enemies(b))
  BY <1>1, SoundSays, PieceCodes, FriendIs, PlainOK DEF PlainMove, Ours
<1> DEFINE Advance(pawns, possible) == s \in pawns /\ t \in possible =>
             /\ m.attacked = EMPTY /\ s \notin PromotionRank(us) => m \in addPawnMoves(b, pawns, possible)
             /\ m.attacked = EMPTY /\ s \in PromotionRank(us) =>
                  t = s + Forward(us) /\ \A others : m \in addPawnAttacksAndPromotions(b, pawns, others, possible)
             /\ m.attacked # EMPTY => \A others : m \in addPawnAttacksAndPromotions(b, pawns, possible, others)
<1>3. \A pawns, possible : Advance(pawns, possible)
  BY <1>1, PawnListed
<1> HIDE DEF Advance
<1>4. CASE b.checkingPieces = {} /\ s \notin b.pinnedPieces
  <2>1. s \in Unpinned(b, PAWN)
    BY <1>2, <1>4 DEF Unpinned
  <2>2. CASE m.attacked = EMPTY /\ s \notin PromotionRank(us)
    BY <1>2, <1>3, <2>1, <2>2, <1>4, GeneratorIs DEF Advance, generateNotInCheckMoves
  <2>3. CASE m.attacked # EMPTY \/ s \in PromotionRank(us)
    BY <1>2, <1>3, <2>1, <2>3, <1>4, GeneratorIs DEF Advance, generateNotInCheckAttacks
  <2> QED BY <2>2, <2>3
<1>5. CASE s \in b.pinnedPieces
  <2>1. b.checkingPieces = {} /\ t \in PinLine(b, s)
    BY <1>1, <1>5 DEF Answers
  <2>2. s \in PinnedOurs(b, {PAWN})
    BY <1>1, <1>2, <1>5 DEF PinnedOurs
  <2>3. CASE m.attacked = EMPTY /\ s \notin PromotionRank(us)
    <3>1. m \in addPawnMoves(b, {s}, Empties(b) \cap PinLine(b, s))
      BY <1>2, <1>3, <2>1, <2>3 DEF Advance
    <3>2. m \in generateNotInCheckMoves(b)
      BY <2>2, <3>1 DEF generateNotInCheckMoves
    <3> QED BY <2>1, <3>2, GeneratorIs
  <2>4. CASE m.attacked = EMPTY /\ s \in PromotionRank(us)
    BY <1>2, <1>3, <2>4, <1>1, <1>5, PinnedAlone, <2>1, PinnedPromotesNot DEF Advance, Empties
  <2>5. CASE m.attacked # EMPTY
    <3>1. m \in addPawnAttacksAndPromotions(b, {s}, Enemies(b) \cap PinLine(b, s), {})
      BY <1>2, <1>3, <2>1, <2>5 DEF Advance
    <3>2. m \in generateNotInCheckAttacks(b)
      BY <2>2, <3>1 DEF generateNotInCheckAttacks
    <3> QED BY <2>1, <3>2, GeneratorIs
  <2> QED BY <2>3, <2>4, <2>5
<1>6. CASE b.checkingPieces # {} /\ s \notin b.pinnedPieces
  <2> DEFINE between(c) == IN_BETWEEN[OurKing(b)][c]
  <2>1. PICK c \in Squares : b.checkingPieces = {c} /\ (t = c \/ t \in between(c))
    BY <1>1, <1>6 DEF Answers
  <2>2. s \in Unpinned(b, PAWN)
    BY <1>2, <1>6 DEF Unpinned
  <2>3. /\ between(c) \cap b.allPieces = {} /\ c \in Enemies(b)
        /\ between(c) # {} => b.pieceIndexes[c] \in BISHOP..QUEEN
        /\ Checker(b) = c /\ generateAttacks(b) = generateOutOfCheckAttacks(b)
        /\ b.pieceIndexes[c] \notin {PAWN, NIGHT} => generateMoves(b) = generateOutOfSlidingCheckMoves(b)
    BY <2>1, CheckerSlides, GeneratorIs
  <2>4. (\A q \in Enemies(b) : q \in b.allPieces) /\ (\A q \in Empties(b) : q \notin b.allPieces)
    BY GeneratorSees
  <2>5. m.attacked = EMPTY => t \in between(c) /\ b.pieceIndexes[c] \in BISHOP..QUEEN /\ b.pieceIndexes[c] \notin {PAWN, NIGHT}
    BY <1>2, <2>1, <2>3, <2>4, PieceCodes
  <2>6. CASE m.attacked = EMPTY /\ s \notin PromotionRank(us)
    BY <1>3, <2>2, <2>5, <2>6, <2>3 DEF Advance, generateOutOfSlidingCheckMoves
  <2>7. CASE m.attacked = EMPTY /\ s \in PromotionRank(us)
    BY <1>2, <2>3, <2>5, <2>7, <1>3, <2>2 DEF PushTargets, Advance, generateOutOfCheckAttacks
  <2>8. CASE m.attacked # EMPTY
    BY <1>2, <2>1, <2>3, <2>4, <2>8, <1>3, <2>2 DEF Advance, generateOutOfCheckAttacks
  <2> QED BY <2>6, <2>7, <2>8
<1> QED BY <1>4, <1>5, <1>6

\* Every move but en passant that the laws allow is generated and passes
\* isLegal().
LEMMA PlainComplete ==
  ASSUME NEW b, Sound(b), KeyTells(b), Guarded(b), b.pinnedPiecesDirty = FALSE,
         NEW m, PlainMove(b, m), NEW x, x = DoOrdinaryMove(b, m), KingSafe(x)
  PROVE  m \in generateMoves(b) \cup generateAttacks(b) /\ isLegal(b, m)
<1>1. KingSafe(b) /\ ChecksFit(b) /\ PinsFit(b)
  BY DEF Guarded
<1>2. OrdinaryFacts(b, m) /\ OrdinaryFits(b, m) /\ ~is_ep(m)
  BY <1>1, PlainFacts, PlainOK
<1>3. m.source \in PieceTypes
  BY DEF PlainMove
<1>4. CASE m.source = KING
  BY <1>2, <1>4, KingStepIs, KingGenerated DEF isLegal
<1>5. CASE m.source # KING
  BY <1>2, <1>5, SafeAnswers, SafeIsLegal, <1>3, PieceCodes, <1>1, PawnGenerated, PieceGenerated
<1> QED BY <1>4, <1>5

-----------------------------------------------------------------------------
(***************************************************************************)
(* A legal capture en passant is generated.                                *)
(***************************************************************************)

\* isLegalEPMove() says whether a move en passant leaves the king safe.
LEMMA EpMoveIs ==
  ASSUME NEW b, Sound(b), KingSafe(b), NEW m, MoveOK(b, m), OrdinaryFacts(b, m), is_ep(m),
         NEW x, x = DoOrdinaryMove(b, m)
  PROVE  isLegalEPMove(b, m.from) <=> KingSafe(x)
<1> DEFINE us == b.colorToMove
           them == Opponent(us)
           k == b.kingIndex[us]
<1>1. /\ us \in Colors /\ them \in Colors /\ Opponent(them) = us /\ them # us /\ b.pieces \in Men
      /\ k \in Squares /\ b.pieces[them][KING] = {b.kingIndex[them]}
      /\ \A c \in Colors : c = us \/ c = them
  BY SoundSays, ColorsTwo
<1>2. m.source = PAWN /\ m.attacked = PAWN /\ m.to = b.epIndex /\ ~is_promotion(m) /\ m.type = TYPE_EP
  BY TypesDiffer DEF MoveOK, OrdinaryFits, is_ep, is_castling, is_promotion
<1>3. m.source # KING /\ m.attacked # EMPTY
  BY <1>2 DEF PAWN, KING, EMPTY
<1>4. x.colorToMove = them /\ x.kingIndex[us] = k /\ x.pieces \in Men
  BY <1>3, OrdinaryNow
<1> DEFINE Seen(types) == \E s : Hits(x.pieces, them, types, s, k, x.allPieces)
<1>5. KingSafe(x) <=> ~Seen(PieceTypes)
  BY <1>1, <1>4 DEF KingSafe
<1>6. Seen(PieceTypes) <=> Seen(PAWN..QUEEN)
  <2>1. ASSUME NEW s, Hits(x.pieces, them, PieceTypes, s, k, x.allPieces)
        PROVE  Hits(x.pieces, them, PAWN..QUEEN, s, k, x.allPieces)
    <3>1. PICK p \in PieceTypes : s \in x.pieces[them][p] /\ Aims(p, them, s, k) /\ IN_BETWEEN[s][k] \cap x.allPieces = {}
      BY <2>1 DEF Hits
    <3>2. s \in Squares /\ s \in b.pieces[them][p]
      BY <3>1, OthersNow
    <3>3. p # KING
      <4>1. SUFFICES ASSUME p = KING PROVE FALSE
        OBVIOUS
      <4> QED BY <1>1, <3>1, <3>2, <4>1, KingsApart, AimsAre
    <3> QED BY <3>1, <3>3, PieceCodes DEF Hits
  <2>2. PAWN..QUEEN \subseteq PieceTypes
    BY PieceCodes
  <2> QED BY <2>1, <2>2 DEF Hits
<1>7. Seen(PAWN..QUEEN) <=> Attackers(k, us, x.pieces[them], x.allPieces) # {}
  <2>1. ASSUME NEW s PROVE s \in Attackers(k, us, x.pieces[them], x.allPieces) <=> Hits(x.pieces, them, PAWN..QUEEN, s, k, x.allPieces)
    BY <1>1, <1>4, AttackersAre
  <2> QED BY <2>1
<1> DEFINE taken == {b.epIndex + Forward(them)}
           occupied == (b.friendlyPieces[us] (+) ({m.from} (+) {b.epIndex})) \cup (b.friendlyPieces[them] (+) taken)
           enemy == [b.pieces[them] EXCEPT ![PAWN] = @ (+) taken]
<1>8. isLegalEPMove(b, m.from) <=> Attackers(k, us, enemy, occupied) = {}
  BY DEF isLegalEPMove, Enemy, OurKing
<1>9. Captured(b, m) = taken
  BY <1>2, <1>3 DEF Captured, CaptureSquare
<1>10. OrdinaryResult(b, m, x)
  BY OrdinarySays
<1>11. b.friendlyPieces \in [Colors -> SUBSET Squares] /\ b.friendlyPieces = [c \in Colors |-> b.friendlyPieces[c]]
  BY SoundSays DEF PlacesTyped
<1>12. /\ FriendlyAfter(b, m)[us] = b.friendlyPieces[us] (+) ({m.from} (+) {m.to})
       /\ FriendlyAfter(b, m)[them] = b.friendlyPieces[them] (+) Captured(b, m)
  BY <1>1, <1>11 DEF FriendlyAfter
<1>13. x.allPieces = occupied
  <2>1. x.allPieces = FriendlyAfter(b, m)[us] \cup FriendlyAfter(b, m)[them]
    BY <1>10, <1>1 DEF OrdinaryResult, Colors, WHITE, BLACK
  <2> QED BY <1>2, <1>9, <1>12, <2>1
<1>14. x.pieces[them] = enemy
  <2>1. x.pieces = PiecesAfter(b, m)
    BY <1>10 DEF OrdinaryResult
  <2> DEFINE moved == [b.pieces EXCEPT ![us][m.source] = @ (+) ({m.from} (+) {m.to})]
  <2>2. x.pieces = [moved EXCEPT ![them][PAWN] = @ (+) taken]
    BY <1>2, <1>3, <1>9, <2>1 DEF PiecesAfter, Captured
  <2>3. moved[them] = b.pieces[them] /\ moved = [c \in Colors |-> moved[c]]
    BY <1>1 DEF Men
  <2> HIDE DEF moved, taken
  <2> QED BY <1>1, <2>2, <2>3
<1> HIDE DEF Seen, taken, occupied, enemy
<1> QED BY <1>5, <1>6, <1>7, <1>8, <1>13, <1>14

\* The pawn that a move en passant takes checks from beside the square that the
\* move goes to: no other check is stopped there.
LEMMA EpOffTheLine ==
  ASSUME NEW us \in Colors, NEW them \in Colors, them = Opponent(us), NEW s \in Squares, NEW t \in Squares,
         s = t + Forward(them), NEW k \in Squares, k \in PAWN_ATTACKS[them][s], NEW a \in Squares
  PROVE  t \notin IN_BETWEEN[a][k]
<1> SUFFICES ASSUME t \in IN_BETWEEN[a][k] PROVE FALSE
  OBVIOUS
<1>1. OnLine(a, t, k)
  BY BetweenIs
<1>2. s = t + 1 * Forward(them)
  BY DEF Forward
<1>3. RankOf(s) = RankOf(t) + 1 * Up(them) /\ FileOf(s) = FileOf(t) /\ Target(t, <<0, Up(them)>>, 1) = s
  BY <1>2, PawnWays
<1>4. FileOf(k) - FileOf(s) \in {-1, 1} /\ RankOf(k) - RankOf(s) = Up(them) /\ Up(them) \in {-1, 1} /\ 1 * Up(them) = Up(them)
  BY StepsAre DEF Up
<1>5. /\ RankOf(k) \in 0..7 /\ FileOf(k) \in 0..7 /\ RankOf(s) \in 0..7 /\ FileOf(s) \in 0..7
      /\ RankOf(t) \in 0..7 /\ FileOf(t) \in 0..7 /\ RankOf(a) \in 0..7 /\ FileOf(a) \in 0..7
  BY Coordinates
<1> QED BY ONLY <1>1, <1>3, <1>4, <1>5, SMT DEF OnLine, Amid

\* A move en passant that leaves the king safe is not played out of two checks.
LEMMA EpOneCheck ==
  ASSUME NEW b, Sound(b), ChecksFit(b), NEW m, OrdinaryFacts(b, m), is_ep(m), m.source = PAWN, m.attacked = PAWN,
         NEW x, x = DoOrdinaryMove(b, m), KingSafe(x),
         NEW c \in b.checkingPieces, NEW d \in b.checkingPieces
  PROVE  c = d
<1>1. PICK us, them, k, t : us = b.colorToMove /\ them = Opponent(us) /\ k = b.kingIndex[us] /\ t = m.to
  OBVIOUS
<1>2. /\ us \in Colors /\ them \in Colors /\ k \in Squares /\ t \in Squares /\ m.source # KING
      /\ PlacesTyped(b) /\ WhoIsWhere(b)
      /\ \A p \in PieceTypes : \A s \in b.pieces[them][p] : s \in Squares /\ s \in b.allPieces
      /\ \A p \in PieceTypes : m.from \notin b.pieces[them][p]
  <2>1. us \in Colors /\ them \in Colors /\ them # us /\ k \in Squares /\ PlacesTyped(b) /\ WhoIsWhere(b)
        /\ \A p \in PieceTypes : \A s \in b.pieces[them][p] : s \in Squares /\ s \in b.allPieces
    BY <1>1, SoundSays
  <2>2. t \in Squares /\ m.source \in PieceTypes /\ m.from \in b.pieces[us][m.source] /\ m.source # KING
    BY <1>1, PieceCodes DEF OrdinaryFacts
  <2> QED BY ONLY <2>1, <2>2, FriendIs
<1>3. Captured(b, m) = {t + Forward(them)} /\ (t + Forward(them)) \in b.pieces[them][PAWN]
  BY <1>1, PieceCodes DEF Captured, CaptureSquare, OrdinaryFacts, EMPTY
<1> DEFINE Taken(s) == s = t + Forward(them) /\ k \in PAWN_ATTACKS[them][s]
<1>4. ASSUME NEW s \in b.checkingPieces
      PROVE  /\ s \in Squares /\ s \in b.allPieces /\ IN_BETWEEN[s][k] \cap b.allPieces = {} /\ s # m.from
             /\ Taken(s) \/ t \in IN_BETWEEN[s][k]
  <2>1. Hits(b.pieces, them, PAWN..QUEEN, s, k, b.allPieces)
    BY <1>1, <1>4, CheckerHits
  <2>2. PICK p \in PAWN..QUEEN : s \in b.pieces[them][p] /\ Aims(p, them, s, k) /\ IN_BETWEEN[s][k] \cap b.allPieces = {}
    BY <2>1 DEF Hits
  <2>3. p \in PieceTypes /\ PAWN \in PieceTypes
    BY PieceCodes
  <2>4. s \in Captured(b, m) \/ t \in IN_BETWEEN[s][k]
    BY <1>1, <1>2, <2>2, <2>3, MustStop
  <2>5. ASSUME s = t + Forward(them) PROVE Taken(s)
    <3>1. p = PAWN
      BY <1>2, <1>3, <2>2, <2>3, <2>5, FriendIs
    <3> QED BY <2>2, <2>5, <3>1, AimsAre
  <2> QED BY <1>2, <1>3, <2>2, <2>3, <2>4, <2>5
<1>5. ASSUME NEW s \in b.checkingPieces, NEW a \in b.checkingPieces, Taken(s) PROVE t \notin IN_BETWEEN[a][k]
  <2>1. s \in Squares /\ a \in Squares
    BY <1>4
  <2> QED BY <1>1, <1>2, <1>5, <2>1, EpOffTheLine
<1>6. ASSUME t \in IN_BETWEEN[c][k], t \in IN_BETWEEN[d][k] PROVE c = d
  <2>1. /\ c \in Squares /\ c \in b.allPieces /\ IN_BETWEEN[c][k] \cap b.allPieces = {} /\ c # m.from
        /\ d \in Squares /\ d \in b.allPieces /\ IN_BETWEEN[d][k] \cap b.allPieces \subseteq {m.from}
    BY <1>4
  <2> QED BY ONLY <1>2, <1>6, <2>1, OneStop
<1> QED BY <1>4, <1>5, <1>6

\* Every move en passant that the laws allow is generated and passes isLegal().
LEMMA EpComplete ==
  ASSUME NEW b, Sound(b), KeyTells(b), Guarded(b), NEW s, s \in b.pieces[b.colorToMove][PAWN], b.epIndex # 0,
         b.epIndex \in Squares, b.epIndex \in PAWN_ATTACKS[b.colorToMove][s], NEW m, m = create_ep(s, b.epIndex),
         NEW x, x = DoOrdinaryMove(b, m), KingSafe(x)
  PROVE  m \in generateMoves(b) \cup generateAttacks(b) /\ isLegal(b, m)
<1>1. KingSafe(b) /\ ChecksFit(b)
  BY DEF Guarded
<1>2. MoveOK(b, m) /\ OrdinaryFacts(b, m) /\ is_ep(m) /\ m.from = s
  BY EpFacts
<1>3. isLegalEPMove(b, m.from)
  BY <1>1, <1>2, EpMoveIs
<1>4. m.source = PAWN /\ m.attacked = PAWN /\ m.source # KING /\ m.attacked # EMPTY
  BY PieceCodes DEF create_ep, EMPTY
<1>5. isLegal(b, m)
  BY <1>3, <1>4 DEF isLegal
<1>6. s \in PAWN_ATTACKS[Opponent(b.colorToMove)][b.epIndex]
  <2>1. PICK us : us = b.colorToMove
    OBVIOUS
  <2>2. us \in Colors /\ s \in Squares
    BY <2>1, SoundSays, PieceCodes
  <2> QED BY <2>1, <2>2, ReachBothWays
<1>7. m \in addEpAttacks(b)
  BY <1>2, <1>3, <1>6 DEF addEpAttacks, Ours
<1>8. b.checkingPieces = {} \/ \E c \in Squares : b.checkingPieces = {c}
  <2>1. \A c, d \in b.checkingPieces : c = d
    BY <1>1, <1>2, <1>4, EpOneCheck
  <2>2. b.checkingPieces \subseteq Squares
    <3>1. ASSUME NEW c \in b.checkingPieces PROVE c \in Squares
      <4>1. Hits(b.pieces, Opponent(b.colorToMove), PAWN..QUEEN, c, b.kingIndex[b.colorToMove], b.allPieces)
        BY <1>1, <3>1, CheckerHits
      <4>2. PICK p \in PieceTypes : c \in b.pieces[Opponent(b.colorToMove)][p]
        BY <4>1, PieceCodes DEF Hits
      <4> QED BY <4>2, SoundSays
    <3> QED BY <3>1
  <2> QED BY <2>1, <2>2
<1>9. m \in generateAttacks(b)
  BY <1>7, <1>8, GeneratorIs DEF generateNotInCheckAttacks, generateOutOfCheckAttacks
<1> QED BY <1>5, <1>9

-----------------------------------------------------------------------------
(***************************************************************************)
(* A legal castling is generated.                                          *)
(***************************************************************************)

\* What lies between two squares of a rank.
LEMMA AlongRank ==
  ASSUME NEW a \in Squares, NEW s \in Squares, RankOf(a) = RankOf(s), NEW t
  PROVE  t \in IN_BETWEEN[a][s] <=> t \in Squares /\ RankOf(t) = RankOf(a) /\ Amid(FileOf(a), FileOf(t), FileOf(s))
<1>1. t \in IN_BETWEEN[a][s] <=> t \in Squares /\ OnLine(a, t, s)
  BY BetweenIs
<1>2. /\ RankOf(a) \in 0..7 /\ FileOf(a) \in 0..7 /\ RankOf(s) \in 0..7 /\ FileOf(s) \in 0..7
      /\ t \in Squares => RankOf(t) \in 0..7 /\ FileOf(t) \in 0..7
  BY Coordinates
<1> QED BY ONLY <1>1, <1>2, RankOf(a) = RankOf(s), SMT DEF OnLine, Amid

\* A piece that looks along a rank past another square looks along all of it.
LEMMA RankAims ==
  ASSUME NEW p \in PieceTypes, NEW c \in Colors, NEW a \in Squares, NEW s \in Squares, Aims(p, c, a, s),
         NEW f \in IN_BETWEEN[a][s], RankOf(f) = RankOf(s)
  PROVE  RankOf(a) = RankOf(s) /\ \A t \in Squares : RankOf(t) = RankOf(a) /\ t # a => Aims(p, c, a, t)
<1>1. f \in Squares /\ OnLine(a, f, s)
  BY BetweenIs, BetweenOnBoard
<1>2. /\ RankOf(a) \in 0..7 /\ FileOf(a) \in 0..7 /\ RankOf(s) \in 0..7 /\ FileOf(s) \in 0..7
      /\ RankOf(f) \in 0..7 /\ FileOf(f) \in 0..7
  BY <1>1, Coordinates
<1>3. RankOf(a) = RankOf(s) /\ FileOf(a) # FileOf(s)
  BY ONLY <1>1, <1>2, RankOf(f) = RankOf(s), SMT DEF OnLine, Amid
<1>4. p \in {ROOK, QUEEN}
  <2>1. p \notin {PAWN, NIGHT, KING}
    BY StepsClear
  <2>2. ASSUME p = BISHOP PROVE FALSE
    <3>1. LINE_STEP[a][s] \in {7, 9}
      BY <2>2, AimsAre DEF bishop_moves_empty
    <3> QED BY <1>3, <3>1, LineStepIs
  <2> QED BY <2>1, <2>2, PieceCodes
<1>5. ASSUME NEW t \in Squares, RankOf(t) = RankOf(a), t # a PROVE Aims(p, c, a, t)
  <2>1. FileOf(t) # FileOf(a)
    BY <1>5, Coordinates
  <2>2. LINE_STEP[a][t] = 1
    BY <1>5, <2>1, LineStepIs
  <2>3. t \in rook_moves_empty[a] /\ t \in queen_moves_empty[a]
    BY <2>2 DEF rook_moves_empty, queen_moves_empty
  <2> QED BY <1>4, <2>3, AimsAre
<1> QED BY <1>3, <1>5

\* A piece that looks along the rank past the castling rook at the king's way
\* looks, without it, at the king or at where the king goes.
LEMMA RookLifted ==
  ASSUME NEW r \in Rights, NEW k \in Squares, NEW f \in Squares, NEW s \in Squares, NEW a \in Squares,
         NEW kt \in Squares, kt = KING_TO[r], NEW rt \in Squares, rt = ROOK_TO[r],
         RankOf(k) = RankOf(kt), RankOf(f) = RankOf(rt), k # f, IF r \in {8, 2} THEN f <= k ELSE k <= f,
         s \in {k, kt} \cup IN_BETWEEN[k][kt], a \notin {k, kt} \cup IN_BETWEEN[k][kt],
         f \in IN_BETWEEN[a][s], RankOf(a) = RankOf(s)
  PROVE  /\ RankOf(a) = RankOf(k) /\ RankOf(s) = RankOf(k) /\ RankOf(kt) = RankOf(k)
         /\ \/ f \notin IN_BETWEEN[a][k] /\ IN_BETWEEN[a][k] \subseteq IN_BETWEEN[a][s]
            \/ rt \notin IN_BETWEEN[a][kt] /\ IN_BETWEEN[a][kt] \subseteq IN_BETWEEN[a][s]
<1>1. /\ RankOf(rt) = RankOf(kt)
      /\ r \in {8, 2} => FileOf(kt) = 1 /\ FileOf(rt) = 2
      /\ r \notin {8, 2} => FileOf(kt) = 5 /\ FileOf(rt) = 4
  BY DEF KING_TO, ROOK_TO, Rights, RankOf, FileOf
<1>2. \A t : t \in IN_BETWEEN[k][kt] <=> t \in Squares /\ RankOf(t) = RankOf(k) /\ Amid(FileOf(k), FileOf(t), FileOf(kt))
  BY AlongRank
<1>3. RankOf(s) = RankOf(k) /\ RankOf(a) = RankOf(k) /\ RankOf(f) = RankOf(k) /\ RankOf(kt) = RankOf(k) /\ RankOf(rt) = RankOf(k)
  BY <1>1, <1>2
<1>4. \A u \in Squares : RankOf(u) = RankOf(a) =>
        \A t : t \in IN_BETWEEN[a][u] <=> t \in Squares /\ RankOf(t) = RankOf(a) /\ Amid(FileOf(a), FileOf(t), FileOf(u))
  BY AlongRank
<1>5. PICK fk, ff, fs, fa, ft : fk = FileOf(k) /\ ff = FileOf(f) /\ fs = FileOf(s) /\ fa = FileOf(a) /\ ft = FileOf(kt)
  OBVIOUS
<1>6. /\ fk \in 0..7 /\ ff \in 0..7 /\ fs \in 0..7 /\ fa \in 0..7 /\ ft \in 0..7
      /\ k = 8 * RankOf(k) + fk /\ f = 8 * RankOf(f) + ff /\ a = 8 * RankOf(a) + fa /\ kt = 8 * RankOf(kt) + ft
      /\ RankOf(k) \in 0..7
  BY <1>5, Coordinates
<1>7. fk # ff /\ fa # fk /\ fa # ft
  BY <1>3, <1>6
<1>8. fs = fk \/ fs = ft \/ Amid(fk, fs, ft)
  BY <1>2, <1>5
<1>9. ~Amid(fk, fa, ft)
  BY <1>2, <1>3, <1>5
<1>10. Amid(fa, ff, fs)
  BY <1>3, <1>4, <1>5
<1>11. (r \in {8, 2} /\ ff <= fk /\ ft = 1) \/ (r \notin {8, 2} /\ fk <= ff /\ ft = 5)
  BY <1>1, <1>3, <1>5, <1>6
<1>12. \/ ~Amid(fa, ff, fk) /\ \A n \in 0..7 : Amid(fa, n, fk) => Amid(fa, n, fs)
       \/ /\ \A n \in 0..7 : Amid(fa, n, ft) => Amid(fa, n, fs)
          /\ r \in {8, 2} => ~Amid(fa, 2, ft)
          /\ r \notin {8, 2} => ~Amid(fa, 4, ft)
  <2>1. CASE r \in {8, 2}
    <3>1. CASE fa < ff
      <4>1. fa = 0
        BY ONLY <1>6, <1>7, <1>9, <1>11, <2>1, <3>1, SMT DEF Amid
      <4> QED BY ONLY <1>6, <1>10, <1>11, <2>1, <3>1, <4>1, SMT DEF Amid
    <3>2. CASE ff < fa
      <4>1. fs < ff /\ fk < fa
        BY ONLY <1>6, <1>7, <1>8, <1>9, <1>10, <1>11, <2>1, <3>2, SMT DEF Amid
      <4> QED BY ONLY <1>6, <1>11, <2>1, <3>2, <4>1, SMT DEF Amid
    <3> QED BY <1>6, <1>10, <3>1, <3>2 DEF Amid
  <2>2. CASE r \notin {8, 2}
    <3>1. CASE ff < fa
      <4>1. (fa = 6 \/ fa = 7) /\ fs <= 5 /\ ft = 5
        BY ONLY <1>6, <1>7, <1>8, <1>9, <1>10, <1>11, <2>2, <3>1, SMT DEF Amid
      <4> QED BY ONLY <1>6, <2>2, <4>1, SMT DEF Amid
    <3>2. CASE fa < ff
      <4>1. ff < fs /\ fa < fk
        BY ONLY <1>6, <1>7, <1>8, <1>9, <1>10, <1>11, <2>2, <3>2, SMT DEF Amid
      <4> QED BY ONLY <1>6, <1>11, <2>2, <3>2, <4>1, SMT DEF Amid
    <3> QED BY <1>6, <1>10, <3>1, <3>2 DEF Amid
  <2> QED BY <2>1, <2>2
<1>13. \A t \in Squares : FileOf(t) \in 0..7
  BY Coordinates
<1>14. CASE ~Amid(fa, ff, fk) /\ \A n \in 0..7 : Amid(fa, n, fk) => Amid(fa, n, fs)
  BY <1>3, <1>4, <1>5, <1>14, <1>13
<1>15. CASE /\ \A n \in 0..7 : Amid(fa, n, ft) => Amid(fa, n, fs)
            /\ r \in {8, 2} => ~Amid(fa, 2, ft)
            /\ r \notin {8, 2} => ~Amid(fa, 4, ft)
  BY <1>1, <1>3, <1>4, <1>5, <1>15, <1>13
<1> QED BY <1>12, <1>14, <1>15

\* What the laws of castling say of a board.
MayCastleOn(b, r, k, f, kt, rt, us, them) ==
  /\ r \in Rights /\ r \in b.castlingRights /\ OwnerOf(r) = us /\ us = b.colorToMove /\ them = Opponent(us)
  /\ k = b.kingIndex[us] /\ k = b.castlingConfig.king[us] /\ f = b.castlingConfig.rook[r] /\ kt = KING_TO[r] /\ rt = ROOK_TO[r]
  /\ k \in Squares /\ f \in Squares /\ kt \in Squares /\ rt \in Squares /\ k # f
  /\ b.pieces[us][KING] = {k} /\ f \in b.pieces[us][ROOK]
  /\ ({k, kt, f, rt} \cup IN_BETWEEN[k][kt] \cup IN_BETWEEN[f][rt]) \cap (b.allPieces \ {k, f}) = {}
  /\ \A s \in {k, kt} \cup IN_BETWEEN[k][kt] : \A a : ~Hits(b.pieces, them, PieceTypes, a, s, b.allPieces \ {k})

LEMMA CastlingsAre ==
  ASSUME NEW b, Sound(b), HomeFits(b), NEW pos, pos = PositionOf(b), NEW m \in Castlings(pos)
  PROVE  \E r, k, f, kt, rt, us, them : MayCastleOn(b, r, k, f, kt, rt, us, them) /\ m = create_castling(k, kt)
<1>1. PICK us, them, k : us = b.colorToMove /\ them = Opponent(us) /\ k = b.kingIndex[us]
  OBVIOUS
<1>2. /\ Laid(b) /\ PlacesTyped(b) /\ WhoIsWhere(b) /\ us \in Colors /\ them \in Colors
      /\ b.pieces[us][KING] = {k} /\ k \in Squares /\ b.castlingRights \subseteq Rights /\ RightsSound(b)
  BY <1>1, SoundSays, SoundLaid DEF Sound
<1>3. /\ MenOn(pos.at, b, b.allPieces) /\ pos.side = us /\ DOMAIN pos.at = b.allPieces
      /\ pos.rights = b.castlingRights /\ pos.home = b.castlingConfig
  BY <1>1, <1>2, PositionIs DEF PositionOf, MenOn
<1>4. PICK r \in {8, 4, 2, 1} : MayCastle(pos, r) /\ m = create_castling(pos.home.king[pos.side], KingTo(r))
  BY DEF Castlings
<1>5. r \in Rights /\ KingTo(r) = KING_TO[r] /\ RookTo(r) = ROOK_TO[r] /\ Owner(r) = OwnerOf(r)
  BY CornersAgree DEF Rights
<1>6. PICK kt, rt, f : kt = KING_TO[r] /\ rt = ROOK_TO[r] /\ f = b.castlingConfig.rook[r]
  OBVIOUS
<1>7. r \in b.castlingRights /\ OwnerOf(r) = us
  BY <1>3, <1>4, <1>5 DEF MayCastle
<1>8. /\ k = b.castlingConfig.king[us] /\ f \in b.pieces[us][ROOK] /\ f \in Squares /\ f # k
      /\ kt \in Squares /\ rt \in Squares
  <2>1. b.castlingConfig.king[us] = b.kingIndex[us] /\ f \in b.pieces[us][ROOK]
    BY <1>2, <1>6, <1>7 DEF RightsSound
  <2>2. ROOK \in PieceTypes /\ KING \in PieceTypes /\ ROOK # KING /\ k \in b.pieces[us][KING]
    BY <1>2, PieceCodes
  <2>3. f \in Squares /\ f # k
    BY <1>2, <2>1, <2>2, FriendIs
  <2> QED BY <1>1, <1>5, <1>6, <2>1, <2>3, TargetsDiffer
<1> DEFINE S == b.allPieces \ {k}
           lifted == [s \in DOMAIN pos.at \ {k} |-> pos.at[s]]
<1>9. /\ (Span(k, kt) \cup Span(f, rt)) \cap (b.allPieces \ {k, f}) = {}
      /\ \A s \in Span(k, kt) : Attacking(lifted, them, s) = {}
  BY <1>1, <1>3, <1>5, <1>6, <1>7, <1>8, <1>4 DEF MayCastle
<1>10. /\ Span(k, kt) = {k, kt} \cup IN_BETWEEN[k][kt] /\ Span(f, rt) = {f, rt} \cup IN_BETWEEN[f][rt]
  BY <1>6, <1>7, <1>8, <1>2, SpanIs DEF HomeFits
<1>11. MenOn(lifted, b, S)
  BY <1>3 DEF MenOn
<1>12. ASSUME NEW s \in {k, kt} \cup IN_BETWEEN[k][kt], NEW a PROVE ~Hits(b.pieces, them, PieceTypes, a, s, S)
  <2>1. s \in Squares
    BY <1>2, <1>8, BetweenOnBoard
  <2>2. Attacking(lifted, them, s) = {}
    BY <1>9, <1>10
  <2>3. a \in S /\ Hits(b.pieces, them, PieceTypes, a, s, S) => a \in Attacking(lifted, them, s)
    BY <1>2, <1>11, <2>1, AttackingIs
  <2>4. Hits(b.pieces, them, PieceTypes, a, s, S) => a \in S
    <3>1. ASSUME NEW p \in PieceTypes, a \in b.pieces[them][p] PROVE a \in b.allPieces /\ a # k
      BY <1>1, <1>2, SoundSays, PieceCodes, <3>1, FriendIs
    <3> QED BY <3>1 DEF Hits
  <2> QED BY <2>2, <2>3, <2>4
<1>13. ({k, kt, f, rt} \cup IN_BETWEEN[k][kt] \cup IN_BETWEEN[f][rt]) \cap (b.allPieces \ {k, f}) = {}
  BY <1>9, <1>10
<1>14. m = create_castling(k, kt)
  BY <1>3, <1>4, <1>5, <1>6, <1>8
<1>15. MayCastleOn(b, r, k, f, kt, rt, us, them)
  BY <1>1, <1>2, <1>5, <1>6, <1>7, <1>8, <1>12, <1>13 DEF MayCastleOn
<1> QED BY <1>14, <1>15

\* Such a castling can be made.
LEMMA CastlingIsSo ==
  ASSUME NEW b, Sound(b), NEW r, NEW k, NEW f, NEW kt, NEW rt, NEW us, NEW them,
         MayCastleOn(b, r, k, f, kt, rt, us, them), NEW m, m = create_castling(k, kt)
  PROVE  /\ CastlingFacts(b, m) /\ is_castling(m) /\ m.from = k /\ m.to = kt /\ m.source = KING
         /\ RightOfTarget(kt) = r
         /\ CastledSquares(b, m).rookTo = rt /\ CastledSquares(b, m).rookFrom = f
<1>1. m.from = k /\ m.to = kt /\ m.source = KING /\ m.attacked = EMPTY /\ m.type = TYPE_CASTLING /\ is_castling(m)
  BY DEF create_castling, is_castling
<1>2. RightOfTarget(kt) = r /\ kt # rt /\ k \in Squares
  BY TargetsDiffer DEF MayCastleOn
<1>3. /\ CastledSquares(b, m) = [king |-> {k} (+) {kt}, rook |-> {f} (+) {rt}, rookFrom |-> f, rookTo |-> rt]
  BY <1>1, <1>2 DEF CastledSquares, MayCastleOn
<1>4. \A s \in {kt, rt} : s \in b.allPieces => s \in {k, f}
  BY DEF MayCastleOn
<1>5. /\ us = b.colorToMove /\ b.pieces[us][KING] = {k} /\ f \in b.pieces[us][ROOK] /\ kt \in Squares /\ rt \in Squares
      /\ r \in b.castlingRights /\ OwnerOf(r) = us /\ f = b.castlingConfig.rook[r] /\ kt = KING_TO[r] /\ rt = ROOK_TO[r]
  BY Zenon DEF MayCastleOn
<1> QED BY <1>1, <1>2, <1>3, <1>4, <1>5 DEF CastlingFacts

\* A piece that looks at the king's way once king and rook are lifted looks at
\* the king before the castling, or after it.
LEMMA CastlingOpen ==
  ASSUME NEW b, Sound(b), HomeFits(b), NEW r, NEW k, NEW f, NEW kt, NEW rt, NEW us, NEW them,
         MayCastleOn(b, r, k, f, kt, rt, us, them), NEW m, m = create_castling(k, kt),
         NEW x, x = doCastling960(b, m), KingSafe(x),
         NEW s \in {k, kt} \cup IN_BETWEEN[k][kt], NEW a
  PROVE  ~Hits(b.pieces, them, PieceTypes, a, s, b.allPieces \ {k, f})
<1> SUFFICES ASSUME Hits(b.pieces, them, PieceTypes, a, s, b.allPieces \ {k, f}) PROVE FALSE
  OBVIOUS
<1>1. /\ us \in Colors /\ them \in Colors /\ them # us /\ Opponent(them) = us /\ PlacesTyped(b) /\ WhoIsWhere(b)
      /\ us = b.colorToMove
  <2>1. us = b.colorToMove /\ them = Opponent(us)
    BY Zenon DEF MayCastleOn
  <2> QED BY <2>1, SoundSays
<1>2. /\ r \in Rights /\ k \in Squares /\ f \in Squares /\ kt \in Squares /\ rt \in Squares /\ k # f
      /\ kt = KING_TO[r] /\ rt = ROOK_TO[r] /\ b.pieces[us][KING] = {k} /\ f \in b.pieces[us][ROOK]
      /\ ({k, kt, f, rt} \cup IN_BETWEEN[k][kt] \cup IN_BETWEEN[f][rt]) \cap (b.allPieces \ {k, f}) = {}
      /\ \A q \in {k, kt} \cup IN_BETWEEN[k][kt] : ~Hits(b.pieces, them, PieceTypes, a, q, b.allPieces \ {k})
  BY Zenon DEF MayCastleOn
<1>3. RankOf(k) = RankOf(kt) /\ RankOf(f) = RankOf(rt) /\ IF r \in {8, 2} THEN f <= k ELSE k <= f
  <2>1. /\ r \in b.castlingRights /\ OwnerOf(r) = us /\ k = b.castlingConfig.king[us] /\ f = b.castlingConfig.rook[r]
        /\ kt = KING_TO[r] /\ rt = ROOK_TO[r]
    BY Zenon DEF MayCastleOn
  <2> QED BY <2>1 DEF HomeFits
<1>4. PICK p \in PieceTypes : a \in b.pieces[them][p] /\ Aims(p, them, a, s) /\ IN_BETWEEN[a][s] \cap (b.allPieces \ {k, f}) = {}
  BY DEF Hits
<1>5. a \in Squares /\ a \in b.allPieces /\ a # k /\ a # f /\ s \in Squares
  BY <1>1, <1>4, FriendIs, <1>2, BetweenOnBoard, PieceCodes
<1>6. a \notin {k, kt} \cup IN_BETWEEN[k][kt]
  BY <1>2, <1>5
<1>7. f \in IN_BETWEEN[a][s]
  <2>1. ASSUME f \notin IN_BETWEEN[a][s] PROVE FALSE
    BY <1>4, <2>1, <1>2 DEF Hits
  <2> QED BY <2>1
<1>8. RankOf(f) = RankOf(s)
  <2>1. RankOf(s) = RankOf(k)
    BY <1>2, <1>3, AlongRank
  <2>2. RankOf(kt) = RankOf(rt)
    BY <1>2 DEF KING_TO, ROOK_TO, Rights, RankOf
  <2> QED BY <1>3, <2>1, <2>2
<1>9. RankOf(a) = RankOf(s) /\ \A t \in Squares : RankOf(t) = RankOf(a) /\ t # a => Aims(p, them, a, t)
  BY <1>1, <1>4, <1>5, <1>7, <1>8, RankAims
<1>10. /\ RankOf(a) = RankOf(k) /\ RankOf(s) = RankOf(k) /\ RankOf(kt) = RankOf(k)
       /\ \/ f \notin IN_BETWEEN[a][k] /\ IN_BETWEEN[a][k] \subseteq IN_BETWEEN[a][s]
          \/ rt \notin IN_BETWEEN[a][kt] /\ IN_BETWEEN[a][kt] \subseteq IN_BETWEEN[a][s]
  BY ONLY <1>2, <1>3, <1>5, <1>6, <1>7, <1>9, RookLifted
<1>11. CASE f \notin IN_BETWEEN[a][k] /\ IN_BETWEEN[a][k] \subseteq IN_BETWEEN[a][s]
  <2>1. IN_BETWEEN[a][k] \cap (b.allPieces \ {k}) = {}
    BY <1>4, <1>11
  <2>2. Aims(p, them, a, k)
    BY <1>2, <1>5, <1>9, <1>10
  <2>3. Hits(b.pieces, them, PieceTypes, a, k, b.allPieces \ {k})
    BY <1>4, <2>1, <2>2 DEF Hits
  <2> QED BY <1>2, <2>3
<1>12. CASE rt \notin IN_BETWEEN[a][kt] /\ IN_BETWEEN[a][kt] \subseteq IN_BETWEEN[a][s]
  <2>1. /\ CastlingFacts(b, m) /\ m.from = k /\ m.to = kt
        /\ CastledSquares(b, m).rookTo = rt /\ CastledSquares(b, m).rookFrom = f
    BY CastlingIsSo
  <2>2. CastlingGone(b, m) = {k, f}
    BY <2>1 DEF CastlingGone
  <2>3. a \in x.pieces[them][p]
    BY <1>1, <1>4, <1>5, <2>1, <2>2, CastlingStands
  <2>4. CastlingResult(b, m, x) /\ PlacesTyped(x) /\ WhoIsWhere(x)
    BY <2>1, CastlingSays, CastlingPlacesSound
  <2>5. x.kingIndex = [b.kingIndex EXCEPT ![us] = kt] /\ x.colorToMove = them
    <3>1. x.kingIndex = [b.kingIndex EXCEPT ![b.colorToMove] = m.to] /\ x.colorToMove = Opponent(b.colorToMove)
      BY ONLY <2>4, Zenon DEF CastlingResult
    <3>2. them = Opponent(us)
      BY DEF MayCastleOn
    <3> QED BY <1>1, <2>1, <3>1, <3>2
  <2>6. x.kingIndex[us] = kt
    BY <1>1, <2>5 DEF Sound, Kept
  <2>7. ASSUME NEW u \in Squares, u \in x.allPieces PROVE u \in {kt, rt} \/ u \in b.allPieces \ {k, f}
    <3>1. PICK d \in Colors, q \in PieceTypes : u \in x.pieces[d][q]
      BY <2>4, <2>7, AllIs
    <3>2. u = kt \/ u = rt \/ (u \in b.pieces[d][q] /\ u \notin {k, f})
      BY <2>1, <2>2, <2>7, <3>1, CastlingStands
    <3> QED BY <1>1, <2>7, <3>2, AllIs
  <2>8. IN_BETWEEN[a][kt] \cap x.allPieces = {}
    BY <1>2, <1>5, BetweenLines, <1>4, <1>12, <2>7
  <2>9. Aims(p, them, a, kt)
    BY <1>2, <1>6, <1>9, <1>10
  <2>10. Hits(x.pieces, them, PieceTypes, a, kt, x.allPieces)
    BY <2>3, <2>8, <2>9 DEF Hits
  <2> QED BY <1>1, <2>5, <2>6, <2>10 DEF KingSafe
<1> QED BY <1>10, <1>11, <1>12

\* Every castling that the laws allow is generated and passes isLegal().
LEMMA CastlingComplete ==
  ASSUME NEW b, Sound(b), KeyTells(b), ChecksFit(b), HomeFits(b),
         NEW r, NEW k, NEW f, NEW kt, NEW rt, NEW us, NEW them,
         MayCastleOn(b, r, k, f, kt, rt, us, them), NEW m, m = create_castling(k, kt),
         NEW x, x = doCastling960(b, m), KingSafe(x)
  PROVE  m \in generateMoves(b) /\ isLegal(b, m)
<1> DEFINE others == b.allPieces \ {k, f}
<1>1. /\ us \in Colors /\ them \in Colors /\ them # us /\ Opponent(them) = us /\ PlacesTyped(b) /\ WhoIsWhere(b)
      /\ us = b.colorToMove /\ them = Opponent(us) /\ b.pieces \in Men
  BY SoundSays DEF MayCastleOn
<1>2. /\ r \in Rights /\ r \in b.castlingRights /\ OwnerOf(r) = us /\ k = b.kingIndex[us]
      /\ k = b.castlingConfig.king[us] /\ f = b.castlingConfig.rook[r]
      /\ k \in Squares /\ f \in Squares /\ kt \in Squares /\ rt \in Squares /\ kt = KING_TO[r] /\ rt = ROOK_TO[r]
      /\ b.pieces[us][KING] = {k}
      /\ ({k, kt, f, rt} \cup IN_BETWEEN[k][kt] \cup IN_BETWEEN[f][rt]) \cap others = {}
      /\ \A s \in {k, kt} \cup IN_BETWEEN[k][kt] : \A a : ~Hits(b.pieces, them, PieceTypes, a, s, b.allPieces \ {k})
  BY Zenon DEF MayCastleOn
<1>3. /\ m.from = k /\ m.to = kt /\ m.source = KING /\ RightOfTarget(kt) = r
  BY CastlingIsSo
<1>4. k \in b.allPieces /\ \A p \in PieceTypes : k \notin b.pieces[them][p]
  <2>1. k \in b.pieces[us][KING] /\ KING \in PieceTypes
    BY <1>2, PieceCodes
  <2> QED BY <1>1, <2>1, FriendIs
<1>5. b.checkingPieces = {}
  <2> SUFFICES ASSUME NEW s \in b.checkingPieces PROVE FALSE
    OBVIOUS
  <2>1. Hits(b.pieces, them, PAWN..QUEEN, s, k, b.allPieces)
    <3>1. Hits(b.pieces, Opponent(b.colorToMove), PAWN..QUEEN, s, b.kingIndex[b.colorToMove], b.allPieces)
      BY CheckerHits
    <3> QED BY <1>1, <1>2, <3>1
  <2>2. PAWN..QUEEN \subseteq PieceTypes
    BY PieceCodes
  <2>3. Hits(b.pieces, them, PieceTypes, s, k, b.allPieces \ {k})
    BY <2>1, <2>2 DEF Hits
  <2> QED BY <1>2, <2>3
<1>6. ASSUME NEW s \in KingWay(b.castlingConfig, r)
      PROVE  ~is_in_check_including_king(s, us, b.pieces[them], others, TRUE)
  <2>1. s \in {k, kt} \cup IN_BETWEEN[k][kt]
    BY <1>2, <1>6 DEF KingWay
  <2>2. s \in Squares
    BY <1>2, <2>1, BetweenOnBoard
  <2>3. \A a : ~Hits(b.pieces, them, PieceTypes, a, s, others)
    BY <2>1, CastlingOpen
  <2> HIDE DEF others
  <2>4. is_in_check_including_king(s, Opponent(them), b.pieces[them], others, TRUE) <=>
          \E a : Hits(b.pieces, them, PieceTypes, a, s, others)
    BY <1>1, <2>2, CheckIs
  <2> QED BY <1>1, <2>3, <2>4
<1>7. isValidCastlingMove(b, k, kt)
  <2>1. (IF k \in b.pieces[WHITE][KING] THEN WHITE ELSE BLACK) = us
    BY <1>1, <1>2, <1>4, PieceCodes DEF Colors, WHITE, BLACK
  <2>2. b.allPieces \ {b.castlingConfig.king[OwnerOf(RightOfTarget(kt))], b.castlingConfig.rook[RightOfTarget(kt)]} = others
    BY <1>2, <1>3
  <2>3. /\ KingWay(b.castlingConfig, r) = IN_BETWEEN[k][kt] \cup {kt}
        /\ RookWay(b.castlingConfig, r) = IN_BETWEEN[f][rt] \cup {rt}
    BY <1>2 DEF KingWay, RookWay
  <2>4. others \cap KingWay(b.castlingConfig, r) = {} /\ others \cap RookWay(b.castlingConfig, r) = {}
    BY <1>2, <2>3
  <2>5. kt \in Targets
    BY <1>2 DEF Targets
  <2> HIDE DEF others
  <2> QED BY <1>1, <1>3, <1>5, <1>6, <2>1, <2>2, <2>4, <2>5, Zenon DEF isValidCastlingMove
<1>8. kt \in getCastlingIndexes(us, b.castlingRights)
  <2>1. r \in RightsOf(us)
    BY <1>1, <1>2 DEF RightsOf, OwnerOf, Rights, Colors, WHITE, BLACK
  <2> QED BY <1>2, <2>1 DEF getCastlingIndexes
<1>9. m \in addKingMoves(b)
  <2>1. OurKing(b) = k
    BY <1>1, <1>2 DEF OurKing
  <2> QED BY <1>1, <1>5, <1>7, <1>8, <2>1 DEF addKingMoves
<1>10. isLegal(b, m)
  <2>1. kt \in {k, kt} \cup IN_BETWEEN[k][kt]
    OBVIOUS
  <2>2. \A a : ~Hits(b.pieces, them, PieceTypes, a, kt, b.allPieces \ {k})
    BY <1>2, <2>1, Zenon
  <2>3. kt \in Squares
    BY <1>2
  <2>4. IsSafeForKing(b, k, kt, EnemyHasMajor(b))
    BY <1>1, <1>4, <2>2, <2>3, SafeIs
  <2> QED BY <1>3, <2>4 DEF isLegal
<1> QED BY <1>9, <1>10, KingAlways

-----------------------------------------------------------------------------
(***************************************************************************)
(* The moves that the search plays are the legal ones.                     *)
(***************************************************************************)

\* Every legal move of the position is generated and passes isLegal().
LEMMA LegalGenerated ==
  ASSUME NEW b, Sound(b), KeyTells(b), Guarded(b), b.pinnedPiecesDirty = FALSE, HomeFits(b),
         NEW m \in Legal(PositionOf(b))
  PROVE  m \in generateMoves(b) \cup generateAttacks(b) /\ isLegal(b, m)
<1>1. PICK pos, us : pos = PositionOf(b) /\ us = b.colorToMove
  OBVIOUS
<1>2. KingSafe(b) /\ ChecksFit(b) /\ Laid(b)
  BY SoundLaid DEF Guarded
<1>3. pos.side = us
  BY <1>1, <1>2, PositionIs
<1>4. m \in PseudoLegal(pos) /\ Checkers([pos EXCEPT !.at = After(pos, m)], pos.side) = {}
  BY <1>1 DEF Legal
<1>5. ASSUME NEW x, Sound(x), x.colorToMove = Opponent(us), After(pos, m) = PositionOf(x).at PROVE KingSafe(x)
  BY <1>1, <1>4, <1>5, NoCheckMeans
<1>6. ASSUME OrdinaryFacts(b, m), OrdinaryFits(b, m), ~is_castling(m), NEW x, x = DoOrdinaryMove(b, m)
      PROVE  KingSafe(x)
  BY <1>1, <1>6, OrdinarySound, OrdinaryNow, OrdinaryPlaced, <1>5
<1>7. CASE m \in Castlings(pos)
  <2>1. PICK r, k, f, kt, rt, c, d : MayCastleOn(b, r, k, f, kt, rt, c, d) /\ m = create_castling(k, kt)
    BY <1>1, <1>7, CastlingsAre
  <2>2. CastlingFacts(b, m) /\ is_castling(m)
    BY <2>1, CastlingIsSo
  <2>3. PICK x : x = doCastling960(b, m)
    OBVIOUS
  <2>4. Sound(x)
    BY <2>2, <2>3, CastlingSound
  <2>5. x.colorToMove = Opponent(us)
    <3>1. CastlingResult(b, m, x)
      BY <2>3, CastlingSays
    <3>2. x.colorToMove = Opponent(b.colorToMove)
      BY ONLY <3>1, Zenon DEF CastlingResult
    <3> QED BY <1>1, <3>2
  <2>6. After(pos, m) = PositionOf(x).at
    BY <1>1, <2>2, <2>3, <2>4, CastlingPlaced
  <2>7. KingSafe(x)
    BY <1>5, <2>4, <2>5, <2>6
  <2> QED BY <1>2, <2>1, <2>3, <2>7, CastlingComplete
<1>8. ASSUME NEW s, Owns(pos, us, s), m \in PieceMoves(pos, s)
      PROVE  m \in generateMoves(b) \cup generateAttacks(b) /\ isLegal(b, m)
  <2>1. CASE PlainMove(b, m)
    BY <1>2, <2>1, PlainFacts, PlainOK, <1>6, PlainComplete
  <2>2. CASE /\ m = create_ep(s, b.epIndex) /\ b.epIndex # 0 /\ b.epIndex \in Squares
             /\ s \in b.pieces[us][PAWN] /\ b.epIndex \in PAWN_ATTACKS[us][s]
    BY <1>1, <2>2, EpFacts, <1>6, EpComplete DEF MoveOK
  <2> QED BY <1>1, <1>8, <2>1, <2>2, PieceMovesAre
<1> QED BY <1>3, <1>4, <1>7, <1>8 DEF PseudoLegal

\* The moves that a search plays are the legal moves of the position.
LEMMA PlaysExactly ==
  ASSUME HomeInv, MaterialHolds
  PROVE  MoveGenerationExact
<1>1. GuardInv /\ FitInv /\ BoardInv /\ HomeFits(cb) /\ Guarded(cb) /\ Sound(cb) /\ Fits(cb) /\ cb.pinnedPiecesDirty \in BOOLEAN
  BY Zenon DEF HomeInv, GuardInv, FitInv, BoardInv
<1>2. PICK b : b = RefreshPins(cb)
  OBVIOUS
<1>3. Sound(b) /\ b.pinnedPiecesDirty = FALSE /\ ExceptPins(b, cb) /\ Guarded(b)
  BY <1>1, <1>2, Refreshed, RefreshGuards
<1>4. HomeFits(b) /\ PositionOf(b) = PositionOf(cb)
  BY <1>1, <1>3, HomeExceptPins, PositionExceptPins
<1>5. KeyTells(b)
  BY <1>3, <1>1, FitsTell DEF ExceptPins, MaterialHolds
<1>6. \A m : m \in generateMoves(b) \cup generateAttacks(b) /\ isLegal(b, m) <=> m \in Legal(PositionOf(b))
  BY <1>3, <1>4, <1>5, PlaysLawfully, LegalGenerated
<1>7. LegalMoves(cb) = Legal(PositionOf(cb))
  BY <1>2, <1>4, <1>6 DEF LegalMoves
<1> QED BY <1>1, <1>7, GuardStands DEF MoveGenerationExact

\* While the counts of the pieces fit their fields of the material key, and
\* when the rights of the root are those of kings at home, the moves that the
\* generator lists and isLegal() passes are the legal moves of the position, no
\* fewer and no more, and none of them takes a king: pushes, captures en
\* passant, promotions, castlings, answers to checks and moves of what is pinned.
THEOREM MoveGenerationIsExact ==
  ASSUME KeysHaveSlots, KingsAtHome
  PROVE  Spec /\ []MaterialHolds => []MoveGenerationExact
<1>1. Init /\ MaterialHolds => HomeInv
  BY InitHome
<1>2. HomeInv /\ MaterialHolds /\ MaterialHolds' /\ [Next]_vars => HomeInv'
  BY HomeStep
<1>3. HomeInv /\ MaterialHolds => MoveGenerationExact
  BY PlaysExactly
<1> QED BY <1>1, <1>2, <1>3, PTL DEF Spec

\* So they are from positions with room for the promotion of every pawn.
THEOREM MovesAreTheLegalOnes ==
  ASSUME KeysHaveSlots, KingsAtHome, RoomToPromote
  PROVE  Spec => []MoveGenerationExact
<1>1. Spec => [](MaterialHolds /\ KingsStand)
  BY CountsAlwaysHold
<1>2. Spec /\ []MaterialHolds => []MoveGenerationExact
  BY MoveGenerationIsExact
<1> QED BY <1>1, <1>2, PTL

=============================================================================
