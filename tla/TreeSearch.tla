----------------------------- MODULE TreeSearch -----------------------------
(***************************************************************************)
(* Searcher::search(), qsearch() and singular_move_search()                *)
(* (src/src/search/search.cpp): the recursive tree search of one thread,   *)
(* as a machine with an explicit call stack.                               *)
(*                                                                         *)
(* A frame is a call in progress; its field `at` is where it goes on when  *)
(* the call above it has returned, with the value in `ret`.  A step takes  *)
(* the code from one recursive call or return to the next.                 *)
(*                                                                         *)
(* Move ordering by the history tables is left open: within a phase any    *)
(* move may come next.  The counters of nodes, tablebase hits and the      *)
(* selective depth are left out.                                           *)
(***************************************************************************)
EXTENDS GameTree, Pruning, SearchTable, SequencesExt

CONSTANT Games       \* the games searched, one per behaviour

(* A move says in its bits what it captures and promotes to, so it is      *)
(* noisy wherever it is legal or nowhere; a side that is not in check can  *)
(* pass.                                                                   *)
ASSUME GamesAssumption ==
  \A g \in Games :
    /\ g.root \in DOMAIN g.to
    /\ \A p \in DOMAIN g.to :
         /\ IsFiniteSet(Legal(g, p)) /\ NoMove \notin Legal(g, p)
         /\ \A m \in Legal(g, p) : g.to[p][m] \in DOMAIN g.to
         /\ g.noisy[p] \subseteq Legal(g, p)
         /\ p \in g.pieces \ g.check => g.null[p] \in DOMAIN g.to
    /\ \A p, q \in DOMAIN g.to : Quiets(g, p) \cap g.noisy[q] = {}

(* The network's evaluations are no mate scores.  The entries of others    *)
(* keep the bounds that this search is shown to keep for its own.  The     *)
(* drivers ask for a ply at least, with a window that mate-distance        *)
(* pruning leaves open at the root.                                        *)
ASSUME ScoresAssumption ==
  \A g \in Games :
    /\ \A p \in DOMAIN g.to : /\ g.eval[p] \in -MateThreshold .. MateThreshold
                              /\ g.wdl[p] \in {"FAIL", "WIN", "DRAW", "LOSS"}
    /\ \A key \in DOMAIN g.foreign : \A e \in g.foreign[key] : Bounded(e)
    /\ g.probes \in Seq((Nat \ {0}) \X Int \X Int)
    /\ \A i \in DOMAIN g.probes :
         LET alpha == g.probes[i][2]
             beta == g.probes[i][3]
         IN  alpha < beta /\ alpha < MateIn(2) /\ MatedIn(1) < beta

VARIABLES
  game,      \* the game being searched
  stack,     \* the calls in progress, the innermost last
  ret,       \* the value last returned
  line,      \* the moves made on the board (cb_)
  acc,       \* the moves the network's accumulators have followed (eval_)
  table,     \* the transposition table, by key
  killers,   \* killers_, two per ply
  pvs,       \* stacks_[ply].pv, one per ply
  aborted,   \* aborted_
  probes,    \* the number of root searches begun
  result     \* what the last root search returned to the driver

vars == <<game, stack, ret, line, acc, table, killers, pvs, aborted, probes, result>>

board == <<line, acc>>
driver == <<game, probes, result>>

Idle == stack = <<>>
NoCall == [fn |-> "none", at |-> "none"]
Top == IF Idle THEN NoCall ELSE stack[Len(stack)]
Pos == Here(game, line)

InitOf(g) ==
  /\ game = g
  /\ stack = <<>>
  /\ ret = 0
  /\ line = <<>>
  /\ acc = <<>>
  /\ table = <<>>
  /\ killers = [ply \in 1 .. MaxPly |-> <<NoMove, NoMove>>]
  /\ pvs = [ply \in 1 .. MaxPly + 1 |-> <<>>]
  /\ aborted = FALSE
  /\ probes = 0
  /\ result = [probe |-> 0, score |-> 0, pv |-> <<>>]

Init == \E g \in Games : InitOf(g)

-----------------------------------------------------------------------------
(* Calls and returns *)

(* A call that has come to know more.                                      *)
Extended(f, fields) ==
  [name \in DOMAIN f \cup DOMAIN fields |->
     IF name \in DOMAIN fields THEN fields[name] ELSE f[name]]

Call(ply, depth, alpha, beta, pv, cut, sme) ==
  [fn |-> "search", at |-> "entry", ply |-> ply, depth |-> depth,
   alpha |-> alpha, beta |-> beta, pv |-> pv, cut |-> cut, sme |-> sme]

CallQ(ply, alpha, beta, pv) ==
  [fn |-> "qsearch", at |-> "entry", ply |-> ply, alpha |-> alpha, beta |-> beta, pv |-> pv]

CallSingular(ply, depth, alpha, beta, excluded, cut) ==
  [fn |-> "singular", at |-> "entry", ply |-> ply, depth |-> depth,
   alpha |-> alpha, beta |-> beta, excluded |-> excluded, cut |-> cut]

(* The caller waits in the frame f for the new call.                       *)
CallFrom(f, callee) == stack' = Append([stack EXCEPT ![Len(stack)] = f], callee)

GoOn(f) == stack' = [stack EXCEPT ![Len(stack)] = f]

Return(value) == stack' = Front(stack) /\ ret' = value

DoMove(m) == line' = Played(game, line, m) /\ acc' = Append(acc, m)
UndoMoveUnlessAborted ==
  IF aborted THEN UNCHANGED board ELSE line' = Front(line) /\ acc' = Front(acc)
UndoMove == line' = Front(line) /\ acc' = Front(acc)
DoNullMove == line' = PassedOn(game, line, NoMove) /\ acc' = acc
UndoNullMove == line' = Front(line) /\ acc' = acc

(* What a probe may find, its score counted from the root.                 *)
Probe(key, ply) ==
  {[e EXCEPT !.score = ScoreFromTable(@, ply)] :
     e \in {IF key \in DOMAIN table THEN table[key] ELSE NoEntry}
              \cup (IF key \in DOMAIN game.foreign THEN game.foreign[key] ELSE {})}

Store(key, move, score, depth, flag, ply) ==
  LET old == IF key \in DOMAIN table THEN table[key] ELSE NoEntry
      new == [move |-> move, score |-> ScoreToTable(score, ply), depth |-> depth, flag |-> flag]
  IN  table' = [k \in DOMAIN table \cup {key} |-> IF k = key THEN Stored(old, new) ELSE table[k]]

(* A call starts with an empty line at its ply.                            *)
LineKept(f) == pvs
LineCleared(f) == [pvs EXCEPT ![f.ply] = <<>>]

(* The key of a position, and the key of its singular test, perturbed by   *)
(* the move that is left out.                                              *)
NodeKey(p) == <<p, NoMove>>
SingularKey(p, m) == <<p, m>>

(* A draw by the fifty-move rule, repetition or material, below the root.  *)
DrawnAtTheRootToo(f) ==
  \/ HalfMoves(game, line) >= 100
  \/ Repetition(game, line) >= (IF f.pv THEN 3 ELSE 2)
  \/ Pos \in game.dead

Drawn(f) ==
  /\ f.ply > 1
  /\ \/ HalfMoves(game, line) >= 100
     \/ Repetition(game, line) >= (IF f.pv THEN 3 ELSE 2)
     \/ Pos \in game.dead

(* A score stored in another context is not trusted near a draw.           *)
Reliable(margin) == Repetition(game, line) < 2 /\ HalfMoves(game, line) + margin < 100

(* check_for_stop() says so: a limit or a stop is seen at some node.       *)
Abort(f) ==
  /\ f.at = "entry"
  /\ f.fn # "singular"
  /\ game.stoppable
  /\ aborted' = TRUE
  /\ Return(f.alpha)
  /\ pvs' = IF f.fn = "search" THEN LineCleared(f) ELSE pvs
  /\ UNCHANGED <<board, table, killers, driver>>

-----------------------------------------------------------------------------
(* search(): up to the first move *)

(* Mate-distance pruning: no mate found from here can be shorter.          *)
WindowFrom(f) == Most(f.alpha, MatedIn(f.ply))
WindowTo(f) == Least(f.beta, MateIn(f.ply + 1))

LeavesEarly(f) == f.ply >= MaxPly \/ Drawn(f) \/ WindowFrom(f) >= WindowTo(f)

EarlyValue(f) ==
  IF f.ply >= MaxPly THEN Evaluate(game, Pos)
  ELSE IF Drawn(f) THEN 0
  ELSE WindowFrom(f)

(* stacks_[ply].static_eval of a caller; ScoreMin when it was in check.    *)
StaticEvalAt(ply) ==
  LET i == CHOOSE j \in DOMAIN stack : stack[j].fn = "search" /\ stack[j].ply = ply
  IN  stack[i].ev

(* The evaluation rose since the same side's last turn.                    *)
Improving(f, ev) ==
  /\ ev # ScoreMin /\ f.ply >= 3
  /\ StaticEvalAt(f.ply - 2) # ScoreMin
  /\ ev > StaticEvalAt(f.ply - 2)

Declining(f, ev) ==
  /\ ~Improving(f, ev) /\ f.ply >= 5
  /\ StaticEvalAt(f.ply - 2) # ScoreMin /\ StaticEvalAt(f.ply - 4) # ScoreMin
  /\ StaticEvalAt(f.ply - 2) <= StaticEvalAt(f.ply - 4)

(* The frame once the table was probed without a cut.                      *)
Node(f, entry) ==
  LET ev == IF InCheck(game, Pos) THEN ScoreMin ELSE Evaluate(game, Pos)
  IN  Extended(f, [at |-> "prune", depth |-> IterativelyReduced(f.depth, entry.move),
       alpha |-> WindowFrom(f), beta |-> WindowTo(f), alpha_orig |-> WindowFrom(f),
       entry |-> entry, ev |-> ev, improving |-> Improving(f, ev), declining |-> Declining(f, ev),
       checked |-> InCheck(game, Pos), pieces |-> Pos \in game.pieces, threat |-> FALSE,
       extension |-> 0, best |-> ScoreMin, best_move |-> NoMove, played |-> 0, pruned |-> 0])

TableCut(f, entry) ==
  /\ ~f.pv /\ entry.depth >= f.depth /\ Reliable(f.depth)
  /\ Decides(entry, WindowFrom(f), WindowTo(f))

InTablebase(f) == f.ply > 1 /\ game.wdl[Pos] # "FAIL"

TbWinScore == MateThreshold - MaxPly - 1
TablebaseScore(verdict, ply) ==
  CASE verdict = "WIN" -> TbWinScore - ply
    [] verdict = "LOSS" -> ply - TbWinScore
    [] verdict = "DRAW" -> 0

TablebaseDepth(depth) == Least(depth + 6, MaxPly - 1)

EnterSearch(f) ==
  /\ f.fn = "search" /\ f.at = "entry"
  /\ pvs' = LineCleared(f)
  /\ \/ LeavesEarly(f) /\ Return(EarlyValue(f)) /\ UNCHANGED table
     \/ /\ ~LeavesEarly(f) /\ f.depth <= 0
        /\ GoOn(CallQ(f.ply, WindowFrom(f), WindowTo(f), f.pv))
        /\ UNCHANGED <<ret, table>>
     \/ /\ ~LeavesEarly(f) /\ f.depth > 0
        /\ \E entry \in Probe(NodeKey(Pos), f.ply) :
             \/ /\ TableCut(f, entry)
                /\ Return(entry.score) /\ UNCHANGED table
             \/ /\ ~TableCut(f, entry) /\ InTablebase(f)
                /\ LET tb == TablebaseScore(game.wdl[Pos], f.ply)
                   IN  /\ Store(NodeKey(Pos), NoMove, ScoreToTable(tb, f.ply), TablebaseDepth(f.depth), "EXACT", f.ply)
                       /\ Return(tb)
             \/ /\ ~TableCut(f, entry) /\ ~InTablebase(f)
                /\ GoOn(Node(f, entry))
                /\ UNCHANGED <<ret, table>>
  /\ UNCHANGED <<board, killers, aborted, driver>>

(* Static null-move pruning, the null-move probe, or on to razoring.       *)
PruneNode(f) ==
  /\ f.fn = "search" /\ f.at = "prune"
  /\ \/ StaticNullCut(f) /\ Return(StaticNullValue(f)) /\ UNCHANGED board
     \/ /\ TryNullMove(f)
        /\ DoNullMove
        /\ LET depth == NullMoveDepth(f)
           IN  CallFrom([f EXCEPT !.at = "null"],
                 IF depth <= 0 THEN CallQ(f.ply + 1, -f.beta, 1 - f.beta, FALSE)
                 ELSE Call(f.ply + 1, depth, -f.beta, 1 - f.beta, FALSE, ~f.cut, f.sme))
        /\ UNCHANGED ret
     \/ /\ ~StaticNullCut(f) /\ ~TryNullMove(f)
        /\ GoOn([f EXCEPT !.at = "razor"])
        /\ UNCHANGED <<ret, board>>
  /\ UNCHANGED <<table, killers, pvs, aborted, driver>>

(* A mate against the side to move is remembered.                          *)
Threatened(f, score) == [f EXCEPT !.at = "razor", !.threat = score < -MateThreshold /\ f.depth >= 2]

(* The null move is taken back; a fail-high of its probe is verified at    *)
(* this node.                                                              *)
NullMoveReturns(f) ==
  /\ f.fn = "search" /\ f.at = "null"
  /\ UndoNullMove
  /\ \/ aborted /\ Return(f.alpha)
     \/ /\ ~aborted /\ -ret >= f.beta
        /\ LET depth == NullMoveDepth(f)
           IN  CallFrom([f EXCEPT !.at = "verify"],
                 IF depth <= 0 THEN CallQ(f.ply, f.beta - 1, f.beta, FALSE)
                 ELSE Call(f.ply, depth, f.beta - 1, f.beta, FALSE, TRUE, f.sme))
        /\ UNCHANGED ret
     \/ /\ ~aborted /\ -ret < f.beta
        /\ GoOn(Threatened(f, -ret))
        /\ UNCHANGED ret
  /\ UNCHANGED <<table, killers, pvs, aborted, driver>>

VerifyReturns(f) ==
  /\ f.fn = "search" /\ f.at = "verify"
  /\ \/ aborted /\ Return(f.alpha)
     \/ ~aborted /\ ret >= f.beta /\ Return(IF IsMateScore(ret) THEN f.beta ELSE ret)
     \/ ~aborted /\ ret < f.beta /\ GoOn(Threatened(f, ret)) /\ UNCHANGED ret
  /\ UNCHANGED <<board, table, killers, pvs, aborted, driver>>

(* An evaluation far below the window is tried against a bare quiescence   *)
(* search.                                                                 *)
RazorNode(f) ==
  /\ f.fn = "search" /\ f.at = "razor"
  /\ IF Razor(f)
     THEN CallFrom([f EXCEPT !.at = "razored"], CallQ(f.ply, f.alpha, f.alpha + 1, FALSE))
     ELSE GoOn([f EXCEPT !.at = "single"])
  /\ UNCHANGED <<ret, board, table, killers, pvs, aborted, driver>>

(* The one return after which aborted_ is not looked at.                   *)
RazorReturns(f) ==
  /\ f.fn = "search" /\ f.at = "razored"
  /\ \/ ret < f.alpha /\ Return(ret)
     \/ ret >= f.alpha /\ GoOn([f EXCEPT !.at = "single"]) /\ UNCHANGED ret
  /\ UNCHANGED <<board, table, killers, pvs, aborted, driver>>

(* The six phases: table move, good captures, two killers, quiet moves and *)
(* bad captures.                                                           *)
PhasesKillersTwice(f) ==
  LET legal == Legal(game, Pos)
      tt == {f.entry.move} \cap legal
      k1 == {killers[f.ply][1]} \cap legal
      k2 == {killers[f.ply][2]} \cap legal
      good == {m \in game.noisy[Pos] : game.see[Pos][m] >= 0}
  IN  <<tt, good \ tt, k1 \ tt, k2 \ (tt \cup k1),
        Quiets(game, Pos) \ tt, (game.noisy[Pos] \ good) \ tt>>

Phases(f) ==
  LET legal == Legal(game, Pos)
      tt == {f.entry.move} \cap legal
      k1 == {killers[f.ply][1]} \cap legal
      k2 == {killers[f.ply][2]} \cap legal
      good == {m \in game.noisy[Pos] : game.see[Pos][m] >= 0}
  IN  <<tt, good \ tt, k1 \ tt, k2 \ (tt \cup k1),
        Quiets(game, Pos) \ (tt \cup k1 \cup k2), (game.noisy[Pos] \ good) \ tt>>

WithMoves(f, extension) ==
  Extended(f, [at |-> "moves", extension |-> extension, todo |-> Phases(f)])

SingularTest(f) ==
  LET sbeta == SingularBeta(f, f.entry)
  IN  /\ f.fn = "search" /\ f.at = "single"
      /\ IF /\ MaySingular(f, f.entry, Reliable(f.depth))
            /\ f.entry.move \in Legal(game, Pos)
         THEN CallFrom([f EXCEPT !.at = "singular"],
                CallSingular(f.ply, SingularDepth(f), sbeta - 1, sbeta, f.entry.move, f.cut))
         ELSE GoOn(WithMoves(f, 0))
      /\ UNCHANGED <<ret, board, table, killers, pvs, aborted, driver>>

(* Multi-cut, or the table move is searched two plies less deeply.         *)
SingularReturns(f) ==
  LET singular == f.pv \/ ret < SingularBeta(f, f.entry)
  IN  /\ f.fn = "search" /\ f.at = "singular"
      /\ \/ aborted /\ Return(f.alpha)
         \/ ~aborted /\ singular /\ GoOn(WithMoves(f, 0)) /\ UNCHANGED ret
         \/ ~aborted /\ ~singular /\ ret > f.beta /\ Return(ret)
         \/ ~aborted /\ ~singular /\ ret <= f.beta /\ GoOn(WithMoves(f, -2)) /\ UNCHANGED ret
      /\ UNCHANGED <<board, table, killers, pvs, aborted, driver>>

-----------------------------------------------------------------------------
(* search(): the moves *)

QuietPhase == 5
BadCapturePhase == 6

Skipped(f, phase, m) ==
  \/ phase = QuietPhase /\ SkipQuiet(f, game.see[Pos][m])
  \/ phase = BadCapturePhase /\ SkipBadCapture(f, game.see[Pos][m])

(* A check given extends the search by a ply; a demoted table move stays   *)
(* demoted.                                                                *)
Extension(f, m) ==
  LET check == IF InCheck(game, game.to[Pos][m]) THEN 1 ELSE 0
  IN  IF m = f.entry.move /\ f.extension < 0 THEN f.extension ELSE check

(* doMove() and the first search of the move: the full window for the      *)
(* first move, a null window at a reduced depth for the others.            *)
MakeMove(f, m) ==
  LET extension == Extension(f, m)
      depth == f.depth - 1 + extension
      made == [move |-> m, quiet |-> m \in Quiets(game, Pos), new_depth |-> depth]
  IN  /\ DoMove(m)
      /\ IF f.played = 0
         THEN CallFrom(Extended(Extended(f, made), [at |-> "scored", reduction |-> 0]),
                Call(f.ply + 1, depth, -f.beta, -f.alpha, f.pv, FALSE, f.sme))
         ELSE \E reduction \in IF MayReduce(f, made.quiet, depth, extension)
                               THEN Reductions(f, depth) ELSE {0} :
                CallFrom(Extended(Extended(f, made), [at |-> "scout", reduction |-> reduction]),
                  Call(f.ply + 1, depth - reduction, -f.alpha - 1, -f.alpha, FALSE, TRUE, f.sme))

NextMove(f) ==
  /\ f.fn = "search" /\ f.at = "moves"
  /\ \E phase \in DOMAIN f.todo :
       /\ \A earlier \in 1 .. phase - 1 : f.todo[earlier] = {}
       /\ \E m \in f.todo[phase] :
            LET rest == [f EXCEPT !.todo[phase] = @ \ {m}]
            IN  \/ ~Skipped(f, phase, m) /\ MakeMove(rest, m)
                \/ /\ Skipped(f, phase, m) /\ GoOn([rest EXCEPT !.pruned = @ + 1])
                   /\ UNCHANGED board
  /\ UNCHANGED <<ret, table, killers, pvs, aborted, driver>>

(* A reduced search that beat alpha is repeated at full depth, and a new   *)
(* best move of a PV node with the full window - aborted or not.           *)
NeedsDepthForEver(f) == f.at \in {"scout", "again"} /\ -ret > f.alpha /\ f.reduction > 0
NeedsDepth(f) == f.at = "scout" /\ -ret > f.alpha /\ f.reduction > 0
NeedsWindow(f) == f.at \in {"scout", "again"} /\ ~NeedsDepth(f) /\ f.pv /\ -ret > f.best

SearchAgain(f) ==
  /\ f.fn = "search"
  /\ \/ /\ NeedsDepth(f)
        /\ CallFrom([f EXCEPT !.at = "again"],
             Call(f.ply + 1, f.new_depth, -f.alpha - 1, -f.alpha, FALSE, ~f.cut, f.sme))
     \/ /\ NeedsWindow(f)
        /\ CallFrom([f EXCEPT !.at = "scored"],
             Call(f.ply + 1, f.new_depth, -f.beta, -f.alpha, TRUE, FALSE, f.sme))
  /\ UNCHANGED <<ret, board, table, killers, pvs, aborted, driver>>

(* update_pv(): the move and the line of the child.                        *)
UpdatePv(ply, m) ==
  pvs' = [pvs EXCEPT ![ply] =
            <<m>> \o SubSeq(pvs[ply + 1], 1, Least(Len(pvs[ply + 1]), MaxPly - 1))]

WithKiller(pair, m) == IF pair[1] = m THEN pair ELSE <<m, pair[1]>>

StoreNode(f, p, best, best_move) ==
  Store(NodeKey(p), best_move, best, f.depth, BoundOf(best, f.alpha_orig, f.beta), f.ply)

(* The move is taken back and its score counts, unless the search was      *)
(* aborted below.                                                          *)
MoveReturns(f) ==
  LET score == -ret
      counted == [f EXCEPT !.at = "moves", !.played = @ + 1]
  IN  /\ f.fn = "search" /\ f.at \in {"scout", "again", "scored"}
      /\ ~NeedsDepth(f) /\ ~NeedsWindow(f)
      /\ UndoMove
      /\ \/ /\ aborted /\ Return(f.alpha)
            /\ UNCHANGED <<table, killers, pvs>>
         \/ /\ ~aborted /\ score <= f.best
            /\ GoOn(counted)
            /\ UNCHANGED <<ret, table, killers, pvs>>
         \/ /\ ~aborted /\ score > f.best /\ Most(f.alpha, score) < f.beta
            /\ UpdatePv(f.ply, f.move)
            /\ GoOn([counted EXCEPT !.best = score, !.best_move = f.move, !.alpha = Most(@, score)])
            /\ UNCHANGED <<ret, table, killers>>
         \/ /\ ~aborted /\ score > f.best /\ Most(f.alpha, score) >= f.beta
            /\ UpdatePv(f.ply, f.move)
            /\ killers' = IF f.quiet THEN [killers EXCEPT ![f.ply] = WithKiller(@, f.move)] ELSE killers
            /\ StoreNode(f, Here(game, Front(line)), score, f.move)
            /\ Return(score)
      /\ UNCHANGED <<aborted, driver>>

(* No move is left: mate, stalemate, or the best score is stored.          *)
SearchEnds(f) ==
  /\ f.fn = "search" /\ f.at = "moves"
  /\ \A phase \in DOMAIN f.todo : f.todo[phase] = {}
  /\ \/ aborted /\ Return(f.alpha) /\ UNCHANGED table
     \/ /\ ~aborted /\ f.played = 0
        /\ Return(IF f.checked THEN MatedIn(f.ply) ELSE 0) /\ UNCHANGED table
     \/ /\ ~aborted /\ f.played > 0
        /\ StoreNode(f, Pos, f.best, f.best_move)
        /\ Return(f.best)
  /\ UNCHANGED <<board, killers, pvs, aborted, driver>>

-----------------------------------------------------------------------------
(* qsearch() *)

LeavesEarlyQ(f) == f.ply >= MaxPly \/ Drawn(f)

QDepthMargin == 10

TableCutQ(f, entry) == ~f.pv /\ Reliable(QDepthMargin) /\ Decides(entry, f.alpha, f.beta)

(* In check every move is searched, otherwise the captures that lose       *)
(* nothing; the table's move comes first.                                  *)
QNode(f, entry) ==
  LET checked == InCheck(game, Pos)
      stand == IF checked THEN ScoreMin ELSE Evaluate(game, Pos)
      moves == IF checked THEN Legal(game, Pos)
               ELSE {m \in game.noisy[Pos] : game.see[Pos][m] >= 0}
      first == {entry.move} \cap moves
  IN  Extended(f, [at |-> "moves", alpha_orig |-> f.alpha, alpha |-> Most(f.alpha, stand),
       checked |-> checked, best |-> stand, best_move |-> NoMove, played |-> 0,
       todo |-> <<first, moves \ first>>])

StandsPat(f) == ~InCheck(game, Pos) /\ Evaluate(game, Pos) >= f.beta

EnterQSearch(f) ==
  /\ f.fn = "qsearch" /\ f.at = "entry"
  /\ \/ f.ply >= MaxPly /\ Return(Evaluate(game, Pos))
     \/ f.ply < MaxPly /\ Drawn(f) /\ Return(0)
     \/ /\ ~LeavesEarlyQ(f)
        /\ \E entry \in Probe(NodeKey(Pos), f.ply) :
             \/ TableCutQ(f, entry) /\ Return(entry.score)
             \/ ~TableCutQ(f, entry) /\ StandsPat(f) /\ Return(Evaluate(game, Pos))
             \/ ~TableCutQ(f, entry) /\ ~StandsPat(f) /\ GoOn(QNode(f, entry)) /\ UNCHANGED ret
  /\ UNCHANGED <<board, table, killers, pvs, aborted, driver>>

NextQMove(f) ==
  /\ f.fn = "qsearch" /\ f.at = "moves"
  /\ \E i \in DOMAIN f.todo :
       /\ \A earlier \in 1 .. i - 1 : f.todo[earlier] = {}
       /\ \E m \in f.todo[i] :
            /\ DoMove(m)
            /\ CallFrom(Extended([f EXCEPT !.todo[i] = @ \ {m}], [at |-> "scored", move |-> m]),
                 CallQ(f.ply + 1, -f.beta, -f.alpha, f.pv))
  /\ UNCHANGED <<ret, table, killers, pvs, aborted, driver>>

(* Not below the alpha it was called with (alpha-restore).                 *)
StoreQ(f, p, best, best_move) ==
  LET kept == best >= f.alpha_orig
      value == Most(best, f.alpha_orig)
  IN  /\ Store(NodeKey(p), IF kept THEN best_move ELSE NoMove, value, 0,
               BoundOf(value, f.alpha_orig, f.beta), f.ply)
      /\ Return(value)

QMoveReturnsUnchecked(f) ==
  LET score == -ret
      counted == [f EXCEPT !.at = "moves", !.played = @ + 1]
  IN  /\ f.fn = "qsearch" /\ f.at = "scored"
      /\ UndoMove
      /\ \/ score <= f.best /\ GoOn(counted) /\ UNCHANGED <<ret, table>>
         \/ /\ score > f.best /\ (score <= f.alpha \/ score < f.beta)
            /\ GoOn([counted EXCEPT !.best = score, !.best_move = f.move, !.alpha = Most(@, score)])
            /\ UNCHANGED <<ret, table>>
         \/ /\ score > f.best /\ score > f.alpha /\ score >= f.beta
            /\ StoreQ(f, Here(game, Front(line)), score, f.move)
      /\ UNCHANGED <<killers, pvs, aborted, driver>>

QMoveReturns(f) ==
  LET score == -ret
      counted == [f EXCEPT !.at = "moves", !.played = @ + 1]
  IN  /\ f.fn = "qsearch" /\ f.at = "scored"
      /\ UndoMove
      /\ \/ aborted /\ Return(f.alpha) /\ UNCHANGED table
         \/ ~aborted /\ score <= f.best /\ GoOn(counted) /\ UNCHANGED <<ret, table>>
         \/ /\ ~aborted /\ score > f.best /\ (score <= f.alpha \/ score < f.beta)
            /\ GoOn([counted EXCEPT !.best = score, !.best_move = f.move, !.alpha = Most(@, score)])
            /\ UNCHANGED <<ret, table>>
         \/ /\ ~aborted /\ score > f.best /\ score > f.alpha /\ score >= f.beta
            /\ StoreQ(f, Here(game, Front(line)), score, f.move)
      /\ UNCHANGED <<killers, pvs, aborted, driver>>

QSearchEnds(f) ==
  /\ f.fn = "qsearch" /\ f.at = "moves"
  /\ \A i \in DOMAIN f.todo : f.todo[i] = {}
  /\ IF f.checked /\ f.played = 0
     THEN Return(MatedIn(f.ply)) /\ UNCHANGED table
     ELSE StoreQ(f, Pos, f.best, f.best_move)
  /\ UNCHANGED <<board, killers, pvs, aborted, driver>>

-----------------------------------------------------------------------------
(* singular_move_search(): every move but one, at a null window *)

TableCutS(f, entry) ==
  entry.depth >= f.depth /\ Reliable(f.depth) /\ Decides(entry, f.alpha, f.beta)

SingularNode(f) ==
  LET others == Legal(game, Pos) \ {f.excluded}
  IN  Extended(f, [at |-> "moves", alpha_orig |-> f.alpha, best |-> ScoreMin, best_move |-> NoMove,
       quiets |-> 0, todo |-> <<others \cap game.noisy[Pos], others \ game.noisy[Pos]>>])

EnterSingular(f) ==
  /\ f.fn = "singular" /\ f.at = "entry"
  /\ \E entry \in Probe(SingularKey(Pos, f.excluded), f.ply) :
       \/ TableCutS(f, entry) /\ Return(entry.score)
       \/ ~TableCutS(f, entry) /\ GoOn(SingularNode(f)) /\ UNCHANGED ret
  /\ UNCHANGED <<board, table, killers, pvs, aborted, driver>>

(* Quiet moves that give no check count against a limit; beyond it they    *)
(* are made and taken back unsearched.                                     *)
NextSingularMove(f) ==
  /\ f.fn = "singular" /\ f.at = "moves"
  /\ \E i \in DOMAIN f.todo :
       /\ \A earlier \in 1 .. i - 1 : f.todo[earlier] = {}
       /\ \E m \in f.todo[i] :
            LET counts == i = 2 /\ ~InCheck(game, game.to[Pos][m])
                quiets == f.quiets + (IF counts THEN 1 ELSE 0)
                rest == [f EXCEPT !.quiets = quiets, !.todo[i] = @ \ {m}]
            IN  \/ /\ ~counts \/ quiets <= SingularQuietLimit(f.depth)
                   /\ DoMove(m)
                   /\ CallFrom(Extended(rest, [at |-> "scored", move |-> m]),
                        Call(f.ply + 1, f.depth - 1, -f.beta, -f.alpha, FALSE, f.cut, FALSE))
                \/ /\ counts /\ quiets > SingularQuietLimit(f.depth)
                   /\ GoOn(rest)
                   /\ UNCHANGED board
  /\ UNCHANGED <<ret, table, killers, pvs, aborted, driver>>

StoreSingular(f, p, best, best_move) ==
  IF best_move = NoMove THEN UNCHANGED table
  ELSE Store(SingularKey(p, f.excluded), best_move, best, f.depth,
             BoundOf(best, f.alpha_orig, f.beta), f.ply)

SingularMoveReturns(f) ==
  LET score == -ret
      better == score > f.best
      counted == [f EXCEPT !.at = "moves", !.best = Most(@, score),
                           !.best_move = IF better THEN f.move ELSE @,
                           !.alpha = Most(@, score)]
  IN  /\ f.fn = "singular" /\ f.at = "scored"
      /\ UndoMove
      /\ \/ aborted /\ Return(f.alpha) /\ UNCHANGED table
         \/ /\ ~aborted /\ ~(score > f.alpha /\ score >= f.beta)
            /\ GoOn(counted) /\ UNCHANGED <<ret, table>>
         \/ /\ ~aborted /\ score > f.alpha /\ score >= f.beta
            /\ StoreSingular(f, Here(game, Front(line)), counted.best, counted.best_move)
            /\ Return(counted.best)
      /\ UNCHANGED <<killers, pvs, aborted, driver>>

SingularEnds(f) ==
  /\ f.fn = "singular" /\ f.at = "moves"
  /\ \A i \in DOMAIN f.todo : f.todo[i] = {}
  /\ IF aborted THEN Return(f.alpha) /\ UNCHANGED table
     ELSE StoreSingular(f, Pos, f.best, f.best_move) /\ Return(f.best)
  /\ UNCHANGED <<board, killers, pvs, aborted, driver>>

-----------------------------------------------------------------------------
(* The driver: searches of the root, which is a PV node.  goMTD() asks     *)
(* with null windows around its betas, goPVS() with the full window.       *)

Collected == result.probe = probes
Finished == Idle /\ (aborted \/ (Collected /\ probes = Len(game.probes)))

RootSearch ==
  /\ Idle /\ Collected /\ ~Finished
  /\ LET probe == game.probes[probes + 1]
     IN  stack' = <<Call(1, probe[1], probe[2], probe[3], TRUE, FALSE, TRUE)>>
  /\ probes' = probes + 1
  /\ pvs' = [pvs EXCEPT ![1] = <<>>]
  /\ UNCHANGED <<game, ret, board, table, killers, aborted, result>>

(* An aborted search is thrown away, any other gives its score and line.   *)
RootReturns ==
  /\ Idle /\ ~Collected /\ ~aborted
  /\ result' = [probe |-> probes, score |-> ret, pv |-> pvs[1]]
  /\ UNCHANGED <<game, stack, ret, board, table, killers, pvs, aborted, probes>>

Done == Finished /\ UNCHANGED vars

Next ==
  \/ RootSearch \/ RootReturns \/ Done \/ Abort(Top)
  \/ EnterSearch(Top) \/ PruneNode(Top) \/ NullMoveReturns(Top) \/ VerifyReturns(Top)
  \/ RazorNode(Top) \/ RazorReturns(Top) \/ SingularTest(Top) \/ SingularReturns(Top)
  \/ NextMove(Top) \/ SearchAgain(Top) \/ MoveReturns(Top) \/ SearchEnds(Top)
  \/ EnterQSearch(Top) \/ NextQMove(Top) \/ QMoveReturns(Top) \/ QSearchEnds(Top)
  \/ EnterSingular(Top) \/ NextSingularMove(Top) \/ SingularMoveReturns(Top) \/ SingularEnds(Top)

Spec == Init /\ [][Next]_vars /\ WF_vars(Next)

-----------------------------------------------------------------------------
(* Properties *)

(* What goMTD() relies on: a root search that was not aborted returns a    *)
(* score between "mated now" and "mate in one", with a move if and only if *)
(* the root has one; without one it is mate or stalemate.                  *)
RootPromise ==
  result.probe > 0 =>
    /\ result.score \in MatedIn(1) .. MateIn(2)
    /\ IF Legal(game, game.root) = {}
       THEN result.pv = <<>> /\ result.score = (IF InCheck(game, game.root) THEN MatedIn(1) ELSE 0)
       ELSE result.pv # <<>>

(* The line of the root (update_pv() over the plies, verification searches *)
(* and re-searches included) can be played from the root, whatever moves   *)
(* the entries of the shared table named.                                  *)
PvPlayable == PlayableFrom(game, game.root, result.pv)

(* Where a call waits for the search of a move.                            *)
AfterMove == {"scout", "again", "scored"}

(* The moves that the calls in progress have made and not yet taken back,  *)
(* a null move as NoMove, of the calls that wait at one of `places`.       *)
MoveMade(call) == IF call.at = "null" THEN NoMove ELSE call.move

MovesMade(calls, places) ==
  LET made[n \in 0 .. Len(calls)] ==
        IF n = 0 THEN <<>>
        ELSE IF calls[n].at \in places THEN Append(made[n - 1], MoveMade(calls[n]))
        ELSE made[n - 1]
  IN  made[Len(calls)]

(* The board stands where the calls in progress have taken it, and the     *)
(* accumulators of the network have followed all moves but the null ones:  *)
(* every path out of a call, the aborted ones included, takes back exactly *)
(* what was made.                                                          *)
BoardFollowsCalls ==
  /\ [i \in DOMAIN line |-> line[i].move] = MovesMade(stack, AfterMove \cup {"null"})
  /\ acc = MovesMade(stack, AfterMove)

(* No legal move of a node comes up in two phases and none is forgotten,   *)
(* whatever the table move and the killers are: what was searched, what    *)
(* was pruned and what is still to do add up.                              *)
Remaining(f) ==
  LET n(phase) == Cardinality(f.todo[phase])
  IN  n(1) + n(2) + n(3) + n(4) + n(5) + n(6)

EachMoveOnce ==
  ~Idle /\ Top.fn = "search" /\ Top.at = "moves" =>
    Top.played + Top.pruned + Remaining(Top) = Cardinality(Legal(game, Pos))

(* A winning mate score above the window's alpha, or a losing one below    *)
(* its beta, is a mate by the rules, within the plies the score says.      *)
ProvenMateIsForced ==
  LET alpha == game.probes[result.probe][2]
      beta == game.probes[result.probe][3]
      forced == Forced(game)
  IN  result.probe > 0 =>
        /\ result.score > alpha /\ result.score > MateThreshold =>
             game.root \in forced[MaxMate - result.score - 1].won
        /\ result.score < beta /\ result.score < -MateThreshold =>
             game.root \in forced[result.score + MaxMate - 1].lost

(* Where no reply can be left out, the mates search() reports are real,    *)
(* whatever was reduced, extended, cut by the table or by the mate         *)
(* distance on the way.                                                    *)
MateIsForced == NothingPruned(game) => ProvenMateIsForced

(* An aborted search leaves nothing behind: no killer, and no entry in the *)
(* shared table that rests on a call that was not finished.                *)
AbortLearnsNothing ==
  [][aborted =>
       /\ killers' = killers
       /\ table' # table => \/ Top.fn = "search" /\ Top.at = "entry"
                            \/ Top.fn = "qsearch" /\ Top.at = "moves" /\ Top.played = 0]_vars

(* The search comes to an end: check extensions, re-searches and the       *)
(* evasions of the quiescence search cannot keep each other going.         *)
SearchTerminates == <>Finished
=============================================================================
