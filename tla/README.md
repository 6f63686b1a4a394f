# Bagatur.cpp in TLA+

TLA+ specifications of [Bagatur.cpp](../src/README.md), a UCI chess engine in
C++: a multi-threaded alpha-beta searcher with a lock-free transposition table
behind a command loop.  They model the code under `src/src/` as it is, are
checked by TLC on small instances, and the theorems about them are proved by
TLAPS for every value of the constants.

Paths below are relative to `src/src/`.


## 1. The system

### Components, their state and their operations

| Component | Code | State | Operations |
|---|---|---|---|
| UCI session | `uci/state_manager.*` | the board, the table, two searchers, options, the search thread | one handler per command; the search lambda |
| Info emitter | `uci/state_manager.cpp` 43–133 | last depth, last move, PV shown at this depth | `info_callback`, `reset_info_emitter` |
| MTD driver | `search/search.cpp` 1379–1580 | stop flag, the best result, volatility, clock gate | `goMTD`, `stop` |
| MTD manager | `search/mtd.*` | depth, proved bounds, step, queue of betas | `nextBeta`, `increaseLowerBound`, `decreaseUpperBound`, `isLast` |
| SMP coordinator | `search/smp/smp_searcher.*` | stop flag, running count, boards and workers | `go`, `stop`, `set_board`, `worker_cb` |
| Merge | `search/smp/searchers_merge.h` | consensus depth, last result per worker and depth | `reset`, `update`, `merged` |
| Transposition table | `search/tt.*` | buckets of four two-word slots, the generation | `probe`, `store`, `new_search`, `clear`, `resize` |
| Tree search | `search/search.cpp` 111–1271 | call stack, lines, killers, abort flag | `search`, `qsearch`, `singular_move_search` |
| Move history | `search/history.h` | three tables of saturating entries | `on_cutoff`, `on_poor` |
| PVS driver | `search/search.cpp` 1283–1363 | as the MTD driver | `goPVS` |
| Time budget | `uci/time_control.*`, `search.cpp` 59–109 | the limits, the volatility account | `classify`, `compute`, `time_up`, `update_volatility` |
| Board | `board/chess_board*`, `castling_*`, `material_util.h` | bitboards, keys, histories, pin and check caches | `doMove`, `undoMove`, null moves, `isLegal`, `isValidMove`, `givesCheck` |
| Repetition table | `board/repetition.h` | open-addressed counters | `inc`, `dec`, `get` |
| Move generation, SEE | `board/move_generator.*`, `board/see_util.*` | move stacks | generators, `getSeeCaptureScore` |
| NNUE | `nnue/*` | incremental accumulators | `reset`, `push`, `pop`, `evaluate` |
| Tablebases | `syzygy/*` | tables loaded or not | `init`, `probe_root`, `probe_wdl` |
| Parsing | `uci/go.*`, `position.*`, `uci_move.*` | none | text to values |

### How they interact

The main thread runs `StateManager::run()`.  `go` spawns one thread, which runs
either the single `Searcher` or `SMPSearcher::go()`; the latter spawns a thread
per worker, each with its own board and `Searcher`, and polls.  Between threads
there are only: the stop flags (relaxed atomics, one per searcher and one of the
coordinator), the running count, the merge object (mutex), the transposition
table (relaxed atomics, no lock), standard output, and thread creation and join.
Everything else the command thread owns is touched by the search without any
lock, so its safety rests on `stop_and_join_search()` being called first by
every handler that changes it.

A searcher calls back into the UI through `Limits::on_iteration`: directly for
the single searcher, through the merge and the coordinator for the workers.

### What is hard

* a stop that races the start of the search it is meant for; a join that waits
  for a search that was not told, or has forgotten, to stop;
* objects that outlive what they are bound to: searchers and the board, the
  worker count, the table's generation;
* the MTD driver's convergence when the tree search, with all its pruning,
  contradicts a bound it proved before; windows at the mate boundary;
* what the GUI has been shown, through a throttle, against what is played;
* a vote over results that arrive in any order at any depth;
* two-word slots written by threads that share no lock, and a replacement
  scheme that must not lose what a deep search found;
* do and undo of a move over some twenty redundant fields, of which some are
  refreshed lazily and some trusted to be what they were;
* a hash table with a shortened deletion under a stack of keys;
* moves that come from elsewhere (the transposition table, the GUI) and must be
  recognised as legal or not.

What makes each component correct is in section 3; `PROJECT.json` lists the
hazards at their lines with the properties that cover them.


## 2. Modules

```
Scores ── MTDSearchManager ──┐
   │                         ├── GoMTD ── GoMTDProofs
   ├───── InfoEmitter ───────┤      └──── MCGoMTD
   │                         │
   ├───── SearchersMerge ────┴── SMPSearcher ── SMPSearcherProofs, MCSMPSearcher
   │
   ├───── Pruning ───────┐
   └───── SearchTable ───┼── TreeSearch ── TreeSearchProofs, MCTreeSearch
          GameTree ──────┘

TimeControl ── GoPVS ── GoPVSProofs, MCGoPVS
History ── TreeSearchProofs

UciSession ◁── StateManager ── StateManagerProofs        (◁ implements)
                    └───────── MCStateManager

TranspositionTable ── TranspositionTableProofs, MCTranspositionTable

RepetitionTable ── RepetitionStack ── BoardProofs, MCRepetitionStack
       │
Bitboards ── MoveUtil, Material, Castling
       └─── ChessBoard ── MoveGenerator ── UciMove ──┐
                 └─────── Evaluator ─────────────────┴── BoardSession ── BoardSessionProofs
                                                              ▽      └── MCBoardSession
                                            ChessRules ── ChessGame             │
                                                 └─────── StaticExchange ───────┘
```

The search is modelled at three heights.  `StateManager` and `SMPSearcher` see
searches that start, report and end; `GoMTD` and `GoPVS` see root searches that
return a score and a line; `TreeSearch` shows the calls below the root.  `GoMTD`
takes from `search()` exactly the scores and lines that `RootPromise` of
`TreeSearch` allows, and `RootKeepsPromise` proves that no others come.

**Scores** (`search/types.h`): the score scale: mate bands, the two values
outside every score, the scores a root search can return.

**MTDSearchManager** (`search/mtd.cpp`): both classes as records and each method
as an operator from the old object to the new one.  `genBetas()` always makes one
beta, `BETAS_COUNT` being 1.

**InfoEmitter** (`info_callback`): whether a result is printed and whether with a
PV.  The 80 ms test is a free Boolean `overdue`: the clock can make it either.
`Displayed` is what the GUI then has on its screen, the head of the last PV.

**GoMTD** (`Searcher::goMTD`): the control points are the loop head, the call of
`search()`, and the end of the iteration.  `StartProbe` is lines 1425–1455,
`FailHigh` and `FailLow` everything from the return of `search()` to the report
(1472–1550), `Boundary` the tests that leave the loop (1552–1577).  `stop()` may
come between any two of them.  `search()` is replaced by what it can return at
the root: any score between the two mate-distance limits and a PV when the root
has legal moves, mate or stalemate and none when it has not.  Nothing ties the
score of a probe to the one before, as the pruning of the tree search does not
either.  `time_up()` is a free Boolean of a search that has limits; `GoPVS` has it
whole.

**GameTree**, **Pruning**, **SearchTable**, **TreeSearch** (`search/search.cpp`
111–1271): `search()`, `qsearch()` and `singular_move_search()` as one machine with
an explicit stack.  A step goes from one recursive call or return to the next, so an
abort can come at the head of every call, where `check_for_stop()` is.  `GameTree` is
the board as the search sees it: positions with their legal moves, evaluations,
checks, exchange values, tablebase verdicts, and the counters behind the draw rules.
`Pruning` has every margin, reduction and gate as a formula over one node: razoring,
reverse futility, the null move and its verification, futility and late-move pruning,
SEE pruning, late-move reductions, singular extensions.  `SearchTable` has the
conversion of mate scores between root and node, the rule by which an entry
replaces another of its position, and the cut by an entry.  `TreeSearch` puts them
together with internal iterative reduction, the phases of move generation, killers,
lines, extensions and re-searches.  The order that history scores give to moves is
a free choice within a phase, and their effect on a reduction is one of less, none or
more.  Entries that another thread stored, or that a 32-bit key or a torn slot
confuses, are the game's `foreign` entries, which a probe may find or not.

**TimeControl** (`uci/time_control.cpp`, `go.h`, the limits of `cmd_go()`): from the
numbers of a `go` to the least and the most time of its move, in milliseconds rounded
down where the code computes in floating point.  **GoPVS** (`Searcher::goPVS`):
iterations against that budget.  A look at the clock comes with every 4096 nodes, an
iteration may return at any time with any score and move, and `update_volatility()`,
`time_up()` and the gate that lets a search end early follow.  The UCI front end always
sets `use_mtd`, so only a command-line driver runs `goPVS()`; budget, gate and
volatility are those of `goMTD()` as well.

**History** (`search/history.h`): the update of an entry, by a bonus that shrinks as the
entry nears its limit.  Its names begin with `History`, because `TreeSearchProofs` holds its
proofs as well.

**UciSession**: the abstract promise, four actions and no thread: one `bestmove`
for each `go`, computed for the position current at that `go`, the position
changed and the engine ended only when idle.

**StateManager** (`uci/state_manager.cpp`): the command thread is split at every
point where the search thread can matter: reading, raising the stop flags,
joining, acting.  The search thread is created, bumps the generation and clears
its stop flag (in the order of the lambda for the single searcher and of
`SMPSearcher::go` for the other), searches, returns, prints its move.  A searcher
is the position of the board object it is bound to, so one that was not re-bound
is visibly stale.  Left out because they change no state: `uci`, `isready`,
`ponderhit` and unknown commands; `search_running_`, `search_side_` and
`last_best_move_`, which nothing reads.

**SearchersMerge**, **SMPSearcher** (`search/smp/`): the merge as a value with an
operator per method (its mutex makes each one step), the coordinator, the workers
and the caller of `stop()` as three kinds of process.  A worker clears its flag
when it starts (`goMTD`'s first lines), reports any score, move and bound at its
depth, goes deeper and returns.  Every worker's flag is a variable of its own,
because `stop()` reaches them one after the other.  The winner among equals is
free: the code takes the order of a hash table.

**TranspositionTable** (`search/tt.cpp`): one bucket.  Each load and store of a
word is an action; the registers of a thread are `local[t]`.  The data word keeps
its move and, in place of score and evaluation, the position they belong to (`of`),
which is all that tearing can confuse; what scores mean is in `SearchTable`.  `new_search()` and `clear()` happen only
when no thread is in the table, which `StateManager` shows.

**RepetitionTable** (`board/repetition.h`): linear probing and the deletion, as
operators on a function from slots to entries.  `natural_slot` stands for
`key & mask_` and is a parameter.  **RepetitionStack** is the way the board uses
it: one `inc` per move made, the matching `dec` when it is taken back.

**Bitboards**, **MoveUtil**, **Material**, **Castling** (`board/`): squares, attack
and line tables, the attackers of a square, the fields of a move, the packed material key with its carries, the castling squares of both
kinds of chess.  A bitboard is the set of its squares.  The material key is a
32-bit word that wraps, kept as two halves; in the code it is an `int`, whose
overflow (four black queens) the C++ standard leaves undefined and the builds wrap.

**ChessBoard** (`board/chess_board.cpp`, `chess_board_util.cpp`): the class as a
record, each method as an operator on it.  `doMove` is split into what it does to
each field (`PiecesAfter`, `MaterialAfter`, `PawnKeyChange` ...), because each is
computed on its own and could drift on its own; `undoMove` is translated apart,
not defined as the inverse.  A Zobrist key is the set of the random numbers XORed
into it, which is what it is when no two sets collide.

**MoveGenerator** (`board/move_generator.cpp`): each generator as a set of moves.
**UciMove** (`uci/uci_move.cpp`): reading a move picks the first generated one that
the text names, so here the order of generation is kept (`ListedBefore`).

**StaticExchange** (`board/see_util.cpp`): the four functions with their x-rays and
their order of attackers.  Beside them stands the reference, an exchange played by
rule: each side takes with the piece that it risks least by it, or stops, and a king
does not take what is guarded.  That is the rule the code follows, not the best play.

**Evaluator** (`nnue/nnue.cpp` 196–397): the feature columns, king buckets and
mirroring, the choice between a difference and a refresh, and the stack of
accumulators.  An accumulator counts the weight columns added to it, so it is right
when it holds each column of the board once.

**BoardSession**: the board and the evaluator under the search, which makes legal
moves and null moves and takes back the last one; the evaluator follows the moves
and not the null moves.  `past` keeps the boards on the way down, so that what is
taken back can be compared with what it was.  The positions it starts from are those
of well-formed FENs (`WellFormed`): a FEN is not checked by the code, and a board
with two kings a side, or a right to castle with a piece that is no rook, means nothing.  `Refresh` is the refresh of the pins that `isValidMove` and
the generators do on their own.

**ChessRules** and **ChessGame** are the reference: the laws of chess written from
files and ranks, sharing with the code only the names of the squares and of the
fields of a move, and the game tree that a search may walk.

The `MC` modules hold only what TLC needs: sets for the constants and symmetry.
Definitions named after another with a suffix (`ClampBetaShort`, `EmitsThrottled`,
`JoinsFirstNotOptions` ...) are plausible wrong versions of it: no specification
uses them, and substituting one for its original makes TLC report the property that
`PROJECT.json` pairs it with, which shows that the property depends on that code.


## 3. Runs

`tlc -config <cfg> <module>`; all take under two minutes on two cores.

| Run | Module, cfg | Question | Result |
|---|---|---|---|
| `mtd` | `MCGoMTD` | the MTD driver under any scores, stops and clocks | holds, 140,591 states |
| `uci` | `MCStateManager` | the session under any commands and interleaving | holds, 616,332 states |
| `uci_stop` | `MCStateManagerStop.cfg` | is every stop answered? | violated |
| `smp` | `MCSMPSearcher` | the vote and what is shown and returned | holds, 3,065,134 states |
| `smp_threads` | `MCSMPThreads.cfg` | do the threads always come to an end? | holds, 39,422 states |
| `tt` | `MCTranspositionTable` | the replacement scheme of a bucket | holds, 547,326 states |
| `board` | `MCBoardSession` | the board, its moves, names, exchanges and accumulators against the laws of chess | holds, 6,718 states |
| `board_queens` | `MCBoardQueens.cfg` | are generated king moves legal? | violated |
| `rep` | `MCRepetitionStack` | the repetition table under a stack of colliding keys | holds, 781 states |
| `search` | `MCTreeSearch` | the tree search under pruning, re-searches, foreign entries and aborts | holds, 155,131 states |
| `search_mate` | `MCTreeSearchMate.cfg` | is a mate that pruning leaves standing a mate? | violated |
| `clock` | `MCGoPVS` | the time of a search under any volatility | holds, 354,080 states |

### What holds

*The MTD driver.*  Every probe asks an open question inside the band in which the root
returns a PV (`ProbeInsideWindow`), the interval between probes is open, free of mates
and has exactly one beta waiting (`OpenWindow`, which is proved and in no run), every
probe finishes its depth or narrows the interval even against contradicting scores
(`ProbeMakesProgress`), and therefore the search returns (`Terminates`).  The move it
would play is the one on the screen (`DisplayedMoveIsBest`), every converged depth has
shown a PV unless it converged on being mated (`DepthShowsPV`), and after a committed
win no probe is started (`NoProbeAfterMate`).

*The tree search.*  A root search that is not aborted returns a score the driver can
work with, and a move exactly when there is one (`RootPromise`), at a drawn root as
well; its line can be played from the root, whatever moves the shared table named
(`PvPlayable`).  Every path out of a call, aborted or not, takes back what was made:
board and accumulators stand where the calls in progress have taken them, through null
moves, verification and singular tests (`BoardFollowsCalls`).  The phases of a node
neither repeat nor forget a legal move, whatever the table move and the killers are
(`EachMoveOnce`).  In a game where no reply can be left out, a mate score is a forced
mate within the plies it names, through conversion to and from the table, mate-distance
pruning, reductions and null moves (`MateIsForced`).  An abort leaves no killer and no
entry that rests on an unfinished call (`AbortLearnsNothing`), and extensions,
re-searches and evasions end (`SearchTerminates`).

*The clock.*  A search that the clock ends had its guaranteed time, or all the clock
there is (`GuaranteedMinimum`); the time given is not overrun if the part held back
covers the time between two looks at the clock (`NeverFlags`); only a change of score
or move stretches a search beyond the guarantee (`CalmSearchEndsInTime`); and every
timed search ends, also with an empty or overdrawn clock (`TimedSearchEnds`).

*The session.*  A live search works on the current position with the current
worker count and notation (`SearchSeesGame`), has a generation of its own
(`GenerationOfSearch`) and is not disturbed by any command (`SearchUndisturbed`);
a command that joins a search which is bounded, or single-threaded and past its
first lines, is carried out (`CommandsComplete`); and the whole implements
`UciSession` (`Implements`).

*The vote.*  The incremental fold credits each move what the documentation says,
in any order of arrival (`VoteIsFair`); the returned move is the one shown
(`ReturnedMoveIsShown`); the threads end (`Returns`).

*The table.*  One entry per position when no store is under way (`OneEntryPerKey`),
and an eviction never spares a weaker entry (`WeakestIsEvicted`).  These are
properties of one thread: two of them can store the same position in two slots, which
the table accepts.

*The board.*  After any sequence of moves, null moves and take-backs every field that is
updated piece by piece is what a board set up anew would hold (`IncrementalState`); a
move taken back leaves the very board it was made on, the history, the pins and the
repetition table included (`UndoRestores`); the pieces that give check are those a full
search finds, and pins that are not marked dirty are right for both kings
(`CachesExact`); the moves that pass `isLegal()` are exactly the legal ones and never
capture a king (`MoveGenerationExact`, of which `KingsStand` is a part); a move of the
transposition table, stored for any other position, is accepted exactly when it is legal
here, although the search does not call `isLegal()` on it (`TtMoveChecked`);
`givesCheck()` foresees what `doMove()` finds (`GivesCheckExact`); the repetition table
counts the positions on the way down (`RepetitionsCounted`); a move printed and read
back is the same move in both notations (`UciRoundTrip`); the accumulators are those of
a fresh evaluation (`AccumulatorsFresh`); the exchange value of every legal move, except
an en passant capture in front of a rook or queen, is one that the reference exchange
comes to (`ExchangesByLeastValue`); and the board implements the game (`Implements`).

*The repetition table.*  Its deletion stops at the first entry that must stay,
where the algorithm it names goes on.  Used as a stack that is enough: no deletion
ever moves an entry (`EntriesStay`), and every key is found with its count
(`Counted`).

### What does not hold

Each violation run refutes one sentence of the repository's own documentation.

* `StopTerminatesSearch` (`uci/state_manager.h:7`).  `goMTD` clears `stop_` on the
  new thread, so `go infinite` followed at once by `stop` loses the stop and the
  command thread joins a search that nothing will end.  The single-threaded case
  is enough; the SMP coordinator clears its flags in the same way.
* `KingMovesAreLegal` (`board/move_generator.h:1`, `board/material_util.h:6`).  The
  queens are counted in three bits: eight of them, and no other piece but pawns,
  read as no piece at all, and the tests that guard the king's moves skip every
  attacker but pawns and the king.

* `ProvenMateIsForced` (`search/search.cpp:1572`).  Once the first reply of a node
  off the principal variation was searched, futility and late-move pruning may leave
  out the other quiet ones (`search.cpp:835`), even if the first was mated.  The mate
  of that one reply is returned as the value of the node, may reach the root as a
  fail-high, and the driver takes it for a proven mate and stops searching.

Other disagreements were met and have no run, because nothing in the repository
promises otherwise or because no property of a model shows them better than the code.

* A search stopped inside its very first probe has no move and prints the null move
  (`search.cpp:1495`).  One completed probe suffices, which is the theorem
  `FirstProbeCommits`.
* `merged()` advances one depth per call and the last call is made once, so short SMP
  searches return less than the workers found, where `search/README.md:243` has the
  reported depth advance as soon as the first worker completes it.
* The re-read of the key word (`search/tt.h:49`) cannot notice a writer that has stored
  the data word and not yet the key word.  The same header (line 6) tolerates it: the
  search validates the move.  `TreeSearch` meets such entries as foreign ones.
* A depth that converges on the proof that the side to move is *mated* escapes all
  three mate tests of `search.cpp:1569`, because fail-lows are not committed: time is
  lost, not the move.
* `detectCastlingConfig()` takes the first rook beside the king, of either colour,
  where K and Q of a FEN mean the outermost own rook: a FEN with another rook between
  the two gives a castling with the wrong rook, or takes a right away when the visitor
  leaves.  The model makes that choice too, and `ChessRules` starts from it.
* The search that verifies a null move against zugzwang (`search.cpp:608`) may make a
  null move in the same position, at its lower depth; an abort below razoring or a first search is noticed a few
  lines later than it could be, which costs nodes and no more; the score of a
  tablebase keeps the distance from the node that stored it, a difference of a few
  centipawns.
* The exchange always takes with the least valuable piece, and lets a pawn that promotes
  wait behind the queen.  That is not always the best exchange, because a piece that
  leaves may open a line for the other side: with P d4 and Q e2 against B c3, Q b2 and a
  knight that has just come to e5, the pawn wins 200 and the queen would win 300.  The
  reference exchange is played by the same rule and shows nothing of what would be best.
* `see_util.cpp:85` takes only the square the capturer comes from off the board.  The
  pawn taken en passant stays, and hides a rook or a queen behind it on the file: with
  K a1, P d5, R e1 against K h8, P e5, f7, d5xe6 is worth 0 and should be worth 100.
  `ExchangesByLeastValue` excepts such captures; the root `EnPassantFile` is one of them.
* `uci/README.md:87` and `:88` give a budget of `clock / 35 + inc` and `clock /
  movestogo + inc`: the code takes the larger or the smaller of share and increment,
  and divides by one move more.

### Bounds

* `mtd`: the scale is `MaxMate = 9`, `MaxPly = 3`, so that both mate bands, the
  limits outside them and a middle wider than the trust window exist; windows of 2
  and 1 and a multiplier limit of 3 let the step double, saturate and overrun the
  scale; static evaluations at both ends and in the middle; two depths, so that what
  is carried from one depth to the next matters; two moves.
* `uci`: two positions, one a tablebase hit; thread counts below, inside and above
  the limits; two table sizes; three generations, so that the counter wraps.
* `smp`: two workers, two depths, two moves; scores of which one is a mate and two
  have a sum that does not divide evenly.  `smp_threads`: three workers, one depth,
  with searches that only a stop ends.  The moves are symmetric in `smp`, which
  checks no liveness.
* `tt`: two slots for three positions, so that every scan of a full bucket has a
  slot to prefer; depths 0, 4 and 5, on both sides of the "4 plies deeper" rule and
  equal to each other under the age weight; two generations.
* `board`: a move, and a move or null move after it, each taken back (`MaxPly = 2`),
  from fifteen roots with few pieces, each built around one hard case: classic
  castling past attacked squares and rights lost to captures; Chess960 castling
  where king and rook swap, stay or share a square, and beside a foreign rook; en
  passant that is pinned along the rank, answers a check, discovers one, stands before
  a rook or is offered to nobody; pinned pieces of several kinds; checks by a slider, a
  knight and two pieces; promotions that capture or block; exchanges that open x-rays
  for both sides.  The board's code is the same at every
  ply, and what the second ply adds is state left by the first: the dirty flag, the
  en passant square, rights, the history.  What two plies cannot show is a drift
  that needs three moves to become visible; the comparison with a board set up anew
  at each state is there to see it where it starts.  Random keys are replaced by
  sets, and the table of eight slots makes them collide.
* `search`: twelve games of up to twenty positions, each built around one part of the
  search: forced mates with a shorter one beside a longer one; null moves that hold, are zugzwang or
  meet a mate, at depths without and with verification; captures that win, hold and
  lose with killers, late and hopeless moves; repetition, the fifty-move rule, bare
  kings and tablebases; singular table moves and table moves that are not legal;
  evasions and exchanges below the horizon; roots that are mated, stalemated or drawn.
  Probes use null windows and full ones, two to a game where what the first leaves in
  the table and the killers matters.  Four of the games are searched again with an
  abort possible at every node.  Margins and reductions have their values of the code,
  mate is 30000 as there, only `MaxPly` is 12.  What such games cannot show is a drift
  over a long search; each of the properties is one of single nodes or of a whole call.
* `clock`: looks at the clock 10 or 30 ms apart, up to `Horizon` = 650 ms; four depths,
  three scores of which one is a mate, two moves; clocks from overdrawn to 600 ms with
  and without increment, moves to go, a move time, depth, nodes, ponder.  The theorems
  have none of these bounds.
* `rep`: five slots, up to four keys on the stack, of which some share a natural slot
  and some wrap around.

### Fairness

Threads are scheduled by the operating system, so a step a thread can take is
eventually taken: weak fairness per thread.  Nobody is obliged to call `stop()` or
to send a command, and a search has no duty to end by itself in `StateManager` and
`SMPSearcher` unless it has limits or its flag is up: an `infinite` search may go on.
`GoMTD` shows that a search with a depth limit ends on its own.  `TreeSearch` is one
thread that goes on until it has returned.  In `GoPVS` nodes go on being searched and
the clock being looked at, but no iteration need ever end: `TimedSearchEnds` does not
depend on it.  For the SMP
searcher `StateManager` assumes only that a *limited* search returns; that a stop
ends it is what `smp_threads` examines, with the flags of each worker.


## 4. Proofs

`tlapm` checks every obligation of the eight modules whose names end in `Proofs`.

**BoardProofs and BoardSessionProofs**, for any well-formed positions, any number of
moves, any hash and any capacity of the repetition table that the way down does not
fill.  `BoardProofs` holds what needs no state: lemmas on the table of repetitions, on
single moves and on the tables of the pieces.  `BoardSessionProofs` takes them to the
board under the search.  Neither `UndoRestores` nor `RepetitionsCounted` says enough to
be inductive, and one invariant, `BoardInv`, is behind the first six theorems:

* *a sound board* (`Sound`): bitboards, occupancies, the index of pieces and the king
  squares are one placement seen four ways (`WhoIsWhere`); each side has one king; a pawn
  stands behind the en-passant square; each castling right has its king and rook at
  home; no piece stands between the king and a slider that checks it (`ChecksClear`).
  These are the facts that do and undo rely on without testing them;
* *a linked way down* (`Linked`): every board in `past` leads to the next by one move
  that fits it (`MoveFits`, what the generator guarantees) or by a null move;
* *the repetition table*: it and the keys on the way down satisfy `StackInv`, the
  invariant of a `RepetitionStack`, whose lemmas serve both.

The argument then has four steps.  Every move that the generators make fits a sound
board.  A move that fits one leaves a sound one: an ordinary move changes the places of
at most three pieces, castling of two, and the lemmas on places say what each
change does to the four views.  What a move did to a field, `undoMove` does back, field by
field: for the bitboards that the same symmetric difference twice is nothing, for the
packed material key that addition and subtraction carry alike, for the repetition
table that the count last raised is the one lowered and the repair moves nothing.
So a step down adds a link, a step up removes one and meets the board it came from.
`StateIsIncremental` adds to the invariant that every board on the way down fits a
board set up anew (`Fits`, `FitInv`): keys and counts are unions and sums over the
pieces, and each lemma moves one piece from a sum to another.

`AccumulatorsFollow` adds the frames of the evaluator: each one that is not clean says
which pieces to add to and take from the one below it, and the sum of the columns of the
pieces is moved as the keys are.  `TextNamesTheMove` rests on the generated moves being
told apart by their squares and promotions, castling by the king's and the rook's
squares among them.

These six take for granted that no legal move captures a king (`KingsStand`).  That is
what `isLegal()` and the generator owe the board, and it is no invariant by itself: a
move is judged by the cached checks and pins, so these have to be right before the move
for the king to be safe after it.  The inductive invariant is `GuardInv`: on the board
and on every board below it, the king that waits is not attacked (`KingSafe`), the
checks are all the checks (`ChecksFit`), and the pins, unless marked dirty, are those of
the position (`PinsFit`).  It is proved in four stages:

* *geometry*: a slider attacks along a line, what stands between two squares of a line
  is what the table of lines says, and of three squares of a line one lies between the
  other two.  All of it is about files and ranks and holds of every square;
* *moves*: a piece that leaves a line can only open it, one that arrives can only close
  it.  An unpinned piece, a pinned one on its line, a capture of the only checker, a king
  that steps with itself lifted from the board, en passant with both pawns lifted and
  castling with king and rook lifted each leave the king safe, by cases;
* *the checks*: `doMove()` looks for checks by the piece that moved and by those it
  uncovered only, and these are all, for the king that is now to move was not attacked
  before;
* *the pins*: they are left alone by `doMove()` exactly if no line of a king has changed
  (`PinsMayChange`), and those of a null move and of a board set up anew are marked dirty.

`CachesAreExact` then compares the two caches with the laws of chess: `ReachedIs` shows
that the tables of moves give exactly what a piece reaches by steps of files and ranks,
`CheckersAre` and `PinsAre` that the board's men read through `PositionOf` attack and
shield as the cached sets say.

`BoardPlaysChess` is the refinement of `ChessGame` (`Implements`).  A position is read
off the board (`PositionOf`) and those before it off the boards of the way down, so
that a move or a null move is `Play` or `Pass`, a take-back is `TakeBack`, which pops
that sequence, and a refresh of the pins is a stutter.  For a move there are two
things to prove, in `PlaysSafely` and `PlaysLawfully`.  *The effect*: each field of the board after the
move is the field that `Played` gives, the en-passant square, which the code only sets
when a pawn can use it, and the castling rights among them (`OrdinaryPlayed`,
`CastlingPlayed`).  *The right to it*: what the generator makes is a pseudo-legal
move (`OrdinaryPseudoLegal` from `ReachedIs`, `CastlingPseudoLegal`), and no piece attacks
the king that waits on a guarded board (`NoCheckAfter`).  Castling needs one more
hypothesis, `KingsAtHome`: a side with a castling right has its king on its first rank.
The code takes the king's square from the FEN as it is and castles from wherever that
is; on another rank the squares between king and rook are not those that the laws ask
to be empty and safe.  The rook that `detectCastlingConfig()` finds is then on that
rank too, on the side of the king that the right is for (`DetectedHome`), and no step
changes that (`HomeInv`).

`MoveGenerationIsExact` says that such a board's generator and `isLegal()` together yield
the legal moves of the position and no others.  That what they yield is legal is
`PlaysLawfully`, above; that none is missed (`LegalGenerated`) is proved backwards, from
a move of the laws whose mover's king is safe on the board it leads to:

* a move other than a castling or a capture en passant is one that the tables allow
  (`PieceMovesAre`), so it fits the board and `OrdinaryNow` says what it leads to;
* a king that is safe afterwards means that a check was answered, by taking the only
  checker or stepping onto its line (`SafeAnswers`), and that a pinned piece stayed on the
  line of its pin (`PinLineRuns`): exactly the targets and the cases by which the
  generator lists moves (`PieceGenerated`, `PawnGenerated`); a pinned pawn that promotes
  by a push is left out, and cannot be (`PinnedPromotesNot`);
* a step of the king is safe by the laws if and only if `IsSafeForKing()` finds nobody with
  the king lifted (`SafeIs`), if the key shows the pieces the search may skip (`KeyTells`);
* `isLegalEPMove()` is true exactly if the king is safe after both pawns are lifted
  (`EpMoveIs`), and such a capture is never played out of two checks (`EpOneCheck`);
* for castling, the laws look along the king's way with the king lifted and the code with
  the rook lifted too: an enemy that looks past the rook at a square of the way looks,
  along the rank, at the king before the castling or at its target after it
  (`RookLifted`, `CastlingOpen`).

`GivesCheckIsRight` needs the same board of the move: `givesCheck()` lays out the men of
the side that moves, by the move alone, and these are the men that `doMove()` leaves
(`GivesCheckSees`); a full search among them finds what the laws call check, because
the king that has just moved is safe and so is no checker (`FullSearchIs`).

The hypothesis left in place of `KingsStand` is `MaterialHolds`: the counts of a side
stay below the width of its half of the material key.  The search for attacks on a
square the king steps to leaves out sliders when the key says that the enemy has none,
and eight queens are zero queens to the key, the illegal king move that `board_queens`
shows.  `MaterialHolds` is no assumption about the code for most games:
`CountsAlwaysHold` proves it, and `KingsStand` with it, for every behaviour from
positions whose pawns can all promote without reaching the eighth queen
(`RoomToPromote`), because a promotion costs a pawn and nothing makes one.  Of
the starting position of chess that cannot be proved, since it can be broken: nine
queens are legal.  `BoardIsRight` states the six theorems under this hypothesis, and
`BoardPlaysOn` and `MovesAreTheLegalOnes` the refinement and the exactness of the moves under
`RoomToPromote` in its place.
`KeysHaveSlots`, the other one, says that the natural slot of a key is a slot, which is
so of any `key & mask_`.

**TreeSearchProofs**, for any games, tables, scores and probes.  Of the games
`GamesAssumption` says what the rules of chess give: finitely many legal moves, a move
is noisy wherever it is legal or nowhere, a side that is not in check can pass.
`ScoresAssumption` says that evaluations lie outside the mate bands, that the entries
other searches left are bounded as this search is shown to leave its own (`TableOK`
is part of the invariant, so the assumption reproduces itself), and that a root search
is asked for at least a ply with a window that mate-distance pruning leaves open, which
is what the clamp of `goMTD()` before the call is for and `ProbesInsideWindow` proves.

Nothing about `search()` is inductive taken by itself: `BoardFollowsCalls` needs to know
of every call that waits which move it has made, and a value that comes back is as good
as what the caller may conclude from it.  So the argument is in layers, each with one
lemma per action that says what that action does, and one lemma that a step which
does so keeps the layer:

* *the board* (`BoardInv`, `KillersQuiet`): every step is disciplined, that is, it returns,
  goes on or calls, and makes or takes back just the move that goes with it, a null
  move or none at all;
* *the phases*: what a call has yet to search is what its phases have not passed, so no
  move comes twice and none is lost, though the table move and the killers are
  searched out of their turn; a killer is never a noisy move, which `KillersQuiet` is for;
* *the lines* (`LinesOK`): the line at a ply can be played from the position of its call,
  or it is not yet written and nobody reads it;
* *the abort* (`Settled`): once aborted no call has counted a move, so that nothing is
  concluded from a call that did not end;
* *the values* (`ValueSound`): what each call returns (`Promises`) and what the one
  above it may rely on (`Awaits`), with a window that only closes and stays between the
  nearest mates of its ply; the bounds of the table's entries survive the shift of
  mate scores by the ply they are stored and read at;
* *the root* (`RootOK`): at ply 0 no cutoff of the table, the tablebases or pruning ends
  the call, so a root with a move has a line and a score no better than mate in one.

The arguments by induction are here and in `SMPSearcherProofs` carried by sets: a set of
naturals that has 0 and the successor of each of its members has them all.

**GoMTDProofs**, from the assumptions named in `Scores`, `MTDSearchManager` and
`GoMTD` (the score scale has a middle, windows and limits are positive, `NoMove` is
not a move).  The invariant joins the types with what each control point knows:
between probes the interval is open and wider than the trust window, ends outside
the opposite mate band, and the queue holds exactly `GenBeta` of the current
interval; during a probe the clamped beta splits the interval; a committed lower
bound has a move; the emitter's last move is the best move whenever a PV is on the
screen, which is why suppressing a line is harmless.  The interval facts are needed
because `ProbeInsideWindow` is not inductive by itself: a probe's beta was computed
one step earlier, from the interval as it was left by the previous probe.  Lemmas
about `GenBeta`, `ClampBeta`, `IncreaseLower` and `DecreaseUpper` carry the arithmetic.

`DepthsShowPV` needs more, because the result that shows a line and the one that ends
the depth are steps apart.  Its invariant `PvInv` says that a depth whose interval has a
lower bound has shown its line, since only a fail-high proves one and brings the
line; so a depth that converges without a line is one whose upper bound came down to
the bottom of the scale.  That this end of the scale holds mate scores only takes a
trust window no longer than the mate band, 8 against 128: an assumption of the theorem,
not of the model.

**StateManagerProofs**, from `StateManagerAssumption` (`None` is none of the
objects, sizes and counts are numbers).  The invariant is

* `JoinInv`: when a command acts there is no live search, because all handlers
  joined first;
* `ObjectInv`: every searcher that exists is bound to the current board, live or not;
* `GenerationInv`: what the thread captured and the table's generation differ by
  exactly the bumps the thread has made.

`SearchSeesGame` needs `ObjectInv` for the searcher that is *not* in use, since the
next `ThreadsCount` may switch to it.  The refinement theorem maps the GUI's view
onto `UciSession` and shows each action to be one of its four or a stutter.

**The table of repetitions** (in `BoardProofs`), for any capacity, keys and hash, from the assumption
that the stack is shorter than the table.  `Counted` says nothing of how
the keys are laid out, so it is far from inductive.  `StackInv` adds that each key has
one slot, that the used slots are those of the keys on the stack, and the fact that
carries the proof: *a probe chain runs over older entries only* (`ChainsOlder`), an
entry being as old as the first position of its key on the stack.  When a count
drops to zero its key was the newest, so its slot lies on no other chain and may
simply be emptied; every entry behind it reaches its slot without that one, so the
repair finds nothing that it may move.  `EntriesStay` is that second half.

**SMPSearcherProofs**, for any number of workers, depths, moves and any reports.
Types first: the running count is the number of workers at work, which keeps it from
going below zero (`CountInv`), and the vote only ever holds reported moves
(`MergeInv`).  `ResultWasShown` then needs what the coordinator knows at each point of
its loop: the result sent last, the one the emitter remembers and the one on the
screen have the same move, printed or suppressed (`ShownInv`).

`VoteFair` is about arithmetic: the merge adds the workers' scores one by one to an
accumulator in which the first mate score supersedes the sum, and what comes out must
be what the voters' scores say taken together, the best mate or else the mean of all.
`AggregateIsFold` and `SumIsFold` make folds over the workers of both recursive
definitions, and `VotesCounted` shows by set induction that the folds agree after every
worker: on the count, on whether there is a mate, and on its score or the sum.

**TranspositionTableProofs**: types for any number of threads, slots and keys; and
for one thread, any bucket and any positions, `OneEntryOfAThread`.  The bucket
fills from the first slot (`UsedFirst`), a used slot has a key (`UsedHasKey`), no two
have the same (`Distinct`), and a store in progress has passed only slots of other
positions (`StoreInv`): so when it writes, its position is in no other slot.
`WeakestOfAThread` keeps of the same scan that the slot it means to give up has the
lowest score of those it passed (`Lowest`) and that the words and the generation it
computed them from still stand (`Settled`).  With more threads both promises are
false: two can store one position into two slots, and a victim can be refreshed
between the scan and the write.

**GoPVSProofs**, for any commands, clocks and increments, any scores and moves, and
any delays with a longest one.  Two lemmas on integer division and one on each kind of
command bound the budget (`BudgetOf`: the most is at most what is given less what
is held back).  The invariant says that a search that goes on has time left, that the
gate closes only after the guaranteed minimum, that volatility never lowers the time
available, and that without a change of score or move its account stays empty.

**History** (in `TreeSearchProofs`), for bonuses of any depth: an entry stays within its bounds and moves
the way it is told, at the bounds as elsewhere, because the part that a bonus is
damped by never exceeds the room that is left (`Damped`).

What stays with TLC:

* liveness under fairness (`Terminates`, `CommandsComplete`, `Returns`,
  `SearchTerminates`, `TimedSearchEnds`), which the prover does not reach;
* `MateIsForced`: that a mate score is a forced mate is an induction over the game tree,
  whose levels are many calls and, through the table, many searches apart;
* `TtMoveChecked`, whose moves come from another position;
* `ExchangesByLeastValue`, whose code is recursive and is therefore stated in the `MC` module.


## 5. Not modelled, and the plan

Left out for good: the SIMD kernels, the network's arithmetic and its evaluation cache,
the hashing of the attack tables, the text of commands, the vendored tablebase prober,
the command-line drivers, the build.  `hasSufficientMatingMaterial()` is a free fact of
each position of `GameTree`; scores that order moves are free choices; the node
counters are left out where no limit reads them.

Planned:

1. Proofs for the board: `TtMoveChecked`, from the lemmas on what is generated.
2. Larger games in `search`, composed of the small ones, and a third ply in `board`.
