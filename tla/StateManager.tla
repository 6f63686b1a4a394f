---------------------------- MODULE StateManager ----------------------------
(***************************************************************************)
(* uci::StateManager (src/src/uci/state_manager.cpp): the thread that      *)
(* reads UCI commands, the thread it spawns for each search, and what the  *)
(* two share: the board, the transposition table, the two searchers and    *)
(* their stop flags.                                                       *)
(*                                                                         *)
(* A board object is its position.  A searcher is the position of the      *)
(* board object it is bound to, which is stale when that object was        *)
(* replaced and set_board() was not called.  The search itself is one      *)
(* control point, "searching": GoMTD and SMPSearcher are its inside.       *)
(* Commands that change nothing (`uci`, `isready`, `ponderhit`, unknown    *)
(* ones) are left out, and so is search_running_, which nothing reads.     *)
(***************************************************************************)
EXTENDS Integers

CONSTANTS
  Positions,       \* positions the GUI may set up
  StartPos,        \* the initial position
  TablebaseHits,   \* positions in which probe_root() finds a move
  ThreadValues,    \* values given to ThreadsCount
  MaxThreads,      \* max_threads(), twice the number of cores
  TTSizes,         \* values given to TTSize, within the limits
  DefaultTTSize,   \* kDefaultTTSizeMb
  Generations,     \* values of the generation counter, 256 (a uint8)
  None             \* an object that does not exist

TableType == [size : Nat, gen : 0 .. Generations - 1]
SMPType == [threads : 2 .. MaxThreads, board : Positions]

ASSUME StateManagerAssumption ==
  /\ StartPos \in Positions
  /\ None \notin Positions \cup TableType \cup SMPType
  /\ ThreadValues \subseteq Int
  /\ MaxThreads \in Nat \ {0}
  /\ TTSizes \subseteq Nat
  /\ DefaultTTSize \in Nat
  /\ Generations \in Nat \ {0}

VARIABLES
  pc,        \* control point of the command thread
  cmd,       \* the command it handles
  board,     \* board_
  tt,        \* tt_
  ttSize,    \* tt_size_mb_
  threads,   \* threads_count_
  frc960,    \* frc960_
  tablebase, \* Syzygy::available()
  searcher,  \* searcher_, the single-threaded one
  smp,       \* smp_
  stop,      \* their stop flags
  thread,    \* search_thread_ and what it captured
  answer     \* position of the last bestmove sent

objects == <<board, tt, ttSize, threads, frc960, tablebase, searcher, smp>>
vars == <<pc, cmd, objects, stop, thread, answer>>

-----------------------------------------------------------------------------
Commands ==
  [name : {"ucinewgame", "go", "stop", "quit", "malformed"}]
    \cup [name : {"position"}, position : Positions]
    \cup [name : {"ThreadsCount"}, value : ThreadValues]
    \cup [name : {"TTSize"}, value : TTSizes]
    \cup [name : {"UCI_Chess960", "SyzygyPath"}, value : BOOLEAN]

NoThread == [at |-> "none", smp |-> FALSE, limited |-> FALSE, frc |-> FALSE,
             gen |-> 0]

NoAnswer == "no answer"

Init ==
  /\ pc = "read"
  /\ cmd = [name |-> "stop"]
  /\ board = StartPos
  /\ tt = None
  /\ ttSize = DefaultTTSize
  /\ threads = 1
  /\ frc960 = FALSE
  /\ tablebase = FALSE
  /\ searcher = None
  /\ smp = None
  /\ stop = [single |-> FALSE, smp |-> FALSE]
  /\ thread = NoThread
  /\ answer = NoAnswer

-----------------------------------------------------------------------------
(* The command thread.                                                     *)

(* No join before an option is set.                                        *)
JoinsFirstNotOptions(c) == c.name \in {"ucinewgame", "position", "go", "stop", "quit"}

(* Every command that reaches the shared objects joins the search first.   *)
JoinsFirst(c) == c \in Commands

ReadCommand ==
  /\ pc = "read"
  /\ cmd' \in Commands
  /\ pc' = IF JoinsFirst(cmd') THEN "signal" ELSE "act"
  /\ UNCHANGED <<objects, stop, thread, answer>>

(* The stop reaches the searcher of the other thread count only.           *)
RaisedStopMissesOne(flags) ==
  [single |-> flags.single, smp |-> flags.smp \/ smp # None]

(* searcher_->stop() and smp_->stop(), on the objects that exist.          *)
RaisedStop(flags) ==
  [single |-> flags.single \/ searcher # None, smp |-> flags.smp \/ smp # None]

(* stop_and_join_search(), up to the join.                                 *)
SignalStop ==
  /\ pc = "signal"
  /\ IF thread.at # "none"
     THEN stop' = RaisedStop(stop) /\ pc' = "join"
     ELSE UNCHANGED stop /\ pc' = "act"
  /\ UNCHANGED <<cmd, objects, thread, answer>>

(* The thread is detached where it should be joined.                       *)
JoinableDetached(t) == t.at # "none"

JoinReturns(t) == t.at = "exited"

Join ==
  /\ pc = "join"
  /\ JoinReturns(thread)
  /\ thread' = NoThread
  /\ pc' = "act"
  /\ UNCHANGED <<cmd, objects, stop, answer>>

Handle(names) == pc = "act" /\ cmd.name \in names

(* set_board() on the single searcher only.                                *)
ReboundSingle(s, b) == s

(* smp_->set_board(): the workers' private boards.                         *)
Rebound(s, b) == IF s = None THEN None ELSE [s EXCEPT !.board = b]

NewGame ==
  /\ Handle({"ucinewgame"})
  /\ board' = StartPos
  /\ searcher' = None
  /\ smp' = None
  /\ tt' = IF tt = None THEN None ELSE [tt EXCEPT !.gen = 0]
  /\ pc' = "read"
  /\ UNCHANGED <<cmd, ttSize, threads, frc960, tablebase, stop, thread, answer>>

(* An illegal move ends the list of moves: what was applied is a position. *)
SetPosition ==
  /\ Handle({"position"})
  /\ board' = cmd.position
  /\ searcher' = IF searcher = None THEN None ELSE cmd.position
  /\ smp' = Rebound(smp, cmd.position)
  /\ pc' = "read"
  /\ UNCHANGED <<cmd, tt, ttSize, threads, frc960, tablebase, stop, thread, answer>>

TablebaseHit == tablebase /\ board \in TablebaseHits

(* A root tablebase hit is answered on the command thread.                 *)
GoTablebase ==
  /\ Handle({"go"})
  /\ TablebaseHit
  /\ pc' = "reply"
  /\ UNCHANGED <<cmd, objects, stop, thread, answer>>

SendTablebaseMove ==
  /\ pc = "reply"
  /\ answer' = board
  /\ pc' = "read"
  /\ UNCHANGED <<cmd, objects, stop, thread>>

(* ensure_tt(), ensure_searcher(), ensure_smp().                           *)
EnsuredTT == IF tt = None THEN [size |-> ttSize, gen |-> 0] ELSE tt

EnsuredSearcher ==
  IF threads > 1 \/ searcher # None THEN searcher ELSE board

EnsuredSMP ==
  IF threads > 1 /\ (smp = None \/ smp.threads # threads)
  THEN [threads |-> threads, board |-> board]
  ELSE smp

(* The stop flags of a searcher just constructed are false.                *)
EnsuredStop ==
  [single |-> stop.single /\ EnsuredSearcher = searcher,
   smp    |-> stop.smp /\ EnsuredSMP = smp]

(* The limits of the search come from the command: a clock, a depth or a   *)
(* node count, or none of them.                                            *)
GoSearch ==
  /\ Handle({"go"})
  /\ ~TablebaseHit
  /\ tt' = EnsuredTT
  /\ searcher' = EnsuredSearcher
  /\ smp' = EnsuredSMP
  /\ stop' = EnsuredStop
  /\ \E limited \in BOOLEAN :
       thread' = [at |-> "spawned", smp |-> threads > 1, limited |-> limited,
                  frc |-> frc960, gen |-> EnsuredTT.gen]
  /\ pc' = "read"
  /\ UNCHANGED <<cmd, board, ttSize, threads, frc960, tablebase, answer>>

ClampThreads(v) == IF v < 1 THEN 1 ELSE IF v > MaxThreads THEN MaxThreads ELSE v

SetOption ==
  /\ Handle({"ThreadsCount", "TTSize", "UCI_Chess960", "SyzygyPath"})
  /\ threads' = IF cmd.name = "ThreadsCount" THEN ClampThreads(cmd.value) ELSE threads
  /\ ttSize' = IF cmd.name = "TTSize" THEN cmd.value ELSE ttSize
  /\ tt' = IF cmd.name = "TTSize" /\ tt # None
           THEN [size |-> cmd.value, gen |-> 0] ELSE tt
  /\ frc960' = IF cmd.name = "UCI_Chess960" THEN cmd.value ELSE frc960
  /\ tablebase' = IF cmd.name = "SyzygyPath" THEN cmd.value ELSE tablebase
  /\ pc' = "read"
  /\ UNCHANGED <<cmd, board, searcher, smp, stop, thread, answer>>

(* `stop`, and a setoption that names no option or gives no value.         *)
NothingMore ==
  /\ Handle({"stop", "malformed"})
  /\ pc' = "read"
  /\ UNCHANGED <<cmd, objects, stop, thread, answer>>

(* `quit` or the end of the input; the destructor finds nothing to join.   *)
Quit ==
  /\ Handle({"quit"})
  /\ pc' = "ended"
  /\ UNCHANGED <<cmd, objects, stop, thread, answer>>

-----------------------------------------------------------------------------
(* The search thread.                                                      *)

(* A counter that stays at its limit.                                      *)
BumpSaturating(gen) == IF gen = Generations - 1 THEN gen ELSE gen + 1

Bump(gen) == (gen + 1) % Generations

(* tt_->new_search(): in the lambda for the single searcher, inside        *)
(* SMPSearcher::go() for the other.                                        *)
NewSearch ==
  /\ thread.at = IF thread.smp THEN "entered" ELSE "spawned"
  /\ tt' = [tt EXCEPT !.gen = Bump(@)]
  /\ thread' = [thread EXCEPT !.at = IF thread.smp THEN "searching" ELSE "numbered"]
  /\ UNCHANGED <<pc, cmd, board, ttSize, threads, frc960, tablebase, searcher,
                 smp, stop, answer>>

(* go() clears the searcher's stop flag.                                   *)
ClearStop ==
  /\ thread.at = IF thread.smp THEN "spawned" ELSE "numbered"
  /\ stop' = IF thread.smp THEN [stop EXCEPT !.smp = FALSE]
             ELSE [stop EXCEPT !.single = FALSE]
  /\ thread' = [thread EXCEPT !.at = IF thread.smp THEN "entered" ELSE "searching"]
  /\ UNCHANGED <<pc, cmd, objects, answer>>

Stopped == IF thread.smp THEN stop.smp ELSE stop.single

(* go() returns: told to stop, out of its limits, or by itself (a mate).   *)
Return ==
  /\ thread.at = "searching"
  /\ thread' = [thread EXCEPT !.at = "returned"]
  /\ UNCHANGED <<pc, cmd, objects, stop, answer>>

SearchedPosition == IF thread.smp THEN smp.board ELSE searcher

SendBestMove ==
  /\ thread.at = "returned"
  /\ answer' = SearchedPosition
  /\ thread' = [thread EXCEPT !.at = "exited"]
  /\ UNCHANGED <<pc, cmd, objects, stop>>

-----------------------------------------------------------------------------
Command ==
  \/ SignalStop
  \/ Join
  \/ NewGame
  \/ SetPosition
  \/ GoTablebase
  \/ SendTablebaseMove
  \/ GoSearch
  \/ SetOption
  \/ NothingMore
  \/ Quit

Search == NewSearch \/ ClearStop \/ Return \/ SendBestMove

Next == ReadCommand \/ Command \/ Search

Spec == Init /\ [][Next]_vars

(* Both threads run.  A search is bound to return only when something      *)
(* bounds it or, single-threaded, when its stop flag is up; nobody has to  *)
(* send another command.                                                   *)
FairSpec ==
  /\ Spec
  /\ WF_vars(Command)
  /\ WF_vars(NewSearch \/ ClearStop \/ SendBestMove)
  /\ WF_vars(Return /\ (thread.limited \/ (~thread.smp /\ Stopped)))

-----------------------------------------------------------------------------
(* Properties *)

Live == thread.at \notin {"none", "exited"}

ThreadType ==
  [at : {"none", "spawned", "numbered", "entered", "searching", "returned",
         "exited"},
   smp : BOOLEAN, limited : BOOLEAN, frc : BOOLEAN, gen : 0 .. Generations - 1]

(* The types of StateManager's members (state_manager.h).                  *)
TypeOK ==
  /\ pc \in {"read", "signal", "join", "act", "reply", "ended"}
  /\ cmd \in Commands
  /\ board \in Positions
  /\ tt \in TableType \cup {None}
  /\ ttSize \in Nat
  /\ threads \in 1 .. MaxThreads
  /\ frc960 \in BOOLEAN
  /\ tablebase \in BOOLEAN
  /\ searcher \in Positions \cup {None}
  /\ smp \in SMPType \cup {None}
  /\ stop \in [single : BOOLEAN, smp : BOOLEAN]
  /\ thread \in ThreadType
  /\ answer \in Positions \cup {NoAnswer}

(* No command replaces the board, a searcher, the table or an option while *)
(* a search uses them, and none starts a search over one that was not      *)
(* joined (cmd_setoption: "Options must not mutate shared state ... while  *)
(* a search is live").                                                     *)
SearchUndisturbed ==
  [][/\ Live => UNCHANGED <<board, ttSize, threads, frc960, tablebase,
                            searcher, smp>>
     /\ Live => tt'.size = tt.size
     /\ thread'.at = "spawned" /\ thread.at # "spawned" => thread.at = "none"
    ]_vars

(* The search works on the position the GUI set up last, with as many      *)
(* workers as the option says, and the notation of its info lines, fixed   *)
(* when it was spawned, is the one its bestmove will be printed in,        *)
(* whatever games, positions and thread counts came before.                *)
SearchSeesGame ==
  Live => /\ SearchedPosition = board
          /\ thread.smp => smp.threads = threads
          /\ thread.frc = frc960

(* Each search has a generation of the table of its own: one more than the *)
(* search before, whichever searcher ran it (smp_searcher.cpp: "bump       *)
(* generation ONCE for the whole search").                                 *)
GenerationOfSearch ==
  thread.at \in {"searching", "returned"} =>
    tt.gen = (thread.gen + 1) % Generations

(* A command that joins a search which is bounded, or which had entered    *)
(* its loop when the stop came, is carried out.                            *)
CommandsComplete ==
  (/\ pc = "signal"
   /\ \/ thread.limited
      \/ ~thread.smp /\ thread.at = "searching") ~> pc \in {"read", "ended"}

(* The threads keep the promise made to the GUI.                           *)
Session == INSTANCE UciSession WITH
  position  <- board,
  searching <- Live \/ pc = "reply",
  ended     <- pc = "ended"

Implements == Session!Spec

-----------------------------------------------------------------------------
(* state_manager.h:7: "On `stop`: signal the search to terminate; the      *)
(* thread itself emits `bestmove` once it returns": every stop is answered *)
(* and the next command read.                                              *)
StopTerminatesSearch ==
  (pc = "signal" /\ cmd.name = "stop") ~> (pc = "read")
=============================================================================
