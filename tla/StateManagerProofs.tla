------------------------- MODULE StateManagerProofs -------------------------
(***************************************************************************)
(* Proofs about the command loop and the search thread, for every set of   *)
(* positions, thread counts, table sizes and generation width.             *)
(***************************************************************************)
EXTENDS StateManager, TLAPS

USE StateManagerAssumption

-----------------------------------------------------------------------------
(* The inductive invariant.                                                *)

(* A handler runs only when the search thread has been joined; a join      *)
(* waits for a thread.                                                     *)
JoinInv ==
  /\ pc \in {"act", "reply", "ended"} => thread.at = "none"
  /\ pc = "join" => thread.at # "none"

(* A live thread has a table and the searcher it runs, bound to the        *)
(* current board.                                                          *)
ObjectInv ==
  /\ searcher # None => searcher = board
  /\ smp # None => smp.board = board
  /\ Live => /\ tt # None
             /\ thread.frc = frc960
             /\ ~thread.smp => searcher # None
             /\ thread.smp => smp # None /\ smp.threads = threads

(* The generation along the way of each kind of search.                    *)
GenerationInv ==
  /\ thread.at = "numbered" => ~thread.smp
  /\ thread.at = "entered" => thread.smp
  /\ thread.at \in {"spawned", "entered"} => tt.gen = thread.gen
  /\ thread.at \in {"numbered", "searching", "returned"} =>
       tt.gen = (thread.gen + 1) % Generations

IInv == TypeOK /\ JoinInv /\ ObjectInv /\ GenerationInv

LEMMA CommandFields ==
  ASSUME NEW c \in Commands
  PROVE  /\ c.name \in {"ucinewgame", "go", "stop", "quit", "malformed", "position",
                        "ThreadsCount", "TTSize", "UCI_Chess960", "SyzygyPath"}
         /\ c.name = "position" => c.position \in Positions
         /\ c.name = "ThreadsCount" => c.value \in Int
         /\ c.name = "TTSize" => c.value \in Nat
         /\ c.name \in {"UCI_Chess960", "SyzygyPath"} => c.value \in BOOLEAN
  BY DEF Commands

LEMMA InitInv == Init => IInv
<1> SUFFICES ASSUME Init PROVE IInv
  OBVIOUS
<1>1. cmd \in Commands
  BY DEF Init, Commands
<1>2. /\ pc \in {"read", "signal", "join", "act", "reply", "ended"}
      /\ board \in Positions
      /\ answer \in Positions \cup {NoAnswer}
      /\ searcher \in Positions \cup {None}
  BY DEF Init
<1>3. /\ tt \in TableType \cup {None}
      /\ smp \in SMPType \cup {None}
  BY DEF Init
<1>4. ttSize \in Nat /\ threads \in 1 .. MaxThreads
  BY DEF Init
<1>5. frc960 \in BOOLEAN /\ tablebase \in BOOLEAN
  BY Zenon DEF Init
<1>6. stop \in [single : BOOLEAN, smp : BOOLEAN]
  BY DEF Init
<1>7. thread \in ThreadType
  BY DEF Init, NoThread, ThreadType
<1>8. TypeOK
  BY <1>1, <1>2, <1>3, <1>4, <1>5, <1>6, <1>7 DEF TypeOK
<1>9. JoinInv /\ ObjectInv /\ GenerationInv
  BY DEF Init, JoinInv, ObjectInv, GenerationInv, Live, NoThread
<1> QED BY <1>8, <1>9 DEF IInv

-----------------------------------------------------------------------------
(* The handlers run with no search thread, so they only owe the types and  *)
(* the binding of the searchers.                                           *)
LEMMA NewGameInv == ASSUME IInv, NewGame PROVE IInv'
<1> USE DEF IInv
<1>1. thread.at = "none" /\ UNCHANGED thread
  BY DEF NewGame, Handle, JoinInv
<1>2. tt' \in TableType \cup {None}
  BY DEF NewGame, TypeOK, TableType
<1>3. TypeOK'
  BY <1>2 DEF NewGame, TypeOK
<1>4. JoinInv' /\ ObjectInv' /\ GenerationInv'
  BY <1>1 DEF NewGame, JoinInv, ObjectInv, GenerationInv, Live
<1> QED BY <1>3, <1>4

LEMMA SetPositionInv == ASSUME IInv, SetPosition PROVE IInv'
<1> USE DEF IInv
<1>1. thread.at = "none" /\ UNCHANGED thread
  BY DEF SetPosition, Handle, JoinInv
<1>2. cmd.position \in Positions
  BY CommandFields DEF SetPosition, Handle, TypeOK
<1>3. /\ smp' \in SMPType \cup {None}
      /\ smp' # None => smp'.board = board'
  BY <1>2 DEF SetPosition, Rebound, TypeOK, SMPType
<1>4. TypeOK'
  BY <1>2, <1>3 DEF SetPosition, TypeOK
<1>5. JoinInv' /\ ObjectInv' /\ GenerationInv'
  BY <1>1, <1>3 DEF SetPosition, JoinInv, ObjectInv, GenerationInv, Live
<1> QED BY <1>4, <1>5

LEMMA SetOptionInv == ASSUME IInv, SetOption PROVE IInv'
<1> USE DEF IInv
<1>1. thread.at = "none" /\ UNCHANGED thread
  BY DEF SetOption, Handle, JoinInv
<1>2. threads' \in 1 .. MaxThreads
  BY CommandFields DEF SetOption, ClampThreads, TypeOK
<1>3. /\ ttSize' \in Nat
      /\ tt' \in TableType \cup {None}
  BY CommandFields DEF SetOption, TypeOK, TableType
<1>4. frc960' \in BOOLEAN /\ tablebase' \in BOOLEAN
  BY CommandFields, Zenon DEF SetOption, TypeOK
<1>5. TypeOK'
  BY <1>2, <1>3, <1>4 DEF SetOption, TypeOK
<1>6. JoinInv' /\ ObjectInv' /\ GenerationInv'
  BY <1>1 DEF SetOption, JoinInv, ObjectInv, GenerationInv, Live
<1> QED BY <1>5, <1>6

LEMMA GoSearchInv == ASSUME IInv, GoSearch PROVE IInv'
<1> USE DEF IInv
<1>1. PICK limited \in BOOLEAN :
        thread' = [at |-> "spawned", smp |-> threads > 1, limited |-> limited,
                   frc |-> frc960, gen |-> EnsuredTT.gen]
  BY DEF GoSearch
<1>2. EnsuredTT \in TableType
  BY DEF EnsuredTT, TypeOK, TableType
<1>3. tt' = EnsuredTT /\ tt' # None
  BY <1>2 DEF GoSearch
<1>4. /\ searcher' \in Positions \cup {None}
      /\ searcher' # None => searcher' = board
      /\ ~(threads > 1) => searcher' # None
  BY DEF GoSearch, EnsuredSearcher, TypeOK, ObjectInv
<1>5. /\ smp' \in SMPType \cup {None}
      /\ smp' # None => smp'.board = board
      /\ threads > 1 => smp' # None /\ smp'.threads = threads
  BY DEF GoSearch, EnsuredSMP, TypeOK, ObjectInv, SMPType
<1>6. EnsuredTT.gen \in 0 .. Generations - 1
  BY <1>2 DEF TableType
<1>7. frc960 \in BOOLEAN /\ (threads > 1) \in BOOLEAN
  BY DEF TypeOK
<1>8. thread' \in ThreadType
  BY <1>1, <1>6, <1>7, Zenon DEF ThreadType
<1>9. stop' \in [single : BOOLEAN, smp : BOOLEAN]
  <2>1. /\ (stop.single /\ EnsuredSearcher = searcher) \in BOOLEAN
        /\ (stop.smp /\ EnsuredSMP = smp) \in BOOLEAN
    BY Zenon
  <2>2. stop' = [single |-> stop.single /\ EnsuredSearcher = searcher,
                 smp    |-> stop.smp /\ EnsuredSMP = smp]
    BY DEF GoSearch, EnsuredStop
  <2> QED BY <2>1, <2>2, Zenon
<1>10. TypeOK'
  BY <1>2, <1>3, <1>4, <1>5, <1>8, <1>9 DEF GoSearch, TypeOK
<1>11. /\ thread'.at = "spawned"
       /\ thread'.smp = (threads > 1)
       /\ thread'.frc = frc960
       /\ thread'.gen = tt'.gen
  BY <1>1, <1>3, Zenon
<1>12. JoinInv' /\ GenerationInv'
  BY <1>11 DEF GoSearch, JoinInv, GenerationInv
<1>13. ObjectInv'
  BY <1>3, <1>4, <1>5, <1>11 DEF GoSearch, ObjectInv
<1> QED BY <1>10, <1>12, <1>13

-----------------------------------------------------------------------------
(* The steps that only move one of the two threads.                        *)
LEMMA ReadCommandInv == ASSUME IInv, ReadCommand PROVE IInv'
<1>1. pc' = "signal" /\ cmd' \in Commands
  BY DEF ReadCommand, JoinsFirst
<1> QED BY <1>1 DEF IInv, ReadCommand, TypeOK, JoinInv, ObjectInv, GenerationInv,
                    Live, objects

LEMMA SignalStopInv == ASSUME IInv, SignalStop PROVE IInv'
<1>1. stop' \in [single : BOOLEAN, smp : BOOLEAN]
  <2>1. stop \in [single : BOOLEAN, smp : BOOLEAN]
    BY DEF IInv, TypeOK
  <2>2. /\ (stop.single \/ searcher # None) \in BOOLEAN
        /\ (stop.smp \/ smp # None) \in BOOLEAN
    BY Zenon
  <2>3. RaisedStop(stop) \in [single : BOOLEAN, smp : BOOLEAN]
    BY <2>2, Zenon DEF RaisedStop
  <2>4. stop' = RaisedStop(stop) \/ stop' = stop
    BY DEF SignalStop
  <2> QED BY <2>1, <2>3, <2>4
<1>2. /\ pc' \in {"join", "act"}
      /\ pc' = "join" => thread.at # "none"
      /\ pc' = "act" => thread.at = "none"
  BY DEF SignalStop
<1> QED BY <1>1, <1>2 DEF IInv, SignalStop, TypeOK, JoinInv, ObjectInv,
                          GenerationInv, Live, objects

LEMMA JoinStepInv == ASSUME IInv, Join PROVE IInv'
<1>1. NoThread \in ThreadType
  BY DEF NoThread, ThreadType
<1>2. TypeOK'
  BY <1>1 DEF IInv, TypeOK, Join, objects
<1>3. JoinInv' /\ ObjectInv' /\ GenerationInv'
  BY DEF IInv, Join, NoThread, JoinInv, ObjectInv, GenerationInv, Live, objects
<1> QED BY <1>2, <1>3 DEF IInv

LEMMA ReplyInv ==
  ASSUME IInv, GoTablebase \/ SendTablebaseMove \/ NothingMore \/ Quit
  PROVE  IInv'
  BY DEF IInv, GoTablebase, SendTablebaseMove, NothingMore, Quit, Handle, TypeOK,
     JoinInv, ObjectInv, GenerationInv, Live, objects

LEMMA NewSearchInv == ASSUME IInv, NewSearch PROVE IInv'
<1> USE DEF IInv
<1>1. /\ thread.at \in {"spawned", "entered"} /\ Live
      /\ thread \in ThreadType
      /\ pc # "act" /\ pc # "reply" /\ pc # "ended"
  BY DEF NewSearch, JoinInv, Live, TypeOK
<1>2. tt \in TableType /\ tt.gen = thread.gen
  BY <1>1 DEF TypeOK, ObjectInv, GenerationInv
<1>3. Bump(tt.gen) \in 0 .. Generations - 1
  BY <1>2 DEF Bump, TableType
<1>4. /\ tt' \in TableType
      /\ tt'.gen = (thread.gen + 1) % Generations
      /\ tt' # None
  <2>1. tt' = [tt EXCEPT !.gen = Bump(tt.gen)]
    BY DEF NewSearch
  <2>2. Bump(tt.gen) = (thread.gen + 1) % Generations
    BY <1>2 DEF Bump
  <2>3. tt' \in TableType
    BY <1>2, <1>3, <2>1, Zenon DEF TableType
  <2>4. tt'.gen = Bump(tt.gen)
    BY <1>2, <2>1 DEF TableType
  <2>5. tt' # None
    BY <2>3
  <2> QED BY <2>2, <2>3, <2>4, <2>5
<1>5. /\ thread' \in ThreadType
      /\ thread'.at \in {"searching", "numbered"}
      /\ thread'.at = "numbered" => ~thread'.smp
      /\ thread'.smp = thread.smp /\ thread'.frc = thread.frc
      /\ thread'.gen = thread.gen
  BY <1>1 DEF NewSearch, ThreadType
<1>6. TypeOK'
  BY <1>4, <1>5 DEF NewSearch, TypeOK
<1>7. JoinInv'
  BY <1>1, <1>5 DEF NewSearch, JoinInv
<1>8. ObjectInv'
  BY <1>1, <1>4, <1>5, Zenon DEF NewSearch, ObjectInv, Live
<1>9. GenerationInv'
  BY <1>4, <1>5 DEF GenerationInv
<1> QED BY <1>6, <1>7, <1>8, <1>9

LEMMA ClearStopInv == ASSUME IInv, ClearStop PROVE IInv'
<1> USE DEF IInv
<1>1. /\ thread.at \in {"spawned", "numbered"} /\ Live
      /\ thread \in ThreadType
      /\ stop \in [single : BOOLEAN, smp : BOOLEAN]
      /\ pc # "act" /\ pc # "reply" /\ pc # "ended"
  BY DEF ClearStop, JoinInv, Live, TypeOK
<1>2. stop' \in [single : BOOLEAN, smp : BOOLEAN]
  BY <1>1 DEF ClearStop
<1>3. /\ thread' \in ThreadType
      /\ thread'.at = IF thread.smp THEN "entered" ELSE "searching"
      /\ thread'.smp = thread.smp /\ thread'.frc = thread.frc
      /\ thread'.gen = thread.gen
  BY <1>1 DEF ClearStop, ThreadType
<1>4. TypeOK'
  BY <1>2, <1>3 DEF ClearStop, TypeOK, objects
<1>5. JoinInv'
  BY <1>1, <1>3 DEF ClearStop, JoinInv
<1>6. ObjectInv'
  BY <1>1, <1>3, Zenon DEF ClearStop, ObjectInv, Live, objects
<1>7. GenerationInv'
  BY <1>1, <1>3 DEF ClearStop, GenerationInv, objects
<1> QED BY <1>4, <1>5, <1>6, <1>7

LEMMA ReturnInv == ASSUME IInv, Return PROVE IInv'
<1> USE DEF IInv
<1>1. /\ thread.at = "searching" /\ Live
      /\ thread \in ThreadType
      /\ pc # "act" /\ pc # "reply" /\ pc # "ended"
  BY DEF Return, JoinInv, Live, TypeOK
<1>2. /\ thread' \in ThreadType
      /\ thread'.at = "returned"
      /\ thread'.smp = thread.smp /\ thread'.frc = thread.frc
      /\ thread'.gen = thread.gen
  BY <1>1 DEF Return, ThreadType
<1>3. TypeOK'
  BY <1>2 DEF Return, TypeOK, objects
<1>4. JoinInv' /\ GenerationInv'
  BY <1>1, <1>2 DEF Return, JoinInv, GenerationInv, objects
<1>5. ObjectInv'
  BY <1>1, <1>2, Zenon DEF Return, ObjectInv, Live, objects
<1> QED BY <1>3, <1>4, <1>5

(* The bestmove is for the current board.                                  *)
LEMMA SearchedIsBoard ==
  ASSUME ObjectInv, Live, thread.smp \in BOOLEAN
  PROVE  SearchedPosition = board
  BY DEF ObjectInv, SearchedPosition

LEMMA SendBestMoveInv == ASSUME IInv, SendBestMove PROVE IInv'
<1> USE DEF IInv
<1>1. /\ thread.at = "returned" /\ Live
      /\ thread \in ThreadType
      /\ pc # "act" /\ pc # "reply" /\ pc # "ended"
  BY DEF SendBestMove, JoinInv, Live, TypeOK
<1>2. thread' \in ThreadType /\ thread'.at = "exited"
  BY <1>1 DEF SendBestMove, ThreadType
<1>3. answer' \in Positions
  BY <1>1, SearchedIsBoard DEF SendBestMove, TypeOK, ThreadType
<1>4. TypeOK'
  BY <1>2, <1>3 DEF SendBestMove, TypeOK, objects
<1>5. JoinInv' /\ ObjectInv' /\ GenerationInv'
  BY <1>1, <1>2 DEF SendBestMove, JoinInv, ObjectInv, GenerationInv, Live, objects
<1> QED BY <1>4, <1>5

LEMMA NextInv == IInv /\ [Next]_vars => IInv'
<1> SUFFICES ASSUME IInv, [Next]_vars PROVE IInv'
  OBVIOUS
<1>1. CASE ReadCommand
  BY <1>1, ReadCommandInv
<1>2. CASE Command
  <2>1. CASE SignalStop
    BY <2>1, SignalStopInv
  <2>2. CASE Join
    BY <2>2, JoinStepInv
  <2>3. CASE NewGame
    BY <2>3, NewGameInv
  <2>4. CASE SetPosition
    BY <2>4, SetPositionInv
  <2>5. CASE GoTablebase \/ SendTablebaseMove \/ NothingMore \/ Quit
    BY <2>5, ReplyInv
  <2>6. CASE GoSearch
    BY <2>6, GoSearchInv
  <2>7. CASE SetOption
    BY <2>7, SetOptionInv
  <2> QED BY <1>2, <2>1, <2>2, <2>3, <2>4, <2>5, <2>6, <2>7 DEF Command
<1>3. CASE Search
  <2>1. CASE NewSearch
    BY <2>1, NewSearchInv
  <2>2. CASE ClearStop
    BY <2>2, ClearStopInv
  <2>3. CASE Return
    BY <2>3, ReturnInv
  <2>4. CASE SendBestMove
    BY <2>4, SendBestMoveInv
  <2> QED BY <1>3, <2>1, <2>2, <2>3, <2>4 DEF Search
<1>4. CASE UNCHANGED vars
  BY <1>4 DEF vars, objects, IInv, TypeOK, JoinInv, ObjectInv, GenerationInv, Live
<1> QED BY <1>1, <1>2, <1>3, <1>4 DEF Next

LEMMA Invariance == Spec => []IInv
  BY InitInv, NextInv, PTL DEF Spec

-----------------------------------------------------------------------------
(* The results.                                                            *)

(* Every variable keeps its type.                                          *)
THEOREM TypeCorrect == Spec => []TypeOK
<1>1. IInv => TypeOK
  BY DEF IInv
<1> QED BY <1>1, Invariance, PTL

(* Every search works on the position, thread count and notation the GUI   *)
(* set last.                                                               *)
THEOREM SearchIsCurrent == Spec => []SearchSeesGame
<1>1. IInv => SearchSeesGame
  <2> SUFFICES ASSUME IInv, Live PROVE SearchSeesGame
    BY DEF SearchSeesGame
  <2>1. ObjectInv /\ thread.smp \in BOOLEAN
    BY DEF IInv, TypeOK, ThreadType
  <2> QED BY <2>1, SearchedIsBoard DEF SearchSeesGame, ObjectInv
<1> QED BY <1>1, Invariance, PTL

(* Every search has a table generation of its own.                         *)
THEOREM GenerationPerSearch == Spec => []GenerationOfSearch
<1>1. IInv => GenerationOfSearch
  BY DEF IInv, GenerationInv, GenerationOfSearch
<1> QED BY <1>1, Invariance, PTL

(* No command disturbs a search.                                           *)
THEOREM SearchIsUndisturbed == Spec => SearchUndisturbed
<1> DEFINE Quiet == /\ Live => UNCHANGED <<board, ttSize, threads, frc960,
                                           tablebase, searcher, smp>>
                    /\ Live => tt'.size = tt.size
                    /\ thread'.at = "spawned" /\ thread.at # "spawned"
                         => thread.at = "none"
<1>1. IInv /\ [Next]_vars => [Quiet]_vars
  <2> SUFFICES ASSUME IInv, Next PROVE Quiet
    BY Zenon
  <2>1. CASE ReadCommand
    BY <2>1 DEF ReadCommand, objects
  <2>2. CASE Command
    <3>1. CASE pc \in {"act", "reply"}
      <4>1. thread.at = "none"
        BY <3>1 DEF IInv, JoinInv
      <4> QED BY <4>1 DEF Live
    <3>2. CASE pc \notin {"act", "reply"}
      <4>1. SignalStop \/ Join
        BY <2>2, <3>2 DEF Command, NewGame, SetPosition, GoTablebase,
           SendTablebaseMove, GoSearch, SetOption, NothingMore, Quit, Handle
      <4> QED BY <4>1 DEF SignalStop, Join, NoThread, objects
    <3> QED BY <3>1, <3>2
  <2>3. CASE NewSearch
    <3>1. tt \in TableType /\ thread \in ThreadType
      BY <2>3 DEF IInv, TypeOK, ObjectInv, Live, NewSearch
    <3> QED BY <2>3, <3>1 DEF NewSearch, TableType, ThreadType
  <2>4. CASE ClearStop \/ Return \/ SendBestMove
    <3>1. thread \in ThreadType
      BY DEF IInv, TypeOK
    <3> QED BY <2>4, <3>1 DEF ClearStop, Return, SendBestMove, objects, ThreadType
  <2> QED BY <2>1, <2>2, <2>3, <2>4 DEF Next, Search
<1> QED BY <1>1, Invariance, PTL DEF Spec, SearchUndisturbed

-----------------------------------------------------------------------------
(* Refinement: the threads implement the session the GUI sees.             *)

LEMMA CommandSimulates ==
  ASSUME IInv, Command
  PROVE  [Session!Next]_(Session!vars)
<1> USE DEF IInv
<1> USE DEF Session!Next, Session!vars, Session!SetPosition, Session!Go,
            Session!BestMove, Session!Quit
<1>1. CASE SignalStop
  BY <1>1 DEF SignalStop, Live, objects
<1>2. CASE Join
  BY <1>2 DEF Join, JoinReturns, NoThread, Live, objects
<1>3. CASE NewGame
  BY <1>3 DEF NewGame, Handle, JoinInv, Live
<1>4. CASE SetPosition
  <2>1. cmd.position \in Positions
    BY <1>4, CommandFields DEF SetPosition, Handle, TypeOK
  <2> QED BY <1>4, <2>1 DEF SetPosition, Handle, JoinInv, Live
<1>5. CASE GoTablebase
  BY <1>5 DEF GoTablebase, Handle, JoinInv, Live, objects
<1>6. CASE SendTablebaseMove
  BY <1>6 DEF SendTablebaseMove, JoinInv, Live, objects
<1>7. CASE GoSearch
  <2>1. PICK limited \in BOOLEAN :
          thread' = [at |-> "spawned", smp |-> threads > 1, limited |-> limited,
                     frc |-> frc960, gen |-> EnsuredTT.gen]
    BY <1>7 DEF GoSearch
  <2>2. thread'.at = "spawned"
    BY <2>1, Zenon
  <2> QED BY <1>7, <2>2 DEF GoSearch, Handle, JoinInv, Live
<1>8. CASE SetOption
  BY <1>8 DEF SetOption, Handle, JoinInv, Live
<1>9. CASE NothingMore
  BY <1>9 DEF NothingMore, Handle, JoinInv, Live, objects
<1>10. CASE Quit
  BY <1>10 DEF Quit, Handle, JoinInv, Live, objects
<1> QED BY <1>1, <1>2, <1>3, <1>4, <1>5, <1>6, <1>7, <1>8, <1>9, <1>10 DEF Command

LEMMA SearchSimulates ==
  ASSUME IInv, Search
  PROVE  [Session!Next]_(Session!vars)
<1> USE DEF IInv
<1> USE DEF Session!Next, Session!vars, Session!BestMove
<1>1. thread \in ThreadType
  BY DEF TypeOK
<1>2. CASE NewSearch
  BY <1>1, <1>2 DEF NewSearch, Live, ThreadType
<1>3. CASE ClearStop
  BY <1>1, <1>3 DEF ClearStop, Live, ThreadType, objects
<1>4. CASE Return
  BY <1>1, <1>4 DEF Return, Live, ThreadType, objects
<1>5. CASE SendBestMove
  <2>1. Live /\ ~Live' /\ pc # "reply"
    BY <1>1, <1>5 DEF SendBestMove, Live, JoinInv, ThreadType
  <2>2. answer' = board
    BY <1>1, <1>5, <2>1, SearchedIsBoard DEF SendBestMove, ThreadType
  <2> QED BY <1>5, <2>1, <2>2 DEF SendBestMove, objects
<1> QED BY <1>2, <1>3, <1>4, <1>5 DEF Search

(* Each bestmove answers one `go`, for the position current when it came,  *)
(* and positions change and the engine ends only between searches.         *)
THEOREM Refinement == Spec => Implements
<1>1. Init => Session!Init
  <2> SUFFICES ASSUME Init PROVE Session!Init
    OBVIOUS
  <2>1. ~Live /\ pc # "reply" /\ pc # "ended"
    BY DEF Init, Live, NoThread
  <2>2. board = StartPos /\ answer = Session!NoAnswer
    BY DEF Init, NoAnswer, Session!NoAnswer
  <2> QED BY <2>1, <2>2, Zenon DEF Session!Init
<1>2. IInv /\ [Next]_vars => [Session!Next]_(Session!vars)
  <2> SUFFICES ASSUME IInv, [Next]_vars PROVE [Session!Next]_(Session!vars)
    OBVIOUS
  <2>1. CASE ReadCommand
    BY <2>1 DEF ReadCommand, JoinsFirst, objects, Live, Session!vars
  <2>2. CASE Command
    BY <2>2, CommandSimulates
  <2>3. CASE Search
    BY <2>3, SearchSimulates
  <2>4. CASE UNCHANGED vars
    BY <2>4 DEF vars, objects, Live, Session!vars
  <2> QED BY <2>1, <2>2, <2>3, <2>4 DEF Next
<1> QED BY <1>1, <1>2, Invariance, PTL DEF Spec, Implements, Session!Spec
=============================================================================
