------------------------------ MODULE MCGoPVS -------------------------------
(***************************************************************************)
(* GoPVS with short clocks, every kind of command and a few odd ones.      *)
(***************************************************************************)
EXTENDS GoPVS

MCNoLimit == 1000000

Plain == [ponder |-> FALSE, infinite |-> FALSE, depth |-> MCNoLimit, nodes |-> MCNoLimit,
          movetime |-> Undefined, movestogo |-> Undefined,
          time |-> [colour \in {White, Black} |-> MCNoLimit], inc |-> [colour \in {White, Black} |-> 0],
          colour |-> White]

Clock(white, black) == [Plain EXCEPT !.time = [colour \in {White, Black} |-> IF colour = White THEN white ELSE black]]
Inc(command, ms) == [command EXCEPT !.inc = [colour \in {White, Black} |-> IF colour = White THEN ms ELSE 0]]
ToGo(command, moves) == [command EXCEPT !.movestogo = moves]
ForBlack(command) == [command EXCEPT !.colour = Black]

MCGoes ==
  {[Plain EXCEPT !.movetime = ms] : ms \in {0, 100, 600}}
    \cup {Clock(ms, 600) : ms \in {-40, 0, 200, 600}}
    \cup {ForBlack(Clock(0, 600))}
    \cup {Inc(Clock(ms, 0), inc) : ms \in {0, 600}, inc \in {10, 400}}
    \cup {ToGo(Clock(ms, 0), moves) : ms \in {0, 400}, moves \in {0, 1, 3}}
    \cup {ToGo(Inc(Clock(400, 0), 1000), 1)}
    \cup {Plain, [Plain EXCEPT !.depth = 2], [Plain EXCEPT !.nodes = 3],
          [Clock(600, 600) EXCEPT !.ponder = TRUE], [Clock(600, 600) EXCEPT !.depth = 0]}
=============================================================================
