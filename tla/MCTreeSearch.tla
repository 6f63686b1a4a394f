---------------------------- MODULE MCTreeSearch ----------------------------
(***************************************************************************)
(* TreeSearch on small games, each made for one part of the search.        *)
(***************************************************************************)
EXTENDS TreeSearch

(* A game from its edges <<from, move, to, see, noisy>>.  Whatever is not  *)
(* given in `more` is ordinary: level evaluations, pieces, no check, and   *)
(* passing leaves the other side in the same position.                     *)
GameOf(root, edges, more) ==
  LET positions == {root} \cup UNION {{e[1], e[3]} : e \in edges}
      From(p) == {e \in edges : e[1] = p}
      MovesAt(p) == {e[2] : e \in From(p)}
      Edge(p, m) == CHOOSE e \in From(p) : e[2] = m
  IN  more @@
      [root |-> root,
       to |-> [p \in positions |-> [m \in MovesAt(p) |-> Edge(p, m)[3]]],
       noisy |-> [p \in positions |-> {e[2] : e \in {d \in From(p) : d[5]}}],
       see |-> [p \in positions |-> [m \in MovesAt(p) |-> Edge(p, m)[4]]],
       null |-> [p \in positions |-> p],
       eval |-> [p \in positions |-> 0],
       wdl |-> [p \in positions |-> "FAIL"],
       check |-> {}, pieces |-> positions, bare |-> {}, dead |-> {},
       clock |-> 0, foreign |-> <<>>, stoppable |-> FALSE]

q(from, move, to) == <<from, move, to, 0, FALSE>>

Null(depth, beta) == <<depth, beta - 1, beta>>
Full(depth) == <<depth, ScoreMin, ScoreMax>>
cap(from, move, to, see) == <<from, move, to, see, TRUE>>
entry(move, score, depth, flag) == [move |-> move, score |-> score, depth |-> depth, flag |-> flag]
Evals(g, values) == [g EXCEPT !.eval = values @@ @]
Foreign(g, entries) ==
  [g EXCEPT !.foreign = [key \in {NodeKey(p) : p \in DOMAIN entries} |-> entries[key[1]]]]
Verdicts(g, values) == [g EXCEPT !.wdl = values @@ @]
Nulls(g, values) == [g EXCEPT !.null = values @@ @]

(* Pawns only: a mate by a check, the same one move later, and a try that  *)
(* is met.                                                                 *)
Mating ==
  GameOf("R", {q("R", "a", "A"), q("R", "b", "B"),
               q("A", "c", "A1"), q("A", "d", "A2"), q("A1", "e", "M1"), q("A2", "f", "M2"), q("A2", "g", "S"),
               q("B", "h", "B1"), q("B", "i", "B2"), q("B1", "j", "A"), q("B2", "k", "A"), q("B2", "l", "S2"),
               q("R", "c", "C"), q("C", "m", "A1"), q("C", "n", "S2"), q("S", "o", "S3")},
         [check |-> {"A", "M1", "M2"}, pieces |-> {},
          probes |-> <<Null(2, 1), Null(4, 50), Null(5, 29997)>>])

(* Two replies mated sooner and later, the later one known to another      *)
(* thread.                                                                 *)
Detour ==
  Foreign(GameOf("R", {q("R", "b", "B"), q("B", "h", "B1"), q("B1", "e", "M1"),
               q("B", "i", "B2"), q("B2", "j", "A"), q("A", "c", "A1"), q("A1", "f", "M2")},
         [check |-> {"A", "M1", "M2"}, pieces |-> {}, probes |-> <<Null(6, 1), Full(7)>>]),
    [A |-> {entry("c", -29998, 9, "EXACT")}])

(* A reply that is mated, another that escapes but looks hopeless, below a *)
(* second reply, so that no PV search looks at it.                         *)
Escape ==
  Evals(GameOf("R", {q("R", "x", "A"), q("A", "a1", "B1"), q("A", "a2", "B2"),
               q("B1", "b1", "C1"), q("C1", "c1", "D1"), q("D1", "d1", "M1"),
               q("B2", "b2", "C2"), q("C2", "c2", "D2"), q("C2", "c3", "E"),
               q("D2", "d2", "M2"), q("E", "e1", "F")},
         [check |-> {"M1", "M2"}, probes |-> <<Null(10, 1)>>]), [C2 |-> -300])

(* Null moves: one position where passing and moving both hold, one of     *)
(* zugzwang, and one where passing meets a mate.                           *)
Passing(depth) ==
  Evals(Nulls(GameOf("R", {q("R", "w", "L"), q("R", "x", "A"), q("R", "y", "Z"), q("R", "z", "T"),
               q("A", "k", "A1"), q("A", "l", "A2"), q("N", "n", "N1"),
               q("Z", "k", "Z1"), q("Z1", "m", "M1"), q("Z", "l", "Z2"), q("Z2", "m", "M2"),
               q("T", "k", "T1"), q("T", "l", "T2"), q("P", "m", "M3")},
         [check |-> {"Z1", "Z2", "M1", "M2", "M3"}, probes |-> <<Null(depth, 1)>>]),
           [A |-> "N", Z |-> "N", T |-> "P"]), [A |-> 36, Z |-> 36, T |-> 36])

(* Captures that win, hold and lose, killers, late and hopeless quiet moves.*)
Tactics(calls) ==
  Foreign(Evals(GameOf("R", {q("R", "x", "A"), q("R", "y", "B"), q("R", "z", "H"), cap("R", "t", "C", 100), cap("R", "u", "D", -200),
               q("A", "k", "A1"), q("A", "l", "A2"), q("A", "m", "A3"), cap("A", "v", "A4", -300),
               q("B", "k", "B1"), q("B", "l", "B2"), cap("C", "s", "C1", 0), q("D", "k", "D1"), q("H", "l", "H1")},
         [check |-> {}, probes |-> calls]),
       [A |-> -100, B |-> -700, C |-> -100, C1 |-> 30, A1 |-> 150, A2 |-> 150, A3 |-> 160, H |-> 700]),
    [B |-> {entry(NoMove, -800, 0, "UPPER")}])

(* Repetitions, the fifty-move rule, bare kings and the tablebases.        *)
Draws ==
  Verdicts(Evals(GameOf("R", {q("R", "a", "A"), q("A", "b", "B"), q("B", "c", "C"), q("C", "d", "R"),
               cap("R", "u", "D", 0), q("D", "k", "D1"), q("D1", "l", "D2"), q("A", "f", "E"),
               cap("B", "v", "T", 0), cap("B", "w", "U", 0)},
         [dead |-> {"E"}, bare |-> {"D"}, check |-> {},
          clock |-> 96, probes |-> <<Null(4, 1), Null(9, 1)>>]), [D |-> 50]), [T |-> "WIN", U |-> "LOSS"])

(* The table move of the root and of a reply is put to the singular test.  *)
Singular ==
  Foreign(Evals(GameOf("R", {q("R", "x", "A"), q("R", "y", "B"), q("R", "z", "O"),
               q("A", "k", "A1"), q("A", "l", "A2"), q("A", "m", "A3"), q("A", "n", "A4"), cap("A", "v", "A5", 50),
               q("B", "k", "B1"), q("B", "l", "B2"), q("O", "k", "O1")},
         [check |-> {}, probes |-> <<Null(9, 1)>>]), [A |-> -10, B |-> -10, A2 |-> -50]),
    [R |-> {entry("y", 10, 7, "LOWER")}, B |-> {entry("k", 20, 5, "EXACT")}, O |-> {entry("k", -5, 5, "LOWER")},
     A |-> {entry("k", 5, 5, "LOWER"), entry("k", 30, 5, "LOWER"), entry("z", 30, 5, "LOWER")}])

(* Evasions and exchanges below the horizon.                               *)
Horizon ==
  Foreign(Evals(GameOf("R", {q("R", "x", "A"), cap("R", "t", "C", 0),
               cap("A", "u", "A1", 10), cap("A", "v", "A2", -10), cap("A1", "u", "A3", 0),
               q("A3", "k", "A4"), cap("A3", "w", "A5", -5), cap("C", "u", "M", 0), cap("C", "w", "K", 0)},
         [check |-> {"A3", "M"}, dead |-> {"K"},
          probes |-> <<Null(1, 1), Null(1, 100)>>]),
       [A |-> -30, A1 |-> -20, A5 |-> 200, C |-> -50]),
    [A1 |-> {NoEntry, entry("u", -90, 0, "UPPER")}])

Mated == GameOf("R", {}, [check |-> {"R"}, probes |-> <<Null(1, 1), Null(2, -29998)>>])
Stalemated == GameOf("R", {}, [check |-> {}, probes |-> <<Null(1, 1), Null(2, 29998)>>])
(* The root itself is a draw by the fifty-move rule; a move is due all the *)
(* same.                                                                   *)
Overdue ==
  GameOf("R", {q("R", "a", "A"), cap("R", "u", "B", 0), q("B", "k", "C")},
         [check |-> {}, clock |-> 100, probes |-> <<Null(1, 1), Full(2)>>])

Moves == Tactics(<<Null(2, 1), Null(4, 60)>>)

(* The same games, to be stopped at any node.                              *)
Stopped == {[g EXCEPT !.stoppable = TRUE] : g \in {Moves, Singular, Horizon, Passing(18)}}

MCGames == {Mating, Detour, Passing(18), Passing(26), Moves, Tactics(<<Full(1), Full(3)>>), Draws, Singular, Horizon, Overdue, Mated, Stalemated} \cup Stopped
MCFalseMate == {Escape}
=============================================================================
