------------------------------ MODULE GameTree ------------------------------
(***************************************************************************)
(* The board as the tree search sees it.  A game is a record whose fields  *)
(* are functions and sets over its positions:                              *)
(*                                                                         *)
(*   root        the position the search starts from                       *)
(*   to          to[p][m], the position after the legal move m; the        *)
(*               domain of to[p] is the legal moves of p                   *)
(*   noisy       noisy[p], the captures and promotions among them          *)
(*   see         see[p][m], the static exchange value of m                 *)
(*   null        null[p], the position after passing                       *)
(*   eval        eval[p], the network's evaluation for the side to move    *)
(*   check       the positions whose side to move is in check              *)
(*   pieces      the positions where a side has more than pawns            *)
(*   bare        those whose side to move cannot force a win               *)
(*   dead        those where neither side can                              *)
(*   wdl         wdl[p], the tablebase verdict, "FAIL" if there is none    *)
(*   clock       the half-moves since the last capture at the root         *)
(*   probes      the driver's calls in turn: <<depth, alpha, beta>>        *)
(*   foreign     foreign[key], entries a probe may find there although this*)
(*               search did not store them: those of another thread, of a   *)
(*               position with the same 32 bits, or torn, or none (evicted) *)
(*   stoppable   whether the search may be told to stop                    *)
(*                                                                         *)
(* The rules of chess behind these fields are the subject of ChessBoard    *)
(* and the modules it uses; here only their results matter.                *)
(***************************************************************************)
EXTENDS Integers, Sequences, FiniteSets

Legal(g, p) == DOMAIN g.to[p]
Quiets(g, p) == Legal(g, p) \ g.noisy[p]
InCheck(g, p) == p \in g.check

(* A line is the sequence of moves made on the board, each with the        *)
(* position it led to; `passed` marks a null move.                         *)
Here(g, line) == IF line = <<>> THEN g.root ELSE line[Len(line)].pos

(* getRepetition(): the visits of this position, the current one counted.  *)
Repetition(g, line) ==
  LET p == Here(g, line)
  IN  Cardinality({i \in DOMAIN line : line[i].pos = p})
        + (IF g.root = p THEN 1 ELSE 0)

(* lastCaptureOrPawnMoveBefore: a null move leaves it as it is.            *)
HalfMoves(g, line) ==
  LET Noisy(i) == /\ ~line[i].passed
                  /\ line[i].move \in g.noisy[Here(g, SubSeq(line, 1, i - 1))]
      resets == {i \in DOMAIN line : Noisy(i)}
      since == {i \in DOMAIN line : ~line[i].passed /\ \A j \in resets : j < i}
  IN  Cardinality(since) + (IF resets = {} THEN g.clock ELSE 0)

Played(g, line, m) ==
  Append(line, [move |-> m, pos |-> g.to[Here(g, line)][m], passed |-> FALSE])

PassedOn(g, line, none) ==
  Append(line, [move |-> none, pos |-> g.null[Here(g, line)], passed |-> TRUE])

(* Searcher::evaluate(): the network's word, but no more than a draw for a *)
(* side that cannot force a win.                                           *)
Evaluate(g, p) == IF p \in g.bare /\ g.eval[p] > 0 THEN 0 ELSE g.eval[p]

(* The moves of `pv` can be played one after another from p.               *)
PlayableFrom(g, p, pv) ==
  LET after[i \in 0 .. Len(pv)] ==
        IF i = 0 THEN {p}
        ELSE {g.to[q][pv[i]] : q \in {r \in after[i - 1] : pv[i] \in Legal(g, r)}}
  IN  after[Len(pv)] # {}

(* The reference for mates, by the rules alone: the positions whose side   *)
(* to move is mated, or mates, within n plies whatever the other does.     *)
Forced(g) ==
  LET mated == {p \in g.check : Legal(g, p) = {}}
      Earlier(sooner) ==
        [lost |-> mated \cup {p \in DOMAIN g.to : /\ Legal(g, p) # {}
                                                 /\ \A m \in Legal(g, p) : g.to[p][m] \in sooner.won},
         won  |-> {p \in DOMAIN g.to : \E m \in Legal(g, p) : g.to[p][m] \in sooner.lost}]
      within[n \in Nat] == IF n = 0 THEN [lost |-> mated, won |-> {}]
                           ELSE LET sooner == within[n - 1] IN Earlier(sooner)
  IN  within

(* No reply of a defender can be left out of the search: each position is  *)
(* a check, or has pawns only, or leaves one move at most.                 *)
NothingPruned(g) ==
  \A p \in DOMAIN g.to :
    p \in g.check \/ p \notin g.pieces \/ Cardinality(Legal(g, p)) <= 1
=============================================================================
