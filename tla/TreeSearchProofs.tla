-------------------------- MODULE TreeSearchProofs --------------------------
(***************************************************************************)
(* What TreeSearch promises, for any games, tables and scores.             *)
(*                                                                         *)
(* Every step is first shown to be disciplined: it returns from the        *)
(* innermost call, lets it go on or makes a call, and takes back or makes  *)
(* just the move that goes with it.  Any disciplined step keeps the calls, *)
(* the board and the nodes sound (BoardSafe), and what the phases still    *)
(* hold with them.  The lines of the plies (LinesOK), what an abort leaves *)
(* (Settled) and the scores come on top of that in the same manner: one    *)
(* lemma per action that says what it does, one lemma that such a step     *)
(* keeps the invariant.                                                    *)
(***************************************************************************)
EXTENDS TreeSearch, History, FiniteSetTheorems, SequenceTheorems, WellFoundedInduction, TLAPS

-----------------------------------------------------------------------------
(* A set of naturals that has 0 and the successor of each of its members   *)
(* has all of them.                                                        *)
LEMMA SetInduction ==
  ASSUME NEW T, 0 \in T, \A n \in Nat : n \in T => n + 1 \in T
  PROVE  Nat \subseteq T
<1> SUFFICES ASSUME NEW m \in Nat, m \notin T PROVE FALSE
  OBVIOUS
<1> DEFINE U == Nat \ T
<1>1. PICK x \in U : \A y \in U : ~(<<y, x>> \in OpToRel(<, Nat))
  BY NatLessThanWellFounded, WFMin
<1>2. \A y \in U : ~(y < x)
  BY <1>1 DEF OpToRel
<1>3. x - 1 \in Nat /\ x - 1 \notin T
  <2>1. x \in Nat /\ x # 0
    OBVIOUS
  <2>2. x = (x - 1) + 1 /\ x - 1 \in Nat
    BY <2>1
  <2> QED
    BY <2>2
<1> QED
  BY <1>2, <1>3

(* A function defined by recursion over 0 .. N exists.                     *)
LEMMA Recursion ==
  ASSUME NEW S, NEW a \in S, NEW N \in Nat, NEW step \in [1 .. N -> [S -> S]]
  PROVE  \E f \in [0 .. N -> S] : f[0] = a /\ \A i \in 1 .. N : f[i] = step[i][f[i - 1]]
<1> DEFINE Upto(n) == \E f \in [0 .. n -> S] : f[0] = a /\ \A i \in 1 .. n : f[i] = step[i][f[i - 1]]
           T == {n \in Nat : n <= N => Upto(n)}
<1>1. 0 \in T
  <2> DEFINE f == [i \in 0 .. 0 |-> a]
  <2>1. f \in [0 .. 0 -> S] /\ f[0] = a
    OBVIOUS
  <2>2. \A i \in 1 .. 0 : f[i] = step[i][f[i - 1]]
    OBVIOUS
  <2> QED
    BY <2>1, <2>2
<1>2. ASSUME NEW n \in Nat, n \in T PROVE n + 1 \in T
  <2> SUFFICES ASSUME n + 1 <= N PROVE Upto(n + 1)
    OBVIOUS
  <2>1. PICK f \in [0 .. n -> S] : f[0] = a /\ \A i \in 1 .. n : f[i] = step[i][f[i - 1]]
    BY <1>2
  <2> DEFINE g == [i \in 0 .. n + 1 |-> IF i <= n THEN f[i] ELSE step[n + 1][f[n]]]
  <2>2. n + 1 \in 1 .. N /\ f[n] \in S
    OBVIOUS
  <2>3. step[n + 1][f[n]] \in S
    BY <2>2
  <2>4. g \in [0 .. n + 1 -> S]
    BY <2>3
  <2>5. g[0] = a
    BY <2>1
  <2>6. ASSUME NEW i \in 1 .. n + 1 PROVE g[i] = step[i][g[i - 1]]
    <3>1. CASE i <= n
      BY <3>1, <2>1
    <3>2. CASE i = n + 1
      BY <3>2
    <3> QED
      BY <3>1, <3>2
  <2> QED
    BY <2>4, <2>5, <2>6
<1>3. Nat \subseteq T
  <2> HIDE DEF T
  <2> QED
    BY <1>1, <1>2, SetInduction
<1> QED
  BY <1>3

LEMMA SameInterval ==
  ASSUME NEW a \in Nat, NEW b \in Nat, 1 .. a = 1 .. b
  PROVE  a = b
<1>1. ASSUME NEW x \in Nat, NEW y \in Nat, 1 .. x = 1 .. y PROVE x <= y
  <2>1. CASE x = 0
    BY <2>1
  <2>2. CASE x \in 1 .. x
    <3>1. x \in 1 .. y
      BY <2>2, <1>1, Zenon
    <3> QED
      BY <3>1
  <2> QED
    BY <2>1, <2>2
<1> QED
  BY <1>1

-----------------------------------------------------------------------------
(* Sequences of whatever they hold.                                        *)
IsSequence(s) == s \in Seq({s[i] : i \in DOMAIN s})

LEMMA SequenceFacts ==
  ASSUME NEW s, IsSequence(s)
  PROVE  /\ Len(s) \in Nat /\ DOMAIN s = 1 .. Len(s)
         /\ s # <<>> <=> Len(s) > 0
         /\ \A S : (\A i \in 1 .. Len(s) : s[i] \in S) => s \in Seq(S)
<1> DEFINE E == {s[i] : i \in DOMAIN s}
<1>1. s \in Seq(E)
  BY DEF IsSequence
<1> HIDE DEF E
<1>2. Len(s) \in Nat /\ DOMAIN s = 1 .. Len(s) /\ s \in [1 .. Len(s) -> E]
  BY <1>1, LenProperties
<1>3. s # <<>> <=> Len(s) > 0
  BY <1>1, <1>2, EmptySeq
<1>4. ASSUME NEW S, \A i \in 1 .. Len(s) : s[i] \in S
      PROVE  s \in Seq(S)
  <2>1. s \in [1 .. Len(s) -> S]
    BY <1>2, <1>4
  <2> QED
    BY <2>1, <1>2, SeqDef
<1> QED
  BY <1>2, <1>3, <1>4

LEMMA MembersAreSequences ==
  ASSUME NEW S, NEW s \in Seq(S)
  PROVE  IsSequence(s)
<1> DEFINE E == {s[i] : i \in DOMAIN s}
<1>1. Len(s) \in Nat /\ s \in [1 .. Len(s) -> S] /\ DOMAIN s = 1 .. Len(s)
  BY LenProperties
<1>2. s \in [1 .. Len(s) -> E]
  BY <1>1
<1>3. s \in Seq(E)
  <2> HIDE DEF E
  <2> QED
    BY <1>1, <1>2, SeqDef
<1> QED
  BY <1>3 DEF IsSequence

LEMMA AppendFacts ==
  ASSUME NEW s, IsSequence(s), NEW x
  PROVE  /\ IsSequence(Append(s, x))
         /\ Len(Append(s, x)) = Len(s) + 1
         /\ Append(s, x)[Len(s) + 1] = x
         /\ \A i \in 1 .. Len(s) : Append(s, x)[i] = s[i]
<1> DEFINE S == {s[i] : i \in DOMAIN s} \cup {x}
<1>1. s \in Seq(S) /\ x \in S
  BY SequenceFacts
<1> HIDE DEF S
<1>2. /\ Append(s, x) \in Seq(S)
      /\ Len(Append(s, x)) = Len(s) + 1
      /\ \A i \in 1 .. Len(s) + 1 : Append(s, x)[i] = IF i <= Len(s) THEN s[i] ELSE x
  BY <1>1, AppendProperties
<1>3. IsSequence(Append(s, x))
  BY <1>2, MembersAreSequences
<1>4. Len(s) \in Nat
  BY SequenceFacts
<1> HIDE DEF IsSequence
<1> QED
  BY <1>2, <1>3, <1>4

LEMMA FrontFacts ==
  ASSUME NEW s, IsSequence(s), s # <<>>
  PROVE  /\ IsSequence(Front(s))
         /\ Len(Front(s)) = Len(s) - 1
         /\ \A i \in 1 .. Len(s) - 1 : Front(s)[i] = s[i]
<1> DEFINE S == {s[i] : i \in DOMAIN s}
<1>1. s \in Seq(S) /\ Len(s) \in Nat \ {0} /\ \A i \in 1 .. Len(s) - 1 : s[i] \in S
  BY SequenceFacts
<1> HIDE DEF S
<1> DEFINE n == Len(s) - 1
<1>2. n \in Int /\ 1 \in Int /\ n >= 0 /\ \A i \in 1 .. n : s[i] \in S
  BY <1>1
<1>3. Front(s) = SubSeq(s, 1, n)
  BY DEF Front
<1> HIDE DEF n
<1>4. /\ SubSeq(s, 1, n) \in Seq(S)
      /\ Len(SubSeq(s, 1, n)) = IF 1 <= n THEN n - 1 + 1 ELSE 0
      /\ \A i \in 1 .. n - 1 + 1 : SubSeq(s, 1, n)[i] = s[1 + i - 1]
  BY <1>2, SubSeqProperties
<1>5. Len(Front(s)) = n /\ \A i \in 1 .. n : Front(s)[i] = s[i]
  BY <1>2, <1>3, <1>4
<1> QED
  BY <1>3, <1>4, <1>5, MembersAreSequences DEF n

LEMMA ReplaceFacts ==
  ASSUME NEW s, IsSequence(s), s # <<>>, NEW x
  PROVE  LET t == [s EXCEPT ![Len(s)] = x]
         IN  /\ IsSequence(t) /\ t # <<>> /\ Len(t) = Len(s) /\ t[Len(s)] = x
             /\ \A i \in 1 .. Len(s) - 1 : t[i] = s[i]
<1> DEFINE S == {s[i] : i \in DOMAIN s} \cup {x}
           t == [s EXCEPT ![Len(s)] = x]
<1>1. s \in Seq(S) /\ x \in S /\ Len(s) \in 1 .. Len(s) /\ Len(s) \in Nat
  BY SequenceFacts
<1> HIDE DEF S
<1>2. t \in Seq(S) /\ Len(t) = Len(s) /\ \A j \in 1 .. Len(s) : t[j] = IF j = Len(s) THEN x ELSE s[j]
  BY <1>1, ExceptSeq
<1> HIDE DEF t
<1>3. IsSequence(t)
  BY <1>2, MembersAreSequences
<1>4. t # <<>>
  <2>1. Len(t) > 0
    BY <1>1, <1>2
  <2> QED
    BY <2>1, <1>3, SequenceFacts, Zenon
<1>5. t[Len(s)] = x /\ \A i \in 1 .. Len(s) - 1 : t[i] = s[i]
  BY <1>1, <1>2
<1> QED
  BY <1>2, <1>3, <1>4, <1>5 DEF t

(* Sequences are equal when their lengths and elements are.                *)
LEMMA SameSequence ==
  ASSUME NEW s, IsSequence(s), NEW t, IsSequence(t), Len(s) = Len(t),
         \A i \in 1 .. Len(s) : s[i] = t[i]
  PROVE  s = t
<1> DEFINE S == {s[i] : i \in DOMAIN s}
<1>1. s \in Seq(S) /\ t \in Seq(S)
  BY SequenceFacts
<1> HIDE DEF S
<1> QED
  BY <1>1, SeqEqual

-----------------------------------------------------------------------------
(* The recursion of MovesMade(): its table, entry n for the first n calls. *)
MadeTable(made, calls, places) ==
  made = [n \in 0 .. Len(calls) |->
            IF n = 0 THEN <<>>
            ELSE IF calls[n].at \in places THEN Append(made[n - 1], MoveMade(calls[n]))
            ELSE made[n - 1]]

LEMMA MadeTableEntry ==
  ASSUME NEW calls, IsSequence(calls), NEW places, NEW f, MadeTable(f, calls, places)
  PROVE  /\ f[0] = <<>>
         /\ \A n \in 1 .. Len(calls) :
              f[n] = IF calls[n].at \in places THEN Append(f[n - 1], MoveMade(calls[n])) ELSE f[n - 1]
<1> DEFINE After(n) == IF calls[n].at \in places THEN Append(f[n - 1], MoveMade(calls[n])) ELSE f[n - 1]
           h == [n \in 0 .. Len(calls) |-> IF n = 0 THEN <<>> ELSE After(n)]
<1>1. f = h
  BY DEF MadeTable
<1>2. Len(calls) \in Nat
  BY SequenceFacts
<1> HIDE DEF After
<1>3. h[0] = <<>> /\ \A n \in 1 .. Len(calls) : h[n] = After(n)
  BY <1>2
<1> HIDE DEF h
<1> QED
  BY <1>1, <1>3 DEF After

LEMMA MadeTableExists ==
  ASSUME NEW calls, IsSequence(calls), NEW places
  PROVE  LET M == {MoveMade(calls[i]) : i \in 1 .. Len(calls)}
         IN  \E made \in [0 .. Len(calls) -> Seq(M)] : MadeTable(made, calls, places)
<1> DEFINE N == Len(calls)
           M == {MoveMade(calls[i]) : i \in 1 .. N}
           step == [i \in 1 .. N |-> [q \in Seq(M) |->
                      IF calls[i].at \in places THEN Append(q, MoveMade(calls[i])) ELSE q]]
<1>1. N \in Nat
  BY SequenceFacts
<1>2. <<>> \in Seq(M)
  <2> HIDE DEF M
  <2> QED
    BY EmptySeq
<1>3. step \in [1 .. N -> [Seq(M) -> Seq(M)]]
  <2>1. ASSUME NEW i \in 1 .. N, NEW q \in Seq(M) PROVE Append(q, MoveMade(calls[i])) \in Seq(M)
    <3>1. MoveMade(calls[i]) \in M
      OBVIOUS
    <3> HIDE DEF M
    <3> QED
      BY <3>1, AppendProperties
  <2> HIDE DEF M, N
  <2> QED
    BY <2>1
<1> HIDE DEF M, N, step
<1> DEFINE S == Seq(M)
           a == <<>>
<1>4. PICK f \in [0 .. N -> Seq(M)] : f[0] = <<>> /\ \A i \in 1 .. N : f[i] = step[i][f[i - 1]]
  <2>1. a \in S /\ step \in [1 .. N -> [S -> S]]
    BY <1>2, <1>3
  <2> HIDE DEF a, S
  <2>2. \E f \in [0 .. N -> S] : f[0] = a /\ \A i \in 1 .. N : f[i] = step[i][f[i - 1]]
    BY <1>1, <2>1, Recursion
  <2> QED
    BY <2>2 DEF a, S
<1>5. ASSUME NEW i \in 1 .. N
      PROVE  f[i] = IF calls[i].at \in places THEN Append(f[i - 1], MoveMade(calls[i])) ELSE f[i - 1]
  <2>1. i - 1 \in 0 .. N
    BY <1>1
  <2>2. f[i - 1] \in Seq(M)
    BY <2>1
  <2> QED
    BY <1>4, <2>2 DEF step
<1>6. MadeTable(f, calls, places)
  <2> DEFINE g == [n \in 0 .. N |->
                     IF n = 0 THEN <<>>
                     ELSE IF calls[n].at \in places THEN Append(f[n - 1], MoveMade(calls[n]))
                     ELSE f[n - 1]]
  <2>1. ASSUME NEW n \in 0 .. N PROVE f[n] = g[n]
    <3>1. CASE n = 0
      BY <3>1, <1>1, <1>4
    <3>2. CASE n \in 1 .. N
      <4>1. n # 0 /\ g[n] = IF calls[n].at \in places THEN Append(f[n - 1], MoveMade(calls[n])) ELSE f[n - 1]
        BY <3>2, <1>1
      <4> QED
        BY <3>2, <4>1, <1>5
    <3> HIDE DEF g
    <3> QED
      BY <1>1, <3>1, <3>2
  <2>2. f = g
    BY <2>1
  <2> QED
    BY <2>2 DEF MadeTable, N
<1> QED
  BY <1>6 DEF M, N

LEMMA MadeTableUnique ==
  ASSUME NEW calls, IsSequence(calls), NEW others, IsSequence(others), NEW places,
         NEW k \in Nat, k <= Len(calls), k <= Len(others), \A i \in 1 .. k : calls[i] = others[i],
         NEW f, MadeTable(f, calls, places), NEW g, MadeTable(g, others, places)
  PROVE  f[k] = g[k]
<1> DEFINE T == {n \in Nat : n <= k => f[n] = g[n]}
<1>1. Len(calls) \in Nat /\ Len(others) \in Nat
  BY SequenceFacts
<1>2. 0 \in T
  BY MadeTableEntry
<1>3. ASSUME NEW n \in Nat, n \in T PROVE n + 1 \in T
  <2> SUFFICES ASSUME n + 1 <= k PROVE f[n + 1] = g[n + 1]
    OBVIOUS
  <2>1. f[n] = g[n] /\ calls[n + 1] = others[n + 1]
    BY <1>3
  <2>2. n + 1 \in 0 .. Len(calls) /\ n + 1 \in 0 .. Len(others) /\ n + 1 # 0 /\ n + 1 - 1 = n
    BY <1>1
  <2>3. f[n + 1] = IF calls[n + 1].at \in places THEN Append(f[n], MoveMade(calls[n + 1])) ELSE f[n]
    BY <1>1, <2>2, MadeTableEntry
  <2>4. g[n + 1] = IF others[n + 1].at \in places THEN Append(g[n], MoveMade(others[n + 1])) ELSE g[n]
    BY <1>1, <2>2, MadeTableEntry
  <2> QED
    BY <2>1, <2>3, <2>4
<1>4. Nat \subseteq T
  <2> HIDE DEF T
  <2> QED
    BY <1>2, <1>3, SetInduction
<1> QED
  BY <1>4

LEMMA MovesMadeTable ==
  ASSUME NEW calls, IsSequence(calls), NEW places
  PROVE  \E made : MadeTable(made, calls, places) /\ MovesMade(calls, places) = made[Len(calls)]
<1> DEFINE made == CHOOSE f : MadeTable(f, calls, places)
<1>1. \E f : MadeTable(f, calls, places)
  BY MadeTableExists
<1>2. MadeTable(made, calls, places)
  BY <1>1
<1>3. MovesMade(calls, places) = made[Len(calls)]
  BY DEF MovesMade, MadeTable
<1> QED
  BY <1>2, <1>3

(* No call has made a move; one more call adds its move, if it has made    *)
(* one.                                                                    *)
LEMMA MovesMadeEmpty ==
  ASSUME NEW places
  PROVE  MovesMade(<<>>, places) = <<>>
<1>1. IsSequence(<<>>) /\ Len(<<>>) = 0
  BY EmptySeq, MembersAreSequences
<1>2. PICK made : MadeTable(made, <<>>, places) /\ MovesMade(<<>>, places) = made[0]
  BY <1>1, MovesMadeTable
<1> QED
  BY <1>1, <1>2, MadeTableEntry

LEMMA MovesMadeAppend ==
  ASSUME NEW calls, IsSequence(calls), NEW call, NEW places
  PROVE  MovesMade(Append(calls, call), places) =
           IF call.at \in places THEN Append(MovesMade(calls, places), MoveMade(call))
           ELSE MovesMade(calls, places)
<1> DEFINE N == Len(calls)
           more == Append(calls, call)
<1>1. N \in Nat /\ IsSequence(more) /\ Len(more) = N + 1 /\ more[N + 1] = call /\ \A i \in 1 .. N : more[i] = calls[i]
  BY SequenceFacts, AppendFacts
<1> HIDE DEF N, more
<1>2. PICK f : MadeTable(f, calls, places) /\ MovesMade(calls, places) = f[N]
  BY MovesMadeTable DEF N
<1>3. PICK g : MadeTable(g, more, places) /\ MovesMade(more, places) = g[N + 1]
  BY <1>1, MovesMadeTable
<1>4. f[N] = g[N]
  BY <1>1, <1>2, <1>3, MadeTableUnique DEF N
<1>5. g[N + 1] = IF call.at \in places THEN Append(g[N], MoveMade(call)) ELSE g[N]
  <2>1. N + 1 \in 1 .. Len(more) /\ N + 1 - 1 = N
    BY <1>1
  <2> QED
    BY <1>1, <1>3, <2>1, MadeTableEntry
<1> QED
  BY <1>2, <1>3, <1>4, <1>5 DEF more

LEMMA MovesMadeIsSequence ==
  ASSUME NEW calls, IsSequence(calls), NEW places
  PROVE  IsSequence(MovesMade(calls, places))
<1> DEFINE M == {MoveMade(calls[i]) : i \in 1 .. Len(calls)}
<1>1. PICK f \in [0 .. Len(calls) -> Seq(M)] : MadeTable(f, calls, places)
  BY MadeTableExists
<1>2. PICK g : MadeTable(g, calls, places) /\ MovesMade(calls, places) = g[Len(calls)]
  BY MovesMadeTable
<1>3. Len(calls) \in Nat
  BY SequenceFacts
<1>4. f[Len(calls)] = g[Len(calls)]
  BY <1>1, <1>2, <1>3, MadeTableUnique
<1> HIDE DEF M
<1>5. f[Len(calls)] \in Seq(M)
  BY <1>1, <1>3
<1> QED
  BY <1>2, <1>4, <1>5, MembersAreSequences

-----------------------------------------------------------------------------
(* Counting moves.                                                         *)
LEMMA SizeOfUnion ==
  ASSUME NEW S, IsFiniteSet(S), NEW T, IsFiniteSet(T), S \cap T = {}
  PROVE  /\ IsFiniteSet(S \cup T)
         /\ Cardinality(S \cup T) = Cardinality(S) + Cardinality(T)
<1>1. Cardinality(S \cap T) = 0
  BY FS_EmptySet
<1>2. /\ IsFiniteSet(S \cup T)
      /\ Cardinality(S \cup T) = Cardinality(S) + Cardinality(T) - Cardinality(S \cap T)
  BY FS_Union
<1>3. Cardinality(S) \in Nat /\ Cardinality(T) \in Nat
  BY FS_CardinalityType
<1> QED
  BY <1>1, <1>2, <1>3

(* Six phases that are disjoint share out the moves.                       *)
LEMMA SizeOfPhases ==
  ASSUME NEW A, NEW B, NEW C, NEW D, NEW E, NEW F,
         IsFiniteSet(A), IsFiniteSet(B), IsFiniteSet(C), IsFiniteSet(D), IsFiniteSet(E), IsFiniteSet(F),
         B \cap A = {}, C \cap (A \cup B) = {}, D \cap (A \cup B \cup C) = {},
         E \cap (A \cup B \cup C \cup D) = {}, F \cap (A \cup B \cup C \cup D \cup E) = {}
  PROVE  Cardinality(A) + Cardinality(B) + Cardinality(C) + Cardinality(D)
           + Cardinality(E) + Cardinality(F) = Cardinality(A \cup B \cup C \cup D \cup E \cup F)
<1>2. IsFiniteSet(A \cup B) /\ Cardinality(A \cup B) = Cardinality(A) + Cardinality(B)
  BY SizeOfUnion
<1>3. IsFiniteSet(A \cup B \cup C) /\ Cardinality(A \cup B \cup C) = Cardinality(A \cup B) + Cardinality(C)
  BY <1>2, SizeOfUnion
<1>4. /\ IsFiniteSet(A \cup B \cup C \cup D)
      /\ Cardinality(A \cup B \cup C \cup D) = Cardinality(A \cup B \cup C) + Cardinality(D)
  BY <1>3, SizeOfUnion
<1>5. /\ IsFiniteSet(A \cup B \cup C \cup D \cup E)
      /\ Cardinality(A \cup B \cup C \cup D \cup E) = Cardinality(A \cup B \cup C \cup D) + Cardinality(E)
  BY <1>4, SizeOfUnion
<1>6. Cardinality(A \cup B \cup C \cup D \cup E \cup F) = Cardinality(A \cup B \cup C \cup D \cup E) + Cardinality(F)
  BY <1>5, SizeOfUnion
<1> QED
  BY <1>2, <1>3, <1>4, <1>5, <1>6

(* Taking a move out of one phase leaves one move less.                    *)
LEMMA OneMoveLess ==
  ASSUME NEW f, DOMAIN f.todo = 1 .. 6,
         \A i \in 1 .. 6 : IsFiniteSet(f.todo[i]),
         NEW phase \in 1 .. 6, NEW m \in f.todo[phase],
         NEW g, g.todo = [f.todo EXCEPT ![phase] = @ \ {m}]
  PROVE  Remaining(f) \in Nat /\ Remaining(g) \in Nat /\ Remaining(f) = Remaining(g) + 1
<1> DEFINE n(i) == Cardinality(f.todo[i])
           k(i) == Cardinality(g.todo[i])
<1>1. ASSUME NEW i \in 1 .. 6 PROVE n(i) \in Nat /\ k(i) \in Nat /\ n(i) = k(i) + (IF i = phase THEN 1 ELSE 0)
  <2>1. n(i) \in Nat
    BY FS_CardinalityType
  <2>2. CASE i = phase
    <3>1. g.todo[i] = f.todo[i] \ {m}
      BY <2>2
    <3>2. IsFiniteSet(g.todo[i]) /\ k(i) = n(i) - 1
      BY <2>2, <3>1, FS_RemoveElement
    <3>3. k(i) \in Nat
      BY <3>2, FS_CardinalityType
    <3> QED
      BY <2>1, <2>2, <3>2, <3>3
  <2>3. CASE i # phase
    <3>1. g.todo[i] = f.todo[i]
      BY <2>3
    <3> QED
      BY <2>1, <2>3, <3>1
  <2> QED
    BY <2>2, <2>3
<1>2. Remaining(f) = n(1) + n(2) + n(3) + n(4) + n(5) + n(6)
  BY DEF Remaining
<1>3. Remaining(g) = k(1) + k(2) + k(3) + k(4) + k(5) + k(6)
  BY DEF Remaining
<1> HIDE DEF n, k
<1> QED
  BY <1>1, <1>2, <1>3

(* The killers come from quiet moves.                                      *)
KillersQuiet ==
  /\ DOMAIN killers = 1 .. MaxPly
  /\ \A ply \in 1 .. MaxPly : \A k \in 1 .. 2 :
       killers[ply][k] = NoMove \/ \E p \in DOMAIN game.to : killers[ply][k] \in Quiets(game, p)

(* The phases of a node share out its legal moves.                         *)
LEMMA PhasesFacts ==
  ASSUME game \in Games, Pos \in DOMAIN game.to, KillersQuiet, NEW f, f.ply \in 1 .. MaxPly,
         NEW g, g.todo = Phases(f)
  PROVE  /\ DOMAIN g.todo = 1 .. 6
         /\ \A i \in 1 .. 6 : g.todo[i] \subseteq Legal(game, Pos)
         /\ Remaining(g) = Cardinality(Legal(game, Pos))
<1> DEFINE L == Legal(game, Pos)
           N == game.noisy[Pos]
           tt == {f.entry.move} \cap L
           k1 == {killers[f.ply][1]} \cap L
           k2 == {killers[f.ply][2]} \cap L
           good == {m \in N : game.see[Pos][m] >= 0}
           A == tt
           B == good \ tt
           C == k1 \ tt
           D == k2 \ (tt \cup k1)
           E == Quiets(game, Pos) \ (tt \cup k1 \cup k2)
           F == (N \ good) \ tt
<1>1. g.todo = <<A, B, C, D, E, F>>
  BY DEF Phases
<1>2. IsFiniteSet(L) /\ NoMove \notin L /\ N \subseteq L /\ Quiets(game, Pos) = L \ N
  BY GamesAssumption DEF Quiets
<1>3. k1 \cap N = {} /\ k2 \cap N = {}
  <2>1. ASSUME NEW m \in L, NEW k \in 1 .. 2, m = killers[f.ply][k] PROVE m \notin N
    BY <1>2, <2>1, GamesAssumption DEF KillersQuiet
  <2> QED
    BY <2>1
<1>4. good \subseteq N /\ tt \subseteq L /\ k1 \subseteq L /\ k2 \subseteq L
  OBVIOUS
<1> HIDE DEF L, N, tt, k1, k2, good
<1>5. L = A \cup B \cup C \cup D \cup E \cup F
  BY <1>2, <1>3, <1>4
<1>6. /\ B \cap A = {} /\ C \cap (A \cup B) = {} /\ D \cap (A \cup B \cup C) = {}
      /\ E \cap (A \cup B \cup C \cup D) = {} /\ F \cap (A \cup B \cup C \cup D \cup E) = {}
  BY <1>2, <1>3, <1>4
<1>7. A \subseteq L /\ B \subseteq L /\ C \subseteq L /\ D \subseteq L /\ E \subseteq L /\ F \subseteq L
  BY <1>5
<1> HIDE DEF A, B, C, D, E, F
<1>8. Cardinality(A) + Cardinality(B) + Cardinality(C) + Cardinality(D)
        + Cardinality(E) + Cardinality(F) = Cardinality(L)
  <2>1. IsFiniteSet(A) /\ IsFiniteSet(B) /\ IsFiniteSet(C) /\ IsFiniteSet(D) /\ IsFiniteSet(E) /\ IsFiniteSet(F)
    BY <1>2, <1>7, FS_Subset
  <2>2. Cardinality(A) + Cardinality(B) + Cardinality(C) + Cardinality(D) + Cardinality(E) + Cardinality(F)
          = Cardinality(A \cup B \cup C \cup D \cup E \cup F)
    BY <1>6, <2>1, SizeOfPhases
  <2> QED
    BY <2>2, <1>5
<1>9. DOMAIN g.todo = 1 .. 6 /\ \A i \in 1 .. 6 : g.todo[i] \subseteq L
  BY <1>1, <1>7
<1>10. Remaining(g) = Cardinality(L)
  BY <1>1, <1>8 DEF Remaining
<1> QED
  BY <1>9, <1>10 DEF L

-----------------------------------------------------------------------------
(* What a call in progress knows, by how far it has come.                  *)
Making == AfterMove \cup {"null"}
Waiting == Making \cup {"verify", "razored", "singular"}
BeforeMoves == {"prune", "null", "verify", "razor", "razored", "single", "singular"}

CallFields == {"fn", "at", "ply", "alpha", "beta"}
SearchFields == {"depth", "pv", "cut", "sme"}
NodeFields ==
  {"alpha_orig", "entry", "ev", "improving", "declining", "checked", "pieces",
   "threat", "extension", "best", "best_move", "played", "pruned"}

SearchOK(f) ==
  /\ f.at \in {"entry", "moves"} \cup BeforeMoves \cup AfterMove
  /\ SearchFields \subseteq DOMAIN f
  /\ f.at # "entry" => NodeFields \subseteq DOMAIN f
  /\ f.at \in {"moves"} \cup AfterMove => "todo" \in DOMAIN f
  /\ f.at \in AfterMove => {"move", "quiet", "new_depth", "reduction"} \subseteq DOMAIN f

QSearchOK(f) ==
  /\ f.at \in {"entry", "moves", "scored"}
  /\ "pv" \in DOMAIN f
  /\ f.at # "entry" =>
       {"alpha_orig", "checked", "best", "best_move", "played", "todo"} \subseteq DOMAIN f
  /\ f.at = "scored" => "move" \in DOMAIN f

SingularOK(f) ==
  /\ f.at \in {"entry", "moves", "scored"}
  /\ {"depth", "excluded", "cut"} \subseteq DOMAIN f
  /\ f.at # "entry" => {"alpha_orig", "best", "best_move", "quiets", "todo"} \subseteq DOMAIN f
  /\ f.at = "scored" => "move" \in DOMAIN f

CallOK(f) ==
  /\ CallFields \subseteq DOMAIN f
  /\ f.ply \in 1 .. MaxPly
  /\ f.at # "entry" \/ f.fn = "singular" => f.ply < MaxPly
  /\ \/ f.fn = "search" /\ SearchOK(f)
     \/ f.fn = "qsearch" /\ QSearchOK(f)
     \/ f.fn = "singular" /\ SingularOK(f)

(* The plies by which the board is ahead of a call.                        *)
Ahead(f) == IF f.at \in Making THEN 1 ELSE 0

(* The calls wait for one another, and each is as many plies deep as moves *)
(* were made before it.                                                    *)
CallsOK(calls) ==
  /\ IsSequence(calls)
  /\ \A i \in 1 .. Len(calls) : CallOK(calls[i])
  /\ \A i \in 1 .. Len(calls) - 1 : calls[i].at \in Waiting
  /\ calls # <<>> => calls[1].ply = 1
  /\ \A i \in 1 .. Len(calls) - 1 : calls[i + 1].ply = calls[i].ply + Ahead(calls[i])
  /\ \A i, j \in 1 .. Len(calls) : i < j => calls[i].ply + Ahead(calls[i]) <= calls[j].ply

(* The line is as long as the innermost call says.                         *)
Innermost(calls) == calls[Len(calls)]

LineOK(calls, moves, followed) ==
  /\ IsSequence(moves) /\ IsSequence(followed)
  /\ Len(moves) = IF calls = <<>> THEN 0 ELSE Innermost(calls).ply - 1 + Ahead(Innermost(calls))

(* The position after the first ply - 1 moves of the line.                 *)
PosAt(g, moves, ply) == IF ply = 1 THEN g.root ELSE moves[ply - 1].pos

LEMMA PosAtNext ==
  ASSUME NEW g, NEW moves, NEW ply \in Nat \ {0}
  PROVE  PosAt(g, moves, ply + 1) = moves[ply].pos
BY DEF PosAt

PositionsOK(g, moves) ==
  \A k \in 1 .. Len(moves) + 1 : PosAt(g, moves, k) \in DOMAIN g.to

(* What a call knows of the position p of its node: what it has searched,  *)
(* pruned, made and still to do are the legal moves of p.                  *)
NodeOK(g, f, p) ==
  /\ f.fn = "search" /\ f.at # "entry" =>
       f.checked = InCheck(g, p) /\ f.pieces = (p \in g.pieces)
  /\ f.fn = "search" /\ f.at \in BeforeMoves => f.played = 0 /\ f.pruned = 0
  /\ f.fn = "search" /\ f.at \in {"moves"} \cup AfterMove =>
       /\ DOMAIN f.todo = 1 .. 6 /\ \A i \in 1 .. 6 : f.todo[i] \subseteq Legal(g, p)
       /\ f.played \in Nat /\ f.pruned \in Nat
       /\ f.played + f.pruned + Remaining(f) + Ahead(f) = Cardinality(Legal(g, p))
  /\ f.fn # "search" /\ f.at # "entry" =>
       DOMAIN f.todo = 1 .. 2 /\ \A i \in 1 .. 2 : f.todo[i] \subseteq Legal(g, p)
  /\ f.at \in AfterMove => f.move \in Legal(g, p)
  /\ f.fn = "search" /\ f.at \in AfterMove => f.quiet = (f.move \in Quiets(g, p))

(* The move of a waiting call is the one on the line at its ply.           *)
MoveOnLine(g, moves, f) ==
  f.at \in AfterMove => moves[f.ply].pos = g.to[PosAt(g, moves, f.ply)][f.move]

NodesOK(g, calls, moves) ==
  \A i \in 1 .. Len(calls) : /\ NodeOK(g, calls[i], PosAt(g, moves, calls[i].ply))
                             /\ MoveOnLine(g, moves, calls[i])

(* The board and the accumulators have followed the calls.                 *)
Follow(calls, moves, followed) ==
  /\ [i \in DOMAIN moves |-> moves[i].move] = MovesMade(calls, Making)
  /\ followed = MovesMade(calls, AfterMove)

Sound(g, calls, moves, followed) ==
  /\ CallsOK(calls) /\ LineOK(calls, moves, followed) /\ PositionsOK(g, moves)
  /\ NodesOK(g, calls, moves) /\ Follow(calls, moves, followed)

BoardInv == game \in Games /\ Sound(game, stack, line, acc)

-----------------------------------------------------------------------------
(* What any step does to the calls and to the board: the innermost call    *)
(* goes on, calls or returns, and with it goes the move that it had made.  *)
TakenBack ==
  IF Top.at \in Making
  THEN line' = Front(line) /\ acc' = IF Top.at = "null" THEN acc ELSE Front(acc)
  ELSE UNCHANGED board

(* The position of the innermost node, and its call a step later.          *)
Own == PosAt(game, line, Top.ply)
Later(g) == CallOK(g) /\ g.ply = Top.ply /\ NodeOK(game, g, Own)

Rises == stack # <<>> /\ stack' = Front(stack) /\ TakenBack

Advances ==
  stack # <<>> /\ \E g : Later(g) /\ g.at \notin Making /\ GoOn(g) /\ TakenBack

MakesMove(g) ==
  /\ Top.at \notin Making /\ g.at \in Making
  /\ \E e : /\ e.move = MoveMade(g) /\ e.pos \in DOMAIN game.to
            /\ g.at \in AfterMove => e.pos = game.to[Own][g.move]
            /\ line' = Append(line, e)
  /\ acc' = IF g.at = "null" THEN acc ELSE Append(acc, g.move)

KeepsMove(g) ==
  /\ Top.at \in AfterMove /\ g.at \in AfterMove /\ g.move = Top.move
  /\ UNCHANGED board

Descends ==
  /\ stack # <<>>
  /\ \E g, callee :
       /\ Later(g) /\ g.at \in Waiting
       /\ CallOK(callee) /\ callee.at = "entry" /\ callee.ply = g.ply + Ahead(g)
       /\ CallFrom(g, callee)
       /\ MakesMove(g) \/ KeepsMove(g) \/ (g.at \notin Making /\ TakenBack)

Begins ==
  /\ stack = <<>>
  /\ \E callee : CallOK(callee) /\ callee.at = "entry" /\ callee.ply = 1 /\ stack' = <<callee>>
  /\ UNCHANGED board

Rests == UNCHANGED <<stack, board>>

Disciplined == game' = game /\ (Rises \/ Advances \/ Descends \/ Begins \/ Rests)

LEMMA InnermostFacts ==
  ASSUME NEW calls, CallsOK(calls), calls # <<>>
  PROVE  /\ Len(calls) \in Nat \ {0} /\ CallOK(Innermost(calls)) /\ Innermost(calls).ply \in Nat \ {0}
<1>1. Len(calls) \in Nat \ {0}
  BY SequenceFacts DEF CallsOK
<1>2. CallOK(Innermost(calls))
  BY <1>1 DEF CallsOK, Innermost
<1> QED
  BY <1>1, <1>2, ScoreAssumption DEF CallOK

LEMMA TopFacts ==
  ASSUME BoardInv, stack # <<>>
  PROVE  Top = Innermost(stack) /\ CallOK(Top) /\ Top.ply \in Nat \ {0}
BY InnermostFacts DEF BoardInv, Sound, Top, Idle, Innermost

LEMMA IdleTop ==
  ASSUME stack = <<>>
  PROVE  Top.fn = "none" /\ Top.at = "none"
BY DEF Top, Idle, NoCall

LEMMA FrontOfAppend ==
  ASSUME NEW s, IsSequence(s), NEW x
  PROVE  Front(Append(s, x)) = s
<1> DEFINE t == Append(s, x)
<1>1. Len(s) \in Nat
  BY SequenceFacts
<1>2. IsSequence(t) /\ Len(t) = Len(s) + 1 /\ \A i \in 1 .. Len(s) : t[i] = s[i]
  BY AppendFacts
<1> HIDE DEF t
<1>3. t # <<>>
  BY <1>1, <1>2, SequenceFacts
<1>4. IsSequence(Front(t)) /\ Len(Front(t)) = Len(s) /\ \A i \in 1 .. Len(s) : Front(t)[i] = s[i]
  BY <1>1, <1>2, <1>3, FrontFacts
<1>5. Front(t) = s
  BY <1>4, SameSequence
<1> QED
  BY <1>5 DEF t

LEMMA ReplaceLast ==
  ASSUME NEW s, IsSequence(s), s # <<>>, NEW x
  PROVE  [s EXCEPT ![Len(s)] = x] = Append(Front(s), x)
<1> DEFINE t == [s EXCEPT ![Len(s)] = x]
           u == Append(Front(s), x)
<1>1. Len(s) \in Nat \ {0}
  BY SequenceFacts
<1>2. IsSequence(t) /\ Len(t) = Len(s) /\ t[Len(s)] = x /\ \A i \in 1 .. Len(s) - 1 : t[i] = s[i]
  BY ReplaceFacts
<1>3. IsSequence(Front(s)) /\ Len(Front(s)) = Len(s) - 1 /\ \A i \in 1 .. Len(s) - 1 : Front(s)[i] = s[i]
  BY FrontFacts
<1>4. /\ IsSequence(u) /\ Len(u) = Len(Front(s)) + 1 /\ u[Len(Front(s)) + 1] = x
      /\ \A i \in 1 .. Len(Front(s)) : u[i] = Front(s)[i]
  BY <1>3, AppendFacts
<1> HIDE DEF t, u
<1>5. Len(u) = Len(s) /\ u[Len(s)] = x /\ \A i \in 1 .. Len(s) - 1 : u[i] = s[i]
  BY <1>1, <1>3, <1>4
<1>6. ASSUME NEW i \in 1 .. Len(s) PROVE t[i] = u[i]
  BY <1>1, <1>2, <1>5
<1>7. t = u
  BY <1>2, <1>4, <1>5, <1>6, SameSequence
<1> QED
  BY <1>7 DEF t, u

LEMMA InnermostLast ==
  ASSUME NEW calls, CallsOK(calls), calls # <<>>
  PROVE  calls = Append(Front(calls), Innermost(calls))
<1> DEFINE last == Innermost(calls)
           t == [calls EXCEPT ![Len(calls)] = last]
<1>1. Len(calls) \in Nat \ {0} /\ IsSequence(calls)
  BY InnermostFacts DEF CallsOK
<1>2. IsSequence(t) /\ Len(t) = Len(calls) /\ t[Len(calls)] = last /\ \A i \in 1 .. Len(calls) - 1 : t[i] = calls[i]
  BY <1>1, ReplaceFacts
<1>3. t = Append(Front(calls), last)
  BY <1>1, ReplaceLast
<1> HIDE DEF t
<1>4. ASSUME NEW i \in 1 .. Len(calls) PROVE t[i] = calls[i]
  BY <1>1, <1>2 DEF Innermost
<1>5. t = calls
  BY <1>1, <1>2, <1>4, SameSequence
<1> QED
  BY <1>3, <1>5

(* With the move of the innermost call taken back the board stands at the  *)
(* node of that call.                                                      *)
LEMMA Back ==
  ASSUME NEW g, NEW calls, NEW moves, NEW followed, Sound(g, calls, moves, followed), calls # <<>>,
         NEW fewer, NEW behind,
         LET last == Innermost(calls)
         IN  IF last.at \in Making
             THEN fewer = Front(moves) /\ behind = IF last.at = "null" THEN followed ELSE Front(followed)
             ELSE fewer = moves /\ behind = followed
  PROVE  /\ IsSequence(fewer) /\ IsSequence(behind)
         /\ Len(fewer) = Innermost(calls).ply - 1 /\ Len(fewer) <= Len(moves)
         /\ \A k \in 1 .. Len(fewer) : fewer[k] = moves[k]
         /\ \A k \in 1 .. Innermost(calls).ply : PosAt(g, fewer, k) = PosAt(g, moves, k)
         /\ Follow(Front(calls), fewer, behind)
<1> DEFINE last == Innermost(calls)
           made == [i \in DOMAIN moves |-> moves[i].move]
           kept == [i \in DOMAIN fewer |-> fewer[i].move]
           X == MovesMade(Front(calls), Making)
           Y == MovesMade(Front(calls), AfterMove)
<1>1. /\ IsSequence(calls) /\ IsSequence(moves) /\ IsSequence(followed) /\ IsSequence(Front(calls))
      /\ Len(moves) = last.ply - 1 + Ahead(last) /\ Len(moves) \in Nat /\ last.ply \in Nat \ {0}
      /\ DOMAIN moves = 1 .. Len(moves)
  BY InnermostFacts, FrontFacts, SequenceFacts DEF Sound, CallsOK, LineOK
<1>2. /\ made = IF last.at \in Making THEN Append(X, MoveMade(last)) ELSE X
      /\ followed = IF last.at \in AfterMove THEN Append(Y, MoveMade(last)) ELSE Y
  <2>1. made = MovesMade(calls, Making) /\ followed = MovesMade(calls, AfterMove)
    BY DEF Sound, Follow
  <2> DEFINE whole == Append(Front(calls), last)
  <2>2. calls = whole
    BY InnermostLast DEF Sound
  <2>3. /\ MovesMade(whole, Making) = IF last.at \in Making THEN Append(X, MoveMade(last)) ELSE X
        /\ MovesMade(whole, AfterMove) = IF last.at \in AfterMove THEN Append(Y, MoveMade(last)) ELSE Y
    BY <1>1, MovesMadeAppend
  <2> HIDE DEF whole, X, Y, made
  <2> QED
    BY <2>1, <2>2, <2>3
<1>3. IsSequence(X) /\ IsSequence(Y)
  BY <1>1, MovesMadeIsSequence
<1> HIDE DEF X, Y, Follow
<1>4. CASE last.at \in Making
  <2>1. Len(moves) = last.ply /\ fewer = Front(moves) /\ behind = IF last.at = "null" THEN followed ELSE Front(followed)
    BY <1>1, <1>4 DEF Ahead
  <2>2. moves # <<>>
    BY <1>1, <2>1, SequenceFacts
  <2>3. IsSequence(fewer) /\ Len(fewer) = Len(moves) - 1 /\ \A i \in 1 .. Len(moves) - 1 : fewer[i] = moves[i]
    BY <1>1, <2>1, <2>2, FrontFacts
  <2>4. behind = Y
    <3>1. CASE last.at = "null"
      BY <3>1, <2>1, <1>2 DEF AfterMove
    <3>2. CASE last.at \in AfterMove
      <4>1. followed = Append(Y, MoveMade(last)) /\ behind = Front(followed)
        BY <3>2, <2>1, <1>2 DEF AfterMove
      <4> QED
        BY <4>1, <1>3, FrontOfAppend
    <3> QED
      BY <1>4, <3>1, <3>2 DEF Making
  <2>5. kept = X
    <3> DEFINE more == Append(X, MoveMade(last))
    <3>1. Len(more) = Len(X) + 1 /\ \A i \in 1 .. Len(X) : more[i] = X[i]
      BY <1>3, AppendFacts
    <3>2. IsSequence(more)
      BY <1>3, AppendFacts
    <3>3. made = more
      BY <1>2, <1>4
    <3>4. DOMAIN made = 1 .. Len(moves) /\ \A i \in 1 .. Len(moves) : made[i] = moves[i].move
      BY <1>1
    <3>5. DOMAIN more = 1 .. Len(more) /\ Len(more) \in Nat /\ DOMAIN X = 1 .. Len(X) /\ Len(X) \in Nat
      BY <3>2, <1>3, SequenceFacts
    <3> HIDE DEF made, more
    <3>6. Len(more) = Len(moves)
      <4>1. 1 .. Len(moves) = 1 .. Len(more)
        BY <3>3, <3>4, <3>5
      <4>2. Len(moves) >= 1 /\ Len(more) >= 1
        BY <1>1, <2>1, <3>1, <3>5
      <4>3. Len(moves) \in 1 .. Len(more) /\ Len(more) \in 1 .. Len(moves)
        BY <1>1, <3>5, <4>1, <4>2
      <4> QED
        BY <1>1, <3>5, <4>3
    <3>7. DOMAIN fewer = 1 .. Len(X)
      <4>1. DOMAIN fewer = 1 .. Len(fewer)
        BY <2>3, SequenceFacts
      <4> QED
        BY <4>1, <2>3, <3>1, <3>5, <3>6
    <3>8. ASSUME NEW i \in 1 .. Len(X) PROVE fewer[i].move = X[i]
      <4>1. i \in 1 .. Len(moves) - 1
        BY <3>1, <3>5, <3>6
      <4>2. fewer[i] = moves[i] /\ moves[i].move = made[i]
        BY <4>1, <1>1, <2>3, <3>4
      <4> QED
        BY <4>2, <3>1, <3>3
    <3>9. kept = [i \in 1 .. Len(X) |-> X[i]]
      BY <3>7, <3>8
    <3> QED
      BY <3>9, <3>5, <1>3, SequenceFacts, LenProperties DEF IsSequence
  <2>6. IsSequence(behind)
    BY <2>4, <1>3
  <2>7. ASSUME NEW k \in 1 .. last.ply PROVE PosAt(g, fewer, k) = PosAt(g, moves, k)
    <3>1. k = 1 \/ k - 1 \in 1 .. Len(moves) - 1
      BY <1>1, <2>1
    <3> QED
      BY <3>1, <2>3 DEF PosAt
  <2> QED
    BY <1>1, <2>1, <2>3, <2>4, <2>5, <2>6, <2>7 DEF X, Y, Follow
<1>5. CASE last.at \notin Making
  <2>1. Len(moves) = last.ply - 1 /\ fewer = moves /\ behind = followed
    BY <1>1, <1>5 DEF Ahead
  <2>2. kept = X /\ behind = Y
    BY <1>2, <1>5, <2>1 DEF Making
  <2>3. ASSUME NEW k \in 1 .. last.ply PROVE PosAt(g, fewer, k) = PosAt(g, moves, k)
    BY <2>1 DEF PosAt
  <2> QED
    BY <1>1, <2>1, <2>2, <2>3 DEF X, Y, Follow
<1> QED
  BY <1>4, <1>5


(* The innermost call leaves.                                              *)
LEMMA Pop ==
  ASSUME NEW g, NEW calls, NEW moves, NEW followed, Sound(g, calls, moves, followed), calls # <<>>,
         NEW fewer, NEW behind,
         LET last == Innermost(calls)
         IN  IF last.at \in Making
             THEN fewer = Front(moves) /\ behind = IF last.at = "null" THEN followed ELSE Front(followed)
             ELSE fewer = moves /\ behind = followed
  PROVE  /\ Sound(g, Front(calls), fewer, behind)
         /\ Len(fewer) = Innermost(calls).ply - 1
         /\ PosAt(g, fewer, Innermost(calls).ply) = PosAt(g, moves, Innermost(calls).ply)
         /\ Front(calls) # <<>> => Innermost(Front(calls)).at \in Waiting
         /\ Front(calls) = <<>> => Innermost(calls).ply = 1
<1> DEFINE n == Len(calls)
           last == Innermost(calls)
           rest == Front(calls)
<1>1. n \in Nat \ {0} /\ last = calls[n] /\ last.ply \in Nat \ {0} /\ IsSequence(calls)
  BY InnermostFacts DEF Sound, CallsOK, Innermost
<1>2. IsSequence(rest) /\ Len(rest) = n - 1 /\ \A i \in 1 .. n - 1 : rest[i] = calls[i]
  BY <1>1, FrontFacts
<1>3. /\ IsSequence(fewer) /\ IsSequence(behind)
      /\ Len(fewer) = last.ply - 1 /\ Len(fewer) <= Len(moves)
      /\ \A k \in 1 .. Len(fewer) : fewer[k] = moves[k]
      /\ \A k \in 1 .. last.ply : PosAt(g, fewer, k) = PosAt(g, moves, k)
      /\ Follow(rest, fewer, behind)
  BY Back
<1> HIDE DEF n, last, rest
<1>4. ASSUME NEW i \in 1 .. n - 1
      PROVE  /\ rest[i] = calls[i] /\ i \in 1 .. n /\ CallOK(calls[i]) /\ calls[i].at \in Waiting
             /\ calls[i].ply \in Nat \ {0} /\ calls[i].ply + Ahead(calls[i]) <= last.ply
  <2>1. i \in 1 .. n /\ n \in 1 .. n /\ i < n
    BY <1>1
  <2>2. CallOK(calls[i]) /\ calls[i].at \in Waiting /\ calls[i].ply + Ahead(calls[i]) <= last.ply
    BY <1>1, <2>1 DEF Sound, CallsOK, n
  <2> QED
    BY <1>2, <2>1, <2>2, ScoreAssumption DEF CallOK
<1>5. CallsOK(rest)
  <2>1. \A i \in 1 .. Len(rest) : CallOK(rest[i])
    BY <1>2, <1>4
  <2>2. \A i \in 1 .. Len(rest) - 1 : rest[i].at \in Waiting
    BY <1>1, <1>2, <1>4
  <2>3. rest # <<>> => rest[1].ply = 1
    <3>1. rest # <<>> => 1 \in 1 .. n - 1
      BY <1>1, <1>2, SequenceFacts
    <3> QED
      BY <3>1, <1>2, <1>1 DEF Sound, CallsOK
  <2>4. \A i \in 1 .. Len(rest) - 1 : rest[i + 1].ply = rest[i].ply + Ahead(rest[i])
    <3>1. ASSUME NEW i \in 1 .. n - 2 PROVE rest[i + 1].ply = rest[i].ply + Ahead(rest[i])
      <4>1. i \in 1 .. n - 1 /\ i + 1 \in 1 .. n - 1
        BY <1>1
      <4>2. calls[i + 1].ply = calls[i].ply + Ahead(calls[i])
        BY <4>1 DEF Sound, CallsOK, n
      <4> QED
        BY <4>1, <4>2, <1>2
    <3> QED
      BY <3>1, <1>1, <1>2
  <2>5. \A i, j \in 1 .. Len(rest) : i < j => rest[i].ply + Ahead(rest[i]) <= rest[j].ply
    <3>1. ASSUME NEW i \in 1 .. n - 1, NEW j \in 1 .. n - 1, i < j
          PROVE  rest[i].ply + Ahead(rest[i]) <= rest[j].ply
      <4>1. calls[i].ply + Ahead(calls[i]) <= calls[j].ply
        BY <1>4, <3>1 DEF Sound, CallsOK, n
      <4> QED
        BY <4>1, <1>4
    <3> QED
      BY <3>1, <1>2
  <2> QED
    BY <1>2, <2>1, <2>2, <2>3, <2>4, <2>5 DEF CallsOK
<1>6. /\ LineOK(rest, fewer, behind)
      /\ rest # <<>> => Innermost(rest).at \in Waiting
      /\ rest = <<>> => last.ply = 1
  <2>1. CASE n = 1
    <3>1. rest = <<>>
      BY <2>1, <1>2, SequenceFacts
    <3>2. last.ply = 1
      BY <1>1, <2>1 DEF Sound, CallsOK
    <3> QED
      BY <3>1, <3>2, <1>3 DEF LineOK
  <2>2. CASE n > 1
    <3>1. rest # <<>> /\ Innermost(rest) = calls[n - 1]
      <4>1. rest # <<>>
        BY <2>2, <1>1, <1>2, SequenceFacts
      <4>2. n - 1 \in 1 .. n - 1
        BY <2>2, <1>1
      <4> QED
        BY <4>1, <4>2, <1>2 DEF Innermost
    <3>2. n - 1 \in 1 .. n - 1 /\ n - 1 + 1 = n
      BY <2>2, <1>1
    <3>3. last.ply = calls[n - 1].ply + Ahead(calls[n - 1])
      BY <1>1, <3>2 DEF Sound, CallsOK, n
    <3>4. calls[n - 1].ply \in Nat /\ Ahead(calls[n - 1]) \in Nat
      BY <1>4, <3>2 DEF Ahead
    <3>5. Len(fewer) = calls[n - 1].ply - 1 + Ahead(calls[n - 1])
      BY <1>3, <3>3, <3>4
    <3>6. calls[n - 1].at \in Waiting
      BY <1>4, <3>2
    <3> QED
      BY <1>3, <3>1, <3>5, <3>6 DEF LineOK
  <2> QED
    BY <1>1, <2>1, <2>2
<1>7. PositionsOK(g, fewer)
  <2>1. ASSUME NEW k \in 1 .. Len(fewer) + 1 PROVE PosAt(g, fewer, k) \in DOMAIN g.to
    <3>1. k \in 1 .. last.ply /\ k \in 1 .. Len(moves) + 1
      BY <1>1, <1>3, SequenceFacts DEF Sound, LineOK
    <3> QED
      BY <3>1, <1>3 DEF Sound, PositionsOK
  <2> QED
    BY <2>1 DEF PositionsOK
<1>8. NodesOK(g, rest, fewer)
  <2>1. ASSUME NEW i \in 1 .. n - 1
        PROVE  NodeOK(g, rest[i], PosAt(g, fewer, rest[i].ply)) /\ MoveOnLine(g, fewer, rest[i])
    <3>1. NodeOK(g, calls[i], PosAt(g, moves, calls[i].ply)) /\ MoveOnLine(g, moves, calls[i])
      BY <1>4 DEF Sound, NodesOK, n
    <3>2. calls[i].ply \in 1 .. last.ply
      BY <1>1, <1>4 DEF Ahead
    <3>3. calls[i].at \in AfterMove => calls[i].ply \in 1 .. Len(fewer)
      BY <1>1, <1>3, <1>4 DEF Ahead, Making
    <3> QED
      BY <3>1, <3>2, <3>3, <1>3, <1>4 DEF MoveOnLine
  <2> QED
    BY <2>1, <1>2 DEF NodesOK
<1> QED
  BY <1>1, <1>3, <1>5, <1>6, <1>7, <1>8 DEF Sound, last, rest

(* A call is made, and with it the move that it waits for, if any.         *)
LEMMA Push ==
  ASSUME NEW g, NEW calls, NEW moves, NEW followed, Sound(g, calls, moves, followed),
         NEW f, CallOK(f), f.ply = Len(moves) + 1,
         calls # <<>> => Innermost(calls).at \in Waiting,
         NodeOK(g, f, PosAt(g, moves, f.ply)),
         NEW more, NEW ahead,
         \/ f.at \notin Making /\ more = moves /\ ahead = followed
         \/ /\ f.at \in Making
            /\ \E e : /\ e.move = MoveMade(f) /\ e.pos \in DOMAIN g.to
                      /\ f.at \in AfterMove => e.pos = g.to[PosAt(g, moves, f.ply)][f.move]
                      /\ more = Append(moves, e)
            /\ ahead = IF f.at = "null" THEN followed ELSE Append(followed, f.move)
  PROVE  Sound(g, Append(calls, f), more, ahead)
<1> DEFINE n == Len(calls)
           N == Len(moves)
           deeper == Append(calls, f)
<1>1. /\ n \in Nat /\ N \in Nat /\ IsSequence(calls) /\ IsSequence(moves) /\ IsSequence(followed)
      /\ DOMAIN moves = 1 .. N
  BY SequenceFacts DEF Sound, CallsOK, LineOK
<1>2. IsSequence(deeper) /\ Len(deeper) = n + 1 /\ deeper[n + 1] = f /\ \A i \in 1 .. n : deeper[i] = calls[i]
  BY <1>1, AppendFacts
<1>3. /\ IsSequence(more) /\ IsSequence(ahead) /\ Len(more) = N + Ahead(f)
      /\ DOMAIN more = 1 .. Len(more)
      /\ \A k \in 1 .. N : more[k] = moves[k]
      /\ f.at \in Making => /\ more[N + 1].move = MoveMade(f) /\ more[N + 1].pos \in DOMAIN g.to
                            /\ f.at \in AfterMove => more[N + 1].pos = g.to[PosAt(g, moves, f.ply)][f.move]
  <2>1. CASE f.at \notin Making
    BY <2>1, <1>1 DEF Ahead
  <2>2. CASE f.at \in Making
    <3>1. PICK e : /\ e.move = MoveMade(f) /\ e.pos \in DOMAIN g.to
                   /\ f.at \in AfterMove => e.pos = g.to[PosAt(g, moves, f.ply)][f.move]
                   /\ more = Append(moves, e)
      BY <2>2
    <3>2. ahead = IF f.at = "null" THEN followed ELSE Append(followed, f.move)
      BY <2>2
    <3>3. IsSequence(ahead)
      BY <3>2, <1>1, AppendFacts
    <3>4. /\ IsSequence(more) /\ Len(more) = N + 1 /\ more[N + 1] = e
          /\ \A k \in 1 .. N : more[k] = moves[k]
      BY <3>1, <1>1, AppendFacts
    <3>5. DOMAIN more = 1 .. Len(more)
      BY <3>4, SequenceFacts
    <3> QED
      BY <2>2, <3>1, <3>3, <3>4, <3>5 DEF Ahead
  <2> QED
    BY <2>1, <2>2
<1> HIDE DEF n, N, deeper
<1>4. ASSUME NEW i \in 1 .. n PROVE deeper[i] = calls[i] /\ CallOK(calls[i]) /\ calls[i].ply \in Nat \ {0} /\ calls[i].at \in Waiting
  <2>1. CallOK(calls[i])
    BY <1>1 DEF Sound, CallsOK, n
  <2>2. calls[i].at \in Waiting
    <3>1. CASE i = n
      <4>1. calls # <<>>
        BY <3>1, <1>1, SequenceFacts DEF n
      <4> QED
        BY <3>1, <4>1 DEF Innermost, n
    <3>2. CASE i \in 1 .. n - 1
      BY <3>2 DEF Sound, CallsOK, n
    <3> QED
      BY <3>1, <3>2, <1>1
  <2> QED
    BY <1>2, <2>1, <2>2, ScoreAssumption DEF CallOK
<1>5. n > 0 => f.ply = calls[n].ply + Ahead(calls[n])
  <2> SUFFICES ASSUME n > 0 PROVE f.ply = calls[n].ply + Ahead(calls[n])
    OBVIOUS
  <2>1. calls # <<>>
    BY <1>1, SequenceFacts DEF n
  <2>2. N = calls[n].ply - 1 + Ahead(calls[n])
    BY <2>1 DEF Sound, LineOK, Innermost, n, N
  <2>3. n \in 1 .. n
    BY <1>1
  <2>4. calls[n].ply \in Nat /\ Ahead(calls[n]) \in Nat
    BY <1>4, <2>3 DEF Ahead
  <2> QED
    BY <2>2, <2>4 DEF N
<1>6. ASSUME NEW i \in 1 .. n PROVE calls[i].ply + Ahead(calls[i]) <= f.ply
  <2>1. CASE i = n
    <3>1. calls[n].ply \in Nat /\ Ahead(calls[n]) \in Nat
      BY <1>4, <2>1 DEF Ahead
    <3> QED
      BY <2>1, <1>5, <3>1, <1>1
  <2>2. CASE i \in 1 .. n - 1
    <3>1. n \in 1 .. n /\ n > 0 /\ i < n
      BY <2>2, <1>1
    <3>2. calls[i].ply + Ahead(calls[i]) <= calls[n].ply
      BY <3>1 DEF Sound, CallsOK, n
    <3>3. /\ calls[n].ply \in Nat /\ Ahead(calls[n]) \in Nat
          /\ calls[i].ply \in Nat /\ Ahead(calls[i]) \in Nat
      BY <1>4, <3>1 DEF Ahead
    <3> QED
      BY <3>1, <3>2, <3>3, <1>5
  <2> QED
    BY <2>1, <2>2, <1>1
<1>7. CallsOK(deeper)
  <2>1. \A i \in 1 .. n + 1 : CallOK(deeper[i])
    <3>1. ASSUME NEW i \in 1 .. n + 1 PROVE CallOK(deeper[i])
      <4>1. CASE i = n + 1
        BY <4>1, <1>2
      <4>2. CASE i \in 1 .. n
        BY <4>2, <1>4
      <4> QED
        BY <4>1, <4>2, <1>1
    <3> QED
      BY <3>1
  <2>2. \A i \in 1 .. n : deeper[i].at \in Waiting
    BY <1>4
  <2>3. deeper[1].ply = 1
    <3>1. CASE n = 0
      <4>1. N = 0
        BY <3>1, <1>1, SequenceFacts DEF Sound, LineOK, n, N
      <4> QED
        BY <3>1, <4>1, <1>2 DEF N
    <3>2. CASE n > 0
      <4>1. calls # <<>> /\ 1 \in 1 .. n
        BY <3>2, <1>1, SequenceFacts DEF n
      <4> QED
        BY <4>1, <1>4 DEF Sound, CallsOK
    <3> QED
      BY <3>1, <3>2, <1>1
  <2>4. ASSUME NEW i \in 1 .. n PROVE deeper[i + 1].ply = deeper[i].ply + Ahead(deeper[i])
    <3>1. CASE i = n
      BY <3>1, <1>2, <1>4, <1>5, <1>1
    <3>2. CASE i \in 1 .. n - 1
      <4>1. i + 1 \in 1 .. n
        BY <3>2, <1>1
      <4>2. calls[i + 1].ply = calls[i].ply + Ahead(calls[i])
        BY <3>2 DEF Sound, CallsOK, n
      <4> QED
        BY <4>1, <4>2, <1>4
    <3> QED
      BY <3>1, <3>2, <1>1
  <2>5. ASSUME NEW i \in 1 .. n + 1, NEW j \in 1 .. n + 1, i < j
        PROVE  deeper[i].ply + Ahead(deeper[i]) <= deeper[j].ply
    <3>1. i \in 1 .. n
      BY <1>1, <2>5
    <3>2. CASE j = n + 1
      BY <3>1, <3>2, <1>2, <1>4, <1>6
    <3>3. CASE j \in 1 .. n
      <4>1. calls[i].ply + Ahead(calls[i]) <= calls[j].ply
        BY <3>1, <3>3, <2>5 DEF Sound, CallsOK, n
      <4> QED
        BY <3>1, <3>3, <4>1, <1>4
    <3> QED
      BY <3>2, <3>3, <1>1
  <2>6. Len(deeper) - 1 = n
    BY <1>1, <1>2
  <2>7. \A i \in 1 .. Len(deeper) : CallOK(deeper[i])
    BY <1>2, <2>1, Zenon
  <2>8. \A i, j \in 1 .. Len(deeper) : i < j => deeper[i].ply + Ahead(deeper[i]) <= deeper[j].ply
    BY <1>2, <2>5, Zenon
  <2>9. /\ \A i \in 1 .. Len(deeper) - 1 : deeper[i].at \in Waiting
        /\ \A i \in 1 .. Len(deeper) - 1 : deeper[i + 1].ply = deeper[i].ply + Ahead(deeper[i])
    BY <2>2, <2>4, <2>6, Zenon
  <2> QED
    BY <1>2, <2>3, <2>7, <2>8, <2>9, Zenon DEF CallsOK
<1>8. LineOK(deeper, more, ahead)
  <2>1. Innermost(deeper) = f
    BY <1>2 DEF Innermost
  <2>2. deeper # <<>>
    <3>1. Len(deeper) > 0
      BY <1>1, <1>2
    <3> QED
      BY <3>1, <1>2, SequenceFacts
  <2>3. Len(more) = f.ply - 1 + Ahead(f)
    BY <1>1, <1>3 DEF N, Ahead
  <2> QED
    BY <1>3, <2>1, <2>2, <2>3 DEF LineOK
<1>9. \A k \in 1 .. N + 1 : PosAt(g, more, k) = PosAt(g, moves, k)
  <2>1. ASSUME NEW k \in 1 .. N + 1 PROVE PosAt(g, more, k) = PosAt(g, moves, k)
    <3>1. k = 1 \/ k - 1 \in 1 .. N
      BY <1>1
    <3> QED
      BY <3>1, <1>3 DEF PosAt
  <2> QED
    BY <2>1
<1>10. PositionsOK(g, more)
  <2>1. ASSUME NEW k \in 1 .. Len(more) + 1 PROVE PosAt(g, more, k) \in DOMAIN g.to
    <3>1. CASE k \in 1 .. N + 1
      BY <3>1, <1>9 DEF Sound, PositionsOK, N
    <3>2. CASE k = N + 2 /\ f.at \in Making
      <4>1. PosAt(g, more, k) = more[N + 1].pos
        BY <3>2, <1>1 DEF PosAt
      <4> QED
        BY <3>2, <4>1, <1>3
    <3> QED
      BY <3>1, <3>2, <1>1, <1>3 DEF Ahead
  <2> QED
    BY <2>1 DEF PositionsOK
<1>11. NodesOK(g, deeper, more)
  <2>1. ASSUME NEW i \in 1 .. n + 1
        PROVE  NodeOK(g, deeper[i], PosAt(g, more, deeper[i].ply)) /\ MoveOnLine(g, more, deeper[i])
    <3>1. CASE i = n + 1
      <4>1. deeper[i] = f /\ f.ply = N + 1 /\ N + 1 \in 1 .. N + 1
        BY <3>1, <1>1, <1>2 DEF N
      <4>2. PosAt(g, more, f.ply) = PosAt(g, moves, f.ply)
        BY <4>1, <1>9
      <4>3. MoveOnLine(g, more, f)
        BY <4>1, <4>2, <1>3 DEF MoveOnLine, Making
      <4> QED
        BY <4>1, <4>2, <4>3
    <3>2. CASE i \in 1 .. n
      <4>1. NodeOK(g, calls[i], PosAt(g, moves, calls[i].ply)) /\ MoveOnLine(g, moves, calls[i])
        BY <3>2 DEF Sound, NodesOK, n
      <4>2. calls[i].ply \in 1 .. N + 1 /\ (calls[i].at \in AfterMove => calls[i].ply \in 1 .. N)
        <5>1. calls[i].ply \in Nat \ {0} /\ calls[i].ply + Ahead(calls[i]) <= N + 1
          BY <3>2, <1>4, <1>6 DEF N
        <5> QED
          BY <5>1, <1>1 DEF Ahead, Making
      <4> QED
        BY <3>2, <4>1, <4>2, <1>3, <1>4, <1>9 DEF MoveOnLine
    <3> QED
      BY <3>1, <3>2, <1>1
  <2> QED
    BY <2>1, <1>2 DEF NodesOK
<1>12. Follow(deeper, more, ahead)
  <2> DEFINE X == MovesMade(calls, Making)
             Y == MovesMade(calls, AfterMove)
             kept == [i \in DOMAIN more |-> more[i].move]
  <2>1. [i \in DOMAIN moves |-> moves[i].move] = X /\ followed = Y
    BY DEF Sound, Follow
  <2>2. /\ MovesMade(deeper, Making) = IF f.at \in Making THEN Append(X, MoveMade(f)) ELSE X
        /\ MovesMade(deeper, AfterMove) = IF f.at \in AfterMove THEN Append(Y, MoveMade(f)) ELSE Y
    BY <1>1, MovesMadeAppend DEF deeper
  <2>3. IsSequence(X)
    BY <1>1, MovesMadeIsSequence
  <2>4. DOMAIN X = 1 .. N /\ \A i \in 1 .. N : X[i] = moves[i].move
    BY <2>1, <1>1
  <2> HIDE DEF X, Y
  <2>5. Len(X) = N
    <3>1. Len(X) \in Nat /\ DOMAIN X = 1 .. Len(X)
      BY <2>3, SequenceFacts
    <3>2. 1 .. Len(X) = 1 .. N
      BY <3>1, <2>4
    <3> QED
      BY <1>1, <3>1, <3>2, SameInterval
  <2>6. ahead = MovesMade(deeper, AfterMove)
    <3>1. f.at = "null" => f.at \notin AfterMove
      BY DEF AfterMove
    <3>2. f.at \in AfterMove => MoveMade(f) = f.move /\ f.at # "null"
      BY DEF AfterMove, MoveMade
    <3> QED
      BY <2>1, <2>2, <3>1, <3>2 DEF Making
  <2>7. kept = MovesMade(deeper, Making)
    <3>1. CASE f.at \notin Making
      BY <3>1, <2>1, <2>2
    <3>2. CASE f.at \in Making
      <4> DEFINE whole == Append(X, MoveMade(f))
      <4>1. IsSequence(whole) /\ Len(whole) = N + 1 /\ whole[N + 1] = MoveMade(f) /\ \A i \in 1 .. N : whole[i] = X[i]
        BY <2>3, <2>5, AppendFacts
      <4>2. DOMAIN whole = 1 .. N + 1
        BY <4>1, SequenceFacts
      <4> HIDE DEF whole
      <4>3. DOMAIN more = 1 .. N + 1
        BY <3>2, <1>3 DEF Ahead
      <4>4. ASSUME NEW i \in 1 .. N + 1 PROVE more[i].move = whole[i]
        <5>1. CASE i = N + 1
          BY <5>1, <4>1, <3>2, <1>3
        <5>2. CASE i \in 1 .. N
          BY <5>2, <4>1, <1>3, <2>4
        <5> QED
          BY <5>1, <5>2, <1>1
      <4>5. kept = [i \in 1 .. N + 1 |-> whole[i]]
        BY <4>3, <4>4
      <4>6. whole = [i \in 1 .. N + 1 |-> whole[i]]
        BY <4>1, <4>2, SequenceFacts, LenProperties DEF IsSequence
      <4>7. MovesMade(deeper, Making) = whole
        BY <3>2, <2>2 DEF whole
      <4> QED
        BY <4>5, <4>6, <4>7
    <3> QED
      BY <3>1, <3>2
  <2> QED
    BY <2>6, <2>7 DEF Follow
<1> QED
  BY <1>7, <1>8, <1>10, <1>11, <1>12 DEF Sound, deeper

(* The last move of the board is that of the innermost call.               *)
LEMMA LastMove ==
  ASSUME NEW g, NEW calls, NEW moves, NEW followed, Sound(g, calls, moves, followed), calls # <<>>,
         Innermost(calls).at \in AfterMove
  PROVE  LET last == Innermost(calls)
         IN  /\ Len(moves) = last.ply /\ moves[last.ply].move = last.move
             /\ moves = Append(Front(moves), moves[last.ply])
             /\ followed = Append(Front(followed), last.move)
<1> DEFINE last == Innermost(calls)
           X == MovesMade(Front(calls), Making)
           Y == MovesMade(Front(calls), AfterMove)
<1>1. /\ IsSequence(calls) /\ IsSequence(moves) /\ IsSequence(followed) /\ IsSequence(Front(calls))
      /\ Len(moves) = last.ply /\ Len(moves) \in Nat \ {0} /\ DOMAIN moves = 1 .. Len(moves)
      /\ last.at \in Making /\ last.at # "null"
  <2>1. last.ply \in Nat \ {0} /\ IsSequence(calls) /\ IsSequence(moves) /\ IsSequence(followed)
    BY InnermostFacts DEF Sound, CallsOK, LineOK
  <2>2. last.at \in Making /\ last.at # "null"
    BY DEF Making, AfterMove
  <2>3. Len(moves) = last.ply
    BY <2>1, <2>2 DEF Sound, LineOK, Ahead
  <2> QED
    BY <2>1, <2>2, <2>3, FrontFacts, SequenceFacts
<1>2. IsSequence(X) /\ IsSequence(Y)
  BY <1>1, MovesMadeIsSequence
<1>3. /\ [i \in DOMAIN moves |-> moves[i].move] = Append(X, last.move)
      /\ followed = Append(Y, last.move)
  <2>1. [i \in DOMAIN moves |-> moves[i].move] = MovesMade(calls, Making) /\ followed = MovesMade(calls, AfterMove)
    BY DEF Sound, Follow
  <2> DEFINE whole == Append(Front(calls), last)
  <2>2. calls = whole
    BY InnermostLast DEF Sound
  <2>3. MovesMade(whole, Making) = Append(X, last.move) /\ MovesMade(whole, AfterMove) = Append(Y, last.move)
    BY <1>1, MovesMadeAppend DEF MoveMade
  <2> HIDE DEF whole, X, Y
  <2> QED
    BY <2>1, <2>2, <2>3
<1> HIDE DEF X, Y
<1>4. followed = Append(Front(followed), last.move)
  <2>1. Front(Append(Y, last.move)) = Y
    BY <1>2, FrontOfAppend
  <2> QED
    BY <2>1, <1>3
<1>5. moves[last.ply].move = last.move
  <2> DEFINE whole == Append(X, last.move)
             made == [i \in DOMAIN moves |-> moves[i].move]
  <2>1. IsSequence(whole) /\ Len(whole) = Len(X) + 1 /\ whole[Len(X) + 1] = last.move
    BY <1>2, AppendFacts
  <2>2. DOMAIN whole = 1 .. Len(whole) /\ Len(whole) \in Nat /\ Len(X) \in Nat
    BY <2>1, <1>2, SequenceFacts
  <2>3. DOMAIN made = 1 .. Len(moves) /\ made[last.ply] = moves[last.ply].move
    BY <1>1
  <2>4. made = whole
    BY <1>3
  <2> HIDE DEF whole, made
  <2>5. Len(whole) = Len(moves)
    BY <1>1, <2>2, <2>3, <2>4, SameInterval
  <2> QED
    BY <1>1, <2>1, <2>2, <2>3, <2>4, <2>5
<1>6. moves = Append(Front(moves), moves[last.ply])
  <2> DEFINE m == moves[Len(moves)]
             t == [moves EXCEPT ![Len(moves)] = m]
  <2>1. IsSequence(moves) /\ moves # <<>>
    BY <1>1, SequenceFacts
  <2> HIDE DEF m
  <2>2. IsSequence(t) /\ Len(t) = Len(moves) /\ t[Len(moves)] = m /\ \A i \in 1 .. Len(moves) - 1 : t[i] = moves[i]
    BY <2>1, ReplaceFacts
  <2>3. t = Append(Front(moves), m)
    BY <2>1, ReplaceLast
  <2> HIDE DEF t
  <2>4. ASSUME NEW i \in 1 .. Len(moves) PROVE t[i] = moves[i]
    BY <1>1, <2>2 DEF m
  <2>5. t = moves
    BY <1>1, <2>2, <2>4, SameSequence
  <2> QED
    BY <1>1, <2>3, <2>5 DEF m
<1> QED
  BY <1>1, <1>4, <1>5, <1>6

(* Whatever a disciplined step does, the board stays with the calls.       *)
LEMMA DisciplinedSound ==
  ASSUME BoardInv, Disciplined
  PROVE  BoardInv'
<1>1. game' \in Games /\ game' = game /\ Sound(game, stack, line, acc)
  BY DEF Disciplined, BoardInv
<1>2. IsSequence(stack) /\ Len(stack) \in Nat
  BY <1>1, SequenceFacts DEF Sound, CallsOK
<1>3. SUFFICES Sound(game, stack', line', acc')
  BY <1>1 DEF BoardInv
<1>4. ASSUME stack # <<>>, TakenBack
      PROVE  /\ Sound(game, Front(stack), line', acc') /\ Len(line') = Top.ply - 1
             /\ PosAt(game, line', Top.ply) = Own
             /\ Front(stack) # <<>> => Innermost(Front(stack)).at \in Waiting
  <2>1. Top = Innermost(stack)
    BY <1>4, TopFacts
  <2>2. IF Innermost(stack).at \in Making
        THEN line' = Front(line) /\ acc' = IF Innermost(stack).at = "null" THEN acc ELSE Front(acc)
        ELSE line' = line /\ acc' = acc
    BY <1>4, <2>1 DEF TakenBack, board
  <2> QED
    BY <1>1, <1>4, <2>1, <2>2, Pop DEF Own
<1>5. ASSUME stack # <<>>, NEW g, Later(g), GoOn(g), g.at \notin Making, TakenBack
      PROVE  Sound(game, stack', line', acc')
  <2>1. stack' = Append(Front(stack), g)
    BY <1>2, <1>5, ReplaceLast DEF GoOn
  <2>2. Top.ply \in Nat \ {0}
    BY <1>5, TopFacts
  <2>3. g.ply = Len(line') + 1 /\ CallOK(g) /\ NodeOK(game, g, PosAt(game, line', g.ply))
    BY <1>4, <1>5, <2>2 DEF Later
  <2>4. Sound(game, Append(Front(stack), g), line', acc')
    BY <1>4, <1>5, <2>3, Push
  <2> QED
    BY <2>1, <2>4
<1>6. CASE Rises
  BY <1>4, <1>6 DEF Rises
<1>7. CASE Advances
  BY <1>5, <1>7 DEF Advances
<1>8. CASE Descends
  <2>1. PICK g, callee :
          /\ stack # <<>> /\ Later(g) /\ g.at \in Waiting
          /\ CallOK(callee) /\ callee.at = "entry" /\ callee.ply = g.ply + Ahead(g)
          /\ CallFrom(g, callee)
          /\ MakesMove(g) \/ KeepsMove(g) \/ (g.at \notin Making /\ TakenBack)
    BY <1>8 DEF Descends
  <2>2. Top = Innermost(stack) /\ Top.ply \in Nat \ {0}
    BY <2>1, TopFacts
  <2> DEFINE calls == Append(Front(stack), g)
  <2>3. IsSequence(Front(stack))
    BY <1>2, <2>1, FrontFacts
  <2>4. stack' = Append(calls, callee)
    <3>1. [stack EXCEPT ![Len(stack)] = g] = Append(Front(stack), g)
      BY <1>2, <2>1, ReplaceLast
    <3> QED
      BY <3>1, <2>1 DEF CallFrom
  <2>5. Sound(game, calls, line', acc')
    <3>1. CASE g.at \notin Making /\ TakenBack
      <4>1. g.ply = Len(line') + 1 /\ CallOK(g) /\ NodeOK(game, g, PosAt(game, line', g.ply))
        BY <1>4, <2>1, <2>2, <3>1 DEF Later
      <4> QED
        BY <1>4, <2>1, <3>1, <4>1, Push
    <3>2. CASE MakesMove(g)
      <4>1. /\ Sound(game, Front(stack), line, acc) /\ Len(line) = Top.ply - 1
            /\ Front(stack) # <<>> => Innermost(Front(stack)).at \in Waiting
        BY <1>1, <2>1, <2>2, <3>2, Pop DEF MakesMove
      <4>2. g.ply = Len(line) + 1 /\ CallOK(g) /\ NodeOK(game, g, PosAt(game, line, g.ply))
        BY <2>1, <2>2, <4>1 DEF Later, Own
      <4>3. /\ g.at \in Making
            /\ \E e : /\ e.move = MoveMade(g) /\ e.pos \in DOMAIN game.to
                      /\ g.at \in AfterMove => e.pos = game.to[PosAt(game, line, g.ply)][g.move]
                      /\ line' = Append(line, e)
            /\ acc' = IF g.at = "null" THEN acc ELSE Append(acc, g.move)
        BY <2>1, <3>2 DEF MakesMove, Later, Own
      <4> HIDE DEF MakesMove, Later, KeepsMove
      <4> QED
        BY <4>1, <4>2, <4>3, Push
    <3>3. CASE KeepsMove(g)
      <4>1. /\ Top.at \in AfterMove /\ g.at \in AfterMove /\ g.move = Top.move
            /\ Top.at \in Making /\ Top.at # "null" /\ g.at \in Making /\ g.at # "null"
            /\ line' = line /\ acc' = acc
        BY <3>3 DEF KeepsMove, board, Making, AfterMove
      <4> DEFINE e == line[Top.ply]
      <4>2. /\ Len(line) = Top.ply /\ e.move = Top.move
            /\ line = Append(Front(line), e) /\ acc = Append(Front(acc), Top.move)
        BY <1>1, <2>1, <2>2, <4>1, LastMove
      <4> DEFINE fewer == Front(line)
                 behind == Front(acc)
      <4>3. /\ Sound(game, Front(stack), fewer, behind) /\ Len(fewer) = Top.ply - 1
            /\ PosAt(game, fewer, Top.ply) = Own
            /\ Front(stack) # <<>> => Innermost(Front(stack)).at \in Waiting
        BY <1>1, <2>1, <2>2, <4>1, Pop DEF Own
      <4>4. e.pos \in DOMAIN game.to /\ e.pos = game.to[Own][Top.move]
        <5>1. e.pos = game.to[Own][Top.move]
          <6>1. Len(stack) \in 1 .. Len(stack)
            BY <1>1, <2>1, InnermostFacts DEF Sound
          <6>2. MoveOnLine(game, line, Innermost(stack))
            BY <1>1, <6>1 DEF Sound, NodesOK, Innermost
          <6> QED
            BY <2>2, <4>1, <6>2 DEF MoveOnLine, Own
        <5>2. e.pos \in DOMAIN game.to
          <6>1. Top.ply + 1 \in 1 .. Len(line) + 1 /\ Top.ply + 1 # 1 /\ Top.ply + 1 - 1 = Top.ply
            BY <2>2, <4>2
          <6>2. PosAt(game, line, Top.ply + 1) \in DOMAIN game.to
            BY <1>1, <6>1 DEF Sound, PositionsOK
          <6>3. PosAt(game, line, Top.ply + 1) = e.pos
            BY <2>2, PosAtNext
          <6> QED
            BY <6>2, <6>3
        <5> QED
          BY <5>1, <5>2
      <4>5. g.ply = Len(fewer) + 1 /\ CallOK(g) /\ NodeOK(game, g, PosAt(game, fewer, g.ply))
        BY <2>1, <2>2, <4>3 DEF Later
      <4>6. \E x : /\ x.move = MoveMade(g) /\ x.pos \in DOMAIN game.to
                   /\ g.at \in AfterMove => x.pos = game.to[PosAt(game, fewer, g.ply)][g.move]
                   /\ line' = Append(fewer, x)
        <5>1. e.move = MoveMade(g)
          BY <4>1, <4>2 DEF MoveMade
        <5>2. g.ply = Top.ply
          BY <2>1 DEF Later
        <5>3. e.pos = game.to[PosAt(game, fewer, g.ply)][g.move]
          BY <4>1, <4>3, <4>4, <5>2
        <5>4. line' = Append(fewer, e)
          BY <4>1, <4>2
        <5> HIDE DEF e, fewer
        <5> QED
          BY <4>4, <5>1, <5>3, <5>4
      <4>7. acc' = IF g.at = "null" THEN behind ELSE Append(behind, g.move)
        BY <4>1, <4>2
      <4> HIDE DEF fewer, behind, e, KeepsMove
      <4> QED
        BY <4>1, <4>3, <4>5, <4>6, <4>7, Push
    <3> QED
      BY <2>1, <3>1, <3>2, <3>3
  <2>6. Innermost(calls) = g
    BY <2>3, AppendFacts DEF Innermost
  <2>7. calls # <<>> /\ Len(line') = g.ply - 1 + Ahead(g)
    <3>1. calls # <<>>
      <4>1. IsSequence(calls) /\ Len(calls) > 0
        BY <2>3, AppendFacts, SequenceFacts
      <4> QED
        BY <4>1, SequenceFacts
    <3> HIDE DEF calls
    <3> QED
      BY <3>1, <2>5, <2>6 DEF Sound, LineOK
  <2>8. callee.ply = Len(line') + 1
    <3>1. g.ply \in Nat /\ Ahead(g) \in Nat
      BY <2>1, <2>2 DEF Later, Ahead
    <3> QED
      BY <3>1, <2>1, <2>7
  <2>9. callee.at \notin Making /\ NodeOK(game, callee, PosAt(game, line', callee.ply))
    BY <2>1 DEF NodeOK, Making, AfterMove, BeforeMoves
  <2> HIDE DEF calls
  <2>10. Innermost(calls).at \in Waiting
    BY <2>1, <2>6
  <2>11. Sound(game, Append(calls, callee), line', acc')
    BY <2>1, <2>5, <2>8, <2>9, <2>10, Push
  <2> QED
    BY <2>4, <2>11
<1>9. CASE Begins
  <2>1. PICK callee : CallOK(callee) /\ callee.at = "entry" /\ callee.ply = 1 /\ stack' = <<callee>>
    BY <1>9 DEF Begins
  <2>2. stack = <<>> /\ line' = line /\ acc' = acc
    BY <1>9 DEF Begins, board
  <2>3. Len(line) = 0
    BY <1>1, <2>2 DEF Sound, LineOK
  <2>4. callee.at \notin Making /\ NodeOK(game, callee, PosAt(game, line, callee.ply))
    BY <2>1 DEF NodeOK, Making, AfterMove, BeforeMoves
  <2>5. callee.ply = Len(line) + 1
    BY <2>1, <2>3
  <2>6. Sound(game, Append(stack, callee), line', acc')
    BY <1>1, <2>1, <2>2, <2>4, <2>5, Push
  <2>7. Append(<<>>, callee) = <<callee>>
    OBVIOUS
  <2> QED
    BY <2>1, <2>2, <2>6, <2>7
<1>10. CASE Rests
  BY <1>1, <1>10 DEF Rests, board
<1> QED
  BY <1>6, <1>7, <1>8, <1>9, <1>10 DEF Disciplined

-----------------------------------------------------------------------------
(* The steps, one by one.  What the innermost call knows.                  *)
LEMMA TopNode ==
  ASSUME BoardInv, stack # <<>>
  PROVE  /\ CallOK(Top) /\ NodeOK(game, Top, Own) /\ game \in Games /\ Own \in DOMAIN game.to
         /\ Top.ply \in Nat \ {0}
         /\ Top.at \notin Making => Pos = Own
         /\ Top.at \in AfterMove => Here(game, Front(line)) = Own
<1>1. /\ Top = Innermost(stack) /\ CallOK(Top) /\ Top.ply \in Nat \ {0} /\ game \in Games
      /\ Sound(game, stack, line, acc)
  BY TopFacts DEF BoardInv
<1>2. Len(stack) \in 1 .. Len(stack)
  BY <1>1, InnermostFacts DEF Sound
<1>3. NodeOK(game, Top, Own)
  BY <1>1, <1>2 DEF Sound, NodesOK, Innermost, Own
<1>4. IsSequence(line) /\ Len(line) = Top.ply - 1 + Ahead(Top) /\ Len(line) \in Nat /\ (line # <<>> <=> Len(line) > 0)
  BY <1>1, SequenceFacts DEF Sound, LineOK
<1>5. Own \in DOMAIN game.to
  <2>1. Top.ply \in 1 .. Len(line) + 1
    BY <1>1, <1>4 DEF Ahead
  <2> QED
    BY <1>1, <2>1 DEF Sound, PositionsOK, Own
<1>6. Top.at \notin Making => Pos = Own
  BY <1>1, <1>4 DEF Pos, Here, Own, PosAt, Ahead
<1>7. ASSUME Top.at \in AfterMove PROVE Here(game, Front(line)) = Own
  <2> DEFINE fewer == Front(line)
  <2>1. Len(line) = Top.ply
    BY <1>1, <1>4, <1>7 DEF Ahead, Making
  <2>2. line # <<>>
    BY <1>1, <1>4, <2>1
  <2>3. IsSequence(fewer) /\ Len(fewer) = Top.ply - 1 /\ \A i \in 1 .. Top.ply - 1 : fewer[i] = line[i]
    BY <1>4, <2>1, <2>2, FrontFacts
  <2>4. fewer # <<>> <=> Len(fewer) > 0
    BY <2>3, SequenceFacts
  <2> HIDE DEF fewer
  <2>5. Here(game, fewer) = Own
    <3>1. CASE Top.ply = 1
      BY <3>1, <2>3, <2>4 DEF Here, Own, PosAt
    <3>2. CASE Top.ply > 1
      BY <3>2, <1>1, <2>3, <2>4 DEF Here, Own, PosAt
    <3> QED
      BY <1>1, <3>1, <3>2
  <2> QED
    BY <2>5 DEF fewer
<1> QED
  BY <1>1, <1>3, <1>5, <1>6, <1>7

LEMMA TopEntry ==
  ASSUME BoardInv, Top.fn \in {"search", "qsearch", "singular"} \/ Top.at # "none"
  PROVE  stack # <<>>
BY IdleTop

(* A call of search() goes on before its first move.                       *)
LEMMA StillBefore ==
  ASSUME NEW f, NEW p, CallOK(f), NodeOK(game, f, p), f.fn = "search", f.at \in BeforeMoves,
         NEW g, DOMAIN g = DOMAIN f, g.fn = "search", g.at \in BeforeMoves, g.ply = f.ply,
         g.checked = f.checked, g.pieces = f.pieces, g.played = f.played, g.pruned = f.pruned
  PROVE  CallOK(g) /\ NodeOK(game, g, p) /\ f.ply < MaxPly
<1>1. f.at # "entry" /\ f.at \notin {"moves"} \cup AfterMove /\ g.at # "entry" /\ g.at \notin {"moves"} \cup AfterMove
  BY DEF BeforeMoves, AfterMove
<1>2. CallOK(g) /\ f.ply < MaxPly
  BY <1>1 DEF CallOK, SearchOK
<1>3. NodeOK(game, g, p)
  BY <1>1 DEF NodeOK
<1> QED
  BY <1>2, <1>3

(* Its moves are sorted into the phases.                                   *)
LEMMA MovesFound ==
  ASSUME game \in Games, Pos \in DOMAIN game.to, KillersQuiet,
         NEW f, CallOK(f), NodeOK(game, f, Pos), f.fn = "search", f.at \in BeforeMoves, NEW extension
  PROVE  LET g == WithMoves(f, extension)
         IN  CallOK(g) /\ NodeOK(game, g, Pos) /\ g.at = "moves" /\ g.ply = f.ply
<1> DEFINE g == WithMoves(f, extension)
<1>1. /\ g.at = "moves" /\ g.fn = "search" /\ g.ply = f.ply /\ g.todo = Phases(f)
      /\ DOMAIN g = DOMAIN f \cup {"at", "extension", "todo"}
  <2>1. {"fn", "ply"} \subseteq DOMAIN f
    BY DEF CallOK, CallFields
  <2> QED
    BY <2>1 DEF WithMoves, Extended
<1>2. f.at # "entry" /\ f.ply \in 1 .. MaxPly /\ f.ply < MaxPly /\ SearchFields \cup NodeFields \cup CallFields \subseteq DOMAIN f
  BY DEF CallOK, SearchOK, BeforeMoves
<1>3. g.checked = f.checked /\ g.pieces = f.pieces /\ g.played = 0 /\ g.pruned = 0
  <2>1. {"checked", "pieces", "played", "pruned"} \subseteq DOMAIN f
    BY <1>2 DEF NodeFields
  <2>2. f.played = 0 /\ f.pruned = 0
    BY DEF NodeOK
  <2> QED
    BY <2>1, <2>2 DEF WithMoves, Extended
<1> HIDE DEF g
<1>4. CallOK(g)
  BY <1>1, <1>2 DEF CallOK, SearchOK, AfterMove
<1>5. NodeOK(game, g, Pos)
  <2>1. /\ DOMAIN g.todo = 1 .. 6 /\ \A i \in 1 .. 6 : g.todo[i] \subseteq Legal(game, Pos)
        /\ Remaining(g) = Cardinality(Legal(game, Pos))
    BY <1>1, <1>2, PhasesFacts
  <2>2. Ahead(g) = 0 /\ g.at \notin BeforeMoves /\ g.at \notin AfterMove
    BY <1>1 DEF Ahead, Making, AfterMove, BeforeMoves
  <2>3. Cardinality(Legal(game, Pos)) \in Nat
    BY GamesAssumption, FS_CardinalityType
  <2>4. f.checked = InCheck(game, Pos) /\ f.pieces = (Pos \in game.pieces)
    BY <1>2 DEF NodeOK
  <2>5. g.played \in Nat /\ g.pruned \in Nat /\ g.played + g.pruned + Remaining(g) + Ahead(g) = Cardinality(Legal(game, Pos))
    BY <1>3, <2>1, <2>2, <2>3
  <2> QED
    BY <1>1, <1>3, <2>1, <2>2, <2>4, <2>5 DEF NodeOK
<1> QED
  BY <1>1, <1>4, <1>5 DEF g

LEMMA NoneMade ==
  ASSUME Top.at \notin Making, UNCHANGED board
  PROVE  TakenBack
BY DEF TakenBack

LEMMA FreshCall ==
  ASSUME NEW ply \in 1 .. MaxPly, NEW depth, NEW alpha, NEW beta, NEW pv, NEW cut, NEW sme
  PROVE  LET c == Call(ply, depth, alpha, beta, pv, cut, sme)
         IN  CallOK(c) /\ c.at = "entry" /\ c.ply = ply
BY DEF Call, CallOK, SearchOK, CallFields, SearchFields, AfterMove

LEMMA FreshCallQ ==
  ASSUME NEW ply \in 1 .. MaxPly, NEW alpha, NEW beta, NEW pv
  PROVE  LET c == CallQ(ply, alpha, beta, pv)
         IN  CallOK(c) /\ c.at = "entry" /\ c.ply = ply
BY DEF CallQ, CallOK, QSearchOK, CallFields

LEMMA FreshCallSingular ==
  ASSUME NEW ply \in 1 .. MaxPly, ply < MaxPly, NEW depth, NEW alpha, NEW beta, NEW excluded, NEW cut
  PROVE  LET c == CallSingular(ply, depth, alpha, beta, excluded, cut)
         IN  CallOK(c) /\ c.at = "entry" /\ c.ply = ply
BY DEF CallSingular, CallOK, SingularOK, CallFields

LEMMA AbortSteps ==
  ASSUME BoardInv, Abort(Top)
  PROVE  Disciplined /\ UNCHANGED killers
<1>1. stack # <<>> /\ Top.at \notin Making /\ UNCHANGED board
  BY TopEntry DEF Abort, Making, AfterMove
<1> QED
  BY <1>1, NoneMade DEF Abort, Return, Disciplined, Rises, driver

LEMMA EnterSearchSteps ==
  ASSUME BoardInv, EnterSearch(Top)
  PROVE  Disciplined /\ UNCHANGED killers
<1> DEFINE f == Top
<1>1. /\ stack # <<>> /\ CallOK(f) /\ f.fn = "search" /\ f.at = "entry" /\ f.at \notin Making
      /\ Pos = Own
  BY TopEntry, TopNode DEF EnterSearch, Making, AfterMove
<1>2. TakenBack /\ game' = game /\ UNCHANGED killers
  BY <1>1, NoneMade DEF EnterSearch, driver
<1>3. CASE stack' = Front(stack)
  BY <1>1, <1>2, <1>3 DEF Rises, Disciplined
<1>4. CASE GoOn(CallQ(f.ply, WindowFrom(f), WindowTo(f), f.pv))
  <2> DEFINE g == CallQ(f.ply, WindowFrom(f), WindowTo(f), f.pv)
  <2>1. CallOK(g) /\ g.ply = f.ply /\ g.at = "entry"
    BY <1>1, FreshCallQ DEF CallOK
  <2>2. GoOn(g)
    BY <1>4
  <2> HIDE DEF g
  <2>3. NodeOK(game, g, Own)
    BY <2>1 DEF NodeOK, AfterMove, BeforeMoves
  <2> QED
    BY <1>1, <1>2, <2>1, <2>2, <2>3 DEF Advances, Later, Disciplined, Making, AfterMove
<1>5. ASSUME NEW entry, ~LeavesEarly(f), GoOn(Node(f, entry))
      PROVE  Advances
  <2> DEFINE g == Node(f, entry)
  <2>1. f.ply < MaxPly
    BY <1>1, <1>5, ScoreAssumption DEF LeavesEarly, CallOK
  <2>2. /\ g.at = "prune" /\ g.ply = f.ply /\ g.fn = "search" /\ g.played = 0 /\ g.pruned = 0
        /\ g.checked = InCheck(game, Pos) /\ g.pieces = (Pos \in game.pieces)
        /\ CallFields \cup SearchFields \cup NodeFields \subseteq DOMAIN g
    BY <1>1 DEF Node, Extended, CallOK, SearchOK, CallFields, SearchFields, NodeFields
  <2>3. GoOn(g)
    BY <1>5
  <2> HIDE DEF g
  <2>4. CallOK(g)
    BY <1>1, <2>1, <2>2 DEF CallOK, SearchOK, BeforeMoves, AfterMove
  <2>5. NodeOK(game, g, Own)
    BY <1>1, <2>2 DEF NodeOK, AfterMove
  <2> QED
    BY <1>1, <1>2, <2>2, <2>3, <2>4, <2>5 DEF Advances, Later, Making, AfterMove
<1> QED
  BY <1>2, <1>3, <1>4, <1>5 DEF EnterSearch, Return, Disciplined

(* A call of search() that has not yet made a move goes on by itself, or   *)
(* calls for its own node.                                                 *)
LEMMA BeforeLater ==
  ASSUME BoardInv, stack # <<>>, Top.fn = "search", Top.at \in BeforeMoves,
         NEW g, DOMAIN g = DOMAIN Top, g.fn = "search", g.at \in BeforeMoves \ {"null"}, g.ply = Top.ply,
         g.checked = Top.checked, g.pieces = Top.pieces, g.played = Top.played, g.pruned = Top.pruned
  PROVE  Later(g) /\ g.at \notin Making /\ g.ply \in Nat
<1>1. CallOK(g) /\ NodeOK(game, g, Own)
  BY TopNode, StillBefore
<1> QED
  BY <1>1, TopNode DEF Later, Making, AfterMove, BeforeMoves

LEMMA BeforeGoesOn ==
  ASSUME BoardInv, stack # <<>>, Top.fn = "search", Top.at \in BeforeMoves, TakenBack,
         NEW g, DOMAIN g = DOMAIN Top, g.fn = "search", g.at \in BeforeMoves \ {"null"}, g.ply = Top.ply,
         g.checked = Top.checked, g.pieces = Top.pieces, g.played = Top.played, g.pruned = Top.pruned,
         GoOn(g)
  PROVE  Advances
BY BeforeLater DEF Advances

LEMMA BeforeCalls ==
  ASSUME BoardInv, stack # <<>>, Top.fn = "search", Top.at \in BeforeMoves, TakenBack,
         NEW g, DOMAIN g = DOMAIN Top, g.fn = "search", g.at \in BeforeMoves \ {"null"}, g.ply = Top.ply,
         g.checked = Top.checked, g.pieces = Top.pieces, g.played = Top.played, g.pruned = Top.pruned,
         NEW callee, CallOK(callee), callee.at = "entry", callee.ply = Top.ply,
         CallFrom(g, callee), g.at \in Waiting
  PROVE  Descends
<1>1. Later(g) /\ g.at \notin Making /\ g.ply \in Nat
  BY BeforeLater
<1>2. callee.ply = g.ply + Ahead(g)
  BY <1>1 DEF Later, Ahead
<1> QED
  BY <1>1, <1>2 DEF Descends

LEMMA PruneNodeSteps ==
  ASSUME BoardInv, PruneNode(Top)
  PROVE  Disciplined /\ UNCHANGED killers
<1> DEFINE f == Top
<1>1. /\ stack # <<>> /\ CallOK(f) /\ f.fn = "search" /\ f.at = "prune" /\ f.at \notin Making /\ f.at \in BeforeMoves
      /\ Pos = Own /\ NodeOK(game, f, Own) /\ game \in Games /\ Own \in DOMAIN game.to /\ f.ply \in Nat \ {0}
  BY TopEntry, TopNode DEF PruneNode, Making, AfterMove, BeforeMoves
<1>2. game' = game /\ UNCHANGED killers
  BY DEF PruneNode, driver
<1>3. CASE Return(StaticNullValue(f)) /\ UNCHANGED board
  BY <1>1, <1>2, <1>3, NoneMade DEF Rises, Return, Disciplined
<1>4. CASE TryNullMove(f) /\ DoNullMove
  <2> DEFINE g == [f EXCEPT !.at = "null"]
  <2>1. g.at = "null" /\ g.fn = "search" /\ g.ply = f.ply /\ g.checked = f.checked /\ g.pieces = f.pieces
         /\ g.played = f.played /\ g.pruned = f.pruned /\ DOMAIN g = DOMAIN f /\ g.at \in BeforeMoves
    BY <1>1 DEF CallOK, SearchOK, CallFields, NodeFields, BeforeMoves
  <2>2. PICK callee : CallFrom(g, callee) /\ CallOK(callee) /\ callee.at = "entry" /\ callee.ply = f.ply + 1
    <3>1. f.ply + 1 \in 1 .. MaxPly
      BY <1>1, ScoreAssumption DEF CallOK
    <3> DEFINE depth == NullMoveDepth(f)
               q1 == CallQ(f.ply + 1, -f.beta, 1 - f.beta, FALSE)
               s1 == Call(f.ply + 1, depth, -f.beta, 1 - f.beta, FALSE, ~f.cut, f.sme)
    <3>2. CallOK(q1) /\ q1.at = "entry" /\ q1.ply = f.ply + 1
      BY <3>1 DEF CallQ, CallOK, QSearchOK, CallFields
    <3>3. CallOK(s1) /\ s1.at = "entry" /\ s1.ply = f.ply + 1
      BY <3>1 DEF Call, CallOK, SearchOK, CallFields, SearchFields, AfterMove
    <3>4. CallFrom(g, IF depth <= 0 THEN q1 ELSE s1)
      BY <1>4, <1>1 DEF PruneNode, StaticNullCut, TryNullMove
    <3> HIDE DEF q1, s1, g, depth
    <3> QED
      BY <3>2, <3>3, <3>4
  <2> HIDE DEF g
  <2>3. CallOK(g) /\ NodeOK(game, g, Own) /\ g.at \in Waiting /\ callee.ply = g.ply + Ahead(g)
    BY <1>1, <2>1, <2>2, StillBefore DEF Waiting, Making, Ahead
  <2>4. MakesMove(g)
    <3>1. Own \in game.pieces \ game.check
      BY <1>1, <1>4 DEF TryNullMove, MayPruneNode, NodeOK, InCheck
    <3>2. game.null[Own] \in DOMAIN game.to
      BY <1>1, <3>1, GamesAssumption
    <3> DEFINE e == [move |-> NoMove, pos |-> game.null[Own], passed |-> TRUE]
    <3>3. e.move = MoveMade(g) /\ e.pos \in DOMAIN game.to /\ line' = Append(line, e)
      BY <1>1, <1>4, <2>1, <3>2 DEF MoveMade, DoNullMove, PassedOn, Pos
    <3>4. g.at \in Making /\ g.at \notin AfterMove
      BY <2>1 DEF Making, AfterMove
    <3>5. acc' = acc
      BY <1>4 DEF DoNullMove
    <3> HIDE DEF e
    <3> QED
      BY <1>1, <2>1, <3>3, <3>4, <3>5 DEF MakesMove
  <2> QED
    BY <1>1, <1>2, <2>1, <2>2, <2>3, <2>4 DEF Descends, Later, Disciplined
<1>5. CASE GoOn([f EXCEPT !.at = "razor"]) /\ UNCHANGED board
  <2> DEFINE g == [f EXCEPT !.at = "razor"]
  <2>1. g.at \in BeforeMoves \ {"null"} /\ g.fn = "search" /\ g.ply = f.ply /\ g.checked = f.checked /\ g.pieces = f.pieces
         /\ g.played = f.played /\ g.pruned = f.pruned /\ DOMAIN g = DOMAIN f
    BY <1>1 DEF CallOK, SearchOK, CallFields, NodeFields, BeforeMoves
  <2>2. GoOn(g)
    BY <1>5
  <2> HIDE DEF g
  <2>3. Advances
    BY <1>1, <1>5, <2>1, <2>2, NoneMade, BeforeGoesOn
  <2> QED
    BY <1>2, <2>3 DEF Disciplined
<1> QED
  BY <1>3, <1>4, <1>5 DEF PruneNode

LEMMA ThreatenedFacts ==
  ASSUME NEW f, CallOK(f), f.fn = "search", f.at \in BeforeMoves, NEW score
  PROVE  LET g == Threatened(f, score)
         IN  /\ g.at = "razor" /\ g.at \in BeforeMoves \ {"null"} /\ g.fn = "search" /\ g.ply = f.ply
             /\ g.checked = f.checked /\ g.pieces = f.pieces
             /\ g.played = f.played /\ g.pruned = f.pruned /\ DOMAIN g = DOMAIN f
<1>1. CallFields \cup NodeFields \subseteq DOMAIN f
  BY DEF CallOK, SearchOK, BeforeMoves
<1> QED
  BY <1>1 DEF Threatened, CallFields, NodeFields, BeforeMoves

LEMMA NullMoveSteps ==
  ASSUME BoardInv, NullMoveReturns(Top)
  PROVE  Disciplined /\ UNCHANGED killers
<1> DEFINE f == Top
<1>1. /\ stack # <<>> /\ CallOK(f) /\ f.fn = "search" /\ f.at = "null" /\ f.at \in BeforeMoves
      /\ f.ply \in Nat \ {0} /\ f.ply \in 1 .. MaxPly
  BY TopEntry, TopNode DEF NullMoveReturns, BeforeMoves, CallOK
<1>2. game' = game /\ UNCHANGED killers /\ TakenBack
  BY <1>1 DEF NullMoveReturns, driver, UndoNullMove, TakenBack, Making
<1>3. CASE Return(f.alpha)
  BY <1>1, <1>2, <1>3 DEF Rises, Return, Disciplined
<1>4. CASE ~aborted /\ -ret >= f.beta
  <2> DEFINE g == [f EXCEPT !.at = "verify"]
             depth == NullMoveDepth(f)
             q1 == CallQ(f.ply, f.beta - 1, f.beta, FALSE)
             s1 == Call(f.ply, depth, f.beta - 1, f.beta, FALSE, TRUE, f.sme)
             callee == IF depth <= 0 THEN q1 ELSE s1
  <2>1. g.at \in BeforeMoves \ {"null"} /\ g.at \in Waiting /\ g.fn = "search" /\ g.ply = f.ply
         /\ g.checked = f.checked /\ g.pieces = f.pieces
         /\ g.played = f.played /\ g.pruned = f.pruned /\ DOMAIN g = DOMAIN f
    BY <1>1 DEF CallOK, SearchOK, CallFields, NodeFields, BeforeMoves, Waiting
  <2>2. CallOK(q1) /\ q1.at = "entry" /\ q1.ply = f.ply
    BY <1>1 DEF CallQ, CallOK, QSearchOK, CallFields
  <2>3. CallOK(s1) /\ s1.at = "entry" /\ s1.ply = f.ply
    BY <1>1 DEF Call, CallOK, SearchOK, CallFields, SearchFields, AfterMove
  <2>4. ~(-ret < f.beta) => CallFrom(g, callee)
    BY <1>1, <1>4 DEF NullMoveReturns
  <2>5. CallFrom(g, callee) \/ GoOn(Threatened(f, -ret))
    BY <1>1, <1>4, <2>4 DEF NullMoveReturns
  <2> HIDE DEF g, q1, s1, depth
  <2>6. CallOK(callee) /\ callee.at = "entry" /\ callee.ply = f.ply
    BY <2>2, <2>3
  <2> HIDE DEF callee
  <2>7. CASE CallFrom(g, callee)
    <3>1. Descends
      BY <1>1, <1>2, <2>1, <2>6, <2>7, BeforeCalls
    <3> QED
      BY <1>2, <3>1 DEF Disciplined
  <2>8. CASE GoOn(Threatened(f, -ret))
    BY <1>1, <1>2, <2>8, ThreatenedFacts, BeforeGoesOn DEF Disciplined
  <2> QED
    BY <2>5, <2>7, <2>8
<1>5. CASE GoOn(Threatened(f, -ret))
  BY <1>1, <1>2, <1>5, ThreatenedFacts, BeforeGoesOn DEF Disciplined
<1> QED
  BY <1>3, <1>4, <1>5 DEF NullMoveReturns

LEMMA VerifySteps ==
  ASSUME BoardInv, VerifyReturns(Top)
  PROVE  Disciplined /\ UNCHANGED killers
<1> DEFINE f == Top
<1>1. /\ stack # <<>> /\ CallOK(f) /\ f.fn = "search" /\ f.at = "verify" /\ f.at \in BeforeMoves /\ f.at \notin Making
  BY TopEntry, TopNode DEF VerifyReturns, BeforeMoves, Making, AfterMove
<1>2. game' = game /\ UNCHANGED killers /\ TakenBack
  BY <1>1, NoneMade DEF VerifyReturns, driver
<1>3. CASE stack' = Front(stack)
  BY <1>1, <1>2, <1>3 DEF Rises, Disciplined
<1>4. CASE GoOn(Threatened(f, ret))
  BY <1>1, <1>2, <1>4, ThreatenedFacts, BeforeGoesOn DEF Disciplined
<1> QED
  BY <1>3, <1>4 DEF VerifyReturns, Return

LEMMA RazorSteps ==
  ASSUME BoardInv, RazorNode(Top) \/ RazorReturns(Top)
  PROVE  Disciplined /\ UNCHANGED killers
<1> DEFINE f == Top
           g == [f EXCEPT !.at = "razored"]
           h == [f EXCEPT !.at = "single"]
           callee == CallQ(f.ply, f.alpha, f.alpha + 1, FALSE)
<1>1. /\ stack # <<>> /\ CallOK(f) /\ f.fn = "search" /\ f.at \in BeforeMoves /\ f.at \notin Making
      /\ f.ply \in 1 .. MaxPly
  BY TopEntry, TopNode DEF RazorNode, RazorReturns, BeforeMoves, Making, AfterMove, CallOK
<1>2. game' = game /\ UNCHANGED killers /\ TakenBack
  BY <1>1, NoneMade DEF RazorNode, RazorReturns, driver
<1>3. stack' = Front(stack) \/ GoOn(h) \/ CallFrom(g, callee)
  BY DEF RazorNode, RazorReturns, Return
<1>4. /\ g.at \in BeforeMoves \ {"null"} /\ g.at \in Waiting /\ g.fn = "search" /\ g.ply = f.ply
      /\ g.checked = f.checked /\ g.pieces = f.pieces
      /\ g.played = f.played /\ g.pruned = f.pruned /\ DOMAIN g = DOMAIN f
  BY <1>1 DEF CallOK, SearchOK, CallFields, NodeFields, BeforeMoves, Waiting
<1>5. /\ h.at \in BeforeMoves \ {"null"} /\ h.fn = "search" /\ h.ply = f.ply
      /\ h.checked = f.checked /\ h.pieces = f.pieces
      /\ h.played = f.played /\ h.pruned = f.pruned /\ DOMAIN h = DOMAIN f
  BY <1>1 DEF CallOK, SearchOK, CallFields, NodeFields, BeforeMoves
<1>6. CallOK(callee) /\ callee.at = "entry" /\ callee.ply = f.ply
  BY <1>1 DEF CallQ, CallOK, QSearchOK, CallFields
<1> HIDE DEF g, h, callee
<1>7. CASE stack' = Front(stack)
  BY <1>1, <1>2, <1>7 DEF Rises, Disciplined
<1>8. CASE GoOn(h)
  BY <1>1, <1>2, <1>5, <1>8, BeforeGoesOn DEF Disciplined
<1>9. CASE CallFrom(g, callee)
  <2>1. Descends
    BY <1>1, <1>2, <1>4, <1>6, <1>9, BeforeCalls
  <2> QED
    BY <1>2, <2>1 DEF Disciplined
<1> QED
  BY <1>3, <1>7, <1>8, <1>9

LEMMA SingularTestSteps ==
  ASSUME BoardInv, KillersQuiet, SingularTest(Top) \/ SingularReturns(Top)
  PROVE  Disciplined /\ UNCHANGED killers
<1> DEFINE f == Top
           g == [f EXCEPT !.at = "singular"]
           sbeta == SingularBeta(f, f.entry)
           callee == CallSingular(f.ply, SingularDepth(f), sbeta - 1, sbeta, f.entry.move, f.cut)
<1>1. /\ stack # <<>> /\ CallOK(f) /\ f.fn = "search" /\ f.at \in BeforeMoves /\ f.at \notin Making
      /\ f.ply \in 1 .. MaxPly /\ f.ply < MaxPly
      /\ NodeOK(game, f, Own) /\ Pos = Own /\ game \in Games /\ Own \in DOMAIN game.to
  BY TopEntry, TopNode DEF SingularTest, SingularReturns, BeforeMoves, Making, AfterMove, CallOK
<1>2. game' = game /\ UNCHANGED killers /\ TakenBack
  BY <1>1, NoneMade DEF SingularTest, SingularReturns, driver
<1>3. stack' = Front(stack) \/ (\E x : GoOn(WithMoves(f, x))) \/ CallFrom(g, callee)
  BY DEF SingularTest, SingularReturns, Return
<1>4. /\ g.at \in BeforeMoves \ {"null"} /\ g.at \in Waiting /\ g.fn = "search" /\ g.ply = f.ply
      /\ g.checked = f.checked /\ g.pieces = f.pieces
      /\ g.played = f.played /\ g.pruned = f.pruned /\ DOMAIN g = DOMAIN f
  BY <1>1 DEF CallOK, SearchOK, CallFields, NodeFields, BeforeMoves, Waiting
<1>5. CallOK(callee) /\ callee.at = "entry" /\ callee.ply = f.ply
  BY <1>1, FreshCallSingular
<1> HIDE DEF g, callee
<1>6. CASE stack' = Front(stack)
  BY <1>1, <1>2, <1>6 DEF Rises, Disciplined
<1>7. ASSUME NEW x, GoOn(WithMoves(f, x)) PROVE Disciplined
  <2> DEFINE h == WithMoves(f, x)
  <2>1. CallOK(h) /\ NodeOK(game, h, Own) /\ h.at = "moves" /\ h.ply = f.ply
    BY <1>1, MovesFound
  <2>2. GoOn(h)
    BY <1>7
  <2> HIDE DEF h
  <2> QED
    BY <1>1, <1>2, <2>1, <2>2 DEF Disciplined, Advances, Later, Making, AfterMove
<1>8. CASE CallFrom(g, callee)
  <2>1. Descends
    BY <1>1, <1>2, <1>4, <1>5, <1>8, BeforeCalls
  <2> QED
    BY <1>2, <2>1 DEF Disciplined
<1> QED
  BY <1>2, <1>3, <1>6, <1>7, <1>8

LEMMA NextMoveSteps ==
  ASSUME BoardInv, NextMove(Top)
  PROVE  Disciplined /\ UNCHANGED killers
<1> DEFINE f == Top
           L == Legal(game, Own)
<1>1. /\ stack # <<>> /\ CallOK(f) /\ f.fn = "search" /\ f.at = "moves" /\ f.at \notin Making
      /\ f.ply \in 1 .. MaxPly /\ f.ply < MaxPly /\ f.ply \in Nat
      /\ NodeOK(game, f, Own) /\ Pos = Own /\ game \in Games /\ Own \in DOMAIN game.to
  BY TopEntry, TopNode DEF NextMove, Making, AfterMove, CallOK
<1>2. game' = game /\ UNCHANGED killers
  BY DEF NextMove, driver
<1>3. /\ DOMAIN f.todo = 1 .. 6 /\ \A i \in 1 .. 6 : f.todo[i] \subseteq L
      /\ f.played \in Nat /\ f.pruned \in Nat
      /\ f.played + f.pruned + Remaining(f) = Cardinality(L)
      /\ f.checked = InCheck(game, Own) /\ f.pieces = (Own \in game.pieces)
      /\ IsFiniteSet(L)
  <2>1. Ahead(f) = 0
    BY <1>1 DEF Ahead
  <2>2. /\ DOMAIN f.todo = 1 .. 6 /\ \A i \in 1 .. 6 : f.todo[i] \subseteq L
        /\ f.played \in Nat /\ f.pruned \in Nat
        /\ f.played + f.pruned + Remaining(f) + Ahead(f) = Cardinality(L)
        /\ f.checked = InCheck(game, Own) /\ f.pieces = (Own \in game.pieces)
    BY <1>1 DEF NodeOK
  <2>3. IsFiniteSet(L)
    BY <1>1, GamesAssumption
  <2>4. Remaining(f) \in Nat
    <3>1. \A i \in 1 .. 6 : IsFiniteSet(f.todo[i])
      BY <2>2, <2>3, FS_Subset
    <3>2. \A i \in 1 .. 6 : Cardinality(f.todo[i]) \in Nat
      BY <3>1, FS_CardinalityType
    <3> QED
      BY <3>2 DEF Remaining
  <2> HIDE DEF L
  <2> QED
    BY <2>1, <2>2, <2>3, <2>4
<1>4. PICK phase \in DOMAIN f.todo : \E m \in f.todo[phase] :
        \/ MakeMove([f EXCEPT !.todo[phase] = @ \ {m}], m)
        \/ GoOn([[f EXCEPT !.todo[phase] = @ \ {m}] EXCEPT !.pruned = @ + 1]) /\ UNCHANGED board
  BY DEF NextMove
<1> PICK m \in f.todo[phase] :
        \/ MakeMove([f EXCEPT !.todo[phase] = @ \ {m}], m)
        \/ GoOn([[f EXCEPT !.todo[phase] = @ \ {m}] EXCEPT !.pruned = @ + 1]) /\ UNCHANGED board
  BY <1>4
<1> DEFINE rest == [f EXCEPT !.todo[phase] = @ \ {m}]
<1>5. /\ phase \in 1 .. 6 /\ m \in L /\ \A i \in 1 .. 6 : IsFiniteSet(f.todo[i])
      /\ {"fn", "at", "ply", "todo", "checked", "pieces", "played", "pruned"} \cup CallFields \cup SearchFields \cup NodeFields \subseteq DOMAIN f
  <2>1. \A i \in 1 .. 6 : IsFiniteSet(f.todo[i])
    BY <1>3, FS_Subset
  <2>2. {"fn", "at", "ply", "todo", "checked", "pieces", "played", "pruned"} \cup CallFields \cup SearchFields \cup NodeFields \subseteq DOMAIN f
    BY <1>1 DEF CallOK, SearchOK, CallFields, NodeFields, SearchFields
  <2> QED
    BY <1>3, <2>1, <2>2
<1>6. /\ DOMAIN rest = DOMAIN f /\ rest.todo = [f.todo EXCEPT ![phase] = @ \ {m}]
      /\ rest.fn = "search" /\ rest.at = "moves" /\ rest.ply = f.ply /\ rest.checked = f.checked
      /\ rest.pieces = f.pieces /\ rest.played = f.played /\ rest.pruned = f.pruned
  BY <1>1, <1>5
<1> HIDE DEF rest
<1>7. /\ DOMAIN rest.todo = 1 .. 6 /\ \A i \in 1 .. 6 : rest.todo[i] \subseteq L
      /\ Remaining(f) \in Nat /\ Remaining(rest) \in Nat /\ Remaining(f) = Remaining(rest) + 1
  <2>1. DOMAIN rest.todo = 1 .. 6 /\ \A i \in 1 .. 6 : rest.todo[i] \subseteq L
    BY <1>3, <1>5, <1>6
  <2>2. Remaining(f) \in Nat /\ Remaining(rest) \in Nat /\ Remaining(f) = Remaining(rest) + 1
    BY <1>3, <1>5, <1>6, OneMoveLess
  <2> QED
    BY <2>1, <2>2
<1>8. CASE GoOn([rest EXCEPT !.pruned = @ + 1]) /\ UNCHANGED board
  <2> DEFINE g == [rest EXCEPT !.pruned = @ + 1]
  <2>1. /\ DOMAIN g = DOMAIN f /\ g.todo = rest.todo /\ g.fn = "search" /\ g.at = "moves" /\ g.ply = f.ply
        /\ g.checked = f.checked /\ g.pieces = f.pieces /\ g.played = f.played /\ g.pruned = f.pruned + 1
    BY <1>5, <1>6
  <2>2. GoOn(g)
    BY <1>8
  <2> HIDE DEF g
  <2>3. CallOK(g)
    BY <1>1, <1>5, <2>1 DEF CallOK, SearchOK, AfterMove
  <2>4. NodeOK(game, g, Own)
    <3>1. Remaining(g) = Remaining(rest) /\ Ahead(g) = 0
      BY <2>1 DEF Remaining, Ahead, Making, AfterMove
    <3>2. g.played \in Nat /\ g.pruned \in Nat /\ g.played + g.pruned + Remaining(g) + Ahead(g) = Cardinality(L)
      BY <1>3, <1>7, <2>1, <3>1
    <3> QED
      BY <1>3, <1>7, <2>1, <3>2 DEF NodeOK, AfterMove, BeforeMoves
  <2>5. Later(g) /\ g.at \notin Making
    BY <2>1, <2>3, <2>4 DEF Later, Making, AfterMove
  <2> QED
    BY <1>1, <1>2, <1>8, <2>2, <2>5, NoneMade DEF Disciplined, Advances
<1>9. CASE MakeMove(rest, m)
  <2> DEFINE depth == rest.depth - 1 + Extension(rest, m)
             made == [move |-> m, quiet |-> m \in Quiets(game, Pos), new_depth |-> depth]
             Made(at, reduction) == Extended(Extended(rest, made), [at |-> at, reduction |-> reduction])
  <2>1. /\ DoMove(m)
        /\ \E at, reduction, callee :
             /\ at \in AfterMove /\ CallOK(callee) /\ callee.at = "entry" /\ callee.ply = rest.ply + 1
             /\ CallFrom(Made(at, reduction), callee)
    <3>1. DoMove(m)
      BY <1>9 DEF MakeMove
    <3>2. rest.ply + 1 \in 1 .. MaxPly
      BY <1>1, <1>6, ScoreAssumption
    <3> DEFINE full == Call(rest.ply + 1, depth, -rest.beta, -rest.alpha, rest.pv, FALSE, rest.sme)
               Scout(r) == Call(rest.ply + 1, depth - r, -rest.alpha - 1, -rest.alpha, FALSE, TRUE, rest.sme)
    <3>3. CallOK(full) /\ full.at = "entry" /\ full.ply = rest.ply + 1
      BY <3>2 DEF Call, CallOK, SearchOK, CallFields, SearchFields, AfterMove
    <3>4. ASSUME NEW r PROVE CallOK(Scout(r)) /\ Scout(r).at = "entry" /\ Scout(r).ply = rest.ply + 1
      BY <3>2 DEF Call, CallOK, SearchOK, CallFields, SearchFields, AfterMove
    <3>5. CallFrom(Made("scored", 0), full) \/ \E r : CallFrom(Made("scout", r), Scout(r))
      BY <1>9 DEF MakeMove
    <3> HIDE DEF full, Scout, Made
    <3>6. "scored" \in AfterMove /\ "scout" \in AfterMove
      BY DEF AfterMove
    <3> QED
      BY <3>1, <3>3, <3>4, <3>5, <3>6
  <2>2. PICK at, reduction, callee :
             /\ at \in AfterMove /\ CallOK(callee) /\ callee.at = "entry" /\ callee.ply = rest.ply + 1
             /\ CallFrom(Made(at, reduction), callee)
    BY <2>1
  <2> DEFINE g == Made(at, reduction)
  <2>3. /\ g.at = at /\ g.at \in AfterMove /\ g.fn = "search" /\ g.ply = f.ply /\ g.todo = rest.todo /\ g.move = m
        /\ g.quiet = (m \in Quiets(game, Own))
        /\ g.checked = f.checked /\ g.pieces = f.pieces /\ g.played = f.played /\ g.pruned = f.pruned
        /\ DOMAIN g = DOMAIN f \cup {"move", "quiet", "new_depth", "at", "reduction"}
    BY <1>1, <1>5, <1>6, <2>2 DEF Extended
  <2>4. CallFrom(g, callee)
    BY <2>2
  <2> HIDE DEF g, Made
  <2>5. CallOK(g)
    <3>1. SearchOK(g)
      BY <1>5, <2>3 DEF SearchOK
    <3> QED
      BY <1>1, <1>5, <2>3, <3>1 DEF CallOK
  <2>6. NodeOK(game, g, Own)
    <3>1. Remaining(g) = Remaining(rest) /\ Ahead(g) = 1
      BY <2>3 DEF Remaining, Ahead, Making
    <3>2. g.played \in Nat /\ g.pruned \in Nat /\ g.played + g.pruned + Remaining(g) + Ahead(g) = Cardinality(L)
      BY <1>3, <1>7, <2>3, <3>1
    <3>3. g.at \in AfterMove /\ g.at \notin BeforeMoves /\ g.at # "entry"
      BY <2>3 DEF AfterMove, BeforeMoves
    <3> QED
      BY <1>3, <1>5, <1>7, <2>3, <3>2, <3>3 DEF NodeOK
  <2>7. MakesMove(g)
    <3> DEFINE e == [move |-> m, pos |-> game.to[Own][m], passed |-> FALSE]
    <3>1. game.to[Own][m] \in DOMAIN game.to
      BY <1>1, <1>5, GamesAssumption
    <3>2. g.at \in Making /\ g.at \in AfterMove /\ g.at # "null"
      BY <2>3 DEF Making, AfterMove
    <3>3. e.move = MoveMade(g) /\ e.pos \in DOMAIN game.to /\ e.pos = game.to[Own][g.move]
      BY <2>3, <3>1, <3>2 DEF MoveMade
    <3>4. line' = Append(line, e) /\ acc' = Append(acc, g.move)
      BY <1>1, <2>1, <2>3 DEF DoMove, Played, Pos
    <3> HIDE DEF e
    <3> QED
      BY <1>1, <3>2, <3>3, <3>4 DEF MakesMove
  <2>8. g.at \in Waiting /\ callee.ply = g.ply + Ahead(g)
    BY <1>6, <2>2, <2>3 DEF Ahead, Waiting, Making
  <2>9. Descends
    BY <1>1, <2>2, <2>3, <2>4, <2>5, <2>6, <2>7, <2>8 DEF Descends, Later
  <2> QED
    BY <1>2, <2>9 DEF Disciplined
<1> QED
  BY <1>8, <1>9 DEF rest

LEMMA SearchAgainSteps ==
  ASSUME BoardInv, SearchAgain(Top)
  PROVE  Disciplined /\ UNCHANGED killers
<1> DEFINE f == Top
<1>1. /\ stack # <<>> /\ CallOK(f) /\ f.fn = "search" /\ f.at \in AfterMove
      /\ f.ply \in 1 .. MaxPly /\ f.ply < MaxPly /\ f.ply \in Nat
      /\ NodeOK(game, f, Own)
  BY TopEntry, TopNode DEF SearchAgain, NeedsDepth, NeedsWindow, AfterMove, CallOK
<1>2. game' = game /\ UNCHANGED killers /\ UNCHANGED board
  BY DEF SearchAgain, driver, board
<1>3. PICK at, callee :
        /\ at \in AfterMove /\ CallFrom([f EXCEPT !.at = at], callee)
        /\ CallOK(callee) /\ callee.at = "entry" /\ callee.ply = f.ply + 1
  <2>1. f.ply + 1 \in 1 .. MaxPly
    BY <1>1, ScoreAssumption
  <2> DEFINE deep == Call(f.ply + 1, f.new_depth, -f.alpha - 1, -f.alpha, FALSE, ~f.cut, f.sme)
             wide == Call(f.ply + 1, f.new_depth, -f.beta, -f.alpha, TRUE, FALSE, f.sme)
  <2>2. CallOK(deep) /\ deep.at = "entry" /\ deep.ply = f.ply + 1
    BY <2>1 DEF Call, CallOK, SearchOK, CallFields, SearchFields, AfterMove
  <2>3. CallOK(wide) /\ wide.at = "entry" /\ wide.ply = f.ply + 1
    BY <2>1 DEF Call, CallOK, SearchOK, CallFields, SearchFields, AfterMove
  <2>4. CallFrom([f EXCEPT !.at = "again"], deep) \/ CallFrom([f EXCEPT !.at = "scored"], wide)
    BY DEF SearchAgain
  <2>5. "again" \in AfterMove /\ "scored" \in AfterMove
    BY DEF AfterMove
  <2> HIDE DEF deep, wide
  <2> QED
    BY <2>2, <2>3, <2>4, <2>5
<1> DEFINE g == [f EXCEPT !.at = at]
<1>4. /\ DOMAIN g = DOMAIN f /\ g.at = at /\ g.at \in AfterMove /\ g.fn = "search" /\ g.ply = f.ply /\ g.todo = f.todo
      /\ g.move = f.move /\ g.quiet = f.quiet
      /\ g.checked = f.checked /\ g.pieces = f.pieces /\ g.played = f.played /\ g.pruned = f.pruned
  BY <1>1, <1>3 DEF CallOK, CallFields
<1>5. CallFrom(g, callee)
  BY <1>3
<1> HIDE DEF g
<1>6. CallOK(g)
  <2>1. SearchOK(g)
    BY <1>1, <1>4 DEF CallOK, SearchOK, AfterMove, BeforeMoves
  <2> QED
    BY <1>1, <1>4, <2>1 DEF CallOK
<1>7. NodeOK(game, g, Own)
  <2>1. Remaining(g) = Remaining(f) /\ Ahead(g) = Ahead(f)
    BY <1>1, <1>4 DEF Remaining, Ahead, Making
  <2>2. f.at # "entry" /\ f.at \notin BeforeMoves /\ g.at \in AfterMove /\ g.at # "entry" /\ g.at \notin BeforeMoves
    BY <1>1, <1>4 DEF AfterMove, BeforeMoves
  <2> QED
    BY <1>1, <1>4, <2>1, <2>2 DEF NodeOK
<1>8. KeepsMove(g) /\ g.at \in Waiting /\ callee.ply = g.ply + Ahead(g)
  BY <1>1, <1>2, <1>3, <1>4 DEF KeepsMove, Waiting, Making, Ahead
<1>9. Descends
  BY <1>1, <1>3, <1>4, <1>5, <1>6, <1>7, <1>8 DEF Descends, Later
<1> QED
  BY <1>2, <1>9 DEF Disciplined

LEMMA MoveTakenBack ==
  ASSUME BoardInv, stack # <<>>, Top.at \in AfterMove, UndoMove
  PROVE  TakenBack
BY DEF TakenBack, UndoMove, Making, AfterMove

LEMMA KillersStayQuiet ==
  ASSUME KillersQuiet, game' = game, NEW ply, NEW p \in DOMAIN game.to, NEW m \in Quiets(game, p),
         killers' = [killers EXCEPT ![ply] = WithKiller(@, m)]
  PROVE  KillersQuiet'
<1>1. DOMAIN killers' = 1 .. MaxPly
  BY DEF KillersQuiet
<1>2. ASSUME NEW n \in 1 .. MaxPly, NEW k \in 1 .. 2
      PROVE  killers'[n][k] = NoMove \/ \E q \in DOMAIN game.to : killers'[n][k] \in Quiets(game, q)
  <2>1. killers[n][1] = NoMove \/ \E q \in DOMAIN game.to : killers[n][1] \in Quiets(game, q)
    BY DEF KillersQuiet
  <2>2. killers[n][2] = NoMove \/ \E q \in DOMAIN game.to : killers[n][2] \in Quiets(game, q)
    BY DEF KillersQuiet
  <2>3. CASE n # ply
    <3>1. killers'[n] = killers[n]
      BY <2>3 DEF KillersQuiet
    <3> QED
      BY <2>1, <2>2, <3>1
  <2>4. CASE n = ply
    <3>1. killers'[n] = WithKiller(killers[n], m)
      BY <2>4 DEF KillersQuiet
    <3>2. killers'[n] = killers[n] \/ (killers'[n][1] = m /\ killers'[n][2] = killers[n][1])
      BY <3>1 DEF WithKiller
    <3> QED
      BY <2>1, <2>2, <3>2
  <2> QED
    BY <2>3, <2>4
<1> QED
  BY <1>1, <1>2 DEF KillersQuiet

LEMMA MoveReturnsSteps ==
  ASSUME BoardInv, KillersQuiet, MoveReturns(Top)
  PROVE  Disciplined /\ KillersQuiet'
<1> DEFINE f == Top
           score == -ret
           counted == [f EXCEPT !.at = "moves", !.played = @ + 1]
           better == [counted EXCEPT !.best = score, !.best_move = f.move, !.alpha = Most(@, score)]
<1>1. /\ stack # <<>> /\ CallOK(f) /\ f.fn = "search" /\ f.at \in AfterMove
      /\ f.ply \in 1 .. MaxPly /\ f.ply < MaxPly /\ f.ply \in Nat
      /\ NodeOK(game, f, Own) /\ Own \in DOMAIN game.to
  BY TopEntry, TopNode DEF MoveReturns, AfterMove, CallOK
<1>2. game' = game /\ TakenBack
  BY <1>1, MoveTakenBack DEF MoveReturns, driver
<1>3. KillersQuiet'
  <2>1. killers' = killers \/ (f.quiet /\ killers' = [killers EXCEPT ![f.ply] = WithKiller(@, f.move)])
    BY DEF MoveReturns
  <2>2. f.quiet = (f.move \in Quiets(game, Own))
    BY <1>1 DEF NodeOK
  <2>3. CASE killers' = killers
    BY <1>2, <2>3 DEF KillersQuiet
  <2>4. CASE f.quiet /\ killers' = [killers EXCEPT ![f.ply] = WithKiller(@, f.move)]
    <3>1. f.move \in Quiets(game, Own)
      BY <2>2, <2>4
    <3> QED
      BY <1>1, <1>2, <2>4, <3>1, KillersStayQuiet
  <2> QED
    BY <2>1, <2>3, <2>4
<1>4. stack' = Front(stack) \/ GoOn(counted) \/ GoOn(better)
  BY DEF MoveReturns, Return
<1>5. CASE stack' = Front(stack)
  BY <1>1, <1>2, <1>3, <1>5 DEF Rises, Disciplined
<1>6. ASSUME NEW g, GoOn(g), DOMAIN g = DOMAIN f, g.at = "moves", g.fn = "search", g.ply = f.ply, g.todo = f.todo,
             g.checked = f.checked, g.pieces = f.pieces, g.played = f.played + 1, g.pruned = f.pruned
      PROVE  Disciplined
  <2>1. CallOK(g)
    <3>1. SearchOK(g)
      BY <1>1, <1>6 DEF CallOK, SearchOK, AfterMove, BeforeMoves
    <3> QED
      BY <1>1, <1>6, <3>1 DEF CallOK
  <2>2. NodeOK(game, g, Own)
    <3>1. Remaining(g) = Remaining(f) /\ Ahead(g) = 0 /\ Ahead(f) = 1
      BY <1>1, <1>6 DEF Remaining, Ahead, Making, AfterMove
    <3>2. f.at # "entry" /\ f.at \notin BeforeMoves /\ f.at # "moves"
      BY <1>1 DEF AfterMove, BeforeMoves
    <3>3. /\ DOMAIN f.todo = 1 .. 6 /\ \A i \in 1 .. 6 : f.todo[i] \subseteq Legal(game, Own)
          /\ f.played \in Nat /\ f.pruned \in Nat
          /\ f.played + f.pruned + Remaining(f) + Ahead(f) = Cardinality(Legal(game, Own))
          /\ f.checked = InCheck(game, Own) /\ f.pieces = (Own \in game.pieces)
      BY <1>1, <3>2 DEF NodeOK
    <3>4. Remaining(f) \in Nat
      <4>1. \A i \in 1 .. 6 : IsFiniteSet(f.todo[i])
        BY <1>1, <3>3, TopNode, GamesAssumption, FS_Subset
      <4>2. \A i \in 1 .. 6 : Cardinality(f.todo[i]) \in Nat
        BY <4>1, FS_CardinalityType
      <4> QED
        BY <4>2 DEF Remaining
    <3>5. g.played \in Nat /\ g.pruned \in Nat /\ g.played + g.pruned + Remaining(g) + Ahead(g) = Cardinality(Legal(game, Own))
      BY <1>6, <3>1, <3>3, <3>4
    <3> QED
      BY <1>6, <3>3, <3>5 DEF NodeOK, AfterMove, BeforeMoves
  <2> QED
    BY <1>1, <1>2, <1>6, <2>1, <2>2 DEF Disciplined, Advances, Later, Making, AfterMove
<1>7. {"fn", "at", "ply", "alpha", "checked", "pieces", "played", "pruned", "best", "best_move", "todo"} \subseteq DOMAIN f
  BY <1>1 DEF CallOK, SearchOK, CallFields, NodeFields, AfterMove
<1>8. CASE GoOn(counted)
  <2>1. DOMAIN counted = DOMAIN f /\ counted.at = "moves" /\ counted.fn = "search" /\ counted.ply = f.ply /\ counted.todo = f.todo
        /\ counted.checked = f.checked /\ counted.pieces = f.pieces /\ counted.played = f.played + 1 /\ counted.pruned = f.pruned
    BY <1>1, <1>7
  <2>2. GoOn(counted)
    BY <1>8
  <2> HIDE DEF counted, better
  <2> QED
    BY <1>6, <1>3, <2>1, <2>2
<1>9. CASE GoOn(better)
  <2>1. DOMAIN better = DOMAIN f /\ better.at = "moves" /\ better.fn = "search" /\ better.ply = f.ply /\ better.todo = f.todo
        /\ better.checked = f.checked /\ better.pieces = f.pieces /\ better.played = f.played + 1 /\ better.pruned = f.pruned
    BY <1>1, <1>7
  <2>2. GoOn(better)
    BY <1>9
  <2> HIDE DEF counted, better
  <2> QED
    BY <1>6, <1>3, <2>1, <2>2
<1> QED
  BY <1>3, <1>4, <1>5, <1>8, <1>9

LEMMA SearchEndsSteps ==
  ASSUME BoardInv, SearchEnds(Top)
  PROVE  Disciplined /\ UNCHANGED killers
<1>1. stack # <<>> /\ Top.at \notin Making /\ UNCHANGED board
  BY TopEntry DEF SearchEnds, Making, AfterMove
<1> QED
  BY <1>1, NoneMade DEF SearchEnds, Return, Disciplined, Rises, driver

(* The calls of qsearch() and singular_move_search() hold two sets of      *)
(* moves.                                                                  *)
LEMMA TwoPhases ==
  ASSUME NEW f, f.fn # "search", f.fn \in {"qsearch", "singular"}, CallOK(f), f.at # "entry",
         NEW p, NodeOK(game, f, p),
         NEW g, g.fn = f.fn, g.ply = f.ply, DOMAIN f \subseteq DOMAIN g, g.at \in {"moves", "scored"},
         DOMAIN g.todo = 1 .. 2, \A i \in 1 .. 2 : g.todo[i] \subseteq f.todo[i],
         g.at = "scored" => "move" \in DOMAIN g /\ g.move \in Legal(game, p)
  PROVE  CallOK(g) /\ NodeOK(game, g, p)
<1>1. CallOK(g)
  BY DEF CallOK, QSearchOK, SingularOK
<1>2. NodeOK(game, g, p)
  BY DEF NodeOK, AfterMove
<1> QED
  BY <1>1, <1>2

LEMMA EnterQSearchSteps ==
  ASSUME BoardInv, EnterQSearch(Top)
  PROVE  Disciplined /\ UNCHANGED killers
<1> DEFINE f == Top
<1>1. /\ stack # <<>> /\ CallOK(f) /\ f.fn = "qsearch" /\ f.at = "entry" /\ f.at \notin Making
      /\ Pos = Own /\ game \in Games /\ Own \in DOMAIN game.to
  BY TopEntry, TopNode DEF EnterQSearch, Making, AfterMove
<1>2. TakenBack /\ game' = game /\ UNCHANGED killers
  BY <1>1, NoneMade DEF EnterQSearch, driver
<1>3. stack' = Front(stack) \/ \E entry : ~LeavesEarlyQ(f) /\ GoOn(QNode(f, entry))
  BY DEF EnterQSearch, Return
<1>4. CASE stack' = Front(stack)
  BY <1>1, <1>2, <1>4 DEF Rises, Disciplined
<1>5. ASSUME NEW entry, ~LeavesEarlyQ(f), GoOn(QNode(f, entry))
      PROVE  Disciplined
  <2> DEFINE g == QNode(f, entry)
             moves == IF InCheck(game, Pos) THEN Legal(game, Pos)
                      ELSE {m \in game.noisy[Pos] : game.see[Pos][m] >= 0}
             first == {entry.move} \cap moves
  <2>1. f.ply < MaxPly
    BY <1>1, <1>5, ScoreAssumption DEF LeavesEarlyQ, CallOK
  <2>2. moves \subseteq Legal(game, Own)
    BY <1>1, GamesAssumption
  <2>3. /\ g.at = "moves" /\ g.ply = f.ply /\ g.fn = "qsearch" /\ g.todo = <<first, moves \ first>>
        /\ CallFields \cup {"pv", "alpha_orig", "checked", "best", "best_move", "played", "todo"} \subseteq DOMAIN g
    <3>1. CallFields \cup {"pv"} \subseteq DOMAIN f
      BY <1>1 DEF CallOK, QSearchOK
    <3> QED
      BY <1>1, <3>1 DEF QNode, Extended, CallFields
  <2>4. GoOn(g)
    BY <1>5
  <2> HIDE DEF g
  <2>5. CallOK(g)
    BY <1>1, <2>1, <2>3 DEF CallOK, QSearchOK
  <2>6. NodeOK(game, g, Own)
    <3>1. DOMAIN g.todo = 1 .. 2 /\ \A i \in 1 .. 2 : g.todo[i] \subseteq Legal(game, Own)
      BY <2>2, <2>3
    <3> QED
      BY <2>3, <3>1 DEF NodeOK, AfterMove
  <2> QED
    BY <1>1, <1>2, <2>3, <2>4, <2>5, <2>6 DEF Disciplined, Advances, Later, Making, AfterMove
<1> QED
  BY <1>2, <1>3, <1>4, <1>5

LEMMA EnterSingularSteps ==
  ASSUME BoardInv, EnterSingular(Top)
  PROVE  Disciplined /\ UNCHANGED killers
<1> DEFINE f == Top
<1>1. /\ stack # <<>> /\ CallOK(f) /\ f.fn = "singular" /\ f.at = "entry" /\ f.at \notin Making
      /\ Pos = Own /\ game \in Games /\ Own \in DOMAIN game.to
  BY TopEntry, TopNode DEF EnterSingular, Making, AfterMove
<1>2. TakenBack /\ game' = game /\ UNCHANGED killers
  BY <1>1, NoneMade DEF EnterSingular, driver
<1>3. stack' = Front(stack) \/ GoOn(SingularNode(f))
  BY DEF EnterSingular, Return
<1>4. CASE stack' = Front(stack)
  BY <1>1, <1>2, <1>4 DEF Rises, Disciplined
<1>5. CASE GoOn(SingularNode(f))
  <2> DEFINE g == SingularNode(f)
             others == Legal(game, Pos) \ {f.excluded}
  <2>1. /\ g.at = "moves" /\ g.ply = f.ply /\ g.fn = "singular"
        /\ g.todo = <<others \cap game.noisy[Pos], others \ game.noisy[Pos]>>
        /\ DOMAIN f \cup {"alpha_orig", "best", "best_move", "quiets", "todo"} \subseteq DOMAIN g
    <3>1. CallFields \subseteq DOMAIN f
      BY <1>1 DEF CallOK
    <3> QED
      BY <1>1, <3>1 DEF SingularNode, Extended, CallFields
  <2>2. GoOn(g)
    BY <1>5
  <2> HIDE DEF g
  <2>3. CallOK(g)
    BY <1>1, <2>1 DEF CallOK, SingularOK
  <2>4. NodeOK(game, g, Own)
    <3>1. DOMAIN g.todo = 1 .. 2 /\ \A i \in 1 .. 2 : g.todo[i] \subseteq Legal(game, Own)
      BY <1>1, <2>1
    <3> QED
      BY <2>1, <3>1 DEF NodeOK, AfterMove
  <2> QED
    BY <1>1, <1>2, <2>1, <2>2, <2>3, <2>4 DEF Disciplined, Advances, Later, Making, AfterMove
<1> QED
  BY <1>3, <1>4, <1>5

(* Such a call makes one of its moves, or takes it back.                   *)
LEMMA OneOfTwo ==
  ASSUME BoardInv, stack # <<>>, Top.fn \in {"qsearch", "singular"}, Top.at = "moves", game' = game,
         NEW i \in DOMAIN Top.todo, NEW m \in Top.todo[i],
         NEW rest, DOMAIN rest = DOMAIN Top, rest.todo = [Top.todo EXCEPT ![i] = @ \ {m}],
         rest.fn = Top.fn, rest.at = "moves", rest.ply = Top.ply,
         NEW callee, CallOK(callee), callee.at = "entry", callee.ply = Top.ply + 1,
         \/ DoMove(m) /\ CallFrom(Extended(rest, [at |-> "scored", move |-> m]), callee)
         \/ GoOn(rest) /\ UNCHANGED board
  PROVE  Disciplined
<1> DEFINE f == Top
<1>1. /\ CallOK(f) /\ NodeOK(game, f, Own) /\ Pos = Own /\ game \in Games /\ Own \in DOMAIN game.to
      /\ f.at \notin Making /\ f.ply \in Nat /\ CallFields \subseteq DOMAIN f
  BY TopNode DEF Making, AfterMove, CallOK
<1>2. DOMAIN f.todo = 1 .. 2 /\ \A j \in 1 .. 2 : f.todo[j] \subseteq Legal(game, Own)
  BY <1>1 DEF NodeOK
<1>3. DOMAIN rest.todo = 1 .. 2 /\ \A j \in 1 .. 2 : rest.todo[j] \subseteq f.todo[j]
  BY <1>2
<1>4. CASE GoOn(rest) /\ UNCHANGED board
  <2>1. CallOK(rest) /\ NodeOK(game, rest, Own)
    <3>1. f.fn # "search" /\ f.at # "entry" /\ rest.at \in {"moves", "scored"} /\ rest.at # "scored"
      OBVIOUS
    <3> QED
      BY <1>1, <1>3, <3>1, TwoPhases
  <2>2. Later(rest) /\ rest.at \notin Making
    BY <2>1 DEF Later, Making, AfterMove
  <2> QED
    BY <1>1, <1>4, <2>2, NoneMade DEF Disciplined, Advances
<1>5. CASE DoMove(m) /\ CallFrom(Extended(rest, [at |-> "scored", move |-> m]), callee)
  <2> DEFINE g == Extended(rest, [at |-> "scored", move |-> m])
  <2>1. /\ g.at = "scored" /\ g.move = m /\ g.fn = f.fn /\ g.ply = f.ply /\ g.todo = rest.todo
        /\ DOMAIN g = DOMAIN f \cup {"at", "move"}
    <3>1. "todo" \in DOMAIN f
      BY <1>1 DEF CallOK, QSearchOK, SingularOK
    <3> QED
      BY <1>1, <3>1 DEF Extended, CallFields
  <2>2. CallFrom(g, callee)
    BY <1>5
  <2> HIDE DEF g
  <2>3. m \in Legal(game, Own)
    BY <1>2
  <2>4. CallOK(g) /\ NodeOK(game, g, Own)
    <3>1. f.fn # "search" /\ f.at # "entry" /\ g.at \in {"moves", "scored"} /\ DOMAIN f \subseteq DOMAIN g
      BY <2>1
    <3> QED
      BY <1>1, <1>3, <2>1, <2>3, <3>1, TwoPhases
  <2>5. MakesMove(g)
    <3> DEFINE e == [move |-> m, pos |-> game.to[Own][m], passed |-> FALSE]
    <3>1. game.to[Own][m] \in DOMAIN game.to
      BY <1>1, <2>3, GamesAssumption
    <3>2. g.at \in Making /\ g.at \in AfterMove /\ g.at # "null"
      BY <2>1 DEF Making, AfterMove
    <3>3. e.move = MoveMade(g) /\ e.pos \in DOMAIN game.to /\ e.pos = game.to[Own][g.move]
      BY <2>1, <3>1, <3>2 DEF MoveMade
    <3>4. line' = Append(line, e) /\ acc' = Append(acc, g.move)
      BY <1>1, <1>5, <2>1 DEF DoMove, Played, Pos
    <3> HIDE DEF e
    <3> QED
      BY <1>1, <3>2, <3>3, <3>4 DEF MakesMove
  <2>6. g.at \in Waiting /\ callee.ply = g.ply + Ahead(g)
    BY <2>1 DEF Ahead, Waiting, Making, AfterMove
  <2>7. Descends
    BY <2>1, <2>2, <2>4, <2>5, <2>6 DEF Descends, Later
  <2> QED
    BY <2>7 DEF Disciplined
<1> QED
  BY <1>4, <1>5

LEMMA NextQMoveSteps ==
  ASSUME BoardInv, NextQMove(Top)
  PROVE  Disciplined /\ UNCHANGED killers
<1> DEFINE f == Top
<1>1. /\ stack # <<>> /\ CallOK(f) /\ f.fn = "qsearch" /\ f.at = "moves" /\ f.ply \in Nat /\ f.ply < MaxPly
      /\ {"fn", "at", "ply", "todo"} \subseteq DOMAIN f
  BY TopEntry, TopNode DEF NextQMove, CallOK, QSearchOK, CallFields
<1>2. game' = game /\ UNCHANGED killers
  BY DEF NextQMove, driver
<1>3. PICK i \in DOMAIN f.todo : \E m \in f.todo[i] :
        /\ DoMove(m)
        /\ CallFrom(Extended([f EXCEPT !.todo[i] = @ \ {m}], [at |-> "scored", move |-> m]),
             CallQ(f.ply + 1, -f.beta, -f.alpha, f.pv))
  BY DEF NextQMove
<1> PICK m \in f.todo[i] :
        /\ DoMove(m)
        /\ CallFrom(Extended([f EXCEPT !.todo[i] = @ \ {m}], [at |-> "scored", move |-> m]),
             CallQ(f.ply + 1, -f.beta, -f.alpha, f.pv))
  BY <1>3
<1> DEFINE rest == [f EXCEPT !.todo[i] = @ \ {m}]
           callee == CallQ(f.ply + 1, -f.beta, -f.alpha, f.pv)
<1>4. /\ DOMAIN rest = DOMAIN f /\ rest.todo = [f.todo EXCEPT ![i] = @ \ {m}]
      /\ rest.fn = f.fn /\ rest.at = "moves" /\ rest.ply = f.ply
  BY <1>1
<1>5. CallOK(callee) /\ callee.at = "entry" /\ callee.ply = f.ply + 1
  <2>1. f.ply + 1 \in 1 .. MaxPly
    BY <1>1, ScoreAssumption
  <2> QED
    BY <2>1 DEF CallQ, CallOK, QSearchOK, CallFields
<1>6. DoMove(m) /\ CallFrom(Extended(rest, [at |-> "scored", move |-> m]), callee)
  OBVIOUS
<1> HIDE DEF rest, callee
<1>7. f.fn \in {"qsearch", "singular"}
  BY <1>1
<1> QED
  BY <1>1, <1>2, <1>4, <1>5, <1>6, <1>7, OneOfTwo

LEMMA NextSingularMoveSteps ==
  ASSUME BoardInv, NextSingularMove(Top)
  PROVE  Disciplined /\ UNCHANGED killers
<1> DEFINE f == Top
<1>1. /\ stack # <<>> /\ CallOK(f) /\ f.fn = "singular" /\ f.at = "moves" /\ f.ply \in Nat /\ f.ply < MaxPly
      /\ {"fn", "at", "ply", "todo", "quiets"} \subseteq DOMAIN f
  BY TopEntry, TopNode DEF NextSingularMove, CallOK, SingularOK, CallFields
<1>2. game' = game /\ UNCHANGED killers
  BY DEF NextSingularMove, driver
<1> DEFINE Callee == Call(f.ply + 1, f.depth - 1, -f.beta, -f.alpha, FALSE, f.cut, FALSE)
           Rest(i, m, q) == [f EXCEPT !.quiets = q, !.todo[i] = @ \ {m}]
<1>3. PICK i \in DOMAIN f.todo : \E m \in f.todo[i] : \E q :
        \/ DoMove(m) /\ CallFrom(Extended(Rest(i, m, q), [at |-> "scored", move |-> m]), Callee)
        \/ GoOn(Rest(i, m, q)) /\ UNCHANGED board
  BY DEF NextSingularMove
<1>4. PICK m \in f.todo[i] : \E q :
        \/ DoMove(m) /\ CallFrom(Extended(Rest(i, m, q), [at |-> "scored", move |-> m]), Callee)
        \/ GoOn(Rest(i, m, q)) /\ UNCHANGED board
  BY <1>3
<1>5. PICK q :
        \/ DoMove(m) /\ CallFrom(Extended(Rest(i, m, q), [at |-> "scored", move |-> m]), Callee)
        \/ GoOn(Rest(i, m, q)) /\ UNCHANGED board
  BY <1>4
<1> DEFINE rest == Rest(i, m, q)
<1>6. /\ DOMAIN rest = DOMAIN f /\ rest.todo = [f.todo EXCEPT ![i] = @ \ {m}]
      /\ rest.fn = f.fn /\ rest.at = "moves" /\ rest.ply = f.ply
  BY <1>1
<1>7. CallOK(Callee) /\ Callee.at = "entry" /\ Callee.ply = f.ply + 1
  <2>1. f.ply + 1 \in 1 .. MaxPly
    BY <1>1, ScoreAssumption
  <2> QED
    BY <2>1 DEF Call, CallOK, SearchOK, CallFields, SearchFields, AfterMove
<1>8. \/ DoMove(m) /\ CallFrom(Extended(rest, [at |-> "scored", move |-> m]), Callee)
      \/ GoOn(rest) /\ UNCHANGED board
  BY <1>5
<1> HIDE DEF rest, Rest, Callee
<1>9. f.fn \in {"qsearch", "singular"}
  BY <1>1
<1> QED
  BY <1>1, <1>2, <1>6, <1>7, <1>8, <1>9, OneOfTwo

LEMMA TwoGoesOn ==
  ASSUME BoardInv, stack # <<>>, Top.fn \in {"qsearch", "singular"}, Top.at = "scored", game' = game, UndoMove,
         NEW g, GoOn(g), DOMAIN g = DOMAIN Top, g.fn = Top.fn, g.at = "moves", g.ply = Top.ply, g.todo = Top.todo
  PROVE  Disciplined
<1>1. CallOK(Top) /\ NodeOK(game, Top, Own) /\ Top.at \in AfterMove /\ Top.fn # "search" /\ Top.at # "entry"
  BY TopNode DEF AfterMove
<1>2. DOMAIN g.todo = 1 .. 2 /\ \A j \in 1 .. 2 : g.todo[j] \subseteq Top.todo[j]
  BY <1>1 DEF NodeOK
<1>3. CallOK(g) /\ NodeOK(game, g, Own)
  <2>1. g.at \in {"moves", "scored"} /\ g.at # "scored" /\ DOMAIN Top \subseteq DOMAIN g
    OBVIOUS
  <2> QED
    BY <1>1, <1>2, <2>1, TwoPhases
<1>4. TakenBack
  BY <1>1, MoveTakenBack
<1> QED
  BY <1>3, <1>4 DEF Disciplined, Advances, Later, Making, AfterMove

LEMMA QMoveReturnsSteps ==
  ASSUME BoardInv, QMoveReturns(Top)
  PROVE  Disciplined /\ UNCHANGED killers
<1> DEFINE f == Top
           score == -ret
           counted == [f EXCEPT !.at = "moves", !.played = @ + 1]
           better == [counted EXCEPT !.best = score, !.best_move = f.move, !.alpha = Most(@, score)]
<1>1. /\ stack # <<>> /\ CallOK(f) /\ f.fn = "qsearch" /\ f.at = "scored" /\ f.at \in AfterMove /\ UndoMove
      /\ f.fn \in {"qsearch", "singular"}
      /\ {"fn", "at", "ply", "alpha", "todo", "played", "best", "best_move"} \subseteq DOMAIN f
  BY TopEntry, TopNode DEF QMoveReturns, CallOK, QSearchOK, CallFields, AfterMove
<1>2. game' = game /\ UNCHANGED killers /\ TakenBack
  BY <1>1, MoveTakenBack DEF QMoveReturns, driver
<1>3. stack' = Front(stack) \/ GoOn(counted) \/ GoOn(better)
  BY DEF QMoveReturns, StoreQ, Return
<1>4. /\ DOMAIN counted = DOMAIN f /\ counted.fn = f.fn /\ counted.at = "moves" /\ counted.ply = f.ply /\ counted.todo = f.todo
      /\ DOMAIN better = DOMAIN f /\ better.fn = f.fn /\ better.at = "moves" /\ better.ply = f.ply /\ better.todo = f.todo
  BY <1>1
<1> HIDE DEF counted, better
<1>5. CASE stack' = Front(stack)
  BY <1>1, <1>2, <1>5 DEF Rises, Disciplined
<1>6. CASE GoOn(counted)
  BY <1>1, <1>2, <1>4, <1>6, TwoGoesOn
<1>7. CASE GoOn(better)
  BY <1>1, <1>2, <1>4, <1>7, TwoGoesOn
<1> QED
  BY <1>2, <1>3, <1>5, <1>6, <1>7

LEMMA SingularMoveReturnsSteps ==
  ASSUME BoardInv, SingularMoveReturns(Top)
  PROVE  Disciplined /\ UNCHANGED killers
<1> DEFINE f == Top
           score == -ret
           better == score > f.best
           counted == [f EXCEPT !.at = "moves", !.best = Most(@, score),
                           !.best_move = IF better THEN f.move ELSE @,
                           !.alpha = Most(@, score)]
<1>1. /\ stack # <<>> /\ CallOK(f) /\ f.fn = "singular" /\ f.at = "scored" /\ f.at \in AfterMove /\ UndoMove
      /\ f.fn \in {"qsearch", "singular"}
      /\ {"fn", "at", "ply", "alpha", "todo", "best", "best_move"} \subseteq DOMAIN f
  BY TopEntry, TopNode DEF SingularMoveReturns, CallOK, SingularOK, CallFields, AfterMove
<1>2. game' = game /\ UNCHANGED killers /\ TakenBack
  BY <1>1, MoveTakenBack DEF SingularMoveReturns, driver
<1>3. stack' = Front(stack) \/ GoOn(counted)
  BY DEF SingularMoveReturns, Return
<1>4. DOMAIN counted = DOMAIN f /\ counted.fn = f.fn /\ counted.at = "moves" /\ counted.ply = f.ply /\ counted.todo = f.todo
  BY <1>1
<1> HIDE DEF counted
<1>5. CASE stack' = Front(stack)
  BY <1>1, <1>2, <1>5 DEF Rises, Disciplined
<1>6. CASE GoOn(counted)
  BY <1>1, <1>2, <1>4, <1>6, TwoGoesOn
<1> QED
  BY <1>2, <1>3, <1>5, <1>6

LEMMA TwoEndSteps ==
  ASSUME BoardInv, QSearchEnds(Top) \/ SingularEnds(Top)
  PROVE  Disciplined /\ UNCHANGED killers
<1>1. stack # <<>> /\ Top.at \notin Making /\ UNCHANGED board
  BY TopEntry DEF QSearchEnds, SingularEnds, Making, AfterMove
<1> QED
  BY <1>1, NoneMade DEF QSearchEnds, SingularEnds, StoreQ, Return, Disciplined, Rises, driver

LEMMA DriverSteps ==
  ASSUME BoardInv, RootSearch \/ RootReturns \/ Done
  PROVE  Disciplined /\ UNCHANGED killers
<1>1. CASE RootSearch
  <2>1. stack = <<>> /\ UNCHANGED board /\ game' = game /\ UNCHANGED killers
    BY <1>1 DEF RootSearch, Idle, board
  <2> DEFINE probe == game.probes[probes + 1]
             callee == Call(1, probe[1], probe[2], probe[3], TRUE, FALSE, TRUE)
  <2>2. CallOK(callee) /\ callee.at = "entry" /\ callee.ply = 1
    BY ScoreAssumption DEF Call, CallOK, SearchOK, CallFields, SearchFields, AfterMove
  <2>3. stack' = <<callee>>
    BY <1>1 DEF RootSearch
  <2> HIDE DEF callee
  <2> QED
    BY <2>1, <2>2, <2>3 DEF Disciplined, Begins
<1>2. CASE RootReturns \/ Done
  BY <1>2 DEF RootReturns, Done, Disciplined, Rests, vars, board
<1> QED
  BY <1>1, <1>2

-----------------------------------------------------------------------------
(* Every step keeps the board with the calls.                              *)
BoardSafe == BoardInv /\ KillersQuiet

LEMMA BoardInit ==
  ASSUME Init
  PROVE  BoardSafe
<1>1. PICK g \in Games : InitOf(g)
  BY DEF Init
<1>2. /\ game = g /\ stack = <<>> /\ line = <<>> /\ acc = <<>>
      /\ killers = [ply \in 1 .. MaxPly |-> <<NoMove, NoMove>>]
  BY <1>1 DEF InitOf
<1>3. IsSequence(<<>>) /\ Len(<<>>) = 0
  BY EmptySeq, MembersAreSequences
<1>4. CallsOK(<<>>) /\ LineOK(<<>>, <<>>, <<>>) /\ NodesOK(g, <<>>, <<>>)
  BY <1>3 DEF CallsOK, LineOK, NodesOK
<1>5. PositionsOK(g, <<>>)
  BY <1>3, GamesAssumption DEF PositionsOK, PosAt
<1>6. Follow(<<>>, <<>>, <<>>)
  <2>1. [i \in DOMAIN <<>> |-> <<>>[i].move] = <<>>
    OBVIOUS
  <2> QED
    BY <2>1, MovesMadeEmpty DEF Follow
<1>7. KillersQuiet
  BY <1>2 DEF KillersQuiet
<1> QED
  BY <1>2, <1>4, <1>5, <1>6, <1>7 DEF BoardSafe, BoardInv, Sound

LEMMA EveryStepDisciplined ==
  ASSUME BoardSafe, Next
  PROVE  Disciplined /\ KillersQuiet'
<1>1. BoardInv /\ KillersQuiet
  BY DEF BoardSafe
<1>2. ASSUME Disciplined, UNCHANGED killers PROVE Disciplined /\ KillersQuiet'
  BY <1>1, <1>2 DEF Disciplined, KillersQuiet
<1> QED
  BY <1>1, <1>2, DriverSteps, AbortSteps, EnterSearchSteps, PruneNodeSteps, NullMoveSteps, VerifySteps, RazorSteps,
     SingularTestSteps, NextMoveSteps, SearchAgainSteps, MoveReturnsSteps, SearchEndsSteps,
     EnterQSearchSteps, NextQMoveSteps, QMoveReturnsSteps, TwoEndSteps,
     EnterSingularSteps, NextSingularMoveSteps, SingularMoveReturnsSteps, Zenon DEF Next

LEMMA BoardStep ==
  ASSUME BoardSafe, [Next]_vars
  PROVE  BoardSafe'
<1>1. CASE Next
  <2>1. Disciplined /\ KillersQuiet'
    BY <1>1, EveryStepDisciplined
  <2> QED
    BY <2>1, DisciplinedSound DEF BoardSafe
<1>2. CASE UNCHANGED vars
  <2>1. Disciplined /\ UNCHANGED killers
    BY <1>2 DEF vars, Disciplined, Rests, board
  <2>2. KillersQuiet'
    BY <2>1 DEF BoardSafe, KillersQuiet, Disciplined
  <2> QED
    BY <2>1, <2>2, DisciplinedSound DEF BoardSafe
<1> QED
  BY <1>1, <1>2

(* The calls in progress fit each other, the board and their nodes, and    *)
(* the killers are quiet moves: the invariant the other proofs rest on.    *)
THEOREM BoardIsSafe == Spec => []BoardSafe
<1>1. Init => BoardSafe
  BY BoardInit
<1>2. BoardSafe /\ [Next]_vars => BoardSafe'
  BY BoardStep
<1> QED
  BY <1>1, <1>2, PTL DEF Spec

(* The board stands where the calls in progress have taken it, and the     *)
(* network's accumulators have followed it: search(), qsearch() and        *)
(* singular_move_search() take back what they made on every path, those of *)
(* an abort, a cut or a mate included.                                     *)
THEOREM BoardAlwaysFollows == Spec => []BoardFollowsCalls
<1>1. BoardSafe => BoardFollowsCalls
  BY DEF BoardSafe, BoardInv, Sound, Follow, BoardFollowsCalls, Making
<1> QED
  BY <1>1, BoardIsSafe, PTL

(* The six phases of a node hand out each of its legal moves once, whatever*)
(* the table move and the killers are.                                     *)
THEOREM MovesComeOnce == Spec => []EachMoveOnce
<1>1. BoardSafe => EachMoveOnce
  <2> SUFFICES ASSUME BoardSafe, stack # <<>>, Top.fn = "search", Top.at = "moves"
               PROVE  Top.played + Top.pruned + Remaining(Top) = Cardinality(Legal(game, Pos))
    BY DEF EachMoveOnce, Idle
  <2>1. NodeOK(game, Top, Own) /\ Pos = Own /\ game \in Games /\ Own \in DOMAIN game.to
    BY TopNode DEF BoardSafe, Making, AfterMove
  <2>2. Ahead(Top) = 0
    BY DEF Ahead, Making, AfterMove
  <2>3. /\ Top.played \in Nat /\ Top.pruned \in Nat
        /\ Top.played + Top.pruned + Remaining(Top) + Ahead(Top) = Cardinality(Legal(game, Own))
        /\ DOMAIN Top.todo = 1 .. 6 /\ \A i \in 1 .. 6 : Top.todo[i] \subseteq Legal(game, Own)
    BY <2>1 DEF NodeOK
  <2>4. Remaining(Top) \in Nat
    <3>1. \A i \in 1 .. 6 : IsFiniteSet(Top.todo[i])
      BY <2>1, <2>3, GamesAssumption, FS_Subset
    <3>2. \A i \in 1 .. 6 : Cardinality(Top.todo[i]) \in Nat
      BY <3>1, FS_CardinalityType
    <3> QED
      BY <3>2 DEF Remaining
  <2> QED
    BY <2>1, <2>2, <2>3, <2>4
<1> QED
  BY <1>1, BoardIsSafe, PTL

-----------------------------------------------------------------------------
(* Lines that can be played: there are positions for the moves to lead     *)
(* through.                                                                *)
Walk(g, p, pv) ==
  /\ IsSequence(pv)
  /\ \E path : /\ path[0] = p
               /\ \A i \in 1 .. Len(pv) : /\ pv[i] \in Legal(g, path[i - 1])
                                          /\ path[i] = g.to[path[i - 1]][pv[i]]

LEMMA WalkNowhere ==
  ASSUME NEW g, NEW p
  PROVE  Walk(g, p, <<>>)
<1> DEFINE path == [i \in 0 .. 0 |-> p]
<1>1. IsSequence(<<>>) /\ Len(<<>>) = 0
  BY EmptySeq, MembersAreSequences
<1>2. path[0] = p /\ \A i \in 1 .. 0 : FALSE
  OBVIOUS
<1> QED
  BY <1>1, <1>2 DEF Walk

(* update_pv(): a legal move before a line that can be played after it.    *)
LEMMA WalkOn ==
  ASSUME NEW g, NEW p, NEW m \in Legal(g, p), NEW pv, Walk(g, g.to[p][m], pv),
         NEW k \in Nat, k <= Len(pv)
  PROVE  Walk(g, p, <<m>> \o SubSeq(pv, 1, k))
<1> DEFINE S == {pv[i] : i \in DOMAIN pv} \cup {m}
           s == SubSeq(pv, 1, k)
           more == <<m>> \o s
<1>1. IsSequence(pv) /\ Len(pv) \in Nat /\ pv \in Seq(S) /\ m \in S
  BY SequenceFacts DEF Walk
<1> HIDE DEF S
<1>2. s \in Seq(S) /\ Len(s) = k /\ \A i \in 1 .. k : s[i] = pv[i]
  BY <1>1, SubSeqProperties
<1>3. <<m>> \in Seq(S) /\ Len(<<m>>) = 1 /\ <<m>>[1] = m
  BY <1>1
<1> HIDE DEF s
<1>4. more \in Seq(S) /\ Len(more) = k + 1 /\ more[1] = m /\ \A i \in 2 .. k + 1 : more[i] = s[i - 1]
  <2> DEFINE one == <<m>>
  <2>1. one \in Seq(S) /\ Len(one) = 1 /\ one[1] = m
    BY <1>3
  <2> HIDE DEF one
  <2>2. /\ one \o s \in Seq(S)
        /\ Len(one \o s) = Len(one) + Len(s)
        /\ \A i \in 1 .. Len(one) + Len(s) : (one \o s)[i] = IF i <= Len(one) THEN one[i] ELSE s[i - Len(one)]
    BY <2>1, <1>2, ConcatProperties
  <2>3. \A i \in 2 .. k + 1 : (one \o s)[i] = s[i - 1]
    BY <2>1, <2>2, <1>2
  <2>4. (one \o s)[1] = m
    BY <2>1, <2>2, <1>2
  <2> QED
    BY <2>1, <2>2, <2>3, <2>4, <1>2 DEF one
<1> HIDE DEF more
<1>5. PICK path : /\ path[0] = g.to[p][m]
                  /\ \A i \in 1 .. Len(pv) : /\ pv[i] \in Legal(g, path[i - 1])
                                             /\ path[i] = g.to[path[i - 1]][pv[i]]
  BY DEF Walk
<1> DEFINE new == [i \in 0 .. k + 1 |-> IF i = 0 THEN p ELSE path[i - 1]]
<1>6. new[0] = p /\ \A i \in 1 .. k + 1 : new[i] = path[i - 1]
  OBVIOUS
<1> HIDE DEF new
<1>7. ASSUME NEW i \in 1 .. k + 1
      PROVE  more[i] \in Legal(g, new[i - 1]) /\ new[i] = g.to[new[i - 1]][more[i]]
  <2>1. CASE i = 1
    BY <2>1, <1>4, <1>5, <1>6
  <2>2. CASE i \in 2 .. k + 1
    <3> DEFINE j == i - 1
    <3>1. j \in 1 .. Len(pv) /\ j \in 1 .. k /\ i - 1 \in 1 .. k + 1 /\ i - 1 - 1 = j - 1
      BY <2>2, <1>1
    <3>2. more[i] = pv[j]
      BY <2>2, <3>1, <1>2, <1>4
    <3>3. new[i] = path[j] /\ new[i - 1] = path[j - 1]
      BY <3>1, <1>6
    <3> QED
      BY <3>1, <3>2, <3>3, <1>5
  <2> QED
    BY <2>1, <2>2
<1>8. IsSequence(more)
  BY <1>4, MembersAreSequences
<1>9. Walk(g, p, more)
  BY <1>4, <1>6, <1>7, <1>8 DEF Walk
<1> QED
  BY <1>9 DEF more, s

(* The recursion of PlayableFrom().                                        *)
Onward(g, m, places) == {g.to[q][m] : q \in {r \in places : m \in Legal(g, r)}}

PlacesTable(after, g, p, pv) ==
  after = [i \in 0 .. Len(pv) |->
             IF i = 0 THEN {p}
             ELSE {g.to[q][pv[i]] : q \in {r \in after[i - 1] : pv[i] \in Legal(g, r)}}]

LEMMA PlacesTableExists ==
  ASSUME NEW g \in Games, NEW p \in DOMAIN g.to, NEW pv, IsSequence(pv)
  PROVE  \E after : PlacesTable(after, g, p, pv)
<1> DEFINE N == Len(pv)
           S == SUBSET DOMAIN g.to
           a == {p}
           step == [i \in 1 .. N |-> [A \in S |-> Onward(g, pv[i], A)]]
<1>1. N \in Nat /\ a \in S
  BY SequenceFacts
<1>2. step \in [1 .. N -> [S -> S]]
  <2>1. ASSUME NEW i \in 1 .. N, NEW A \in S PROVE Onward(g, pv[i], A) \in S
    BY GamesAssumption DEF Onward
  <2> HIDE DEF S
  <2> QED
    BY <2>1
<1> HIDE DEF S, a, step, N
<1>3. PICK f \in [0 .. N -> S] : f[0] = a /\ \A i \in 1 .. N : f[i] = step[i][f[i - 1]]
  BY <1>1, <1>2, Recursion
<1>4. ASSUME NEW i \in 1 .. N PROVE f[i] = Onward(g, pv[i], f[i - 1])
  <2>1. i - 1 \in 0 .. N
    BY <1>1
  <2>2. f[i - 1] \in S
    BY <2>1
  <2> QED
    BY <1>3, <2>2 DEF step
<1> DEFINE h == [i \in 0 .. N |-> IF i = 0 THEN {p} ELSE Onward(g, pv[i], f[i - 1])]
<1>5. ASSUME NEW i \in 0 .. N PROVE f[i] = h[i]
  <2>1. CASE i = 0
    BY <2>1, <1>3 DEF a
  <2>2. CASE i \in 1 .. N
    <3>1. i # 0
      BY <2>2
    <3> QED
      BY <2>2, <3>1, <1>4
  <2> QED
    BY <1>1, <2>1, <2>2
<1>6. f = h
  BY <1>5
<1>7. PlacesTable(f, g, p, pv)
  BY <1>6 DEF PlacesTable, Onward, N
<1> QED
  BY <1>7

LEMMA PlacesTableEntry ==
  ASSUME NEW g, NEW p, NEW pv, IsSequence(pv), NEW f, PlacesTable(f, g, p, pv)
  PROVE  f[0] = {p} /\ \A i \in 1 .. Len(pv) : f[i] = Onward(g, pv[i], f[i - 1])
<1> DEFINE h == [i \in 0 .. Len(pv) |-> IF i = 0 THEN {p} ELSE Onward(g, pv[i], f[i - 1])]
<1>1. f = h
  BY DEF PlacesTable, Onward
<1>2. Len(pv) \in Nat
  BY SequenceFacts
<1>3. h[0] = {p} /\ \A i \in 1 .. Len(pv) : h[i] = Onward(g, pv[i], f[i - 1])
  BY <1>2
<1> HIDE DEF h
<1> QED
  BY <1>1, <1>3

LEMMA WalkIsPlayable ==
  ASSUME NEW g \in Games, NEW p \in DOMAIN g.to, NEW pv, Walk(g, p, pv)
  PROVE  PlayableFrom(g, p, pv)
<1> DEFINE N == Len(pv)
           after == CHOOSE f : PlacesTable(f, g, p, pv)
<1>1. IsSequence(pv) /\ N \in Nat
  BY SequenceFacts DEF Walk
<1>2. PlacesTable(after, g, p, pv)
  BY <1>1, PlacesTableExists
<1>3. PlayableFrom(g, p, pv) <=> after[N] # {}
  BY DEF PlayableFrom, PlacesTable
<1> HIDE DEF after
<1>4. after[0] = {p} /\ \A i \in 1 .. N : after[i] = Onward(g, pv[i], after[i - 1])
  BY <1>1, <1>2, PlacesTableEntry
<1>5. PICK path : /\ path[0] = p
                  /\ \A i \in 1 .. N : /\ pv[i] \in Legal(g, path[i - 1])
                                       /\ path[i] = g.to[path[i - 1]][pv[i]]
  BY DEF Walk
<1> DEFINE T == {n \in Nat : n <= N => path[n] \in after[n]}
<1>6. 0 \in T
  BY <1>4, <1>5
<1>7. ASSUME NEW n \in Nat, n \in T PROVE n + 1 \in T
  <2> SUFFICES ASSUME n + 1 <= N PROVE path[n + 1] \in after[n + 1]
    OBVIOUS
  <2>1. n + 1 \in 1 .. N /\ n + 1 - 1 = n /\ path[n] \in after[n]
    BY <1>1, <1>7
  <2>2. pv[n + 1] \in Legal(g, path[n]) /\ path[n + 1] = g.to[path[n]][pv[n + 1]]
    BY <2>1, <1>5
  <2>3. after[n + 1] = Onward(g, pv[n + 1], after[n])
    BY <2>1, <1>4
  <2> QED
    BY <2>1, <2>2, <2>3 DEF Onward
<1>8. Nat \subseteq T
  <2> HIDE DEF T
  <2> QED
    BY <1>6, <1>7, SetInduction
<1>9. path[N] \in after[N]
  BY <1>1, <1>8
<1> QED
  BY <1>3, <1>9

-----------------------------------------------------------------------------
(* The lines of the plies.  A call of search() clears the line of its ply; *)
(* from then on that line can be played from its node, and so it can when  *)
(* the call was handed over to qsearch(), which leaves all lines alone.    *)
Fresh(f) == f.fn = "search" /\ f.at = "entry"

Lined(calls, i) ==
  /\ ~Fresh(calls[i])
  /\ \/ calls[i].fn = "search" \/ i = 1
     \/ calls[i - 1].fn = "search" /\ calls[i - 1].at \in AfterMove

LinesOK(g, calls, moves, lines) ==
  /\ DOMAIN lines = 1 .. MaxPly + 1
  /\ \A i \in 1 .. Len(calls) :
       Lined(calls, i) => Walk(g, PosAt(g, moves, calls[i].ply), lines[calls[i].ply])
  /\ calls # <<>> /\ Innermost(calls).fn = "search" /\ Innermost(calls).at \in AfterMove =>
       Walk(g, PosAt(g, moves, Innermost(calls).ply + 1), lines[Innermost(calls).ply + 1])
  /\ calls = <<>> => Walk(g, g.root, lines[1])

(* What a step does to the lines.                                          *)
Written == \E q : Walk(game, Own, q) /\ pvs' = [pvs EXCEPT ![Top.ply] = q]

Leaves == stack # <<>> /\ stack' = Front(stack) /\ (Written \/ (pvs' = pvs /\ ~Fresh(Top)))

Stays ==
  /\ stack # <<>>
  /\ \E g : /\ GoOn(g) /\ g.ply = Top.ply /\ g.at \notin AfterMove
            /\ g.fn = Top.fn \/ g.at = "entry"
            /\ Written \/ (pvs' = pvs /\ ~Fresh(Top) /\ g.fn = Top.fn)

Enters ==
  /\ stack # <<>> /\ ~Fresh(Top) /\ pvs' = pvs
  /\ \E g, callee :
       /\ CallFrom(g, callee) /\ g.ply = Top.ply /\ g.fn = Top.fn
       /\ callee.at = "entry" /\ (g.fn = "search" /\ g.at \in AfterMove => callee.fn = "search")

Starts ==
  /\ stack = <<>>
  /\ \E callee : Fresh(callee) /\ stack' = <<callee>>
  /\ pvs' = [pvs EXCEPT ![1] = <<>>]

LineStep == Leaves \/ Stays \/ Enters \/ Starts \/ UNCHANGED <<stack, pvs>>

LEMMA PositionsKept ==
  ASSUME BoardInv, Disciplined, stack # <<>>
  PROVE  \A k \in 1 .. Top.ply : PosAt(game, line', k) = PosAt(game, line, k)
<1>1. /\ Top = Innermost(stack) /\ CallOK(Top) /\ Top.ply \in Nat \ {0} /\ Sound(game, stack, line, acc)
      /\ IsSequence(line) /\ Len(line) = Top.ply - 1 + Ahead(Top)
  BY TopFacts DEF BoardInv, Sound, LineOK
<1>2. CASE TakenBack
  <2>1. IF Innermost(stack).at \in Making
        THEN line' = Front(line) /\ acc' = IF Innermost(stack).at = "null" THEN acc ELSE Front(acc)
        ELSE line' = line /\ acc' = acc
    BY <1>1, <1>2 DEF TakenBack, board
  <2> QED
    BY <1>1, <2>1, Back
<1>3. CASE \E g : MakesMove(g)
  <2>1. PICK e : line' = Append(line, e) /\ Top.at \notin Making
    BY <1>3 DEF MakesMove
  <2>2. Len(line) = Top.ply - 1
    BY <1>1, <2>1 DEF Ahead
  <2>3. \A i \in 1 .. Len(line) : line'[i] = line[i]
    BY <1>1, <2>1, AppendFacts
  <2>4. ASSUME NEW k \in 1 .. Top.ply PROVE PosAt(game, line', k) = PosAt(game, line, k)
    <3>1. k = 1 \/ k - 1 \in 1 .. Len(line)
      BY <1>1, <2>2
    <3> QED
      BY <2>3, <3>1 DEF PosAt
  <2> QED
    BY <2>4
<1>4. CASE line' = line
  BY <1>4 DEF PosAt
<1>5. TakenBack \/ (\E g : MakesMove(g)) \/ line' = line
  BY DEF Disciplined, Rises, Advances, Descends, Begins, Rests, KeepsMove, board
<1> QED
  BY <1>2, <1>3, <1>4, <1>5

LEMMA FrameFacts ==
  ASSUME BoardInv, stack # <<>>
  PROVE  /\ Len(stack) \in Nat \ {0} /\ Top = stack[Len(stack)] /\ Top.ply \in 1 .. MaxPly /\ IsSequence(stack)
         /\ \A i \in 1 .. Len(stack) : CallOK(stack[i]) /\ stack[i].ply \in 1 .. Top.ply
         /\ \A i \in 1 .. Len(stack) - 1 :
              /\ stack[i].at \in Waiting
              /\ stack[i + 1].ply = stack[i].ply + Ahead(stack[i])
         /\ stack[1].ply = 1
<1>1. /\ Top = Innermost(stack) /\ CallOK(Top) /\ Top.ply \in Nat \ {0} /\ CallsOK(stack)
      /\ Len(stack) \in Nat \ {0}
  BY TopFacts, InnermostFacts DEF BoardInv, Sound
<1>2. Top = stack[Len(stack)] /\ Top.ply \in 1 .. MaxPly /\ stack[1].ply = 1 /\ IsSequence(stack)
  BY <1>1 DEF Innermost, CallOK, CallsOK
<1>3. ASSUME NEW i \in 1 .. Len(stack) PROVE CallOK(stack[i]) /\ stack[i].ply \in 1 .. Top.ply
  <2>1. CallOK(stack[i])
    BY <1>1 DEF CallsOK
  <2>2. stack[i].ply \in 1 .. MaxPly
    BY <2>1 DEF CallOK
  <2>3. CASE i = Len(stack)
    BY <1>2, <2>1, <2>3, <1>1
  <2>4. CASE i < Len(stack)
    <3>1. stack[i].ply + Ahead(stack[i]) <= Top.ply
      BY <1>1, <1>2, <2>4 DEF CallsOK
    <3> QED
      BY <1>1, <2>1, <2>2, <3>1 DEF Ahead
  <2> QED
    BY <1>1, <2>3, <2>4
<1>4. \A i \in 1 .. Len(stack) - 1 : stack[i].at \in Waiting /\ stack[i + 1].ply = stack[i].ply + Ahead(stack[i])
  BY <1>1 DEF CallsOK
<1> QED
  BY <1>1, <1>2, <1>3, <1>4

LEMMA LineStepKeeps ==
  ASSUME BoardInv, Disciplined, LinesOK(game, stack, line, pvs), LineStep
  PROVE  LinesOK(game, stack', line', pvs')
<1> DEFINE n == Len(stack)
           At(k) == PosAt(game, line, k)
<1>1. DOMAIN pvs = 1 .. MaxPly + 1 /\ MaxPly \in Nat
  BY ScoreAssumption DEF LinesOK
<1>2. CASE stack = <<>>
  <2>1. CASE UNCHANGED <<stack, pvs>>
    BY <1>2, <2>1, EmptySeq DEF LinesOK
  <2>2. CASE Starts
    <3>1. PICK callee : Fresh(callee) /\ stack' = <<callee>>
      BY <2>2 DEF Starts
    <3>2. pvs' = [pvs EXCEPT ![1] = <<>>]
      BY <2>2 DEF Starts
    <3>3. Len(stack') = 1 /\ stack'[1] = callee /\ stack' # <<>> /\ Innermost(stack') = callee
      BY <3>1 DEF Innermost
    <3>4. ~Lined(stack', 1)
      BY <3>1, <3>3 DEF Lined
    <3>5. callee.at \notin AfterMove
      BY <3>1 DEF Fresh, AfterMove
    <3> QED
      BY <1>1, <3>2, <3>3, <3>4, <3>5 DEF LinesOK
  <2> QED
    BY <1>2, <2>1, <2>2 DEF LineStep, Leaves, Stays, Enters
<1>3. CASE stack # <<>>
  <2>1. /\ n \in Nat \ {0} /\ Top = stack[n] /\ Top.ply \in 1 .. MaxPly /\ IsSequence(stack)
        /\ \A i \in 1 .. n : CallOK(stack[i]) /\ stack[i].ply \in 1 .. Top.ply
        /\ \A i \in 1 .. n - 1 : stack[i].at \in Waiting /\ stack[i + 1].ply = stack[i].ply + Ahead(stack[i])
        /\ stack[1].ply = 1
    BY <1>3, FrameFacts
  <2>2. \A k \in 1 .. Top.ply : PosAt(game, line', k) = At(k)
    BY <1>3, PositionsKept
  <2>3. Innermost(stack) = Top
    BY <2>1 DEF Innermost
  <2>4. /\ \A i \in 1 .. n : Lined(stack, i) => Walk(game, At(stack[i].ply), pvs[stack[i].ply])
        /\ Top.fn = "search" /\ Top.at \in AfterMove => Walk(game, At(Top.ply + 1), pvs[Top.ply + 1])
    BY <1>3, <2>3 DEF LinesOK
  <2>5. At(Top.ply) = Own
    BY DEF Own
  <2> HIDE DEF n, At
  (* The line of the innermost call's ply, and those of the other calls.   *)
  <2>6. ASSUME Written
        PROVE  /\ DOMAIN pvs' = 1 .. MaxPly + 1
               /\ Walk(game, At(Top.ply), pvs'[Top.ply])
               /\ \A k \in 1 .. MaxPly + 1 : k # Top.ply => pvs'[k] = pvs[k]
    <3>1. PICK q : Walk(game, Own, q) /\ pvs' = [pvs EXCEPT ![Top.ply] = q]
      BY <2>6 DEF Written
    <3>2. Top.ply \in 1 .. MaxPly + 1
      BY <1>1, <2>1
    <3> QED
      BY <1>1, <2>5, <3>1, <3>2
  <2>7. ASSUME Written \/ pvs' = pvs
        PROVE  /\ DOMAIN pvs' = 1 .. MaxPly + 1
               /\ \A i \in 1 .. n - 1 : Lined(stack, i) => Walk(game, At(stack[i].ply), pvs'[stack[i].ply])
    <3>1. DOMAIN pvs' = 1 .. MaxPly + 1
      BY <1>1, <2>6, <2>7
    <3>2. ASSUME NEW i \in 1 .. n - 1, Lined(stack, i)
          PROVE  Walk(game, At(stack[i].ply), pvs'[stack[i].ply])
      <4>1. i \in 1 .. n /\ stack[i].ply \in 1 .. MaxPly + 1
        BY <1>1, <2>1
      <4>2. Walk(game, At(stack[i].ply), pvs[stack[i].ply])
        BY <2>4, <3>2, <4>1
      <4>3. CASE pvs' = pvs
        BY <4>2, <4>3
      <4>4. CASE Written
        <5>1. CASE stack[i].ply = Top.ply
          BY <2>6, <4>4, <5>1
        <5>2. CASE stack[i].ply # Top.ply
          <6>1. pvs'[stack[i].ply] = pvs[stack[i].ply]
            BY <2>6, <4>1, <4>4, <5>2
          <6> QED
            BY <4>2, <6>1
        <5> QED
          BY <5>1, <5>2
      <4> QED
        BY <2>7, <4>3, <4>4
    <3> QED
      BY <3>1, <3>2
  <2>8. CASE Leaves
    <3> DEFINE rest == Front(stack)
    <3>1. stack' = rest /\ (Written \/ (pvs' = pvs /\ ~Fresh(Top)))
      BY <2>8 DEF Leaves
    <3>2. IsSequence(rest) /\ Len(rest) = n - 1 /\ \A i \in 1 .. n - 1 : rest[i] = stack[i]
      BY <1>3, <2>1, FrontFacts DEF n
    <3>3. rest # <<>> <=> n - 1 > 0
      BY <3>2, SequenceFacts
    <3> HIDE DEF rest
    <3>4. ASSUME NEW i \in 1 .. n - 1, Lined(rest, i)
          PROVE  Walk(game, PosAt(game, line', rest[i].ply), pvs'[rest[i].ply])
      <4>1. rest[i] = stack[i] /\ (i # 1 => rest[i - 1] = stack[i - 1]) /\ i \in 1 .. n
        BY <2>1, <3>2
      <4>2. Lined(stack, i)
        BY <3>4, <4>1 DEF Lined
      <4>3. stack[i].ply \in 1 .. Top.ply
        BY <2>1, <4>1
      <4> QED
        BY <2>2, <2>7, <3>1, <4>1, <4>2, <4>3
    <3>5. ASSUME n - 1 > 0, stack[n - 1].fn = "search", stack[n - 1].at \in AfterMove
          PROVE  Walk(game, PosAt(game, line', Top.ply), pvs'[Top.ply])
      <4>1. CASE Written
        BY <2>1, <2>2, <2>6, <4>1
      <4>2. CASE pvs' = pvs /\ ~Fresh(Top)
        <5>1. Lined(stack, n)
          BY <2>1, <3>5, <4>2 DEF Lined
        <5>2. n \in 1 .. n /\ Top.ply \in 1 .. Top.ply
          BY <2>1
        <5> QED
          BY <2>1, <2>2, <2>4, <4>2, <5>1, <5>2
      <4> QED
        BY <3>1, <4>1, <4>2
    <3>6. rest # <<>> /\ Innermost(rest).fn = "search" /\ Innermost(rest).at \in AfterMove =>
            Walk(game, PosAt(game, line', Innermost(rest).ply + 1), pvs'[Innermost(rest).ply + 1])
      <4> SUFFICES ASSUME rest # <<>>, Innermost(rest).fn = "search", Innermost(rest).at \in AfterMove
                   PROVE  Walk(game, PosAt(game, line', Innermost(rest).ply + 1), pvs'[Innermost(rest).ply + 1])
        OBVIOUS
      <4>1. n - 1 > 0 /\ n - 1 \in 1 .. n - 1 /\ n - 1 + 1 = n
        BY <2>1, <3>3
      <4>2. Innermost(rest) = stack[n - 1]
        BY <3>2, <4>1 DEF Innermost
      <4>3. Top.ply = stack[n - 1].ply + 1
        <5>1. Ahead(stack[n - 1]) = 1
          BY <4>2 DEF Ahead, Making
        <5> QED
          BY <2>1, <4>1, <5>1
      <4> QED
        BY <3>5, <4>1, <4>2, <4>3
    <3>7. rest = <<>> => Walk(game, game.root, pvs'[1])
      <4> SUFFICES ASSUME rest = <<>> PROVE Walk(game, game.root, pvs'[1])
        OBVIOUS
      <4>1. n = 1 /\ Top.ply = 1 /\ At(1) = game.root
        BY <2>1, <3>3 DEF At, PosAt
      <4>2. CASE Written
        BY <2>6, <4>1, <4>2
      <4>3. CASE pvs' = pvs /\ ~Fresh(Top)
        <5>1. Lined(stack, 1)
          BY <2>1, <4>1, <4>3 DEF Lined
        <5> QED
          BY <2>1, <2>4, <4>1, <4>3, <5>1
      <4> QED
        BY <3>1, <4>2, <4>3
    <3>8. DOMAIN pvs' = 1 .. MaxPly + 1
      BY <2>7, <3>1
    <3> QED
      BY <3>1, <3>2, <3>4, <3>6, <3>7, <3>8 DEF LinesOK
  <2>9. CASE Stays
    <3>1. PICK g : /\ GoOn(g) /\ g.ply = Top.ply /\ g.at \notin AfterMove
                   /\ Written \/ (pvs' = pvs /\ ~Fresh(Top) /\ g.fn = Top.fn)
      BY <2>9 DEF Stays
    <3>2. /\ Len(stack') = n /\ stack'[n] = g /\ stack' # <<>> /\ \A i \in 1 .. n - 1 : stack'[i] = stack[i]
          /\ Innermost(stack') = g
      BY <1>3, <2>1, <3>1, ReplaceFacts DEF GoOn, n, Innermost
    <3>3. ASSUME NEW i \in 1 .. n, Lined(stack', i)
          PROVE  Walk(game, PosAt(game, line', stack'[i].ply), pvs'[stack'[i].ply])
      <4>1. CASE i \in 1 .. n - 1
        <5>1. stack'[i] = stack[i] /\ (i # 1 => stack'[i - 1] = stack[i - 1])
          BY <2>1, <3>2, <4>1
        <5>2. Lined(stack, i)
          BY <3>3, <5>1 DEF Lined
        <5> QED
          BY <2>1, <2>2, <2>7, <3>1, <4>1, <5>1, <5>2
      <4>2. CASE i = n
        <5>1. CASE Written
          BY <2>1, <2>2, <2>6, <3>1, <3>2, <4>2, <5>1
        <5>2. CASE pvs' = pvs /\ ~Fresh(Top) /\ g.fn = Top.fn
          <6>1. n # 1 => stack'[n - 1] = stack[n - 1]
            BY <2>1, <3>2
          <6>2. Lined(stack, n)
            BY <2>1, <3>2, <3>3, <4>2, <5>2, <6>1 DEF Lined
          <6> QED
            BY <2>1, <2>2, <2>4, <3>1, <3>2, <4>2, <5>2, <6>2
        <5> QED
          BY <3>1, <5>1, <5>2
      <4> QED
        BY <2>1, <4>1, <4>2
    <3>4. DOMAIN pvs' = 1 .. MaxPly + 1
      BY <2>7, <3>1
    <3> QED
      BY <3>1, <3>2, <3>3, <3>4 DEF LinesOK
  <2>10. CASE Enters
    <3>1. PICK g, callee :
            /\ CallFrom(g, callee) /\ g.ply = Top.ply /\ g.fn = Top.fn
            /\ callee.at = "entry" /\ (g.fn = "search" /\ g.at \in AfterMove => callee.fn = "search")
      BY <2>10 DEF Enters
    <3>2. ~Fresh(Top) /\ pvs' = pvs
      BY <2>10 DEF Enters
    <3> DEFINE calls == [stack EXCEPT ![n] = g]
    <3>3. IsSequence(calls) /\ Len(calls) = n /\ calls[n] = g /\ \A i \in 1 .. n - 1 : calls[i] = stack[i]
      <4>1. IsSequence(stack) /\ stack # <<>>
        BY <1>3, <2>1
      <4> QED
        BY <4>1, ReplaceFacts DEF n
    <3>4. stack' = Append(calls, callee)
      BY <3>1 DEF CallFrom, n
    <3> HIDE DEF calls
    <3>5. IsSequence(stack') /\ Len(stack') = n + 1 /\ stack'[n + 1] = callee /\ \A i \in 1 .. n : stack'[i] = calls[i]
      BY <3>3, <3>4, AppendFacts
    <3>6. stack' # <<>> /\ Innermost(stack') = callee /\ stack'[n] = g /\ \A i \in 1 .. n - 1 : stack'[i] = stack[i]
      <4>1. Len(stack') > 0 /\ n \in 1 .. n
        BY <2>1, <3>5
      <4> QED
        BY <2>1, <3>3, <3>5, <4>1, SequenceFacts DEF Innermost
    <3>7. ASSUME NEW i \in 1 .. n + 1, Lined(stack', i)
          PROVE  Walk(game, PosAt(game, line', stack'[i].ply), pvs'[stack'[i].ply])
      <4>1. CASE i \in 1 .. n - 1
        <5>1. stack'[i] = stack[i] /\ (i # 1 => stack'[i - 1] = stack[i - 1])
          BY <2>1, <3>6, <4>1
        <5>2. Lined(stack, i)
          BY <3>7, <5>1 DEF Lined
        <5> QED
          BY <2>1, <2>2, <2>7, <3>2, <4>1, <5>1, <5>2
      <4>2. CASE i = n
        <5>1. n # 1 => stack'[n - 1] = stack[n - 1]
          BY <2>1, <3>6
        <5>2. Lined(stack, n)
          BY <2>1, <3>1, <3>2, <3>6, <3>7, <4>2, <5>1 DEF Lined
        <5> QED
          BY <2>1, <2>2, <2>4, <3>1, <3>2, <3>6, <4>2, <5>2
      <4>3. CASE i = n + 1
        <5>1. n + 1 # 1 /\ (n + 1) - 1 = n
          BY <2>1
        <5>2. ~Lined(stack', n + 1)
          <6>1. stack'[n + 1] = callee /\ stack'[(n + 1) - 1] = g
            BY <3>5, <3>6, <5>1
          <6>2. CASE callee.fn = "search"
            BY <3>1, <6>1, <6>2 DEF Lined, Fresh
          <6>3. CASE callee.fn # "search"
            <7>1. ~(g.fn = "search" /\ g.at \in AfterMove)
              BY <3>1, <6>3
            <7>2. ~(stack'[(n + 1) - 1].fn = "search" /\ stack'[(n + 1) - 1].at \in AfterMove)
              BY <6>1, <7>1
            <7> QED
              BY <5>1, <6>1, <6>3, <7>2 DEF Lined
          <6> QED
            BY <6>2, <6>3
        <5> QED
          BY <3>7, <4>3, <5>2
      <4> QED
        BY <2>1, <4>1, <4>2, <4>3
    <3>8. callee.at \notin AfterMove
      BY <3>1 DEF AfterMove
    <3> QED
      BY <1>1, <3>2, <3>5, <3>6, <3>7, <3>8 DEF LinesOK
  <2>11. CASE UNCHANGED <<stack, pvs>>
    <3>1. ASSUME NEW i \in 1 .. n, Lined(stack, i) PROVE Walk(game, PosAt(game, line', stack[i].ply), pvs[stack[i].ply])
      BY <2>1, <2>2, <2>4, <3>1
    <3>2. ASSUME Top.fn = "search", Top.at \in AfterMove
          PROVE  Walk(game, PosAt(game, line', Top.ply + 1), pvs[Top.ply + 1])
      <4>1. line' = line
        <5>1. stack' = stack
          BY <2>11
        <5>2. stack' # Front(stack)
          <6>1. Len(Front(stack)) = n - 1
            BY <1>3, <2>1, FrontFacts DEF n
          <6> QED
            BY <2>1, <5>1, <6>1 DEF n
        <5>3. ASSUME NEW g, g.at \notin AfterMove PROVE ~GoOn(g)
          <6>1. GoOn(g) => stack'[n] = g
            BY <1>3, <2>1, ReplaceFacts DEF GoOn, n
          <6> QED
            BY <2>1, <3>2, <5>1, <5>3, <6>1
        <5>4. ASSUME NEW g, NEW callee PROVE ~CallFrom(g, callee)
          <6> DEFINE calls == [stack EXCEPT ![n] = g]
          <6>1. IsSequence(calls) /\ Len(calls) = n
            BY <1>3, <2>1, ReplaceFacts DEF n
          <6>2. CallFrom(g, callee) => stack' = Append(calls, callee)
            BY DEF CallFrom, n
          <6> HIDE DEF calls
          <6>3. Len(Append(calls, callee)) = n + 1
            BY <6>1, AppendFacts
          <6> QED
            BY <2>1, <5>1, <6>2, <6>3 DEF n
        <5>5. Rests
          BY <1>3, <5>2, <5>3, <5>4 DEF Disciplined, Rises, Advances, Descends, Begins, Making
        <5> QED
          BY <5>5 DEF Rests, board
      <4> QED
        BY <2>4, <3>2, <4>1 DEF At
    <3> QED
      BY <1>1, <1>3, <2>3, <2>11, <3>1, <3>2 DEF LinesOK, n
  <2> QED
    BY <1>3, <2>8, <2>9, <2>10, <2>11 DEF LineStep, Starts
<1> QED
  BY <1>2, <1>3

(* The steps again, for the lines.  Most of them leave the lines alone.    *)
LEMMA LeavesLines ==
  ASSUME stack # <<>>, stack' = Front(stack), pvs' = pvs, ~Fresh(Top)
  PROVE  LineStep
BY DEF LineStep, Leaves

LEMMA KeepsLines ==
  ASSUME stack # <<>>, pvs' = pvs, ~Fresh(Top), NEW g, GoOn(g), g.ply = Top.ply, g.fn = Top.fn, g.at \notin AfterMove
  PROVE  LineStep
BY DEF LineStep, Stays

LEMMA EntersLines ==
  ASSUME stack # <<>>, pvs' = pvs, ~Fresh(Top),
         NEW g, NEW callee, CallFrom(g, callee), g.ply = Top.ply, g.fn = Top.fn, callee.at = "entry",
         g.fn = "search" /\ g.at \in AfterMove => callee.fn = "search"
  PROVE  LineStep
BY DEF LineStep, Enters

LEMMA ClearsLine ==
  ASSUME BoardInv, stack # <<>>, pvs' = LineCleared(Top)
  PROVE  Written
<1>1. Walk(game, Own, <<>>)
  BY WalkNowhere
<1> QED
  BY <1>1 DEF Written, LineCleared

LEMMA AbortLines ==
  ASSUME BoardInv, Abort(Top)
  PROVE  LineStep
<1>1. stack # <<>> /\ stack' = Front(stack)
  BY TopEntry DEF Abort, Return
<1>2. CASE Top.fn = "search"
  <2>1. pvs' = LineCleared(Top)
    BY <1>2 DEF Abort
  <2> QED
    BY <1>1, <2>1, ClearsLine DEF LineStep, Leaves
<1>3. CASE Top.fn # "search"
  BY <1>1, <1>3, LeavesLines DEF Abort, Fresh
<1> QED
  BY <1>2, <1>3

LEMMA EnterSearchLines ==
  ASSUME BoardInv, EnterSearch(Top)
  PROVE  LineStep
<1> DEFINE f == Top
<1>1. stack # <<>> /\ CallFields \subseteq DOMAIN f /\ pvs' = LineCleared(f)
  BY TopEntry, TopNode DEF EnterSearch, CallOK
<1>2. Written
  BY <1>1, ClearsLine
<1>3. CASE stack' = Front(stack)
  BY <1>1, <1>2, <1>3 DEF LineStep, Leaves
<1>4. ASSUME NEW g, GoOn(g), g.ply = f.ply, g.at \notin AfterMove, g.fn = f.fn \/ g.at = "entry" PROVE LineStep
  BY <1>1, <1>2, <1>4 DEF LineStep, Stays
<1>5. CASE GoOn(CallQ(f.ply, WindowFrom(f), WindowTo(f), f.pv))
  <2> DEFINE g == CallQ(f.ply, WindowFrom(f), WindowTo(f), f.pv)
  <2>1. GoOn(g) /\ g.ply = f.ply /\ g.at \notin AfterMove /\ g.at = "entry"
    BY <1>5 DEF CallQ, AfterMove
  <2> HIDE DEF g
  <2> QED
    BY <1>4, <2>1
<1>6. ASSUME NEW entry, GoOn(Node(f, entry)) PROVE LineStep
  <2> DEFINE g == Node(f, entry)
  <2>1. GoOn(g) /\ g.ply = f.ply /\ g.at \notin AfterMove /\ g.fn = f.fn
    BY <1>1, <1>6 DEF Node, Extended, CallFields, AfterMove
  <2> HIDE DEF g
  <2> QED
    BY <1>4, <2>1
<1> QED
  BY <1>3, <1>5, <1>6 DEF EnterSearch, Return

LEMMA PruneNodeLines ==
  ASSUME BoardInv, PruneNode(Top)
  PROVE  LineStep
<1> DEFINE f == Top
           g == [f EXCEPT !.at = "null"]
           h == [f EXCEPT !.at = "razor"]
           depth == NullMoveDepth(f)
           q1 == CallQ(f.ply + 1, -f.beta, 1 - f.beta, FALSE)
           s1 == Call(f.ply + 1, depth, -f.beta, 1 - f.beta, FALSE, ~f.cut, f.sme)
<1>1. /\ stack # <<>> /\ CallFields \subseteq DOMAIN f /\ pvs' = pvs /\ f.fn = "search" /\ ~Fresh(f)
  BY TopEntry, TopNode DEF PruneNode, CallOK, Fresh
<1>2. stack' = Front(stack) \/ CallFrom(g, IF depth <= 0 THEN q1 ELSE s1) \/ GoOn(h)
  BY DEF PruneNode, Return
<1>3. g.at = "null" /\ g.ply = f.ply /\ g.fn = f.fn /\ h.at = "razor" /\ h.ply = f.ply /\ h.fn = f.fn
  BY <1>1 DEF CallFields
<1>4. q1.at = "entry" /\ s1.at = "entry"
  BY DEF CallQ, Call
<1> HIDE DEF g, h, q1, s1, depth
<1>5. CASE stack' = Front(stack)
  BY <1>1, <1>5, LeavesLines
<1>6. CASE GoOn(h)
  BY <1>1, <1>3, <1>6, KeepsLines DEF AfterMove
<1>7. ASSUME NEW callee, callee.at = "entry", CallFrom(g, callee) PROVE LineStep
  BY <1>1, <1>3, <1>7, EntersLines DEF AfterMove
<1> QED
  BY <1>2, <1>4, <1>5, <1>6, <1>7

LEMMA NullMoveLines ==
  ASSUME BoardInv, NullMoveReturns(Top)
  PROVE  LineStep
<1> DEFINE f == Top
           g == [f EXCEPT !.at = "verify"]
           h == Threatened(f, -ret)
           depth == NullMoveDepth(f)
           q1 == CallQ(f.ply, f.beta - 1, f.beta, FALSE)
           s1 == Call(f.ply, depth, f.beta - 1, f.beta, FALSE, TRUE, f.sme)
<1>1. /\ stack # <<>> /\ CallFields \subseteq DOMAIN f /\ pvs' = pvs /\ f.fn = "search" /\ ~Fresh(f)
  BY TopEntry, TopNode DEF NullMoveReturns, CallOK, Fresh
<1>2. stack' = Front(stack) \/ CallFrom(g, IF depth <= 0 THEN q1 ELSE s1) \/ GoOn(h)
  BY DEF NullMoveReturns, Return
<1>3. g.at = "verify" /\ g.ply = f.ply /\ g.fn = f.fn /\ h.at = "razor" /\ h.ply = f.ply /\ h.fn = f.fn
  BY <1>1 DEF CallFields, Threatened
<1>4. q1.at = "entry" /\ s1.at = "entry"
  BY DEF CallQ, Call
<1> HIDE DEF g, h, q1, s1, depth
<1>5. CASE stack' = Front(stack)
  BY <1>1, <1>5, LeavesLines
<1>6. CASE GoOn(h)
  BY <1>1, <1>3, <1>6, KeepsLines DEF AfterMove
<1>7. ASSUME NEW callee, callee.at = "entry", CallFrom(g, callee) PROVE LineStep
  BY <1>1, <1>3, <1>7, EntersLines DEF AfterMove
<1> QED
  BY <1>2, <1>4, <1>5, <1>6, <1>7

LEMMA VerifyLines ==
  ASSUME BoardInv, VerifyReturns(Top)
  PROVE  LineStep
<1> DEFINE f == Top
           h == Threatened(f, ret)
<1>1. /\ stack # <<>> /\ CallFields \subseteq DOMAIN f /\ pvs' = pvs /\ f.fn = "search" /\ ~Fresh(f)
  BY TopEntry, TopNode DEF VerifyReturns, CallOK, Fresh
<1>2. stack' = Front(stack) \/ GoOn(h)
  BY DEF VerifyReturns, Return
<1>3. h.at = "razor" /\ h.ply = f.ply /\ h.fn = f.fn
  BY <1>1 DEF CallFields, Threatened
<1> HIDE DEF h
<1> QED
  BY <1>1, <1>2, <1>3, LeavesLines, KeepsLines DEF AfterMove

LEMMA RazorLines ==
  ASSUME BoardInv, RazorNode(Top) \/ RazorReturns(Top)
  PROVE  LineStep
<1> DEFINE f == Top
           g == [f EXCEPT !.at = "razored"]
           h == [f EXCEPT !.at = "single"]
           callee == CallQ(f.ply, f.alpha, f.alpha + 1, FALSE)
<1>1. /\ stack # <<>> /\ CallFields \subseteq DOMAIN f /\ pvs' = pvs /\ f.fn = "search" /\ ~Fresh(f)
  BY TopEntry, TopNode DEF RazorNode, RazorReturns, CallOK, Fresh
<1>2. stack' = Front(stack) \/ GoOn(h) \/ CallFrom(g, callee)
  BY DEF RazorNode, RazorReturns, Return
<1>3. g.at = "razored" /\ g.ply = f.ply /\ g.fn = f.fn /\ h.at = "single" /\ h.ply = f.ply /\ h.fn = f.fn
  BY <1>1 DEF CallFields
<1>4. callee.at = "entry"
  BY DEF CallQ
<1> HIDE DEF g, h, callee
<1>5. CASE stack' = Front(stack)
  BY <1>1, <1>5, LeavesLines
<1>6. CASE GoOn(h)
  BY <1>1, <1>3, <1>6, KeepsLines DEF AfterMove
<1>7. CASE CallFrom(g, callee)
  BY <1>1, <1>3, <1>4, <1>7, EntersLines DEF AfterMove
<1> QED
  BY <1>2, <1>5, <1>6, <1>7

LEMMA SingularTestLines ==
  ASSUME BoardInv, SingularTest(Top) \/ SingularReturns(Top)
  PROVE  LineStep
<1> DEFINE f == Top
           g == [f EXCEPT !.at = "singular"]
           sbeta == SingularBeta(f, f.entry)
           callee == CallSingular(f.ply, SingularDepth(f), sbeta - 1, sbeta, f.entry.move, f.cut)
<1>1. /\ stack # <<>> /\ CallFields \subseteq DOMAIN f /\ pvs' = pvs /\ f.fn = "search" /\ ~Fresh(f)
  BY TopEntry, TopNode DEF SingularTest, SingularReturns, CallOK, Fresh
<1>2. stack' = Front(stack) \/ (\E x : GoOn(WithMoves(f, x))) \/ CallFrom(g, callee)
  BY DEF SingularTest, SingularReturns, Return
<1>3. g.at = "singular" /\ g.ply = f.ply /\ g.fn = f.fn
  BY <1>1 DEF CallFields
<1>4. callee.at = "entry"
  BY DEF CallSingular
<1> HIDE DEF g, callee
<1>5. CASE stack' = Front(stack)
  BY <1>1, <1>5, LeavesLines
<1>6. ASSUME NEW x, GoOn(WithMoves(f, x)) PROVE LineStep
  <2> DEFINE h == WithMoves(f, x)
  <2>1. GoOn(h) /\ h.at = "moves" /\ h.ply = f.ply /\ h.fn = f.fn
    BY <1>1, <1>6 DEF WithMoves, Extended, CallFields
  <2> HIDE DEF h
  <2> QED
    BY <1>1, <2>1, KeepsLines DEF AfterMove
<1>7. CASE CallFrom(g, callee)
  BY <1>1, <1>3, <1>4, <1>7, EntersLines DEF AfterMove
<1> QED
  BY <1>2, <1>5, <1>6, <1>7

LEMMA NextMoveLines ==
  ASSUME BoardInv, NextMove(Top)
  PROVE  LineStep
<1> DEFINE f == Top
           Rest(i, m) == [f EXCEPT !.todo[i] = @ \ {m}]
<1>1. /\ stack # <<>> /\ CallFields \subseteq DOMAIN f /\ pvs' = pvs /\ f.fn = "search" /\ f.at = "moves" /\ ~Fresh(f)
  BY TopEntry, TopNode DEF NextMove, CallOK, Fresh
<1>2. PICK i, m : MakeMove(Rest(i, m), m) \/ GoOn([Rest(i, m) EXCEPT !.pruned = @ + 1])
  BY DEF NextMove
<1> DEFINE rest == Rest(i, m)
<1>3. rest.ply = f.ply /\ rest.fn = "search" /\ rest.at = "moves" /\ CallFields \subseteq DOMAIN rest
  BY <1>1 DEF CallFields
<1>4. MakeMove(rest, m) \/ GoOn([rest EXCEPT !.pruned = @ + 1])
  BY <1>2
<1> HIDE DEF Rest, rest
<1>5. CASE GoOn([rest EXCEPT !.pruned = @ + 1])
  <2> DEFINE g == [rest EXCEPT !.pruned = @ + 1]
  <2>1. GoOn(g) /\ g.ply = f.ply /\ g.fn = f.fn /\ g.at = "moves"
    BY <1>1, <1>3, <1>5 DEF CallFields
  <2> HIDE DEF g
  <2> QED
    BY <1>1, <2>1, KeepsLines DEF AfterMove
<1>6. CASE MakeMove(rest, m)
  <2> DEFINE depth == rest.depth - 1 + Extension(rest, m)
             made == [move |-> m, quiet |-> m \in Quiets(game, Pos), new_depth |-> depth]
             Made(at, r) == Extended(Extended(rest, made), [at |-> at, reduction |-> r])
             full == Call(rest.ply + 1, depth, -rest.beta, -rest.alpha, rest.pv, FALSE, rest.sme)
             Scout(r) == Call(rest.ply + 1, depth - r, -rest.alpha - 1, -rest.alpha, FALSE, TRUE, rest.sme)
  <2>1. full.at = "entry" /\ full.fn = "search" /\ \A r : Scout(r).at = "entry" /\ Scout(r).fn = "search"
    BY DEF Call
  <2>2. \A at, r : Made(at, r).ply = f.ply /\ Made(at, r).fn = f.fn
    BY <1>1, <1>3 DEF CallFields, Extended
  <2>3. CallFrom(Made("scored", 0), full) \/ \E r : CallFrom(Made("scout", r), Scout(r))
    BY <1>6 DEF MakeMove
  <2> HIDE DEF full, Scout, Made
  <2>4. ASSUME NEW g, NEW callee, g.ply = f.ply, g.fn = f.fn, callee.at = "entry", callee.fn = "search",
               CallFrom(g, callee)
        PROVE  LineStep
    BY <1>1, <2>4, EntersLines
  <2> QED
    BY <2>1, <2>2, <2>3, <2>4
<1> QED
  BY <1>4, <1>5, <1>6

LEMMA SearchAgainLines ==
  ASSUME BoardInv, SearchAgain(Top)
  PROVE  LineStep
<1> DEFINE f == Top
           Again(at) == [f EXCEPT !.at = at]
           deep == Call(f.ply + 1, f.new_depth, -f.alpha - 1, -f.alpha, FALSE, ~f.cut, f.sme)
           wide == Call(f.ply + 1, f.new_depth, -f.beta, -f.alpha, TRUE, FALSE, f.sme)
<1>1. /\ stack # <<>> /\ CallFields \subseteq DOMAIN f /\ pvs' = pvs /\ f.fn = "search" /\ ~Fresh(f)
  BY TopEntry, TopNode DEF SearchAgain, NeedsDepth, NeedsWindow, CallOK, Fresh
<1>2. \A at : Again(at).ply = f.ply /\ Again(at).fn = f.fn
  BY <1>1 DEF CallFields
<1>3. deep.at = "entry" /\ wide.at = "entry" /\ deep.fn = "search" /\ wide.fn = "search"
  BY DEF Call
<1>4. CallFrom(Again("again"), deep) \/ CallFrom(Again("scored"), wide)
  BY DEF SearchAgain
<1> HIDE DEF Again, deep, wide
<1>5. ASSUME NEW g, NEW callee, g.ply = f.ply, g.fn = f.fn, callee.at = "entry", callee.fn = "search",
             CallFrom(g, callee)
      PROVE  LineStep
  BY <1>1, <1>5, EntersLines
<1> QED
  BY <1>2, <1>3, <1>4, <1>5

(* update_pv() writes a line that can be played: the move is legal, and so *)
(* is the line of the child after it.                                      *)
LEMMA UpdatePvWrites ==
  ASSUME BoardInv, LinesOK(game, stack, line, pvs), stack # <<>>, Top.fn = "search", Top.at \in AfterMove,
         UpdatePv(Top.ply, Top.move)
  PROVE  Written
<1> DEFINE f == Top
           pv == pvs[f.ply + 1]
           k == Least(Len(pv), MaxPly - 1)
<1>1. f.ply \in Nat \ {0} /\ f.move \in Legal(game, Own)
  BY TopNode DEF NodeOK
<1>2. Walk(game, PosAt(game, line, f.ply + 1), pv)
  BY TopFacts DEF LinesOK
<1>3. PosAt(game, line, f.ply + 1) = game.to[Own][f.move]
  <2>1. Len(stack) \in 1 .. Len(stack) /\ Innermost(stack) = f
    BY TopFacts, InnermostFacts DEF BoardInv, Sound
  <2>2. MoveOnLine(game, line, f)
    BY <2>1 DEF BoardInv, Sound, NodesOK, Innermost
  <2> QED
    BY <1>1, <2>2, PosAtNext DEF MoveOnLine, Own
<1>4. k \in Nat /\ k <= Len(pv)
  <2>1. Len(pv) \in Nat
    BY <1>2, SequenceFacts DEF Walk
  <2> QED
    BY <2>1, ScoreAssumption DEF Least
<1>5. Walk(game, Own, <<f.move>> \o SubSeq(pv, 1, k))
  <2>1. Walk(game, game.to[Own][f.move], pv)
    BY <1>2, <1>3
  <2> HIDE DEF pv, k
  <2> QED
    BY <1>1, <1>4, <2>1, WalkOn
<1> QED
  BY <1>5 DEF Written, UpdatePv

LEMMA MoveReturnsLines ==
  ASSUME BoardInv, LinesOK(game, stack, line, pvs), MoveReturns(Top)
  PROVE  LineStep
<1> DEFINE f == Top
           score == -ret
           counted == [f EXCEPT !.at = "moves", !.played = @ + 1]
           better == [counted EXCEPT !.best = score, !.best_move = f.move, !.alpha = Most(@, score)]
<1>1. /\ stack # <<>> /\ CallFields \subseteq DOMAIN f /\ f.fn = "search" /\ f.at \in AfterMove /\ ~Fresh(f)
  BY TopEntry, TopNode DEF MoveReturns, CallOK, Fresh, AfterMove
<1>2. pvs' = pvs \/ Written
  BY <1>1, UpdatePvWrites DEF MoveReturns
<1>3. stack' = Front(stack) \/ GoOn(counted) \/ GoOn(better)
  BY DEF MoveReturns, Return
<1>4. /\ counted.at = "moves" /\ counted.ply = f.ply /\ counted.fn = f.fn
      /\ better.at = "moves" /\ better.ply = f.ply /\ better.fn = f.fn
  BY <1>1 DEF CallFields
<1> HIDE DEF counted, better
<1>5. CASE stack' = Front(stack)
  BY <1>1, <1>2, <1>5 DEF LineStep, Leaves
<1>6. ASSUME NEW g, GoOn(g), g.at = "moves", g.ply = f.ply, g.fn = f.fn PROVE LineStep
  BY <1>1, <1>2, <1>6 DEF LineStep, Stays, AfterMove
<1> QED
  BY <1>3, <1>4, <1>5, <1>6

LEMMA EndsLines ==
  ASSUME BoardInv, SearchEnds(Top) \/ QSearchEnds(Top) \/ SingularEnds(Top)
  PROVE  LineStep
<1>1. stack # <<>> /\ pvs' = pvs /\ ~Fresh(Top) /\ stack' = Front(stack)
  BY TopEntry DEF SearchEnds, QSearchEnds, SingularEnds, StoreQ, Return, Fresh
<1> QED
  BY <1>1, LeavesLines

LEMMA EnterQSearchLines ==
  ASSUME BoardInv, EnterQSearch(Top)
  PROVE  LineStep
<1> DEFINE f == Top
<1>1. /\ stack # <<>> /\ CallFields \subseteq DOMAIN f /\ pvs' = pvs /\ f.fn = "qsearch" /\ ~Fresh(f)
  BY TopEntry, TopNode DEF EnterQSearch, CallOK, Fresh
<1>2. stack' = Front(stack) \/ \E entry : GoOn(QNode(f, entry))
  BY DEF EnterQSearch, Return
<1>3. ASSUME NEW entry, GoOn(QNode(f, entry)) PROVE LineStep
  <2> DEFINE g == QNode(f, entry)
  <2>1. GoOn(g) /\ g.ply = f.ply /\ g.fn = f.fn /\ g.at = "moves"
    BY <1>1, <1>3 DEF CallFields, QNode, Extended
  <2> HIDE DEF g
  <2> QED
    BY <1>1, <2>1, KeepsLines DEF AfterMove
<1> QED
  BY <1>1, <1>2, <1>3, LeavesLines

LEMMA EnterSingularLines ==
  ASSUME BoardInv, EnterSingular(Top)
  PROVE  LineStep
<1> DEFINE f == Top
<1>1. /\ stack # <<>> /\ CallFields \subseteq DOMAIN f /\ pvs' = pvs /\ f.fn = "singular" /\ ~Fresh(f)
  BY TopEntry, TopNode DEF EnterSingular, CallOK, Fresh
<1>2. stack' = Front(stack) \/ GoOn(SingularNode(f))
  BY DEF EnterSingular, Return
<1>3. CASE GoOn(SingularNode(f))
  <2> DEFINE g == SingularNode(f)
  <2>1. GoOn(g) /\ g.ply = f.ply /\ g.fn = f.fn /\ g.at = "moves"
    BY <1>1, <1>3 DEF CallFields, SingularNode, Extended
  <2> HIDE DEF g
  <2> QED
    BY <1>1, <2>1, KeepsLines DEF AfterMove
<1> QED
  BY <1>1, <1>2, <1>3, LeavesLines

LEMMA NextQMoveLines ==
  ASSUME BoardInv, NextQMove(Top)
  PROVE  LineStep
<1> DEFINE f == Top
           Made(i, m) == Extended([f EXCEPT !.todo[i] = @ \ {m}], [at |-> "scored", move |-> m])
           callee == CallQ(f.ply + 1, -f.beta, -f.alpha, f.pv)
<1>1. /\ stack # <<>> /\ CallFields \subseteq DOMAIN f /\ pvs' = pvs /\ f.fn = "qsearch" /\ ~Fresh(f)
  BY TopEntry, TopNode DEF NextQMove, CallOK, Fresh
<1>2. PICK i, m : CallFrom(Made(i, m), callee)
  BY DEF NextQMove
<1>3. Made(i, m).ply = f.ply /\ Made(i, m).fn = f.fn /\ callee.at = "entry"
  BY <1>1 DEF CallFields, Extended, CallQ
<1> HIDE DEF Made, callee
<1> QED
  BY <1>1, <1>2, <1>3, EntersLines

LEMMA NextSingularMoveLines ==
  ASSUME BoardInv, NextSingularMove(Top)
  PROVE  LineStep
<1> DEFINE f == Top
           Rest(i, m, q) == [f EXCEPT !.quiets = q, !.todo[i] = @ \ {m}]
           Made(i, m, q) == Extended(Rest(i, m, q), [at |-> "scored", move |-> m])
           callee == Call(f.ply + 1, f.depth - 1, -f.beta, -f.alpha, FALSE, f.cut, FALSE)
<1>1. /\ stack # <<>> /\ CallFields \subseteq DOMAIN f /\ pvs' = pvs /\ f.fn = "singular" /\ ~Fresh(f) /\ f.at = "moves"
  BY TopEntry, TopNode DEF NextSingularMove, CallOK, Fresh
<1>2. PICK i, m, q : CallFrom(Made(i, m, q), callee) \/ GoOn(Rest(i, m, q))
  BY DEF NextSingularMove
<1>3. /\ Made(i, m, q).ply = f.ply /\ Made(i, m, q).fn = f.fn /\ callee.at = "entry"
      /\ Rest(i, m, q).ply = f.ply /\ Rest(i, m, q).fn = f.fn /\ Rest(i, m, q).at = "moves"
  BY <1>1 DEF CallFields, Extended, Call
<1> HIDE DEF Rest, Made, callee
<1>4. CASE CallFrom(Made(i, m, q), callee)
  BY <1>1, <1>3, <1>4, EntersLines
<1>5. CASE GoOn(Rest(i, m, q))
  BY <1>1, <1>3, <1>5, KeepsLines DEF AfterMove
<1> QED
  BY <1>2, <1>4, <1>5

LEMMA TwoMoveReturnsLines ==
  ASSUME BoardInv, QMoveReturns(Top) \/ SingularMoveReturns(Top)
  PROVE  LineStep
<1> DEFINE f == Top
           score == -ret
           counted == [f EXCEPT !.at = "moves", !.played = @ + 1]
           better == [counted EXCEPT !.best = score, !.best_move = f.move, !.alpha = Most(@, score)]
           known == [f EXCEPT !.at = "moves", !.best = Most(@, score),
                           !.best_move = IF score > f.best THEN f.move ELSE @,
                           !.alpha = Most(@, score)]
<1>1. /\ stack # <<>> /\ CallFields \subseteq DOMAIN f /\ pvs' = pvs /\ ~Fresh(f)
  BY TopEntry, TopNode DEF QMoveReturns, SingularMoveReturns, CallOK, Fresh
<1>2. stack' = Front(stack) \/ GoOn(counted) \/ GoOn(better) \/ GoOn(known)
  BY DEF QMoveReturns, SingularMoveReturns, StoreQ, Return
<1>3. /\ counted.at = "moves" /\ counted.ply = f.ply /\ counted.fn = f.fn
      /\ better.at = "moves" /\ better.ply = f.ply /\ better.fn = f.fn
      /\ known.at = "moves" /\ known.ply = f.ply /\ known.fn = f.fn
  BY <1>1 DEF CallFields
<1> HIDE DEF counted, better, known
<1>4. ASSUME NEW g, GoOn(g), g.at = "moves", g.ply = f.ply, g.fn = f.fn PROVE LineStep
  BY <1>1, <1>4, KeepsLines DEF AfterMove
<1> QED
  BY <1>1, <1>2, <1>3, <1>4, LeavesLines

LEMMA RootSearchLines ==
  ASSUME RootSearch
  PROVE  LineStep
<1> DEFINE probe == game.probes[probes + 1]
           callee == Call(1, probe[1], probe[2], probe[3], TRUE, FALSE, TRUE)
<1>1. stack = <<>> /\ stack' = <<callee>> /\ pvs' = [pvs EXCEPT ![1] = <<>>]
  BY DEF RootSearch, Idle
<1>2. Fresh(callee)
  BY DEF Call, Fresh
<1> HIDE DEF callee
<1> QED
  BY <1>1, <1>2 DEF LineStep, Starts

LEMMA EveryStepWritesLines ==
  ASSUME BoardInv, LinesOK(game, stack, line, pvs), Next
  PROVE  LineStep
<1>1. CASE RootReturns \/ Done
  BY <1>1 DEF RootReturns, Done, vars, LineStep
<1> QED
  BY <1>1, RootSearchLines, AbortLines, EnterSearchLines, PruneNodeLines, NullMoveLines, VerifyLines, RazorLines,
     SingularTestLines, NextMoveLines, SearchAgainLines, MoveReturnsLines, EndsLines,
     EnterQSearchLines, NextQMoveLines, TwoMoveReturnsLines,
     EnterSingularLines, NextSingularMoveLines, Zenon DEF Next

(* The lines of the plies and the line of the last root search.            *)
LinesSafe == BoardSafe /\ LinesOK(game, stack, line, pvs) /\ Walk(game, game.root, result.pv)

LEMMA LinesInit ==
  ASSUME Init
  PROVE  LinesSafe
<1>1. PICK g \in Games : InitOf(g)
  BY DEF Init
<1>2. game = g /\ stack = <<>> /\ pvs = [ply \in 1 .. MaxPly + 1 |-> <<>>] /\ result.pv = <<>>
  BY <1>1 DEF InitOf
<1>3. Walk(game, game.root, <<>>)
  BY WalkNowhere
<1>4. LinesOK(game, stack, line, pvs)
  <2>1. DOMAIN pvs = 1 .. MaxPly + 1 /\ pvs[1] = <<>>
    BY <1>2, ScoreAssumption
  <2> QED
    BY <1>2, <1>3, <2>1, EmptySeq DEF LinesOK
<1> QED
  BY <1>2, <1>3, <1>4, BoardInit DEF LinesSafe

LEMMA LinesNext ==
  ASSUME LinesSafe, [Next]_vars
  PROVE  LinesSafe'
<1>1. BoardSafe' /\ BoardInv
  BY BoardStep DEF LinesSafe, BoardSafe
<1>2. CASE Next
  <2>1. Disciplined /\ LineStep
    BY <1>2, EveryStepDisciplined, EveryStepWritesLines DEF LinesSafe, BoardSafe
  <2>2. LinesOK(game, stack', line', pvs') /\ game' = game
    BY <1>1, <2>1, LineStepKeeps DEF LinesSafe, Disciplined
  <2>3. Walk(game, game.root, result'.pv)
    <3>1. CASE RootReturns
      <4>1. stack = <<>> /\ result'.pv = pvs[1]
        BY <3>1 DEF RootReturns, Idle
      <4> QED
        BY <4>1 DEF LinesSafe, LinesOK
    <3>2. CASE result' = result
      BY <3>2 DEF LinesSafe
    <3>3. RootReturns \/ result' = result
      BY <1>2 DEF Next, RootSearch, Done, vars, Abort, EnterSearch, PruneNode, NullMoveReturns, VerifyReturns,
           RazorNode, RazorReturns, SingularTest, SingularReturns, NextMove, SearchAgain, MoveReturns, SearchEnds,
           EnterQSearch, NextQMove, QMoveReturns, QSearchEnds, EnterSingular, NextSingularMove,
           SingularMoveReturns, SingularEnds, driver
    <3> QED
      BY <3>1, <3>2, <3>3
  <2>4. LinesOK(game, stack, line, pvs)'
    BY <2>2
  <2> QED
    BY <1>1, <2>2, <2>3, <2>4 DEF LinesSafe
<1>3. CASE UNCHANGED vars
  <2>1. /\ game' = game /\ stack' = stack /\ line' = line /\ pvs' = pvs /\ result' = result
    BY <1>3 DEF vars
  <2> QED
    BY <1>1, <2>1 DEF LinesSafe
<1> QED
  BY <1>2, <1>3

(* The line search() gives the driver can be played from the root: what    *)
(* update_pv() copies up the plies is never the line of another branch,    *)
(* of a verification search or of a singular test.                         *)
THEOREM LinesArePlayable == Spec => []PvPlayable
<1>1. Init => LinesSafe
  BY LinesInit
<1>2. LinesSafe /\ [Next]_vars => LinesSafe'
  BY LinesNext
<1>3. LinesSafe => PvPlayable
  <2> SUFFICES ASSUME LinesSafe PROVE PlayableFrom(game, game.root, result.pv)
    BY DEF PvPlayable
  <2>1. game \in Games /\ game.root \in DOMAIN game.to
    BY GamesAssumption DEF LinesSafe, BoardSafe, BoardInv
  <2> QED
    BY <2>1, WalkIsPlayable DEF LinesSafe
<1> QED
  BY <1>1, <1>2, <1>3, PTL DEF Spec

-----------------------------------------------------------------------------
(* Once the search is aborted no call goes on with its moves: a quiescence *)
(* search found among its moves has not counted one.                       *)
NoneCounted == Top.fn = "qsearch" /\ Top.at = "moves" => Top.played = 0
Settled == LinesSafe /\ (aborted => NoneCounted)

(* Whatever ends, a caller that waits is uncovered.                        *)
LEMMA CallerUncovered ==
  ASSUME BoardInv, BoardInv', stack # <<>>, stack' = Front(stack)
  PROVE  Top'.at # "moves"
<1> DEFINE rest == Front(stack)
<1>1. IsSequence(stack) /\ IsSequence(rest) /\ Len(stack) \in Nat \ {0}
      /\ Len(rest) = Len(stack) - 1 /\ \A i \in 1 .. Len(stack) - 1 : rest[i] = stack[i]
  BY FrameFacts, FrontFacts
<1>2. rest # <<>> <=> Len(rest) > 0
  BY <1>1, SequenceFacts
<1>3. \A i \in 1 .. Len(stack) - 1 : stack[i].at \in Waiting
  BY FrameFacts
<1>4. Top' = IF rest = <<>> THEN NoCall ELSE rest[Len(rest)]
  BY DEF Top, Idle
<1> HIDE DEF rest
<1>5. CASE rest = <<>>
  BY <1>4, <1>5 DEF NoCall
<1>6. CASE rest # <<>>
  <2>1. Top'.at \in Waiting
    BY <1>1, <1>2, <1>3, <1>4, <1>6
  <2> QED
    BY <2>1 DEF Waiting, Making, AfterMove
<1> QED
  BY <1>5, <1>6

LEMMA NewTop ==
  ASSUME IsSequence(stack), stack # <<>>, NEW g
  PROVE  /\ GoOn(g) => Top' = g
         /\ \A callee : CallFrom(g, callee) => Top' = callee
<1> DEFINE calls == [stack EXCEPT ![Len(stack)] = g]
<1>1. IsSequence(calls) /\ calls # <<>> /\ Len(calls) = Len(stack) /\ calls[Len(stack)] = g
  BY ReplaceFacts
<1>2. GoOn(g) => stack' = calls
  BY DEF GoOn
<1>3. \A callee : CallFrom(g, callee) => stack' = Append(calls, callee)
  BY DEF CallFrom
<1> HIDE DEF calls
<1>4. GoOn(g) => Top' = g
  BY <1>1, <1>2 DEF Top, Idle
<1>5. ASSUME NEW callee, CallFrom(g, callee) PROVE Top' = callee
  <2> DEFINE more == Append(calls, callee)
  <2>1. IsSequence(more) /\ Len(more) = Len(calls) + 1 /\ more[Len(calls) + 1] = callee /\ Len(calls) \in Nat
    BY <1>1, AppendFacts, SequenceFacts
  <2>2. stack' = more
    BY <1>3, <1>5
  <2> HIDE DEF more
  <2>3. more # <<>>
    BY <2>1, SequenceFacts
  <2> QED
    BY <2>1, <2>2, <2>3 DEF Top, Idle
<1> QED
  BY <1>4, <1>5

LEMMA SettledNext ==
  ASSUME Settled, Next
  PROVE  aborted' => NoneCounted'
<1> SUFFICES ASSUME aborted', Top'.fn = "qsearch", Top'.at = "moves" PROVE Top'.played = 0
  BY DEF NoneCounted
<1>1. BoardInv /\ BoardInv' /\ LineStep /\ IsSequence(stack)
  BY BoardStep, EveryStepWritesLines DEF Settled, LinesSafe, BoardSafe, BoardInv, Sound, CallsOK
<1>2. CASE stack = <<>>
  <2>1. CASE Starts
    <3>1. PICK callee : Fresh(callee) /\ stack' = <<callee>>
      BY <2>1 DEF Starts
    <3>2. Top' = callee
      BY <3>1 DEF Top, Idle
    <3> QED
      BY <3>1, <3>2 DEF Fresh
  <2>2. CASE stack' = stack
    BY <1>2, <2>2 DEF Top, Idle, NoCall
  <2> QED
    BY <1>1, <1>2, <2>1, <2>2 DEF LineStep, Leaves, Stays, Enters
<1>3. CASE stack # <<>> /\ stack' = Front(stack)
  BY <1>1, <1>3, CallerUncovered
<1>4. CASE stack # <<>> /\ Top.fn # "qsearch"
  <2>1. CASE Stays
    <3>1. PICK g : GoOn(g) /\ (g.fn = Top.fn \/ g.at = "entry")
      BY <2>1 DEF Stays
    <3> QED
      BY <1>1, <1>4, <3>1, NewTop
  <2>2. CASE Enters
    <3>1. PICK g, callee : CallFrom(g, callee) /\ callee.at = "entry"
      BY <2>2 DEF Enters
    <3> QED
      BY <1>1, <1>4, <3>1, NewTop
  <2>3. CASE stack' = stack
    BY <1>4, <2>3 DEF Top, Idle
  <2> QED
    BY <1>1, <1>3, <1>4, <2>1, <2>2, <2>3 DEF LineStep, Leaves, Starts
<1>5. CASE stack # <<>> /\ Top.fn = "qsearch"
  <2>1. CASE EnterQSearch(Top)
    <3>1. stack' = Front(stack) \/ \E entry : GoOn(QNode(Top, entry))
      BY <2>1 DEF EnterQSearch, Return
    <3>2. ASSUME NEW entry, GoOn(QNode(Top, entry)) PROVE Top'.played = 0
      <4> DEFINE g == QNode(Top, entry)
      <4>1. g.played = 0 /\ GoOn(g)
        BY <3>2 DEF QNode, Extended
      <4> HIDE DEF g
      <4> QED
        BY <1>1, <1>5, <4>1, NewTop
    <3> QED
      BY <1>3, <1>5, <3>1, <3>2
  <2>2. CASE NextQMove(Top)
    <3> DEFINE Made(i, m) == Extended([Top EXCEPT !.todo[i] = @ \ {m}], [at |-> "scored", move |-> m])
               callee == CallQ(Top.ply + 1, -Top.beta, -Top.alpha, Top.pv)
    <3>1. PICK i, m : CallFrom(Made(i, m), callee)
      BY <2>2 DEF NextQMove
    <3>2. callee.at = "entry"
      BY DEF CallQ
    <3> HIDE DEF Made, callee
    <3> QED
      BY <1>1, <1>5, <3>1, <3>2, NewTop
  <2>3. CASE QMoveReturns(Top) \/ QSearchEnds(Top) \/ Abort(Top)
    BY <1>3, <1>5, <2>3 DEF QMoveReturns, QSearchEnds, Abort, StoreQ, Return
  <2>4. CASE RootReturns \/ RootSearch \/ Done
    BY <1>5, <2>4 DEF RootReturns, RootSearch, Done, Finished, Idle
  <2> QED
    BY <1>5, <2>1, <2>2, <2>3, <2>4 DEF Next, EnterSearch, PruneNode, NullMoveReturns, VerifyReturns,
         RazorNode, RazorReturns, SingularTest, SingularReturns, NextMove, SearchAgain, MoveReturns, SearchEnds,
         EnterSingular, NextSingularMove, SingularMoveReturns, SingularEnds
<1> QED
  BY <1>2, <1>4, <1>5

LEMMA SettledStep ==
  ASSUME Settled, [Next]_vars
  PROVE  Settled'
<1>1. LinesSafe'
  BY LinesNext DEF Settled
<1>2. CASE Next
  BY <1>1, <1>2, SettledNext DEF Settled
<1>3. CASE UNCHANGED vars
  BY <1>1, <1>3 DEF vars, Settled, NoneCounted, Top, Idle
<1> QED
  BY <1>2, <1>3

LEMMA LearnsNothing ==
  ASSUME Settled, aborted, Next
  PROVE  /\ killers' = killers
         /\ table' # table => \/ Top.fn = "search" /\ Top.at = "entry"
                              \/ Top.fn = "qsearch" /\ Top.at = "moves" /\ Top.played = 0
<1>1. killers' = killers
  BY DEF Next, RootSearch, RootReturns, Done, vars, Abort, EnterSearch, PruneNode, NullMoveReturns, VerifyReturns,
       RazorNode, RazorReturns, SingularTest, SingularReturns, NextMove, SearchAgain, MoveReturns, SearchEnds,
       EnterQSearch, NextQMove, QMoveReturns, QSearchEnds, EnterSingular, NextSingularMove,
       SingularMoveReturns, SingularEnds
<1>2. \/ table' = table \/ EnterSearch(Top) \/ QSearchEnds(Top)
  BY DEF Next, RootSearch, RootReturns, Done, vars, Abort, PruneNode, NullMoveReturns, VerifyReturns,
       RazorNode, RazorReturns, SingularTest, SingularReturns, NextMove, SearchAgain, MoveReturns, SearchEnds,
       EnterQSearch, NextQMove, QMoveReturns, EnterSingular, NextSingularMove,
       SingularMoveReturns, SingularEnds
<1>3. QSearchEnds(Top) => Top.fn = "qsearch" /\ Top.at = "moves" /\ Top.played = 0
  BY DEF QSearchEnds, Settled, NoneCounted
<1> QED
  BY <1>1, <1>2, <1>3 DEF EnterSearch

(* An aborted search leaves nothing behind: no call that is cut short      *)
(* remembers a killer or stores an entry in the table the threads share.   *)
THEOREM AbortedLearnsNothing == Spec => AbortLearnsNothing
<1>1. Init => Settled
  <2> SUFFICES ASSUME Init PROVE Settled
    OBVIOUS
  <2>1. aborted = FALSE
    BY DEF Init, InitOf
  <2> QED
    BY <2>1, LinesInit DEF Settled
<1>2. Settled /\ [Next]_vars => Settled'
  BY SettledStep
<1>3. Settled /\ [Next]_vars =>
        [aborted => /\ killers' = killers
                    /\ table' # table => \/ Top.fn = "search" /\ Top.at = "entry"
                                         \/ Top.fn = "qsearch" /\ Top.at = "moves" /\ Top.played = 0]_vars
  BY LearnsNothing
<1> QED
  BY <1>1, <1>2, <1>3, PTL DEF Spec, AbortLearnsNothing

-----------------------------------------------------------------------------
(* The scores.  What a call returns, if the search is not aborted below it: *)
(* no mate that is nearer than its ply allows, unless its caller asked with *)
(* a window out there.                                                     *)
EntryAlpha(f) == IF f.at = "entry" THEN f.alpha ELSE f.alpha_orig

Promises(f, v) ==
  /\ f.fn = "search" =>
       v >= MatedIn(f.ply) /\ v <= (IF f.at = "entry" THEN Most(MateIn(f.ply), f.alpha) ELSE MateIn(f.ply))
  /\ f.fn = "qsearch" =>
       v >= Least(MatedIn(f.ply), f.beta) /\ v <= Most(MateIn(f.ply), EntryAlpha(f))
  /\ f.fn = "singular" => v <= MateIn(f.ply)

(* What a call that waits needs to know of the value that comes.           *)
Awaits(f, v) ==
  /\ f.fn = "search" /\ f.at \in AfterMove => v >= MatedIn(f.ply + 1) /\ v <= MateIn(f.ply)
  /\ f.fn = "search" /\ f.at = "razored" => v >= MatedIn(f.ply)
  /\ f.fn = "search" /\ f.at = "singular" => v <= MateIn(f.ply)
  /\ f.fn = "qsearch" /\ f.at = "scored" =>
       v >= Least(MatedIn(f.ply + 1), -f.alpha) /\ v <= Most(MateIn(f.ply + 1), -f.beta)
  /\ f.fn = "singular" /\ f.at = "scored" =>
       v >= MatedIn(f.ply + 1) /\ v <= Most(MateIn(f.ply + 1), -f.beta)

Ordinary(v) == v \in -MateThreshold .. MateThreshold

(* The window of a node only closes, and its best score stays below beta   *)
(* and between the nearest mates; there is none until a move was searched. *)
SearchValues(f) ==
  /\ f.alpha \in Int /\ f.beta \in Int /\ f.depth \in Int
  /\ f.at # "entry" =>
       /\ f.alpha_orig \in Int /\ f.best \in Int /\ f.extension \in Int /\ f.entry.score \in Int
       /\ f.played \in Nat
       /\ MatedIn(f.ply) <= f.alpha_orig /\ f.alpha_orig <= f.alpha
       /\ f.alpha < f.beta /\ f.beta <= MateIn(f.ply + 1)
       /\ f.best = ScoreMin \/ MatedIn(f.ply) <= f.best
       /\ f.best < f.beta
       /\ (f.best = ScoreMin <=> f.played = 0)
       /\ f.ev = ScoreMin \/ Ordinary(f.ev)
  /\ f.at \in AfterMove => f.new_depth \in Int

QSearchValues(f) ==
  /\ f.alpha \in Int /\ f.beta \in Int
  /\ -MaxMate <= f.alpha /\ f.alpha < f.beta /\ f.beta <= MaxMate
  /\ f.at # "entry" =>
       /\ f.alpha_orig \in Int /\ f.best \in Int /\ f.played \in Nat
       /\ -MaxMate <= f.alpha_orig /\ f.alpha_orig <= f.alpha
       /\ f.alpha <= Most(MateIn(f.ply), f.alpha_orig)
       /\ f.best <= f.alpha
       /\ f.best = ScoreMin \/ f.best >= Least(MatedIn(f.ply), f.beta)
       /\ (f.best = ScoreMin <=> (f.checked /\ f.played = 0))

SingularValues(f) ==
  /\ f.alpha \in Int /\ f.beta \in Int /\ f.depth \in Int
  /\ f.alpha = f.beta - 1 /\ f.alpha < MateIn(f.ply + 1)
  /\ f.at # "entry" =>
       /\ f.alpha_orig = f.alpha
       /\ f.best \in Int /\ (f.best <= f.alpha \/ f.best = ScoreMin)
       /\ f.best_move # NoMove => f.best >= MatedIn(f.ply + 1)

ValueOK(f) ==
  /\ f.fn = "search" => SearchValues(f)
  /\ f.fn = "qsearch" => QSearchValues(f)
  /\ f.fn = "singular" => SingularValues(f)

TableOK(entries) == \A key \in DOMAIN entries : Bounded(entries[key])

(* Each call will return what the one below it waits for.                  *)
LinksOK(calls) ==
  \A i \in 1 .. Len(calls) - 1 : \A v \in Int : Promises(calls[i + 1], v) => Awaits(calls[i], v)

ValueSound ==
  /\ ret \in Int /\ TableOK(table) /\ LinksOK(stack)
  /\ \A i \in 1 .. Len(stack) : ValueOK(stack[i])
  /\ ~aborted /\ stack # <<>> /\ Top.at \in Waiting => Awaits(Top, ret)

(* What a step does to the values.                                         *)
PromisesNoLess(g) == \A v \in Int : Promises(g, v) => Promises(Top, v)

GivesValue == stack # <<>> /\ stack' = Front(stack) /\ ret' \in Int /\ (aborted' \/ Promises(Top, ret'))

KeepsValue ==
  stack # <<>> /\ ret' = ret /\ \E g : GoOn(g) /\ ValueOK(g) /\ g.at \notin Waiting /\ PromisesNoLess(g)

AsksValue ==
  /\ stack # <<>> /\ ret' = ret
  /\ \E g, callee : /\ CallFrom(g, callee) /\ callee.at \notin Waiting
                    /\ ValueOK(g) /\ ValueOK(callee) /\ PromisesNoLess(g)
                    /\ \A v \in Int : Promises(callee, v) => Awaits(g, v)

FirstAsks ==
  stack = <<>> /\ ret' = ret /\ \E callee : stack' = <<callee>> /\ ValueOK(callee) /\ callee.at \notin Waiting

ValueStep ==
  /\ TableOK(table') /\ (aborted => aborted')
  /\ GivesValue \/ KeepsValue \/ AsksValue \/ FirstAsks \/ UNCHANGED <<stack, ret, aborted>>

LEMMA ValueStepKeeps ==
  ASSUME BoardInv, ValueSound, ValueStep
  PROVE  ValueSound'
<1> DEFINE n == Len(stack)
<1>1. TableOK(table') /\ (aborted => aborted') /\ ret \in Int
  BY DEF ValueStep, ValueSound
<1>2. CASE FirstAsks
  <2>1. PICK callee : stack' = <<callee>> /\ ValueOK(callee) /\ callee.at \notin Waiting
    BY <1>2 DEF FirstAsks
  <2>2. Len(stack') = 1 /\ stack'[1] = callee /\ Top' = callee
    BY <2>1 DEF Top, Idle
  <2>3. LinksOK(stack') /\ \A i \in 1 .. Len(stack') : ValueOK(stack'[i])
    BY <2>1, <2>2 DEF LinksOK
  <2> QED
    BY <1>1, <1>2, <2>1, <2>2, <2>3 DEF ValueSound, FirstAsks
<1>3. CASE stack # <<>> /\ ~FirstAsks
  <2>1. /\ n \in Nat \ {0} /\ Top = stack[n] /\ IsSequence(stack)
        /\ \A i \in 1 .. n - 1 : stack[i].at \in Waiting
    BY <1>3, FrameFacts
  <2>2. /\ \A i \in 1 .. n : ValueOK(stack[i])
        /\ \A i \in 1 .. n - 1 : \A v \in Int : Promises(stack[i + 1], v) => Awaits(stack[i], v)
    BY DEF ValueSound, LinksOK
  <2> HIDE DEF n
  <2>4. CASE GivesValue
    <3> DEFINE rest == Front(stack)
    <3>1. stack' = rest /\ ret' \in Int /\ (aborted' \/ Promises(Top, ret'))
      BY <2>4 DEF GivesValue
    <3>2. IsSequence(rest) /\ Len(rest) = n - 1 /\ \A i \in 1 .. n - 1 : rest[i] = stack[i]
      BY <1>3, <2>1, FrontFacts DEF n
    <3>3. rest # <<>> <=> n - 1 > 0
      BY <3>2, SequenceFacts
    <3>4. Top' = IF rest = <<>> THEN NoCall ELSE rest[Len(rest)]
      BY <3>1 DEF Top, Idle
    <3> HIDE DEF rest
    <3>5. \A i \in 1 .. Len(rest) : ValueOK(rest[i])
      BY <2>1, <2>2, <3>2
    <3>6. LinksOK(rest)
      <4> SUFFICES ASSUME NEW i \in 1 .. (n - 1) - 1, NEW v \in Int, Promises(rest[i + 1], v)
                   PROVE  Awaits(rest[i], v)
        BY <3>2 DEF LinksOK
      <4>1. rest[i] = stack[i] /\ rest[i + 1] = stack[i + 1] /\ i \in 1 .. n - 1
        BY <2>1, <3>2
      <4> QED
        BY <2>2, <4>1
    <3>7. ASSUME ~aborted', rest # <<>> PROVE Awaits(rest[Len(rest)], ret')
      <4>1. n - 1 \in 1 .. n - 1 /\ (n - 1) + 1 = n
        BY <2>1, <3>3, <3>7
      <4>2. Promises(stack[n], ret')
        BY <2>1, <3>1, <3>7
      <4>3. Awaits(stack[n - 1], ret')
        BY <2>2, <3>1, <4>1, <4>2
      <4> QED
        BY <3>2, <4>1, <4>3
    <3> QED
      BY <1>1, <3>1, <3>4, <3>5, <3>6, <3>7 DEF ValueSound
  <2>5. CASE KeepsValue
    <3>1. PICK g : GoOn(g) /\ ValueOK(g) /\ g.at \notin Waiting /\ PromisesNoLess(g)
      BY <2>5 DEF KeepsValue
    <3>2. /\ IsSequence(stack') /\ Len(stack') = n /\ stack'[n] = g /\ \A i \in 1 .. n - 1 : stack'[i] = stack[i]
      BY <1>3, <2>1, <3>1, ReplaceFacts DEF GoOn, n
    <3>3. Top' = g
      BY <1>3, <2>1, <3>1, NewTop
    <3>4. \A i \in 1 .. Len(stack') : ValueOK(stack'[i])
      BY <2>1, <2>2, <3>1, <3>2
    <3>5. LinksOK(stack')
      <4> SUFFICES ASSUME NEW i \in 1 .. n - 1, NEW v \in Int, Promises(stack'[i + 1], v)
                   PROVE  Awaits(stack'[i], v)
        BY <3>2 DEF LinksOK
      <4>1. Promises(stack[i + 1], v)
        <5>1. CASE i + 1 = n
          BY <2>1, <3>1, <3>2, <5>1 DEF PromisesNoLess
        <5>2. CASE i + 1 # n
          <6>1. i + 1 \in 1 .. n - 1
            BY <2>1, <5>2
          <6> QED
            BY <3>2, <6>1
        <5> QED
          BY <5>1, <5>2
      <4> QED
        BY <2>2, <3>2, <4>1
    <3> QED
      BY <1>1, <2>5, <3>1, <3>3, <3>4, <3>5 DEF ValueSound, KeepsValue
  <2>6. CASE AsksValue
    <3>1. PICK g, callee :
            /\ CallFrom(g, callee) /\ callee.at \notin Waiting
            /\ ValueOK(g) /\ ValueOK(callee) /\ PromisesNoLess(g)
            /\ \A v \in Int : Promises(callee, v) => Awaits(g, v)
      BY <2>6 DEF AsksValue
    <3> DEFINE calls == [stack EXCEPT ![n] = g]
    <3>2. IsSequence(calls) /\ Len(calls) = n /\ calls[n] = g /\ \A i \in 1 .. n - 1 : calls[i] = stack[i]
      BY <1>3, <2>1, ReplaceFacts DEF n
    <3>3. stack' = Append(calls, callee)
      BY <3>1 DEF CallFrom, n
    <3> HIDE DEF calls
    <3>4. IsSequence(stack') /\ Len(stack') = n + 1 /\ stack'[n + 1] = callee /\ \A i \in 1 .. n : stack'[i] = calls[i]
      BY <3>2, <3>3, AppendFacts
    <3>5. stack'[n] = g /\ \A i \in 1 .. n - 1 : stack'[i] = stack[i]
      BY <2>1, <3>2, <3>4
    <3>6. Top' = callee
      BY <1>3, <2>1, <3>1, NewTop
    <3>7. \A i \in 1 .. Len(stack') : ValueOK(stack'[i])
      <4>1. ASSUME NEW i \in 1 .. n + 1 PROVE ValueOK(stack'[i])
        <5>1. i \in 1 .. n - 1 \/ i = n \/ i = n + 1
          BY <2>1
        <5> QED
          BY <2>1, <2>2, <3>1, <3>4, <3>5, <5>1
      <4> QED
        BY <3>4, <4>1
    <3>8. LinksOK(stack')
      <4> SUFFICES ASSUME NEW i \in 1 .. n, NEW v \in Int, Promises(stack'[i + 1], v)
                   PROVE  Awaits(stack'[i], v)
        BY <2>1, <3>4 DEF LinksOK
      <4>1. CASE i = n
        BY <3>1, <3>4, <3>5, <4>1
      <4>2. CASE i \in 1 .. n - 1
        <5>1. Promises(stack[i + 1], v)
          <6>1. CASE i + 1 = n
            BY <2>1, <3>1, <3>5, <6>1 DEF PromisesNoLess
          <6>2. CASE i + 1 # n
            <7>1. i + 1 \in 1 .. n - 1
              BY <2>1, <4>2, <6>2
            <7> QED
              BY <3>5, <7>1
          <6> QED
            BY <6>1, <6>2
        <5> QED
          BY <2>2, <3>5, <4>2, <5>1
      <4> QED
        BY <2>1, <4>1, <4>2
    <3> QED
      BY <1>1, <2>6, <3>1, <3>6, <3>7, <3>8 DEF ValueSound, AsksValue
  <2>7. CASE UNCHANGED <<stack, ret, aborted>>
    BY <1>1, <2>7 DEF ValueSound, Top, Idle
  <2> QED
    BY <1>3, <2>4, <2>5, <2>6, <2>7 DEF ValueStep
<1>4. CASE stack = <<>> /\ ~FirstAsks
  <2>1. UNCHANGED <<stack, ret, aborted>>
    BY <1>4 DEF ValueStep, GivesValue, KeepsValue, AsksValue
  <2> QED
    BY <1>1, <2>1 DEF ValueSound, Top, Idle
<1> QED
  BY <1>2, <1>3, <1>4

(* The entries of the table, and what a probe makes of them.               *)
LEMMA ProbeFacts ==
  ASSUME TableOK(table), game \in Games, NEW key, NEW ply \in 1 .. MaxPly, NEW entry \in Probe(key, ply)
  PROVE  /\ entry.score \in Int
         /\ entry.flag \in {"LOWER", "EXACT"} => entry.score <= MateIn(ply)
         /\ entry.flag \in {"UPPER", "EXACT"} => entry.score >= MatedIn(ply)
<1>1. PICK e : /\ entry = [e EXCEPT !.score = ScoreFromTable(e.score, ply)]
               /\ \/ e = (IF key \in DOMAIN table THEN table[key] ELSE NoEntry)
                  \/ key \in DOMAIN game.foreign /\ e \in game.foreign[key]
  BY DEF Probe
<1>2. Bounded(NoEntry)
  BY DEF Bounded, NoEntry
<1>3. Bounded(e)
  BY <1>1, <1>2, ScoresAssumption DEF TableOK
<1>4. entry.score = ScoreFromTable(e.score, ply) /\ entry.flag = e.flag /\ e.score \in Int
  BY <1>1, <1>3 DEF Bounded
<1>5. /\ e.flag \in {"LOWER", "EXACT"} => e.score <= MaxMate
      /\ e.flag \in {"UPPER", "EXACT"} => e.score >= -MaxMate
  BY <1>3 DEF Bounded
<1> QED
  BY <1>4, <1>5, ScoreAssumption DEF ScoreFromTable, MateIn, MatedIn, MateThreshold

LEMMA StoreFacts ==
  ASSUME TableOK(table), NEW key, NEW move, NEW score \in Int, NEW depth, NEW flag, NEW ply \in 1 .. MaxPly,
         Store(key, move, score, depth, flag, ply),
         flag \in {"LOWER", "EXACT"} => score <= MateIn(ply),
         flag \in {"UPPER", "EXACT"} => score >= MatedIn(ply)
  PROVE  TableOK(table')
<1> DEFINE old == IF key \in DOMAIN table THEN table[key] ELSE NoEntry
           new == [move |-> move, score |-> ScoreToTable(score, ply), depth |-> depth, flag |-> flag]
<1>1. table' = [k \in DOMAIN table \cup {key} |-> IF k = key THEN Stored(old, new) ELSE table[k]]
  BY DEF Store
<1>2. Bounded(old)
  BY DEF Bounded, NoEntry, TableOK
<1>3. Bounded(new)
  <2>1. new.score = ScoreToTable(score, ply) /\ new.flag = flag /\ DOMAIN new = {"move", "score", "depth", "flag"}
    OBVIOUS
  <2>2. /\ ScoreToTable(score, ply) \in Int
        /\ flag \in {"LOWER", "EXACT"} => ScoreToTable(score, ply) <= MaxMate
        /\ flag \in {"UPPER", "EXACT"} => ScoreToTable(score, ply) >= -MaxMate
    BY ScoreAssumption DEF ScoreToTable, MateIn, MatedIn, MateThreshold
  <2> HIDE DEF new
  <2> QED
    BY <2>1, <2>2 DEF Bounded
<1> HIDE DEF old, new
<1>4. Bounded(Stored(old, new))
  BY <1>2, <1>3 DEF Stored, Bounded
<1> QED
  BY <1>1, <1>4 DEF TableOK

LEMMA EvaluationIsOrdinary ==
  ASSUME game \in Games, NEW p \in DOMAIN game.to
  PROVE  Ordinary(Evaluate(game, p))
BY ScoresAssumption, ScoreAssumption DEF Ordinary, Evaluate, MateThreshold

LEMMA TablebaseIsOrdinary ==
  ASSUME game \in Games, NEW p \in DOMAIN game.to, game.wdl[p] # "FAIL", NEW ply \in 1 .. MaxPly
  PROVE  LET tb == TablebaseScore(game.wdl[p], ply)
         IN  Ordinary(tb) /\ ScoreToTable(tb, ply) = tb
<1>1. game.wdl[p] \in {"WIN", "DRAW", "LOSS"}
  BY ScoresAssumption
<1> QED
  BY <1>1, ScoreAssumption DEF TablebaseScore, TbWinScore, Ordinary, ScoreToTable, MateThreshold

-----------------------------------------------------------------------------
(* The steps once more, for the values.                                    *)
LEMMA TopValues ==
  ASSUME BoardInv, ValueSound, stack # <<>>
  PROVE  /\ ValueOK(Top) /\ CallOK(Top) /\ CallFields \subseteq DOMAIN Top
         /\ Top.ply \in Int /\ 1 <= Top.ply /\ Top.ply <= MaxPly
         /\ ret \in Int /\ TableOK(table)
         /\ ~aborted /\ Top.at \in Waiting => Awaits(Top, ret)
<1>1. Len(stack) \in 1 .. Len(stack) /\ Top = stack[Len(stack)] /\ CallOK(Top)
  BY FrameFacts, TopNode
<1> QED
  BY <1>1, ScoreAssumption DEF ValueSound, CallOK

(* A node of search() that goes on with the same window and scores.        *)
LEMMA SameValues ==
  ASSUME NEW f, f = Top, f.fn = "search", f.at # "entry", ValueOK(f),
         NEW g, g.fn = "search", g.at # "entry", g.ply = f.ply, g.alpha = f.alpha, g.beta = f.beta, g.depth = f.depth,
         g.alpha_orig = f.alpha_orig, g.best = f.best, g.extension \in Int, g.entry = f.entry,
         g.played = f.played, g.ev = f.ev, g.at \in AfterMove => g.new_depth \in Int
  PROVE  ValueOK(g) /\ PromisesNoLess(g)
<1>1. ValueOK(g)
  BY DEF ValueOK, SearchValues
<1>2. PromisesNoLess(g)
  BY DEF PromisesNoLess, Promises
<1> QED
  BY <1>1, <1>2

LEMMA AbortValues ==
  ASSUME BoardInv, ValueSound, Abort(Top)
  PROVE  ValueStep
<1>1. stack # <<>> /\ Top.fn # "singular" /\ aborted' /\ stack' = Front(stack) /\ ret' = Top.alpha /\ table' = table
  BY TopEntry DEF Abort, Return
<1>2. Top.alpha \in Int /\ TableOK(table)
  BY <1>1, TopValues DEF ValueOK, SearchValues, QSearchValues, CallOK
<1> QED
  BY <1>1, <1>2 DEF ValueStep, GivesValue

LEMMA EnterSearchValues ==
  ASSUME BoardInv, ValueSound, EnterSearch(Top)
  PROVE  ValueStep
<1> DEFINE f == Top
           from == WindowFrom(f)
           to == WindowTo(f)
<1>1. stack # <<>> /\ f.fn = "search" /\ f.at = "entry" /\ aborted' = aborted
  BY TopEntry DEF EnterSearch
<1>2. /\ f.ply \in Int /\ 1 <= f.ply /\ f.ply <= MaxPly /\ f.ply \in 1 .. MaxPly
      /\ f.alpha \in Int /\ f.beta \in Int /\ f.depth \in Int
      /\ SearchFields \subseteq DOMAIN f /\ CallFields \subseteq DOMAIN f /\ TableOK(table) /\ ret \in Int
  BY <1>1, TopValues, ScoreAssumption DEF ValueOK, SearchValues, CallOK, SearchOK
<1>3. Pos \in DOMAIN game.to /\ game \in Games
  BY <1>1, TopNode DEF Making, AfterMove
<1>4. /\ from \in Int /\ to \in Int /\ from >= MatedIn(f.ply) /\ from <= Most(MateIn(f.ply), f.alpha)
      /\ to <= MateIn(f.ply + 1) /\ to <= f.beta
  BY <1>2, ScoreAssumption DEF WindowFrom, WindowTo, Most, Least, MatedIn, MateIn
<1>5. Ordinary(Evaluate(game, Pos))
  BY <1>3, EvaluationIsOrdinary
<1>6. ASSUME NEW v \in Int, v >= MatedIn(f.ply), v <= Most(MateIn(f.ply), f.alpha) PROVE Promises(f, v)
  BY <1>1, <1>6 DEF Promises
<1>7. \A v : Ordinary(v) => v \in Int /\ v >= MatedIn(f.ply) /\ v <= Most(MateIn(f.ply), f.alpha)
  BY <1>2, ScoreAssumption DEF Ordinary, MateThreshold, Most, MatedIn, MateIn
<1> HIDE DEF from, to
<1>8. CASE LeavesEarly(f) /\ Return(EarlyValue(f)) /\ UNCHANGED table
  <2>1. Promises(f, EarlyValue(f)) /\ EarlyValue(f) \in Int
    <3>1. Ordinary(0)
      BY ScoreAssumption DEF Ordinary, MateThreshold
    <3>2. EarlyValue(f) = from \/ Ordinary(EarlyValue(f))
      BY <1>5, <3>1 DEF EarlyValue, from
    <3> QED
      BY <1>4, <1>6, <1>7, <3>2
  <2> QED
    BY <1>1, <1>2, <1>8, <2>1 DEF ValueStep, GivesValue, Return
<1>9. CASE ~LeavesEarly(f) /\ GoOn(CallQ(f.ply, from, to, f.pv)) /\ UNCHANGED <<ret, table>>
  <2> DEFINE g == CallQ(f.ply, from, to, f.pv)
  <2>1. from < to
    BY <1>4, <1>9 DEF LeavesEarly, from, to
  <2>2. GoOn(g) /\ g.fn = "qsearch" /\ g.at = "entry" /\ g.alpha = from /\ g.beta = to /\ g.ply = f.ply
    BY <1>9 DEF CallQ
  <2> HIDE DEF g
  <2>3. ValueOK(g)
    BY <1>2, <1>4, <2>1, <2>2, ScoreAssumption DEF ValueOK, QSearchValues, MatedIn, MateIn
  <2>4. PromisesNoLess(g)
    <3> SUFFICES ASSUME NEW v \in Int, Promises(g, v) PROVE Promises(f, v)
      BY DEF PromisesNoLess
    <3>1. v >= Least(MatedIn(f.ply), to) /\ v <= Most(MateIn(f.ply), from)
      BY <2>2 DEF Promises, EntryAlpha
    <3>2. v >= MatedIn(f.ply) /\ v <= Most(MateIn(f.ply), f.alpha)
      BY <3>1, <1>2, <1>4, <2>1, ScoreAssumption DEF Least, Most, MatedIn, MateIn
    <3> QED
      BY <1>6, <3>2
  <2> QED
    BY <1>1, <1>2, <1>9, <2>2, <2>3, <2>4 DEF ValueStep, KeepsValue, Waiting, Making, AfterMove
<1>10. ASSUME ~LeavesEarly(f), NEW entry \in Probe(NodeKey(Pos), f.ply),
              \/ /\ TableCut(f, entry)
                 /\ Return(entry.score) /\ UNCHANGED table
              \/ /\ ~TableCut(f, entry) /\ InTablebase(f)
                 /\ LET tb == TablebaseScore(game.wdl[Pos], f.ply)
                    IN  /\ Store(NodeKey(Pos), NoMove, ScoreToTable(tb, f.ply), TablebaseDepth(f.depth), "EXACT", f.ply)
                        /\ Return(tb)
              \/ /\ ~TableCut(f, entry) /\ ~InTablebase(f)
                 /\ GoOn(Node(f, entry))
                 /\ UNCHANGED <<ret, table>>
       PROVE  ValueStep
  <2>0. from < to
    BY <1>4, <1>10 DEF LeavesEarly, from, to
  <2>1. /\ entry.score \in Int
        /\ entry.flag \in {"LOWER", "EXACT"} => entry.score <= MateIn(f.ply)
        /\ entry.flag \in {"UPPER", "EXACT"} => entry.score >= MatedIn(f.ply)
    BY <1>2, <1>3, ProbeFacts
  <2>2. CASE TableCut(f, entry) /\ Return(entry.score) /\ UNCHANGED table
    <3>1. \/ entry.flag = "EXACT"
          \/ entry.flag = "LOWER" /\ entry.score >= to
          \/ entry.flag = "UPPER" /\ entry.score <= from
      BY <2>2 DEF TableCut, Decides, from, to
    <3>2. entry.score >= MatedIn(f.ply) /\ entry.score <= Most(MateIn(f.ply), f.alpha)
      BY <1>2, <1>4, <2>0, <2>1, <3>1, ScoreAssumption DEF Most, MatedIn, MateIn
    <3>3. Promises(f, entry.score)
      BY <1>6, <2>1, <3>2
    <3> QED
      BY <1>1, <1>2, <2>1, <2>2, <3>3 DEF ValueStep, GivesValue, Return
  <2>3. CASE ~TableCut(f, entry) /\ InTablebase(f)
    <3> DEFINE tb == TablebaseScore(game.wdl[Pos], f.ply)
    <3>1. Ordinary(tb) /\ ScoreToTable(tb, f.ply) = tb
      BY <1>2, <1>3, <2>3, TablebaseIsOrdinary DEF InTablebase
    <3>2. Store(NodeKey(Pos), NoMove, tb, TablebaseDepth(f.depth), "EXACT", f.ply) /\ Return(tb)
      BY <1>10, <2>3, <3>1
    <3> HIDE DEF tb
    <3>3. tb \in Int /\ tb >= MatedIn(f.ply) /\ tb <= MateIn(f.ply)
      BY <1>2, <3>1, ScoreAssumption DEF Ordinary, MateThreshold, MatedIn, MateIn
    <3>4. TableOK(table')
      BY <1>2, <3>2, <3>3, StoreFacts
    <3>5. Promises(f, tb)
      BY <1>6, <1>7, <3>1
    <3> QED
      BY <1>1, <3>2, <3>3, <3>4, <3>5 DEF ValueStep, GivesValue, Return
  <2>4. CASE GoOn(Node(f, entry)) /\ UNCHANGED <<ret, table>>
    <3> DEFINE g == Node(f, entry)
    <3>1. /\ GoOn(g) /\ g.fn = "search" /\ g.at = "prune" /\ g.alpha = from /\ g.beta = to /\ g.alpha_orig = from
          /\ g.ply = f.ply /\ g.best = ScoreMin /\ g.played = 0 /\ g.extension = 0 /\ g.entry = entry
          /\ g.depth = IterativelyReduced(f.depth, entry.move)
          /\ g.ev = (IF InCheck(game, Pos) THEN ScoreMin ELSE Evaluate(game, Pos))
      BY <1>1, <1>2, <2>4 DEF Node, Extended, from, to, CallFields, SearchFields
    <3> HIDE DEF g
    <3>2. g.depth \in Int
      BY <1>2, <3>1 DEF IterativelyReduced
    <3>3. SearchValues(g)
      BY <1>2, <1>4, <1>5, <2>0, <2>1, <3>1, <3>2, ScoreAssumption DEF SearchValues, ScoreMin, MatedIn, MateIn, AfterMove
    <3>4. PromisesNoLess(g)
      <4> SUFFICES ASSUME NEW v \in Int, Promises(g, v) PROVE Promises(f, v)
        BY DEF PromisesNoLess
      <4>1. v >= MatedIn(f.ply) /\ v <= MateIn(f.ply)
        BY <3>1 DEF Promises
      <4>2. v <= Most(MateIn(f.ply), f.alpha)
        BY <4>1, <1>2, ScoreAssumption DEF Most, MateIn
      <4> QED
        BY <1>6, <4>1, <4>2
    <3> QED
      BY <1>1, <1>2, <2>4, <3>1, <3>3, <3>4 DEF ValueStep, KeepsValue, ValueOK, Waiting, Making, AfterMove
  <2> QED
    BY <1>10, <2>2, <2>3, <2>4
<1> QED
  BY <1>8, <1>9, <1>10 DEF EnterSearch, from, to

(* What a call of search() past its entry knows.                           *)
LEMMA NodeValues ==
  ASSUME BoardInv, ValueSound, stack # <<>>, Top.fn = "search", Top.at # "entry"
  PROVE  /\ SearchValues(Top) /\ ValueOK(Top) /\ CallFields \cup SearchFields \cup NodeFields \subseteq DOMAIN Top
         /\ Top.ply \in Int /\ 1 <= Top.ply /\ Top.ply < MaxPly /\ Top.ply \in 1 .. MaxPly
         /\ ret \in Int /\ TableOK(table)
         /\ Top.alpha \in Int /\ Top.beta \in Int /\ Top.depth \in Int /\ Top.ev \in Int
         /\ ~aborted /\ Top.at \in Waiting => Awaits(Top, ret)
         /\ \A v \in Int : v >= MatedIn(Top.ply) /\ v <= MateIn(Top.ply) => Promises(Top, v)
         /\ \A v \in Int : Ordinary(v) => Promises(Top, v)
         /\ Promises(Top, Top.beta) 
<1>1. /\ SearchValues(Top) /\ ValueOK(Top) /\ Top.ply \in Int /\ 1 <= Top.ply /\ Top.ply <= MaxPly
      /\ ret \in Int /\ TableOK(table) /\ CallOK(Top) /\ (~aborted /\ Top.at \in Waiting => Awaits(Top, ret))
  BY TopValues DEF ValueOK
<1>2. CallFields \cup SearchFields \cup NodeFields \subseteq DOMAIN Top /\ Top.ply < MaxPly /\ Top.ply \in 1 .. MaxPly
  BY <1>1 DEF CallOK, SearchOK
<1>3. Top.alpha \in Int /\ Top.beta \in Int /\ Top.depth \in Int /\ Top.ev \in Int
  BY <1>1, ScoreAssumption DEF SearchValues, Ordinary, MateThreshold, ScoreMin
<1>4. \A v \in Int : v >= MatedIn(Top.ply) /\ v <= MateIn(Top.ply) => Promises(Top, v)
  BY DEF Promises
<1>5. \A v \in Int : Ordinary(v) => v >= MatedIn(Top.ply) /\ v <= MateIn(Top.ply)
  BY <1>1, ScoreAssumption DEF Ordinary, MateThreshold, MateIn, MatedIn
<1>6. Top.beta >= MatedIn(Top.ply) /\ Top.beta <= MateIn(Top.ply)
  BY <1>1, ScoreAssumption DEF SearchValues, MateIn, MatedIn
<1> QED
  BY <1>1, <1>2, <1>3, <1>4, <1>5, <1>6

LEMMA NullMoveDepthIsInteger ==
  ASSUME NEW f, f.depth \in Int, f.ev \in Int, f.beta \in Int
  PROVE  NullMoveDepth(f) \in Int
BY DEF NullMoveDepth, Least, Most

LEMMA PruneNodeValues ==
  ASSUME BoardInv, ValueSound, PruneNode(Top)
  PROVE  ValueStep
<1> DEFINE f == Top
           g == [f EXCEPT !.at = "null"]
           h == [f EXCEPT !.at = "razor"]
           depth == NullMoveDepth(f)
           q1 == CallQ(f.ply + 1, -f.beta, 1 - f.beta, FALSE)
           s1 == Call(f.ply + 1, depth, -f.beta, 1 - f.beta, FALSE, ~f.cut, f.sme)
<1>1. stack # <<>> /\ f.fn = "search" /\ f.at # "entry" /\ aborted' = aborted /\ table' = table
  BY TopEntry DEF PruneNode
<1>2. /\ SearchValues(f) /\ ValueOK(f) /\ CallFields \cup SearchFields \cup NodeFields \subseteq DOMAIN f
      /\ f.ply \in Int /\ 1 <= f.ply /\ f.ply < MaxPly /\ TableOK(table) /\ ret \in Int
      /\ f.beta \in Int /\ f.ev \in Int /\ f.depth \in Int
      /\ \A v \in Int : Ordinary(v) => Promises(f, v)
  BY <1>1, NodeValues
<1>3. MayPruneNode(f) /\ HighEnough(f) => Ordinary(f.beta) /\ Ordinary(f.ev) /\ f.ev >= f.beta
  BY <1>1, <1>2, ScoreAssumption
     DEF MayPruneNode, HighEnough, OrdinaryWindow, IsMateScore, Ordinary, SearchValues, ScoreMin, MateThreshold
<1>4. CASE StaticNullCut(f) /\ Return(StaticNullValue(f))
  <2>1. Ordinary(f.beta) /\ Ordinary(f.ev)
    BY <1>3, <1>4 DEF StaticNullCut
  <2>2. Ordinary(StaticNullValue(f)) /\ StaticNullValue(f) \in Int
    BY <2>1, ScoreAssumption DEF StaticNullValue, Quotient, Ordinary, MateThreshold
  <2> QED
    BY <1>1, <1>2, <1>4, <2>2 DEF ValueStep, GivesValue, Return
<1>5. /\ h.at = "razor" /\ h.fn = "search" /\ h.ply = f.ply /\ h.alpha = f.alpha /\ h.beta = f.beta
      /\ h.depth = f.depth /\ h.alpha_orig = f.alpha_orig /\ h.best = f.best /\ h.extension = f.extension
      /\ h.entry = f.entry /\ h.played = f.played /\ h.ev = f.ev
      /\ g.at = "null" /\ g.fn = "search" /\ g.ply = f.ply /\ g.alpha = f.alpha /\ g.beta = f.beta
      /\ g.depth = f.depth /\ g.alpha_orig = f.alpha_orig /\ g.best = f.best /\ g.extension = f.extension
      /\ g.entry = f.entry /\ g.played = f.played /\ g.ev = f.ev
  BY <1>1, <1>2 DEF CallFields, SearchFields, NodeFields
<1> HIDE DEF g, h
<1>6. f.extension \in Int
  BY <1>1, <1>2 DEF SearchValues
<1>7. CASE GoOn(h) /\ UNCHANGED ret
  <2>1. h.at \notin AfterMove
    BY <1>5 DEF AfterMove
  <2>2. ValueOK(h) /\ PromisesNoLess(h)
    BY <1>1, <1>2, <1>5, <1>6, <2>1, SameValues
  <2> QED
    BY <1>1, <1>2, <1>5, <1>7, <2>2 DEF ValueStep, KeepsValue, Waiting, Making, AfterMove
<1>8. CASE TryNullMove(f) /\ CallFrom(g, IF depth <= 0 THEN q1 ELSE s1) /\ UNCHANGED ret
  <2>1. Ordinary(f.beta) /\ depth \in Int
    BY <1>2, <1>3, <1>8, NullMoveDepthIsInteger DEF TryNullMove
  <2>2. ValueOK(g) /\ PromisesNoLess(g)
    BY <1>1, <1>2, <1>5, <1>6, SameValues DEF AfterMove
  <2>3. ValueOK(q1) /\ q1.at = "entry"
    <3>1. q1.fn = "qsearch" /\ q1.at = "entry" /\ q1.alpha = -f.beta /\ q1.beta = 1 - f.beta
      BY DEF CallQ
    <3> HIDE DEF q1
    <3> QED
      BY <1>2, <2>1, <3>1, ScoreAssumption DEF ValueOK, QSearchValues, Ordinary, MateThreshold
  <2>4. ValueOK(s1) /\ s1.at = "entry"
    <3>1. s1.fn = "search" /\ s1.at = "entry" /\ s1.alpha = -f.beta /\ s1.beta = 1 - f.beta /\ s1.depth = depth
      BY DEF Call
    <3> HIDE DEF s1
    <3> QED
      BY <1>2, <2>1, <3>1 DEF ValueOK, SearchValues, AfterMove
  <2> HIDE DEF q1, s1, depth
  <2>5. \A v \in Int : Awaits(g, v)
    BY <1>5 DEF Awaits, AfterMove
  <2>6. "entry" \notin Waiting
    BY DEF Waiting, Making, AfterMove
  <2>7. CASE CallFrom(g, q1)
    BY <1>1, <1>2, <1>8, <2>2, <2>3, <2>5, <2>6, <2>7 DEF ValueStep, AsksValue
  <2>8. CASE CallFrom(g, s1)
    BY <1>1, <1>2, <1>8, <2>2, <2>4, <2>5, <2>6, <2>8 DEF ValueStep, AsksValue
  <2> QED
    BY <1>8, <2>7, <2>8
<1> QED
  BY <1>4, <1>7, <1>8 DEF PruneNode, g, h

(* The node goes on to razoring.                                           *)
LEMMA ThreatenedValues ==
  ASSUME BoardInv, ValueSound, stack # <<>>, Top.fn = "search", Top.at # "entry",
         NEW score, GoOn(Threatened(Top, score)), ret' = ret, table' = table, aborted' = aborted
  PROVE  ValueStep
<1> DEFINE f == Top
           h == Threatened(f, score)
<1>1. /\ SearchValues(f) /\ ValueOK(f) /\ CallFields \cup SearchFields \cup NodeFields \subseteq DOMAIN f
      /\ TableOK(table)
  BY NodeValues
<1>2. /\ h.at = "razor" /\ h.fn = "search" /\ h.ply = f.ply /\ h.alpha = f.alpha /\ h.beta = f.beta
      /\ h.depth = f.depth /\ h.alpha_orig = f.alpha_orig /\ h.best = f.best /\ h.extension = f.extension
      /\ h.entry = f.entry /\ h.played = f.played /\ h.ev = f.ev /\ GoOn(h)
  BY <1>1 DEF CallFields, SearchFields, NodeFields, Threatened
<1> HIDE DEF h
<1>3. f.extension \in Int
  BY <1>1 DEF SearchValues
<1>4. ValueOK(h) /\ PromisesNoLess(h)
  BY <1>1, <1>2, <1>3, SameValues DEF AfterMove
<1> QED
  BY <1>1, <1>2, <1>4 DEF ValueStep, KeepsValue, Waiting, Making, AfterMove

LEMMA NullMoveValues ==
  ASSUME BoardInv, ValueSound, NullMoveReturns(Top)
  PROVE  ValueStep
<1> DEFINE f == Top
           g == [f EXCEPT !.at = "verify"]
           depth == NullMoveDepth(f)
           q1 == CallQ(f.ply, f.beta - 1, f.beta, FALSE)
           s1 == Call(f.ply, depth, f.beta - 1, f.beta, FALSE, TRUE, f.sme)
<1>1. stack # <<>> /\ f.fn = "search" /\ f.at # "entry" /\ aborted' = aborted /\ table' = table
  BY TopEntry DEF NullMoveReturns
<1>2. /\ SearchValues(f) /\ ValueOK(f) /\ CallFields \cup SearchFields \cup NodeFields \subseteq DOMAIN f
      /\ f.ply \in Int /\ 1 <= f.ply /\ f.ply < MaxPly /\ TableOK(table) /\ ret \in Int
      /\ f.alpha \in Int /\ f.beta \in Int /\ f.ev \in Int /\ f.depth \in Int
  BY <1>1, NodeValues
<1>3. CASE aborted /\ Return(f.alpha)
  BY <1>1, <1>2, <1>3 DEF ValueStep, GivesValue, Return
<1>4. CASE GoOn(Threatened(f, -ret)) /\ UNCHANGED ret
  BY <1>1, <1>4, ThreatenedValues
<1>5. CASE CallFrom(g, IF depth <= 0 THEN q1 ELSE s1) /\ UNCHANGED ret
  <2>1. /\ g.at = "verify" /\ g.fn = "search" /\ g.ply = f.ply /\ g.alpha = f.alpha /\ g.beta = f.beta
        /\ g.depth = f.depth /\ g.alpha_orig = f.alpha_orig /\ g.best = f.best /\ g.extension = f.extension
        /\ g.entry = f.entry /\ g.played = f.played /\ g.ev = f.ev
    BY <1>1, <1>2 DEF CallFields, SearchFields, NodeFields
  <2> HIDE DEF g
  <2>2. f.extension \in Int /\ depth \in Int
    BY <1>1, <1>2, NullMoveDepthIsInteger DEF SearchValues
  <2>3. ValueOK(g) /\ PromisesNoLess(g)
    BY <1>1, <1>2, <2>1, <2>2, SameValues DEF AfterMove
  <2>4. ValueOK(q1) /\ q1.at = "entry"
    <3>1. q1.fn = "qsearch" /\ q1.at = "entry" /\ q1.alpha = f.beta - 1 /\ q1.beta = f.beta
      BY DEF CallQ
    <3>2. f.beta > MatedIn(f.ply) /\ f.beta <= MateIn(f.ply + 1)
      BY <1>1, <1>2, ScoreAssumption DEF SearchValues, MatedIn
    <3> HIDE DEF q1
    <3> QED
      BY <1>2, <3>1, <3>2, ScoreAssumption DEF ValueOK, QSearchValues, MatedIn, MateIn
  <2>5. ValueOK(s1) /\ s1.at = "entry"
    <3>1. s1.fn = "search" /\ s1.at = "entry" /\ s1.alpha = f.beta - 1 /\ s1.beta = f.beta /\ s1.depth = depth
      BY DEF Call
    <3> HIDE DEF s1
    <3> QED
      BY <1>2, <2>2, <3>1 DEF ValueOK, SearchValues, AfterMove
  <2> HIDE DEF q1, s1, depth
  <2>6. \A v \in Int : Awaits(g, v)
    BY <2>1 DEF Awaits, AfterMove
  <2>7. "entry" \notin Waiting
    BY DEF Waiting, Making, AfterMove
  <2>8. CASE CallFrom(g, q1)
    BY <1>1, <1>2, <1>5, <2>3, <2>4, <2>6, <2>7, <2>8 DEF ValueStep, AsksValue
  <2>9. CASE CallFrom(g, s1)
    BY <1>1, <1>2, <1>5, <2>3, <2>5, <2>6, <2>7, <2>9 DEF ValueStep, AsksValue
  <2> QED
    BY <1>5, <2>8, <2>9
<1> QED
  BY <1>3, <1>4, <1>5 DEF NullMoveReturns

LEMMA VerifyValues ==
  ASSUME BoardInv, ValueSound, VerifyReturns(Top)
  PROVE  ValueStep
<1> DEFINE f == Top
<1>1. stack # <<>> /\ f.fn = "search" /\ f.at # "entry" /\ aborted' = aborted /\ table' = table
  BY TopEntry DEF VerifyReturns
<1>2. /\ TableOK(table) /\ ret \in Int /\ f.alpha \in Int /\ f.beta \in Int /\ Promises(f, f.beta)
      /\ \A v \in Int : Ordinary(v) => Promises(f, v)
  BY <1>1, NodeValues
<1>3. CASE aborted /\ Return(f.alpha)
  BY <1>1, <1>2, <1>3 DEF ValueStep, GivesValue, Return
<1>4. CASE GoOn(Threatened(f, ret)) /\ UNCHANGED ret
  BY <1>1, <1>4, ThreatenedValues
<1>5. CASE Return(IF IsMateScore(ret) THEN f.beta ELSE ret)
  <2>1. ~IsMateScore(ret) => Ordinary(ret)
    BY <1>2, ScoreAssumption DEF IsMateScore, Ordinary, MateThreshold
  <2> QED
    BY <1>1, <1>2, <1>5, <2>1 DEF ValueStep, GivesValue, Return
<1> QED
  BY <1>3, <1>4, <1>5 DEF VerifyReturns

LEMMA RazorNodeValues ==
  ASSUME BoardInv, ValueSound, RazorNode(Top)
  PROVE  ValueStep
<1> DEFINE f == Top
           g == [f EXCEPT !.at = "razored"]
           h == [f EXCEPT !.at = "single"]
           callee == CallQ(f.ply, f.alpha, f.alpha + 1, FALSE)
<1>1. stack # <<>> /\ f.fn = "search" /\ f.at # "entry" /\ aborted' = aborted /\ table' = table /\ ret' = ret
  BY TopEntry DEF RazorNode
<1>2. /\ SearchValues(f) /\ ValueOK(f) /\ CallFields \cup SearchFields \cup NodeFields \subseteq DOMAIN f
      /\ f.ply \in Int /\ 1 <= f.ply /\ f.ply < MaxPly /\ TableOK(table) /\ ret \in Int /\ f.alpha \in Int
  BY <1>1, NodeValues
<1>3. /\ h.at = "single" /\ h.fn = "search" /\ h.ply = f.ply /\ h.alpha = f.alpha /\ h.beta = f.beta
      /\ h.depth = f.depth /\ h.alpha_orig = f.alpha_orig /\ h.best = f.best /\ h.extension = f.extension
      /\ h.entry = f.entry /\ h.played = f.played /\ h.ev = f.ev
      /\ g.at = "razored" /\ g.fn = "search" /\ g.ply = f.ply /\ g.alpha = f.alpha /\ g.beta = f.beta
      /\ g.depth = f.depth /\ g.alpha_orig = f.alpha_orig /\ g.best = f.best /\ g.extension = f.extension
      /\ g.entry = f.entry /\ g.played = f.played /\ g.ev = f.ev
  BY <1>1, <1>2 DEF CallFields, SearchFields, NodeFields
<1>4. (Razor(f) /\ CallFrom(g, callee)) \/ GoOn(h)
  BY DEF RazorNode
<1> HIDE DEF g, h
<1>5. f.extension \in Int
  BY <1>1, <1>2 DEF SearchValues
<1>6. CASE GoOn(h)
  <2>1. ValueOK(h) /\ PromisesNoLess(h)
    BY <1>1, <1>2, <1>3, <1>5, SameValues DEF AfterMove
  <2> QED
    BY <1>1, <1>2, <1>3, <1>6, <2>1 DEF ValueStep, KeepsValue, Waiting, Making, AfterMove
<1>7. CASE Razor(f) /\ CallFrom(g, callee)
  <2>1. Ordinary(f.alpha)
    BY <1>2, <1>7, ScoreAssumption DEF Razor, MayPruneNode, OrdinaryWindow, IsMateScore, Ordinary, MateThreshold
  <2>2. ValueOK(g) /\ PromisesNoLess(g)
    BY <1>1, <1>2, <1>3, <1>5, SameValues DEF AfterMove
  <2>3. /\ callee.fn = "qsearch" /\ callee.at = "entry" /\ callee.alpha = f.alpha /\ callee.beta = f.alpha + 1
        /\ callee.ply = f.ply
    BY DEF CallQ
  <2> HIDE DEF callee
  <2>4. ValueOK(callee)
    BY <1>2, <2>1, <2>3, ScoreAssumption DEF ValueOK, QSearchValues, Ordinary, MateThreshold
  <2>5. ASSUME NEW v \in Int, Promises(callee, v) PROVE Awaits(g, v)
    <3>1. v >= Least(MatedIn(f.ply), f.alpha + 1)
      BY <2>3, <2>5 DEF Promises
    <3>2. v >= MatedIn(f.ply)
      BY <1>2, <2>1, <3>1, ScoreAssumption DEF Least, Ordinary, MateThreshold, MatedIn
    <3> QED
      BY <1>3, <3>2 DEF Awaits, AfterMove
  <2>6. callee.at \notin Waiting
    BY <2>3 DEF Waiting, Making, AfterMove
  <2> QED
    BY <1>1, <1>2, <1>7, <2>2, <2>4, <2>5, <2>6 DEF ValueStep, AsksValue
<1> QED
  BY <1>4, <1>6, <1>7

LEMMA RazorReturnsValues ==
  ASSUME BoardInv, ValueSound, RazorReturns(Top)
  PROVE  ValueStep
<1> DEFINE f == Top
           h == [f EXCEPT !.at = "single"]
<1>1. stack # <<>> /\ f.fn = "search" /\ f.at = "razored" /\ aborted' = aborted /\ table' = table
  BY TopEntry DEF RazorReturns
<1>2. /\ SearchValues(f) /\ ValueOK(f) /\ CallFields \cup SearchFields \cup NodeFields \subseteq DOMAIN f
      /\ f.ply \in Int /\ 1 <= f.ply /\ f.ply < MaxPly /\ TableOK(table) /\ ret \in Int /\ f.alpha \in Int
      /\ (~aborted /\ f.at \in Waiting => Awaits(f, ret))
      /\ \A v \in Int : v >= MatedIn(f.ply) /\ v <= MateIn(f.ply) => Promises(f, v)
  BY <1>1, NodeValues
<1>3. CASE ret < f.alpha /\ Return(ret)
  <2>1. CASE aborted
    BY <1>1, <1>2, <1>3, <2>1 DEF ValueStep, GivesValue, Return
  <2>2. CASE ~aborted
    <3>1. ret >= MatedIn(f.ply)
      BY <1>1, <1>2, <2>2 DEF Awaits, Waiting
    <3>2. ret <= MateIn(f.ply)
      BY <1>1, <1>2, <1>3, ScoreAssumption DEF SearchValues, MateIn
    <3> QED
      BY <1>1, <1>2, <1>3, <3>1, <3>2 DEF ValueStep, GivesValue, Return
  <2> QED
    BY <2>1, <2>2
<1>4. CASE GoOn(h) /\ UNCHANGED ret
  <2>1. /\ h.at = "single" /\ h.fn = "search" /\ h.ply = f.ply /\ h.alpha = f.alpha /\ h.beta = f.beta
        /\ h.depth = f.depth /\ h.alpha_orig = f.alpha_orig /\ h.best = f.best /\ h.extension = f.extension
        /\ h.entry = f.entry /\ h.played = f.played /\ h.ev = f.ev
    BY <1>1, <1>2 DEF CallFields, SearchFields, NodeFields
  <2> HIDE DEF h
  <2>2. f.extension \in Int
    BY <1>1, <1>2 DEF SearchValues
  <2>3. ValueOK(h) /\ PromisesNoLess(h)
    BY <1>1, <1>2, <2>1, <2>2, SameValues DEF AfterMove
  <2> QED
    BY <1>1, <1>2, <1>4, <2>1, <2>3 DEF ValueStep, KeepsValue, Waiting, Making, AfterMove
<1> QED
  BY <1>3, <1>4 DEF RazorReturns

LEMMA SquareIsNatural ==
  ASSUME NEW a \in Nat
  PROVE  a * a \in Nat
BY SMT

(* The window of a singular test lies below the table's score, which is    *)
(* none of a mate.                                                         *)
LEMMA SingularWindow ==
  ASSUME NEW f, f.depth \in Int, f.entry.score \in Int, NEW reliable, MaySingular(f, f.entry, reliable)
  PROVE  /\ SingularBeta(f, f.entry) \in Int /\ SingularBeta(f, f.entry) <= MateThreshold
         /\ SingularDepth(f) \in Int
<1>1. f.depth \in Nat /\ f.entry.score <= MateThreshold
  BY ScoreAssumption DEF MaySingular, IsMateScore, MateThreshold
<1>2. (f.depth * f.depth) \div 12 \in Nat
  <2> DEFINE square == f.depth * f.depth
  <2>1. square \in Nat
    BY <1>1, SquareIsNatural
  <2> HIDE DEF square
  <2>2. square \div 12 \in Nat
    BY <2>1
  <2> QED
    BY <2>2 DEF square
<1>3. (126 * f.depth) \div 55 \in Nat
  BY <1>1
<1>4. SingularDepth(f) \in Int
  BY <1>1 DEF SingularDepth, Most
<1> DEFINE a == (f.depth * f.depth) \div 12
           b == (126 * f.depth) \div 55
<1>5. SingularBeta(f, f.entry) = f.entry.score - (IF f.pv THEN a ELSE b)
  BY DEF SingularBeta
<1> HIDE DEF a, b
<1>6. a \in Nat /\ b \in Nat
  BY <1>2, <1>3 DEF a, b
<1> QED
  BY <1>1, <1>4, <1>5, <1>6, ScoreAssumption DEF MateThreshold

LEMMA WithMovesValues ==
  ASSUME BoardInv, ValueSound, stack # <<>>, Top.fn = "search", Top.at # "entry",
         NEW extension \in Int, GoOn(WithMoves(Top, extension)), ret' = ret, table' = table, aborted' = aborted
  PROVE  ValueStep
<1> DEFINE f == Top
           h == WithMoves(f, extension)
<1>1. /\ SearchValues(f) /\ ValueOK(f) /\ CallFields \cup SearchFields \cup NodeFields \subseteq DOMAIN f
      /\ TableOK(table)
  BY NodeValues
<1>2. /\ h.at = "moves" /\ h.fn = "search" /\ h.ply = f.ply /\ h.alpha = f.alpha /\ h.beta = f.beta
      /\ h.depth = f.depth /\ h.alpha_orig = f.alpha_orig /\ h.best = f.best /\ h.extension = extension
      /\ h.entry = f.entry /\ h.played = f.played /\ h.ev = f.ev /\ GoOn(h)
  BY <1>1 DEF CallFields, SearchFields, NodeFields, WithMoves, Extended
<1> HIDE DEF h
<1>3. ValueOK(h) /\ PromisesNoLess(h)
  BY <1>1, <1>2, SameValues DEF AfterMove
<1> QED
  BY <1>1, <1>2, <1>3 DEF ValueStep, KeepsValue, Waiting, Making, AfterMove

LEMMA SingularTestValues ==
  ASSUME BoardInv, ValueSound, SingularTest(Top)
  PROVE  ValueStep
<1> DEFINE f == Top
           g == [f EXCEPT !.at = "singular"]
           sbeta == SingularBeta(f, f.entry)
           callee == CallSingular(f.ply, SingularDepth(f), sbeta - 1, sbeta, f.entry.move, f.cut)
<1>1. stack # <<>> /\ f.fn = "search" /\ f.at # "entry" /\ aborted' = aborted /\ table' = table /\ ret' = ret
  BY TopEntry DEF SingularTest
<1>2. /\ SearchValues(f) /\ ValueOK(f) /\ CallFields \cup SearchFields \cup NodeFields \subseteq DOMAIN f
      /\ f.ply \in Int /\ 1 <= f.ply /\ f.ply < MaxPly /\ TableOK(table)
  BY <1>1, NodeValues
<1>3. CASE GoOn(WithMoves(f, 0))
  BY <1>1, <1>3, WithMovesValues
<1>4. CASE MaySingular(f, f.entry, Reliable(f.depth)) /\ CallFrom(g, callee)
  <2>1. /\ g.at = "singular" /\ g.fn = "search" /\ g.ply = f.ply /\ g.alpha = f.alpha /\ g.beta = f.beta
        /\ g.depth = f.depth /\ g.alpha_orig = f.alpha_orig /\ g.best = f.best /\ g.extension = f.extension
        /\ g.entry = f.entry /\ g.played = f.played /\ g.ev = f.ev
    BY <1>1, <1>2 DEF CallFields, SearchFields, NodeFields
  <2>2. f.extension \in Int /\ f.depth \in Int /\ f.entry.score \in Int
    BY <1>1, <1>2 DEF SearchValues
  <2>3. sbeta \in Int /\ sbeta <= MateThreshold /\ SingularDepth(f) \in Int
    BY <1>4, <2>2, SingularWindow
  <2>4. /\ callee.fn = "singular" /\ callee.at = "entry" /\ callee.alpha = sbeta - 1 /\ callee.beta = sbeta
        /\ callee.ply = f.ply /\ callee.depth = SingularDepth(f)
    BY DEF CallSingular
  <2> HIDE DEF g, callee, sbeta
  <2>5. ValueOK(g) /\ PromisesNoLess(g)
    BY <1>1, <1>2, <2>1, <2>2, SameValues DEF AfterMove
  <2>6. ValueOK(callee)
    BY <1>2, <2>3, <2>4, ScoreAssumption DEF ValueOK, SingularValues, MateThreshold, MateIn
  <2>7. ASSUME NEW v \in Int, Promises(callee, v) PROVE Awaits(g, v)
    BY <2>1, <2>4, <2>7 DEF Promises, Awaits, AfterMove
  <2>8. callee.at \notin Waiting
    BY <2>4 DEF Waiting, Making, AfterMove
  <2> QED
    BY <1>1, <1>2, <1>4, <2>5, <2>6, <2>7, <2>8 DEF ValueStep, AsksValue
<1> QED
  BY <1>3, <1>4 DEF SingularTest

LEMMA SingularReturnsValues ==
  ASSUME BoardInv, ValueSound, SingularReturns(Top)
  PROVE  ValueStep
<1> DEFINE f == Top
<1>1. stack # <<>> /\ f.fn = "search" /\ f.at = "singular" /\ aborted' = aborted /\ table' = table
  BY TopEntry DEF SingularReturns
<1>2. /\ SearchValues(f) /\ f.ply \in Int /\ 1 <= f.ply /\ f.ply < MaxPly /\ TableOK(table) /\ ret \in Int
      /\ f.alpha \in Int /\ f.beta \in Int
      /\ (~aborted /\ f.at \in Waiting => Awaits(f, ret))
      /\ \A v \in Int : v >= MatedIn(f.ply) /\ v <= MateIn(f.ply) => Promises(f, v)
  BY <1>1, NodeValues
<1>3. CASE aborted /\ Return(f.alpha)
  BY <1>1, <1>2, <1>3 DEF ValueStep, GivesValue, Return
<1>4. ASSUME NEW extension \in {0, -2}, GoOn(WithMoves(f, extension)), UNCHANGED ret PROVE ValueStep
  BY <1>1, <1>4, WithMovesValues
<1>5. CASE ~aborted /\ ret > f.beta /\ Return(ret)
  <2>1. ret <= MateIn(f.ply)
    BY <1>1, <1>2, <1>5 DEF Awaits, Waiting
  <2>2. ret >= MatedIn(f.ply)
    BY <1>1, <1>2, <1>5, ScoreAssumption DEF SearchValues, MatedIn
  <2> QED
    BY <1>1, <1>2, <1>5, <2>1, <2>2 DEF ValueStep, GivesValue, Return
<1> QED
  BY <1>3, <1>4, <1>5 DEF SingularReturns

(* A move is searched in a window that mate-distance pruning left open.    *)
LEMMA ChildValues ==
  ASSUME BoardInv, ValueSound, stack # <<>>, Top.fn = "search", Top.at # "entry",
         ret' = ret, table' = table, aborted' = aborted, NEW g, NEW callee, CallFrom(g, callee),
         g.fn = "search", g.at \in AfterMove, g.ply = Top.ply, g.alpha = Top.alpha, g.beta = Top.beta,
         g.depth = Top.depth, g.alpha_orig = Top.alpha_orig, g.best = Top.best, g.extension = Top.extension,
         g.entry = Top.entry, g.played = Top.played, g.ev = Top.ev, g.new_depth \in Int,
         callee.fn = "search", callee.at = "entry", callee.ply = Top.ply + 1, callee.depth \in Int,
         callee.alpha \in {-Top.beta, -Top.alpha - 1}, callee.beta \in Int
  PROVE  ValueStep
<1> DEFINE f == Top
<1>1. /\ SearchValues(f) /\ ValueOK(f) /\ f.ply \in Int /\ 1 <= f.ply /\ f.ply < MaxPly /\ TableOK(table)
      /\ f.alpha \in Int /\ f.beta \in Int
  BY NodeValues
<1>2. f.extension \in Int /\ f.beta > MatedIn(f.ply) /\ f.alpha >= MatedIn(f.ply)
  BY <1>1, ScoreAssumption DEF SearchValues, MatedIn
<1>3. g.at # "entry"
  BY DEF AfterMove
<1>4. ValueOK(g) /\ PromisesNoLess(g)
  BY <1>1, <1>2, <1>3, SameValues
<1>5. ValueOK(callee)
  BY <1>1 DEF ValueOK, SearchValues, AfterMove
<1>6. ASSUME NEW v \in Int, Promises(callee, v) PROVE Awaits(g, v)
  <2>1. v >= MatedIn(f.ply + 1) /\ v <= Most(MateIn(f.ply + 1), callee.alpha)
    BY <1>6 DEF Promises
  <2>2. v <= MateIn(f.ply)
    BY <1>1, <1>2, <2>1, ScoreAssumption DEF Most, MateIn, MatedIn
  <2> QED
    BY <2>1, <2>2 DEF Awaits, AfterMove
<1>7. callee.at \notin Waiting
  BY DEF Waiting, Making, AfterMove
<1> QED
  BY <1>1, <1>4, <1>5, <1>6, <1>7 DEF ValueStep, AsksValue

LEMMA NextMoveValues ==
  ASSUME BoardInv, ValueSound, NextMove(Top)
  PROVE  ValueStep
<1> DEFINE f == Top
           Rest(i, m) == [f EXCEPT !.todo[i] = @ \ {m}]
<1>1. stack # <<>> /\ f.fn = "search" /\ f.at = "moves" /\ aborted' = aborted /\ table' = table /\ ret' = ret
  BY TopEntry DEF NextMove
<1>2. /\ SearchValues(f) /\ ValueOK(f) /\ CallFields \cup SearchFields \cup NodeFields \subseteq DOMAIN f
      /\ f.ply \in Int /\ TableOK(table)
  BY <1>1, NodeValues
<1>3. PICK i, m : MakeMove(Rest(i, m), m) \/ GoOn([Rest(i, m) EXCEPT !.pruned = @ + 1])
  BY DEF NextMove
<1> DEFINE rest == Rest(i, m)
<1>4. /\ rest.at = "moves" /\ rest.fn = "search" /\ rest.ply = f.ply /\ rest.alpha = f.alpha /\ rest.beta = f.beta
      /\ rest.depth = f.depth /\ rest.alpha_orig = f.alpha_orig /\ rest.best = f.best /\ rest.extension = f.extension
      /\ rest.entry = f.entry /\ rest.played = f.played /\ rest.ev = f.ev /\ rest.pruned = f.pruned
      /\ DOMAIN rest = DOMAIN f
  BY <1>1, <1>2 DEF CallFields, SearchFields, NodeFields
<1>5. MakeMove(rest, m) \/ GoOn([rest EXCEPT !.pruned = @ + 1])
  BY <1>3
<1> HIDE DEF Rest, rest
<1>6. f.extension \in Int /\ f.alpha \in Int /\ f.beta \in Int /\ f.depth \in Int
  BY <1>1, <1>2 DEF SearchValues
<1>7. CASE GoOn([rest EXCEPT !.pruned = @ + 1])
  <2> DEFINE h == [rest EXCEPT !.pruned = @ + 1]
  <2>1. /\ h.at = "moves" /\ h.fn = "search" /\ h.ply = f.ply /\ h.alpha = f.alpha /\ h.beta = f.beta
        /\ h.depth = f.depth /\ h.alpha_orig = f.alpha_orig /\ h.best = f.best /\ h.extension = f.extension
        /\ h.entry = f.entry /\ h.played = f.played /\ h.ev = f.ev /\ GoOn(h)
    BY <1>2, <1>4, <1>7 DEF CallFields, SearchFields, NodeFields
  <2> HIDE DEF h
  <2>2. ValueOK(h) /\ PromisesNoLess(h)
    BY <1>1, <1>2, <1>6, <2>1, SameValues DEF AfterMove
  <2> QED
    BY <1>1, <1>2, <2>1, <2>2 DEF ValueStep, KeepsValue, Waiting, Making, AfterMove
<1>8. CASE MakeMove(rest, m)
  <2> DEFINE extension == Extension(rest, m)
             depth == rest.depth - 1 + extension
             made == [move |-> m, quiet |-> m \in Quiets(game, Pos), new_depth |-> depth]
             Made(at, r) == Extended(Extended(rest, made), [at |-> at, reduction |-> r])
             full == Call(rest.ply + 1, depth, -rest.beta, -rest.alpha, rest.pv, FALSE, rest.sme)
             Scout(r) == Call(rest.ply + 1, depth - r, -rest.alpha - 1, -rest.alpha, FALSE, TRUE, rest.sme)
  <2>1. extension \in Int
    BY <1>4, <1>6 DEF Extension
  <2>2. depth \in Int
    BY <1>4, <1>6, <2>1
  <2>3. \/ CallFrom(Made("scored", 0), full)
        \/ \E r \in Int : CallFrom(Made("scout", r), Scout(r))
    <3>1. \A x, y : Reductions(x, y) \subseteq 1 .. y - 1
      BY DEF Reductions
    <3>2. Reductions(rest, depth) \subseteq Int
      <4>1. Reductions(rest, depth) \subseteq 1 .. depth - 1
        BY <3>1
      <4> QED
        BY <2>2, <4>1
    <3>3. \/ CallFrom(Made("scored", 0), full)
          \/ \E r \in Reductions(rest, depth) \cup {0} : CallFrom(Made("scout", r), Scout(r))
      BY <1>8 DEF MakeMove
    <3> HIDE DEF Made, full, Scout, depth
    <3>4. ASSUME NEW r \in Reductions(rest, depth) \cup {0}, CallFrom(Made("scout", r), Scout(r))
          PROVE  \E s \in Int : CallFrom(Made("scout", s), Scout(s))
      <4>1. r \in Int
        BY <3>2
      <4> QED
        BY <3>4, <4>1
    <3> QED
      BY <3>3, <3>4
  <2>4. \A at, r : /\ Made(at, r).at = at /\ Made(at, r).fn = "search" /\ Made(at, r).ply = f.ply
                   /\ Made(at, r).alpha = f.alpha /\ Made(at, r).beta = f.beta /\ Made(at, r).depth = f.depth
                   /\ Made(at, r).alpha_orig = f.alpha_orig /\ Made(at, r).best = f.best
                   /\ Made(at, r).extension = f.extension /\ Made(at, r).entry = f.entry
                   /\ Made(at, r).played = f.played /\ Made(at, r).ev = f.ev /\ Made(at, r).new_depth = depth
    BY <1>2, <1>4 DEF CallFields, SearchFields, NodeFields, Extended
  <2>5. /\ full.fn = "search" /\ full.at = "entry" /\ full.ply = f.ply + 1 /\ full.depth = depth
        /\ full.alpha = -f.beta /\ full.beta = -f.alpha
    BY <1>4 DEF Call
  <2>6. \A r : /\ Scout(r).fn = "search" /\ Scout(r).at = "entry" /\ Scout(r).ply = f.ply + 1
               /\ Scout(r).depth = depth - r /\ Scout(r).alpha = -f.alpha - 1 /\ Scout(r).beta = -f.alpha
    BY <1>4 DEF Call
  <2> HIDE DEF Made, full, Scout, depth
  <2>7. "scored" \in AfterMove /\ "scout" \in AfterMove
    BY DEF AfterMove
  <2>8. CASE CallFrom(Made("scored", 0), full)
    <3> DEFINE g == Made("scored", 0)
    <3>1. CallFrom(g, full) /\ g.at \in AfterMove /\ g.fn = "search" /\ g.ply = f.ply
          /\ g.alpha = f.alpha /\ g.beta = f.beta /\ g.depth = f.depth
          /\ g.alpha_orig = f.alpha_orig /\ g.best = f.best /\ g.extension = f.extension /\ g.entry = f.entry
          /\ g.played = f.played /\ g.ev = f.ev /\ g.new_depth \in Int
      BY <2>2, <2>4, <2>7, <2>8
    <3> HIDE DEF g
    <3> QED
      BY <1>1, <1>6, <2>2, <2>5, <3>1, ChildValues
  <2>9. ASSUME NEW r \in Int, CallFrom(Made("scout", r), Scout(r)) PROVE ValueStep
    <3> DEFINE g == Made("scout", r)
               callee == Scout(r)
    <3>1. CallFrom(g, callee) /\ g.at \in AfterMove /\ g.fn = "search" /\ g.ply = f.ply
          /\ g.alpha = f.alpha /\ g.beta = f.beta /\ g.depth = f.depth
          /\ g.alpha_orig = f.alpha_orig /\ g.best = f.best /\ g.extension = f.extension /\ g.entry = f.entry
          /\ g.played = f.played /\ g.ev = f.ev /\ g.new_depth \in Int
      BY <2>2, <2>4, <2>7, <2>9
    <3>2. /\ callee.fn = "search" /\ callee.at = "entry" /\ callee.ply = f.ply + 1
          /\ callee.depth \in Int /\ callee.alpha = -f.alpha - 1 /\ callee.beta = -f.alpha
      BY <2>2, <2>6, <2>9
    <3> HIDE DEF g, callee
    <3> QED
      BY <1>1, <1>6, <3>1, <3>2, ChildValues
  <2> QED
    BY <2>3, <2>8, <2>9
<1> QED
  BY <1>5, <1>7, <1>8

LEMMA SearchAgainValues ==
  ASSUME BoardInv, ValueSound, SearchAgain(Top)
  PROVE  ValueStep
<1> DEFINE f == Top
           Again(at) == [f EXCEPT !.at = at]
           deep == Call(f.ply + 1, f.new_depth, -f.alpha - 1, -f.alpha, FALSE, ~f.cut, f.sme)
           wide == Call(f.ply + 1, f.new_depth, -f.beta, -f.alpha, TRUE, FALSE, f.sme)
<1>1. /\ stack # <<>> /\ f.fn = "search" /\ f.at \in AfterMove /\ f.at # "entry"
      /\ aborted' = aborted /\ table' = table /\ ret' = ret
  BY TopEntry DEF SearchAgain, NeedsDepth, NeedsWindow, AfterMove
<1>2. /\ SearchValues(f) /\ CallFields \cup SearchFields \cup NodeFields \subseteq DOMAIN f /\ f.ply \in Int
      /\ f.alpha \in Int /\ f.beta \in Int
  BY <1>1, NodeValues
<1>3. f.new_depth \in Int /\ "new_depth" \in DOMAIN f
  BY <1>1, <1>2, TopNode DEF SearchValues, CallOK, SearchOK
<1>4. \A at : /\ Again(at).at = at /\ Again(at).fn = "search" /\ Again(at).ply = f.ply
              /\ Again(at).alpha = f.alpha /\ Again(at).beta = f.beta /\ Again(at).depth = f.depth
              /\ Again(at).alpha_orig = f.alpha_orig /\ Again(at).best = f.best
              /\ Again(at).extension = f.extension /\ Again(at).entry = f.entry
              /\ Again(at).played = f.played /\ Again(at).ev = f.ev /\ Again(at).new_depth = f.new_depth
  BY <1>1, <1>2, <1>3 DEF CallFields, SearchFields, NodeFields
<1>5. /\ deep.fn = "search" /\ deep.at = "entry" /\ deep.ply = f.ply + 1 /\ deep.depth = f.new_depth
      /\ deep.alpha = -f.alpha - 1 /\ deep.beta = -f.alpha
      /\ wide.fn = "search" /\ wide.at = "entry" /\ wide.ply = f.ply + 1 /\ wide.depth = f.new_depth
      /\ wide.alpha = -f.beta /\ wide.beta = -f.alpha
  BY DEF Call
<1>6. CallFrom(Again("again"), deep) \/ CallFrom(Again("scored"), wide)
  BY DEF SearchAgain
<1> HIDE DEF Again, deep, wide
<1>7. ASSUME NEW at \in AfterMove, NEW callee \in {deep, wide}, CallFrom(Again(at), callee) PROVE ValueStep
  <2> DEFINE g == Again(at)
  <2>1. CallFrom(g, callee) /\ g.at \in AfterMove /\ g.fn = "search" /\ g.ply = f.ply
        /\ g.alpha = f.alpha /\ g.beta = f.beta /\ g.depth = f.depth
        /\ g.alpha_orig = f.alpha_orig /\ g.best = f.best /\ g.extension = f.extension /\ g.entry = f.entry
        /\ g.played = f.played /\ g.ev = f.ev /\ g.new_depth \in Int
    BY <1>3, <1>4, <1>7
  <2>2. /\ callee.fn = "search" /\ callee.at = "entry" /\ callee.ply = f.ply + 1 /\ callee.depth \in Int
        /\ callee.alpha \in {-f.beta, -f.alpha - 1} /\ callee.beta \in Int
    BY <1>2, <1>3, <1>5
  <2> HIDE DEF g
  <2> QED
    BY <1>1, <2>1, <2>2, ChildValues
<1> QED
  BY <1>6, <1>7 DEF AfterMove

LEMMA MoveReturnsValues ==
  ASSUME BoardInv, ValueSound, MoveReturns(Top)
  PROVE  ValueStep
<1> DEFINE f == Top
           score == -ret
           counted == [f EXCEPT !.at = "moves", !.played = @ + 1]
           better == [counted EXCEPT !.best = score, !.best_move = f.move, !.alpha = Most(@, score)]
<1>1. stack # <<>> /\ f.fn = "search" /\ f.at \in AfterMove /\ f.at # "entry" /\ aborted' = aborted
  BY TopEntry DEF MoveReturns, AfterMove
<1>2. /\ SearchValues(f) /\ CallFields \cup SearchFields \cup NodeFields \subseteq DOMAIN f
      /\ f.ply \in Int /\ 1 <= f.ply /\ f.ply < MaxPly /\ f.ply \in 1 .. MaxPly /\ TableOK(table) /\ ret \in Int
      /\ f.alpha \in Int /\ f.beta \in Int
      /\ (~aborted /\ f.at \in Waiting => Awaits(f, ret))
      /\ \A v \in Int : v >= MatedIn(f.ply) /\ v <= MateIn(f.ply) => Promises(f, v)
  BY <1>1, NodeValues
<1>3. CASE aborted /\ Return(f.alpha) /\ UNCHANGED table
  BY <1>1, <1>2, <1>3 DEF ValueStep, GivesValue, Return
<1>4. ASSUME ~aborted
      PROVE  score \in Int /\ score >= MatedIn(f.ply) /\ score <= MateIn(f.ply + 1) /\ score <= MateIn(f.ply)
  <2>1. ret >= MatedIn(f.ply + 1) /\ ret <= MateIn(f.ply)
    BY <1>1, <1>2, <1>4 DEF Awaits, Waiting, Making
  <2> QED
    BY <1>2, <2>1, ScoreAssumption DEF MatedIn, MateIn
<1>5. /\ counted.at = "moves" /\ counted.fn = "search" /\ counted.ply = f.ply /\ counted.alpha = f.alpha
      /\ counted.beta = f.beta /\ counted.depth = f.depth /\ counted.alpha_orig = f.alpha_orig
      /\ counted.best = f.best /\ counted.extension = f.extension /\ counted.entry = f.entry
      /\ counted.played = f.played + 1 /\ counted.ev = f.ev
      /\ better.at = "moves" /\ better.fn = "search" /\ better.ply = f.ply /\ better.alpha = Most(f.alpha, score)
      /\ better.beta = f.beta /\ better.depth = f.depth /\ better.alpha_orig = f.alpha_orig
      /\ better.best = score /\ better.extension = f.extension /\ better.entry = f.entry
      /\ better.played = f.played + 1 /\ better.ev = f.ev
  BY <1>1, <1>2 DEF CallFields, SearchFields, NodeFields
<1>6. \/ aborted /\ Return(f.alpha) /\ UNCHANGED table
      \/ ~aborted /\ score <= f.best /\ GoOn(counted) /\ UNCHANGED <<ret, table>>
      \/ ~aborted /\ score > f.best /\ Most(f.alpha, score) < f.beta /\ GoOn(better) /\ UNCHANGED <<ret, table>>
      \/ ~aborted /\ StoreNode(f, Here(game, Front(line)), score, f.move) /\ Return(score)
  BY DEF MoveReturns
<1> HIDE DEF score, counted, better
<1>11. /\ f.depth \in Int /\ f.alpha_orig \in Int /\ f.best \in Int /\ f.extension \in Int /\ f.entry.score \in Int
       /\ f.played \in Nat /\ MatedIn(f.ply) <= f.alpha_orig /\ f.alpha_orig <= f.alpha
       /\ f.alpha < f.beta /\ f.beta <= MateIn(f.ply + 1)
       /\ (f.best = ScoreMin \/ MatedIn(f.ply) <= f.best) /\ f.best < f.beta
       /\ (f.ev = ScoreMin \/ Ordinary(f.ev))
  BY <1>1, <1>2 DEF SearchValues
<1>12. MatedIn(f.ply) \in Int /\ ScoreMin \in Int /\ ScoreMin < MatedIn(f.ply)
  BY <1>2, ScoreAssumption DEF MatedIn, ScoreMin
<1>7. ASSUME NEW g, GoOn(g), ret' = ret, table' = table,
             SearchValues(g), g.fn = "search", g.at = "moves", g.ply = f.ply
      PROVE  ValueStep
  <2>1. PromisesNoLess(g)
    BY <1>1, <1>7 DEF PromisesNoLess, Promises
  <2>2. ValueOK(g)
    BY <1>7 DEF ValueOK
  <2>3. g.at \notin Waiting
    BY <1>7 DEF Waiting, Making, AfterMove
  <2>4. KeepsValue
    BY <1>1, <1>7, <2>1, <2>2, <2>3 DEF KeepsValue
  <2> QED
    BY <1>1, <1>2, <1>7, <2>4 DEF ValueStep
<1>8. CASE ~aborted /\ score <= f.best /\ GoOn(counted) /\ UNCHANGED <<ret, table>>
  <2>1. SearchValues(counted)
    <3>1. counted.best # ScoreMin /\ counted.played \in Nat \ {0}
      BY <1>4, <1>5, <1>8, <1>11, <1>12
    <3> QED
      BY <1>2, <1>5, <1>11, <3>1 DEF SearchValues, AfterMove
  <2>2. /\ GoOn(counted) /\ ret' = ret /\ table' = table
        /\ counted.fn = "search" /\ counted.at = "moves" /\ counted.ply = f.ply
    BY <1>5, <1>8
  <2> QED
    BY <1>7, <2>1, <2>2
<1>9. CASE ~aborted /\ score > f.best /\ Most(f.alpha, score) < f.beta /\ GoOn(better) /\ UNCHANGED <<ret, table>>
  <2>1. SearchValues(better)
    <3>1. better.best # ScoreMin /\ better.played \in Nat \ {0} /\ better.best \in Int
          /\ MatedIn(better.ply) <= better.best
      BY <1>4, <1>5, <1>9, <1>11, <1>12
    <3>2. /\ better.alpha \in Int /\ f.alpha <= better.alpha /\ better.alpha < f.beta /\ score < f.beta
      BY <1>2, <1>4, <1>5, <1>9, <1>11 DEF Most
    <3> QED
      BY <1>2, <1>5, <1>9, <1>11, <3>1, <3>2 DEF SearchValues, AfterMove
  <2>2. /\ GoOn(better) /\ ret' = ret /\ table' = table
        /\ better.fn = "search" /\ better.at = "moves" /\ better.ply = f.ply
    BY <1>5, <1>9
  <2> QED
    BY <1>7, <2>1, <2>2
<1>10. CASE ~aborted /\ StoreNode(f, Here(game, Front(line)), score, f.move) /\ Return(score)
  <2>1. TableOK(table')
    BY <1>2, <1>4, <1>10, StoreFacts DEF StoreNode
  <2> QED
    BY <1>1, <1>2, <1>4, <1>10, <2>1 DEF ValueStep, GivesValue, Return
<1> QED
  BY <1>3, <1>6, <1>8, <1>9, <1>10

LEMMA SearchEndsValues ==
  ASSUME BoardInv, ValueSound, SearchEnds(Top)
  PROVE  ValueStep
<1> DEFINE f == Top
<1>1. stack # <<>> /\ f.fn = "search" /\ f.at = "moves" /\ aborted' = aborted
  BY TopEntry DEF SearchEnds
<1>2. /\ SearchValues(f) /\ f.ply \in Int /\ 1 <= f.ply /\ f.ply < MaxPly /\ f.ply \in 1 .. MaxPly
      /\ TableOK(table) /\ f.alpha \in Int
      /\ \A v \in Int : v >= MatedIn(f.ply) /\ v <= MateIn(f.ply) => Promises(f, v)
  BY <1>1, NodeValues
<1>3. CASE aborted /\ Return(f.alpha) /\ UNCHANGED table
  BY <1>1, <1>2, <1>3 DEF ValueStep, GivesValue, Return
<1>4. CASE Return(IF f.checked THEN MatedIn(f.ply) ELSE 0) /\ UNCHANGED table
  <2>1. MatedIn(f.ply) \in Int /\ MatedIn(f.ply) <= 0 /\ MatedIn(f.ply) <= MateIn(f.ply) /\ 0 <= MateIn(f.ply)
    BY <1>2, ScoreAssumption DEF MatedIn, MateIn
  <2> QED
    BY <1>1, <1>2, <1>4, <2>1 DEF ValueStep, GivesValue, Return
<1>5. CASE f.played > 0 /\ StoreNode(f, Pos, f.best, f.best_move) /\ Return(f.best)
  <2>1. f.best \in Int /\ f.best >= MatedIn(f.ply) /\ f.best <= MateIn(f.ply)
    BY <1>1, <1>2, <1>5, ScoreAssumption DEF SearchValues, MateIn
  <2>2. TableOK(table')
    BY <1>2, <1>5, <2>1, StoreFacts DEF StoreNode
  <2> QED
    BY <1>1, <1>2, <1>5, <2>1, <2>2 DEF ValueStep, GivesValue, Return
<1> QED
  BY <1>3, <1>4, <1>5 DEF SearchEnds

(* The quiescence search.                                                  *)
LEMMA QNodeValues ==
  ASSUME BoardInv, ValueSound, stack # <<>>, Top.fn = "qsearch"
  PROVE  /\ QSearchValues(Top) /\ ValueOK(Top) /\ CallFields \subseteq DOMAIN Top
         /\ Top.at # "entry" =>
              {"alpha_orig", "checked", "best", "best_move", "played", "todo"} \subseteq DOMAIN Top
         /\ Top.ply \in Int /\ 1 <= Top.ply /\ Top.ply <= MaxPly /\ Top.ply \in 1 .. MaxPly
         /\ Top.at # "entry" => Top.ply < MaxPly
         /\ ret \in Int /\ TableOK(table) /\ Top.alpha \in Int /\ Top.beta \in Int
         /\ ~aborted /\ Top.at \in Waiting => Awaits(Top, ret)
         /\ \A v \in Int : v >= Least(MatedIn(Top.ply), Top.beta) /\ v <= Most(MateIn(Top.ply), EntryAlpha(Top))
                             => Promises(Top, v)
<1>1. /\ ValueOK(Top) /\ CallOK(Top) /\ Top.ply \in Int /\ 1 <= Top.ply /\ Top.ply <= MaxPly
      /\ ret \in Int /\ TableOK(table) /\ (~aborted /\ Top.at \in Waiting => Awaits(Top, ret))
  BY TopValues
<1>2. QSearchValues(Top) /\ Top.alpha \in Int /\ Top.beta \in Int
  BY <1>1 DEF ValueOK, QSearchValues
<1>3. /\ CallFields \subseteq DOMAIN Top /\ Top.ply \in 1 .. MaxPly /\ (Top.at # "entry" => Top.ply < MaxPly)
      /\ Top.at # "entry" =>
           {"alpha_orig", "checked", "best", "best_move", "played", "todo"} \subseteq DOMAIN Top
  BY <1>1 DEF CallOK, QSearchOK
<1>4. \A v \in Int : v >= Least(MatedIn(Top.ply), Top.beta) /\ v <= Most(MateIn(Top.ply), EntryAlpha(Top))
                             => Promises(Top, v)
  BY DEF Promises
<1> QED
  BY <1>1, <1>2, <1>3, <1>4

LEMMA EnterQSearchValues ==
  ASSUME BoardInv, ValueSound, EnterQSearch(Top)
  PROVE  ValueStep
<1> DEFINE f == Top
<1>1. stack # <<>> /\ f.fn = "qsearch" /\ f.at = "entry" /\ aborted' = aborted /\ table' = table
  BY TopEntry DEF EnterQSearch
<1>2. /\ QSearchValues(f) /\ CallFields \subseteq DOMAIN f /\ f.ply \in Int /\ 1 <= f.ply /\ f.ply <= MaxPly
      /\ f.ply \in 1 .. MaxPly /\ ret \in Int /\ TableOK(table) /\ f.alpha \in Int /\ f.beta \in Int
      /\ \A v \in Int : v >= Least(MatedIn(f.ply), f.beta) /\ v <= Most(MateIn(f.ply), EntryAlpha(f))
                          => Promises(f, v)
  BY <1>1, QNodeValues
<1>3. Pos \in DOMAIN game.to /\ game \in Games
  BY <1>1, TopNode DEF Making, AfterMove
<1>4. Ordinary(Evaluate(game, Pos)) /\ Ordinary(0)
  BY <1>3, EvaluationIsOrdinary, ScoreAssumption DEF Ordinary, MateThreshold
<1>5. EntryAlpha(f) = f.alpha /\ -MaxMate <= f.alpha /\ f.alpha < f.beta /\ f.beta <= MaxMate
  BY <1>1, <1>2 DEF EntryAlpha, QSearchValues
<1>6. ASSUME NEW v \in Int, v >= Least(MatedIn(f.ply), f.beta), v <= Most(MateIn(f.ply), f.alpha),
             stack' = Front(stack), ret' = v
      PROVE  ValueStep
  BY <1>1, <1>2, <1>5, <1>6 DEF ValueStep, GivesValue
<1>7. ASSUME NEW v, Ordinary(v), Return(v) PROVE ValueStep
  <2>1. v \in Int /\ v >= Least(MatedIn(f.ply), f.beta) /\ v <= Most(MateIn(f.ply), f.alpha)
    BY <1>2, <1>7, ScoreAssumption DEF Ordinary, MateThreshold, Least, Most, MatedIn, MateIn
  <2> QED
    BY <1>6, <1>7, <2>1 DEF Return
<1>8. ASSUME NEW entry \in Probe(NodeKey(Pos), f.ply), TableCutQ(f, entry), Return(entry.score) PROVE ValueStep
  <2>1. /\ entry.score \in Int
        /\ entry.flag \in {"LOWER", "EXACT"} => entry.score <= MateIn(f.ply)
        /\ entry.flag \in {"UPPER", "EXACT"} => entry.score >= MatedIn(f.ply)
    BY <1>2, <1>3, ProbeFacts
  <2>2. \/ entry.flag = "EXACT"
        \/ entry.flag = "LOWER" /\ entry.score >= f.beta
        \/ entry.flag = "UPPER" /\ entry.score <= f.alpha
    BY <1>8 DEF TableCutQ, Decides
  <2>3. entry.score >= Least(MatedIn(f.ply), f.beta) /\ entry.score <= Most(MateIn(f.ply), f.alpha)
    BY <1>2, <2>1, <2>2, ScoreAssumption DEF Least, Most, MatedIn, MateIn
  <2> QED
    BY <1>6, <1>8, <2>1, <2>3 DEF Return
<1>9. ASSUME NEW entry, ~StandsPat(f), GoOn(QNode(f, entry)), ret' = ret PROVE ValueStep
  <2> DEFINE g == QNode(f, entry)
             stand == IF InCheck(game, Pos) THEN ScoreMin ELSE Evaluate(game, Pos)
  <2>1. /\ GoOn(g) /\ g.fn = "qsearch" /\ g.at = "moves" /\ g.ply = f.ply /\ g.alpha_orig = f.alpha
        /\ g.beta = f.beta /\ g.alpha = Most(f.alpha, stand) /\ g.best = stand /\ g.played = 0
        /\ g.checked = InCheck(game, Pos)
    BY <1>1, <1>2, <1>9 DEF QNode, Extended, CallFields
  <2>2. \/ InCheck(game, Pos) /\ stand = ScoreMin
        \/ ~InCheck(game, Pos) /\ Ordinary(stand) /\ stand < f.beta
    <3>1. CASE InCheck(game, Pos)
      BY <3>1
    <3>2. CASE ~InCheck(game, Pos)
      <4>1. stand = Evaluate(game, Pos) /\ ~(Evaluate(game, Pos) >= f.beta)
        BY <1>9, <3>2 DEF StandsPat
      <4>2. Evaluate(game, Pos) \in Int
        BY <1>4, ScoreAssumption DEF Ordinary, MateThreshold
      <4> HIDE DEF stand
      <4> QED
        BY <1>2, <1>4, <3>2, <4>1, <4>2
    <3> QED
      BY <3>1, <3>2
  <2> HIDE DEF g, stand
  <2>3. QSearchValues(g)
    <3>1. /\ stand \in Int /\ (stand = ScoreMin <=> InCheck(game, Pos))
          /\ Most(f.alpha, stand) \in Int /\ f.alpha <= Most(f.alpha, stand) /\ Most(f.alpha, stand) < f.beta
          /\ Most(f.alpha, stand) <= Most(MateIn(f.ply), f.alpha) /\ stand <= Most(f.alpha, stand)
          /\ (stand = ScoreMin \/ stand >= Least(MatedIn(f.ply), f.beta))
      BY <1>2, <1>5, <2>2, ScoreAssumption DEF Ordinary, MateThreshold, ScoreMin, Least, Most, MatedIn, MateIn
    <3>2. g.best = ScoreMin <=> (g.checked /\ g.played = 0)
      <4>1. g.best = ScoreMin <=> InCheck(game, Pos)
        BY <2>1, <3>1
      <4> QED
        BY <2>1, <4>1, Zenon
    <3>3. /\ g.alpha \in Int /\ g.beta \in Int /\ -MaxMate <= g.alpha /\ g.alpha < g.beta /\ g.beta <= MaxMate
          /\ g.alpha_orig \in Int /\ g.best \in Int /\ g.played \in Nat
          /\ -MaxMate <= g.alpha_orig /\ g.alpha_orig <= g.alpha
          /\ g.alpha <= Most(MateIn(g.ply), g.alpha_orig) /\ g.best <= g.alpha
          /\ (g.best = ScoreMin \/ g.best >= Least(MatedIn(g.ply), g.beta))
      BY <1>2, <1>5, <2>1, <3>1, ScoreAssumption
    <3> QED
      BY <3>2, <3>3 DEF QSearchValues
  <2>4. PromisesNoLess(g)
    BY <1>1, <1>5, <2>1 DEF PromisesNoLess, Promises, EntryAlpha
  <2>5. ValueOK(g) /\ g.at \notin Waiting
    BY <2>1, <2>3 DEF ValueOK, Waiting, Making, AfterMove
  <2> QED
    BY <1>1, <1>2, <1>9, <2>1, <2>4, <2>5 DEF ValueStep, KeepsValue
<1> QED
  BY <1>4, <1>7, <1>8, <1>9 DEF EnterQSearch

LEMMA NextQMoveValues ==
  ASSUME BoardInv, ValueSound, NextQMove(Top)
  PROVE  ValueStep
<1> DEFINE f == Top
           Made(i, m) == Extended([f EXCEPT !.todo[i] = @ \ {m}], [at |-> "scored", move |-> m])
           callee == CallQ(f.ply + 1, -f.beta, -f.alpha, f.pv)
<1>1. stack # <<>> /\ f.fn = "qsearch" /\ f.at = "moves" /\ aborted' = aborted /\ table' = table /\ ret' = ret
  BY TopEntry DEF NextQMove
<1>2. /\ QSearchValues(f) /\ CallFields \subseteq DOMAIN f /\ f.ply \in Int /\ TableOK(table)
      /\ {"alpha_orig", "checked", "best", "best_move", "played", "todo"} \subseteq DOMAIN f
      /\ f.alpha \in Int /\ f.beta \in Int
  BY <1>1, QNodeValues
<1>3. PICK i, m : CallFrom(Made(i, m), callee)
  BY DEF NextQMove
<1> DEFINE g == Made(i, m)
<1>4. /\ CallFrom(g, callee) /\ g.fn = "qsearch" /\ g.at = "scored" /\ g.ply = f.ply /\ g.alpha = f.alpha
      /\ g.beta = f.beta /\ g.alpha_orig = f.alpha_orig /\ g.best = f.best /\ g.played = f.played
      /\ g.checked = f.checked
  BY <1>1, <1>2, <1>3 DEF CallFields, Extended
<1>5. /\ callee.fn = "qsearch" /\ callee.at = "entry" /\ callee.ply = f.ply + 1
      /\ callee.alpha = -f.beta /\ callee.beta = -f.alpha
  BY DEF CallQ
<1> HIDE DEF Made, g, callee
<1>6. QSearchValues(g)
  BY <1>1, <1>2, <1>4 DEF QSearchValues
<1>7. QSearchValues(callee)
  BY <1>2, <1>5, ScoreAssumption DEF QSearchValues
<1>8. PromisesNoLess(g)
  BY <1>1, <1>4 DEF PromisesNoLess, Promises, EntryAlpha
<1>9. \A v \in Int : Promises(callee, v) => Awaits(g, v)
  BY <1>4, <1>5 DEF Promises, Awaits, EntryAlpha
<1>10. ValueOK(g) /\ ValueOK(callee) /\ callee.at \notin Waiting
  BY <1>4, <1>5, <1>6, <1>7 DEF ValueOK, Waiting, Making, AfterMove
<1> QED
  BY <1>1, <1>2, <1>4, <1>8, <1>9, <1>10 DEF ValueStep, AsksValue

LEMMA QMoveReturnsValues ==
  ASSUME BoardInv, ValueSound, QMoveReturns(Top)
  PROVE  ValueStep
<1> DEFINE f == Top
           score == -ret
           counted == [f EXCEPT !.at = "moves", !.played = @ + 1]
           better == [counted EXCEPT !.best = score, !.best_move = f.move, !.alpha = Most(@, score)]
<1>1. stack # <<>> /\ f.fn = "qsearch" /\ f.at = "scored" /\ aborted' = aborted
  BY TopEntry DEF QMoveReturns
<1>2. /\ QSearchValues(f) /\ CallFields \subseteq DOMAIN f /\ f.ply \in Int /\ TableOK(table)
      /\ {"alpha_orig", "checked", "best", "best_move", "played", "todo"} \subseteq DOMAIN f
      /\ f.alpha \in Int /\ f.beta \in Int /\ 1 <= f.ply /\ f.ply < MaxPly /\ f.ply \in 1 .. MaxPly /\ ret \in Int
      /\ (~aborted /\ f.at \in Waiting => Awaits(f, ret))
      /\ \A v \in Int : v >= Least(MatedIn(f.ply), f.beta) /\ v <= Most(MateIn(f.ply), EntryAlpha(f))
                          => Promises(f, v)
  BY <1>1, QNodeValues
<1>3. /\ f.alpha_orig \in Int /\ f.best \in Int /\ f.played \in Nat /\ EntryAlpha(f) = f.alpha_orig
      /\ -MaxMate <= f.alpha /\ f.alpha < f.beta /\ f.beta <= MaxMate
      /\ -MaxMate <= f.alpha_orig /\ f.alpha_orig <= f.alpha /\ f.alpha <= Most(MateIn(f.ply), f.alpha_orig)
      /\ f.best <= f.alpha /\ (f.best = ScoreMin \/ f.best >= Least(MatedIn(f.ply), f.beta))
  BY <1>1, <1>2 DEF QSearchValues, EntryAlpha
<1>4. /\ counted.at = "moves" /\ counted.fn = "qsearch" /\ counted.ply = f.ply /\ counted.alpha = f.alpha
      /\ counted.beta = f.beta /\ counted.alpha_orig = f.alpha_orig /\ counted.best = f.best
      /\ counted.played = f.played + 1 /\ counted.checked = f.checked
      /\ better.at = "moves" /\ better.fn = "qsearch" /\ better.ply = f.ply /\ better.alpha = Most(f.alpha, score)
      /\ better.beta = f.beta /\ better.alpha_orig = f.alpha_orig /\ better.best = score
      /\ better.played = f.played + 1 /\ better.checked = f.checked
  BY <1>1, <1>2 DEF CallFields
<1>5. \/ aborted /\ Return(f.alpha) /\ UNCHANGED table
      \/ ~aborted /\ score <= f.best /\ GoOn(counted) /\ UNCHANGED <<ret, table>>
      \/ /\ ~aborted /\ score > f.best /\ (score <= f.alpha \/ score < f.beta)
         /\ GoOn(better) /\ UNCHANGED <<ret, table>>
      \/ ~aborted /\ score > f.alpha /\ score >= f.beta /\ StoreQ(f, Here(game, Front(line)), score, f.move)
  BY DEF QMoveReturns
<1>6. ASSUME ~aborted
      PROVE  /\ score \in Int /\ score # ScoreMin
             /\ score >= Least(MatedIn(f.ply + 1), f.beta) /\ score <= Most(MateIn(f.ply + 1), f.alpha)
  <2>1. ret >= Least(MatedIn(f.ply + 1), -f.alpha) /\ ret <= Most(MateIn(f.ply + 1), -f.beta)
    BY <1>1, <1>2, <1>6 DEF Awaits, Waiting, Making, AfterMove
  <2> QED
    BY <1>2, <1>3, <2>1, ScoreAssumption DEF Least, Most, MatedIn, MateIn, ScoreMin
<1> HIDE DEF score, counted, better
<1>7. ASSUME NEW g, GoOn(g), ret' = ret, table' = table, QSearchValues(g),
             g.fn = "qsearch", g.at = "moves", g.ply = f.ply, g.beta = f.beta, g.alpha_orig = f.alpha_orig
      PROVE  ValueStep
  <2>1. PromisesNoLess(g)
    BY <1>1, <1>3, <1>7 DEF PromisesNoLess, Promises, EntryAlpha
  <2>2. ValueOK(g) /\ g.at \notin Waiting
    BY <1>7 DEF ValueOK, Waiting, Making, AfterMove
  <2> QED
    BY <1>1, <1>2, <1>7, <2>1, <2>2 DEF ValueStep, KeepsValue
<1>8. CASE aborted /\ Return(f.alpha) /\ UNCHANGED table
  BY <1>1, <1>2, <1>8 DEF ValueStep, GivesValue, Return
<1>9. CASE ~aborted /\ score <= f.best /\ GoOn(counted) /\ UNCHANGED <<ret, table>>
  <2>1. counted.best # ScoreMin /\ counted.played \in Nat \ {0}
    BY <1>2, <1>3, <1>4, <1>6, <1>9, ScoreAssumption DEF ScoreMin, Least, MatedIn
  <2>2. QSearchValues(counted)
    BY <1>2, <1>3, <1>4, <2>1 DEF QSearchValues
  <2>3. /\ GoOn(counted) /\ ret' = ret /\ table' = table /\ counted.fn = "qsearch" /\ counted.at = "moves"
        /\ counted.ply = f.ply /\ counted.beta = f.beta /\ counted.alpha_orig = f.alpha_orig
    BY <1>4, <1>9
  <2> QED
    BY <1>7, <2>2, <2>3
<1>10. CASE /\ ~aborted /\ score > f.best /\ (score <= f.alpha \/ score < f.beta)
            /\ GoOn(better) /\ UNCHANGED <<ret, table>>
  <2>1. better.best \in Int /\ better.best # ScoreMin /\ better.played \in Nat \ {0}
    BY <1>3, <1>4, <1>6, <1>10
  <2>2. /\ better.alpha \in Int /\ f.alpha <= better.alpha /\ better.alpha < f.beta
        /\ better.alpha <= Most(MateIn(f.ply), f.alpha_orig)
        /\ better.best <= better.alpha /\ better.best >= Least(MatedIn(f.ply), f.beta)
    BY <1>2, <1>3, <1>4, <1>6, <1>10, ScoreAssumption DEF Most, Least, MatedIn, MateIn
  <2>3. QSearchValues(better)
    <3>1. /\ better.alpha \in Int /\ better.beta \in Int
          /\ -MaxMate <= better.alpha /\ better.alpha < better.beta /\ better.beta <= MaxMate
          /\ better.alpha_orig \in Int /\ better.played \in Nat
          /\ -MaxMate <= better.alpha_orig /\ better.alpha_orig <= better.alpha
          /\ better.alpha <= Most(MateIn(better.ply), better.alpha_orig)
          /\ better.best >= Least(MatedIn(better.ply), better.beta)
      BY <1>2, <1>3, <1>4, <2>1, <2>2, ScoreAssumption
    <3> QED
      BY <2>1, <2>2, <3>1 DEF QSearchValues
  <2>4. /\ GoOn(better) /\ ret' = ret /\ table' = table /\ better.fn = "qsearch" /\ better.at = "moves"
        /\ better.ply = f.ply /\ better.beta = f.beta /\ better.alpha_orig = f.alpha_orig
    BY <1>4, <1>10
  <2> QED
    BY <1>7, <2>3, <2>4
<1>11. CASE /\ ~aborted /\ score > f.alpha /\ score >= f.beta
            /\ StoreQ(f, Here(game, Front(line)), score, f.move)
  <2>1. score \in Int /\ score >= f.alpha_orig /\ Most(score, f.alpha_orig) = score
    BY <1>2, <1>3, <1>6, <1>11 DEF Most
  <2>2. BoundOf(score, f.alpha_orig, f.beta) = "LOWER"
    BY <1>11 DEF BoundOf
  <2>3. score <= MateIn(f.ply)
    BY <1>2, <1>3, <1>6, <1>11, ScoreAssumption DEF Most, MateIn
  <2>4. /\ Store(NodeKey(Here(game, Front(line))), f.move, score, 0, "LOWER", f.ply)
        /\ Return(score)
    BY <1>11, <2>1, <2>2 DEF StoreQ
  <2>5. TableOK(table')
    BY <1>2, <2>1, <2>3, <2>4, StoreFacts
  <2>6. Promises(f, score)
    <3>1. score >= Least(MatedIn(f.ply), f.beta) /\ score <= Most(MateIn(f.ply), EntryAlpha(f))
      BY <1>2, <1>3, <1>11, <2>1, <2>3, ScoreAssumption DEF Least, Most, MatedIn, MateIn
    <3> QED
      BY <1>2, <2>1, <3>1
  <2> QED
    BY <1>1, <2>1, <2>4, <2>5, <2>6 DEF ValueStep, GivesValue, Return
<1> QED
  BY <1>5, <1>8, <1>9, <1>10, <1>11

LEMMA QSearchEndsValues ==
  ASSUME BoardInv, ValueSound, QSearchEnds(Top)
  PROVE  ValueStep
<1> DEFINE f == Top
<1>1. stack # <<>> /\ f.fn = "qsearch" /\ f.at = "moves" /\ aborted' = aborted
  BY TopEntry DEF QSearchEnds
<1>2. /\ QSearchValues(f) /\ f.ply \in Int /\ TableOK(table) /\ f.beta \in Int /\ f.alpha \in Int
      /\ 1 <= f.ply /\ f.ply < MaxPly /\ f.ply \in 1 .. MaxPly
      /\ \A v \in Int : v >= Least(MatedIn(f.ply), f.beta) /\ v <= Most(MateIn(f.ply), EntryAlpha(f))
                          => Promises(f, v)
  BY <1>1, QNodeValues
<1>3. /\ f.alpha_orig \in Int /\ f.best \in Int /\ EntryAlpha(f) = f.alpha_orig
      /\ f.alpha < f.beta /\ f.alpha_orig <= f.alpha /\ f.alpha <= Most(MateIn(f.ply), f.alpha_orig)
      /\ f.best <= f.alpha /\ (f.best = ScoreMin \/ f.best >= Least(MatedIn(f.ply), f.beta))
      /\ (f.best = ScoreMin => f.checked /\ f.played = 0)
  BY <1>1, <1>2 DEF QSearchValues, EntryAlpha
<1>4. CASE f.checked /\ f.played = 0
  <2>1. Return(MatedIn(f.ply)) /\ UNCHANGED table
    BY <1>4 DEF QSearchEnds
  <2>2. /\ MatedIn(f.ply) \in Int /\ MatedIn(f.ply) >= Least(MatedIn(f.ply), f.beta)
        /\ MatedIn(f.ply) <= Most(MateIn(f.ply), EntryAlpha(f))
    BY <1>2, <1>3, ScoreAssumption DEF Least, Most, MatedIn, MateIn
  <2> QED
    BY <1>1, <1>2, <2>1, <2>2 DEF ValueStep, GivesValue, Return
<1>5. CASE ~(f.checked /\ f.played = 0)
  <2> DEFINE value == Most(f.best, f.alpha_orig)
             move == IF f.best >= f.alpha_orig THEN f.best_move ELSE NoMove
             flag == BoundOf(value, f.alpha_orig, f.beta)
  <2>1. Store(NodeKey(Pos), move, value, 0, flag, f.ply) /\ Return(value)
    BY <1>5 DEF QSearchEnds, StoreQ
  <2>2. f.best >= MatedIn(f.ply)
    BY <1>2, <1>3, <1>5, ScoreAssumption DEF Least, MatedIn
  <2>3. value \in Int /\ value >= MatedIn(f.ply) /\ value <= Most(MateIn(f.ply), f.alpha_orig)
        /\ value < f.beta /\ (value > f.alpha_orig => value <= MateIn(f.ply))
    BY <1>2, <1>3, <2>2, ScoreAssumption DEF Most, MatedIn, MateIn
  <2>4. flag = IF value > f.alpha_orig THEN "EXACT" ELSE "UPPER"
    <3> HIDE DEF value
    <3> QED
      BY <1>2, <2>3 DEF BoundOf
  <2> HIDE DEF value, move, flag
  <2>5. TableOK(table')
    BY <1>2, <2>1, <2>3, <2>4, StoreFacts
  <2>6. Promises(f, value)
    <3>1. value >= Least(MatedIn(f.ply), f.beta) /\ value <= Most(MateIn(f.ply), EntryAlpha(f))
      BY <1>2, <1>3, <2>3, ScoreAssumption DEF Least, MatedIn
    <3> QED
      BY <1>2, <2>3, <3>1
  <2> QED
    BY <1>1, <2>1, <2>3, <2>5, <2>6 DEF ValueStep, GivesValue, Return
<1> QED
  BY <1>4, <1>5

(* The singular test.                                                      *)
LEMMA SingularNodeValues ==
  ASSUME BoardInv, ValueSound, stack # <<>>, Top.fn = "singular"
  PROVE  /\ SingularValues(Top) /\ CallFields \cup {"depth", "excluded", "cut"} \subseteq DOMAIN Top
         /\ Top.at # "entry" => {"alpha_orig", "best", "best_move", "quiets", "todo"} \subseteq DOMAIN Top
         /\ Top.ply \in Int /\ 1 <= Top.ply /\ Top.ply < MaxPly /\ Top.ply \in 1 .. MaxPly
         /\ ret \in Int /\ TableOK(table) /\ Top.alpha \in Int /\ Top.beta \in Int /\ Top.depth \in Int
         /\ Top.alpha = Top.beta - 1 /\ Top.alpha < MateIn(Top.ply + 1)
         /\ ~aborted /\ Top.at \in Waiting => Awaits(Top, ret)
         /\ \A v \in Int : v <= MateIn(Top.ply) => Promises(Top, v)
<1>1. /\ ValueOK(Top) /\ CallOK(Top) /\ Top.ply \in Int /\ 1 <= Top.ply /\ Top.ply <= MaxPly
      /\ ret \in Int /\ TableOK(table) /\ (~aborted /\ Top.at \in Waiting => Awaits(Top, ret))
  BY TopValues
<1>2. /\ SingularValues(Top) /\ Top.alpha \in Int /\ Top.beta \in Int /\ Top.depth \in Int
      /\ Top.alpha = Top.beta - 1 /\ Top.alpha < MateIn(Top.ply + 1)
  BY <1>1 DEF ValueOK, SingularValues
<1>3. /\ CallFields \cup {"depth", "excluded", "cut"} \subseteq DOMAIN Top
      /\ Top.ply \in 1 .. MaxPly /\ Top.ply < MaxPly
      /\ Top.at # "entry" => {"alpha_orig", "best", "best_move", "quiets", "todo"} \subseteq DOMAIN Top
  BY <1>1 DEF CallOK, SingularOK
<1>4. \A v \in Int : v <= MateIn(Top.ply) => Promises(Top, v)
  BY DEF Promises
<1> QED
  BY <1>1, <1>2, <1>3, <1>4

LEMMA EnterSingularValues ==
  ASSUME BoardInv, ValueSound, EnterSingular(Top)
  PROVE  ValueStep
<1> DEFINE f == Top
<1>1. stack # <<>> /\ f.fn = "singular" /\ f.at = "entry" /\ aborted' = aborted /\ table' = table
  BY TopEntry DEF EnterSingular
<1>2. /\ SingularValues(f) /\ CallFields \cup {"depth", "excluded", "cut"} \subseteq DOMAIN f
      /\ f.ply \in Int /\ 1 <= f.ply /\ f.ply < MaxPly /\ f.ply \in 1 .. MaxPly
      /\ ret \in Int /\ TableOK(table) /\ f.alpha \in Int /\ f.beta \in Int /\ f.depth \in Int
      /\ f.alpha = f.beta - 1 /\ f.alpha < MateIn(f.ply + 1)
      /\ \A v \in Int : v <= MateIn(f.ply) => Promises(f, v)
  BY <1>1, SingularNodeValues
<1>3. game \in Games
  BY <1>1, TopNode
<1>4. ASSUME NEW entry \in Probe(SingularKey(Pos, f.excluded), f.ply), TableCutS(f, entry), Return(entry.score)
      PROVE  ValueStep
  <2>1. /\ entry.score \in Int
        /\ entry.flag \in {"LOWER", "EXACT"} => entry.score <= MateIn(f.ply)
    BY <1>2, <1>3, ProbeFacts
  <2>2. entry.flag \in {"LOWER", "EXACT"} \/ entry.score <= f.alpha
    BY <1>4 DEF TableCutS, Decides
  <2>3. entry.score <= MateIn(f.ply)
    BY <1>2, <2>1, <2>2, ScoreAssumption DEF MateIn
  <2> QED
    BY <1>1, <1>2, <1>4, <2>1, <2>3 DEF ValueStep, GivesValue, Return
<1>5. CASE GoOn(SingularNode(f)) /\ ret' = ret
  <2> DEFINE g == SingularNode(f)
  <2>1. /\ GoOn(g) /\ g.fn = "singular" /\ g.at = "moves" /\ g.ply = f.ply /\ g.alpha = f.alpha /\ g.beta = f.beta
        /\ g.depth = f.depth /\ g.alpha_orig = f.alpha /\ g.best = ScoreMin /\ g.best_move = NoMove
    BY <1>1, <1>2, <1>5 DEF SingularNode, Extended, CallFields
  <2> HIDE DEF g
  <2>2. SingularValues(g)
    BY <1>2, <2>1, ScoreAssumption DEF SingularValues, ScoreMin
  <2>3. PromisesNoLess(g)
    BY <1>1, <2>1 DEF PromisesNoLess, Promises
  <2>4. ValueOK(g) /\ g.at \notin Waiting
    BY <2>1, <2>2 DEF ValueOK, Waiting, Making, AfterMove
  <2> QED
    BY <1>1, <1>2, <1>5, <2>1, <2>3, <2>4 DEF ValueStep, KeepsValue
<1> QED
  BY <1>4, <1>5 DEF EnterSingular

LEMMA NextSingularMoveValues ==
  ASSUME BoardInv, ValueSound, NextSingularMove(Top)
  PROVE  ValueStep
<1> DEFINE f == Top
           Rest(q, i, m) == [f EXCEPT !.quiets = q, !.todo[i] = @ \ {m}]
           Made(q, i, m) == Extended(Rest(q, i, m), [at |-> "scored", move |-> m])
           callee == Call(f.ply + 1, f.depth - 1, -f.beta, -f.alpha, FALSE, f.cut, FALSE)
<1>1. stack # <<>> /\ f.fn = "singular" /\ f.at = "moves" /\ aborted' = aborted /\ table' = table /\ ret' = ret
  BY TopEntry DEF NextSingularMove
<1>2. /\ SingularValues(f) /\ CallFields \cup {"depth", "excluded", "cut"} \subseteq DOMAIN f
      /\ {"alpha_orig", "best", "best_move", "quiets", "todo"} \subseteq DOMAIN f
      /\ f.ply \in Int /\ TableOK(table) /\ f.alpha \in Int /\ f.beta \in Int /\ f.depth \in Int
  BY <1>1, SingularNodeValues
<1>3. PICK q, i, m : CallFrom(Made(q, i, m), callee) \/ GoOn(Rest(q, i, m))
  BY DEF NextSingularMove
<1> DEFINE h == Rest(q, i, m)
           g == Made(q, i, m)
<1>4. /\ h.fn = "singular" /\ h.at = "moves" /\ h.ply = f.ply /\ h.alpha = f.alpha /\ h.beta = f.beta
      /\ h.depth = f.depth /\ h.alpha_orig = f.alpha_orig /\ h.best = f.best /\ h.best_move = f.best_move
      /\ g.fn = "singular" /\ g.at = "scored" /\ g.ply = f.ply /\ g.alpha = f.alpha /\ g.beta = f.beta
      /\ g.depth = f.depth /\ g.alpha_orig = f.alpha_orig /\ g.best = f.best /\ g.best_move = f.best_move
  BY <1>1, <1>2 DEF CallFields, Extended
<1>5. CallFrom(g, callee) \/ GoOn(h)
  BY <1>3
<1>6. /\ callee.fn = "search" /\ callee.at = "entry" /\ callee.ply = f.ply + 1 /\ callee.depth = f.depth - 1
      /\ callee.alpha = -f.beta /\ callee.beta = -f.alpha
  BY DEF Call
<1> HIDE DEF Rest, Made, g, h, callee
<1>7. SingularValues(g) /\ SingularValues(h)
  BY <1>1, <1>2, <1>4 DEF SingularValues
<1>8. SearchValues(callee)
  BY <1>2, <1>6 DEF SearchValues, AfterMove
<1>9. PromisesNoLess(g) /\ PromisesNoLess(h)
  BY <1>1, <1>4 DEF PromisesNoLess, Promises
<1>10. \A v \in Int : Promises(callee, v) => Awaits(g, v)
  BY <1>4, <1>6 DEF Promises, Awaits
<1>11. ValueOK(g) /\ ValueOK(h) /\ ValueOK(callee) /\ callee.at \notin Waiting /\ h.at \notin Waiting
  BY <1>4, <1>6, <1>7, <1>8 DEF ValueOK, Waiting, Making, AfterMove
<1>12. CASE CallFrom(g, callee)
  BY <1>1, <1>2, <1>9, <1>10, <1>11, <1>12 DEF ValueStep, AsksValue
<1>13. CASE GoOn(h)
  BY <1>1, <1>2, <1>9, <1>11, <1>13 DEF ValueStep, KeepsValue
<1> QED
  BY <1>5, <1>12, <1>13

LEMMA SingularMoveReturnsValues ==
  ASSUME BoardInv, ValueSound, SingularMoveReturns(Top)
  PROVE  ValueStep
<1> DEFINE f == Top
           score == -ret
           counted == [f EXCEPT !.at = "moves", !.best = Most(@, score),
                                !.best_move = IF score > f.best THEN f.move ELSE @,
                                !.alpha = Most(@, score)]
           p == Here(game, Front(line))
<1>1. stack # <<>> /\ f.fn = "singular" /\ f.at = "scored" /\ aborted' = aborted
  BY TopEntry DEF SingularMoveReturns
<1>2. /\ SingularValues(f) /\ CallFields \cup {"depth", "excluded", "cut"} \subseteq DOMAIN f
      /\ {"alpha_orig", "best", "best_move", "quiets", "todo"} \subseteq DOMAIN f
      /\ f.ply \in Int /\ 1 <= f.ply /\ f.ply < MaxPly /\ f.ply \in 1 .. MaxPly
      /\ ret \in Int /\ TableOK(table) /\ f.alpha \in Int /\ f.beta \in Int /\ f.depth \in Int
      /\ f.alpha = f.beta - 1 /\ f.alpha < MateIn(f.ply + 1)
      /\ (~aborted /\ f.at \in Waiting => Awaits(f, ret))
      /\ \A v \in Int : v <= MateIn(f.ply) => Promises(f, v)
  BY <1>1, SingularNodeValues
<1>3. /\ f.alpha_orig = f.alpha /\ f.best \in Int /\ (f.best <= f.alpha \/ f.best = ScoreMin)
      /\ (f.best_move # NoMove => f.best >= MatedIn(f.ply + 1))
  BY <1>1, <1>2 DEF SingularValues
<1>4. /\ counted.at = "moves" /\ counted.fn = "singular" /\ counted.ply = f.ply /\ counted.depth = f.depth
      /\ counted.alpha = Most(f.alpha, score) /\ counted.beta = f.beta /\ counted.alpha_orig = f.alpha_orig
      /\ counted.best = Most(f.best, score)
      /\ counted.best_move = (IF score > f.best THEN f.move ELSE f.best_move)
  BY <1>1, <1>2 DEF CallFields
<1>5. \/ aborted /\ Return(f.alpha) /\ UNCHANGED table
      \/ ~aborted /\ ~(score > f.alpha /\ score >= f.beta) /\ GoOn(counted) /\ UNCHANGED <<ret, table>>
      \/ /\ ~aborted /\ score > f.alpha /\ score >= f.beta
         /\ StoreSingular(f, p, counted.best, counted.best_move) /\ Return(counted.best)
  BY DEF SingularMoveReturns
<1>6. ASSUME ~aborted
      PROVE  score \in Int /\ score >= Least(MatedIn(f.ply + 1), f.beta) /\ score <= MateIn(f.ply + 1)
  <2>1. ret >= MatedIn(f.ply + 1) /\ ret <= Most(MateIn(f.ply + 1), -f.beta)
    BY <1>1, <1>2, <1>6 DEF Awaits, Waiting, Making, AfterMove
  <2> QED
    BY <1>2, <2>1, ScoreAssumption DEF Least, Most, MatedIn, MateIn
<1> HIDE DEF score, counted, p
<1>7. CASE aborted /\ Return(f.alpha) /\ UNCHANGED table
  BY <1>1, <1>2, <1>7 DEF ValueStep, GivesValue, Return
<1>8. CASE ~aborted /\ ~(score > f.alpha /\ score >= f.beta) /\ GoOn(counted) /\ UNCHANGED <<ret, table>>
  <2>1. score <= f.alpha /\ score >= MatedIn(f.ply + 1) /\ score > ScoreMin
    BY <1>2, <1>6, <1>8, ScoreAssumption DEF Least, MatedIn, ScoreMin
  <2>2. Most(f.alpha, score) = f.alpha
    BY <1>2, <1>6, <1>8, <2>1 DEF Most
  <2>3. Most(f.best, score) \in Int /\ Most(f.best, score) <= f.alpha
    BY <1>2, <1>3, <1>6, <1>8, <2>1 DEF Most
  <2>4. counted.best_move # NoMove => counted.best >= MatedIn(f.ply + 1)
    <3>1. MatedIn(f.ply + 1) \in Int
      BY <1>2, ScoreAssumption DEF MatedIn
    <3>2. CASE score > f.best
      BY <1>3, <1>4, <1>6, <1>8, <2>1, <3>1, <3>2 DEF Most
    <3>3. CASE ~(score > f.best)
      BY <1>3, <1>4, <1>6, <1>8, <3>1, <3>3 DEF Most
    <3> QED
      BY <3>2, <3>3
  <2>5. SingularValues(counted)
    BY <1>2, <1>3, <1>4, <2>2, <2>3, <2>4 DEF SingularValues
  <2>6. PromisesNoLess(counted)
    BY <1>1, <1>4 DEF PromisesNoLess, Promises
  <2>7. ValueOK(counted) /\ counted.at \notin Waiting
    BY <1>4, <2>5 DEF ValueOK, Waiting, Making, AfterMove
  <2> QED
    BY <1>1, <1>2, <1>8, <2>6, <2>7 DEF ValueStep, KeepsValue
<1>9. CASE /\ ~aborted /\ score > f.alpha /\ score >= f.beta
           /\ StoreSingular(f, p, counted.best, counted.best_move) /\ Return(counted.best)
  <2>1. counted.best \in Int /\ counted.best >= f.beta /\ counted.best <= MateIn(f.ply)
    BY <1>2, <1>3, <1>4, <1>6, <1>9, ScoreAssumption DEF Most, MateIn, ScoreMin
  <2>2. BoundOf(counted.best, f.alpha_orig, f.beta) = "LOWER"
    BY <2>1 DEF BoundOf
  <2>3. \/ table' = table
        \/ Store(SingularKey(p, f.excluded), counted.best_move, counted.best, f.depth, "LOWER", f.ply)
    BY <1>9, <2>2 DEF StoreSingular
  <2>4. TableOK(table')
    <3>1. CASE table' = table
      BY <1>2, <3>1
    <3>2. CASE Store(SingularKey(p, f.excluded), counted.best_move, counted.best, f.depth, "LOWER", f.ply)
      BY <1>2, <2>1, <3>2, StoreFacts
    <3> QED
      BY <2>3, <3>1, <3>2
  <2> QED
    BY <1>1, <1>2, <1>9, <2>1, <2>4 DEF ValueStep, GivesValue, Return
<1> QED
  BY <1>5, <1>7, <1>8, <1>9

LEMMA SingularEndsValues ==
  ASSUME BoardInv, ValueSound, SingularEnds(Top)
  PROVE  ValueStep
<1> DEFINE f == Top
<1>1. stack # <<>> /\ f.fn = "singular" /\ f.at = "moves" /\ aborted' = aborted
  BY TopEntry DEF SingularEnds
<1>2. /\ SingularValues(f) /\ f.ply \in Int /\ 1 <= f.ply /\ f.ply < MaxPly /\ f.ply \in 1 .. MaxPly
      /\ TableOK(table) /\ f.alpha \in Int /\ f.beta \in Int
      /\ f.alpha = f.beta - 1 /\ f.alpha < MateIn(f.ply + 1)
      /\ \A v \in Int : v <= MateIn(f.ply) => Promises(f, v)
  BY <1>1, SingularNodeValues
<1>3. /\ f.alpha_orig = f.alpha /\ f.best \in Int /\ (f.best <= f.alpha \/ f.best = ScoreMin)
      /\ (f.best_move # NoMove => f.best >= MatedIn(f.ply + 1))
  BY <1>1, <1>2 DEF SingularValues
<1>4. CASE aborted /\ Return(f.alpha) /\ UNCHANGED table
  BY <1>1, <1>2, <1>4 DEF ValueStep, GivesValue, Return
<1>5. CASE StoreSingular(f, Pos, f.best, f.best_move) /\ Return(f.best)
  <2>1. f.best <= MateIn(f.ply)
    BY <1>2, <1>3, ScoreAssumption DEF MateIn, ScoreMin
  <2>2. CASE table' = table
    BY <1>1, <1>2, <1>3, <1>5, <2>1, <2>2 DEF ValueStep, GivesValue, Return
  <2>3. CASE table' # table
    <3> DEFINE flag == BoundOf(f.best, f.alpha_orig, f.beta)
    <3>1. f.best_move # NoMove /\ Store(SingularKey(Pos, f.excluded), f.best_move, f.best, f.depth, flag, f.ply)
      BY <1>5, <2>3 DEF StoreSingular
    <3>2. f.best >= MatedIn(f.ply) /\ f.best <= f.alpha
      BY <1>2, <1>3, <3>1, ScoreAssumption DEF MatedIn, ScoreMin
    <3>3. flag = "UPPER"
      BY <1>2, <1>3, <3>2 DEF BoundOf
    <3> HIDE DEF flag
    <3>4. TableOK(table')
      BY <1>2, <1>3, <3>1, <3>2, <3>3, StoreFacts
    <3> QED
      BY <1>1, <1>2, <1>3, <1>5, <2>1, <3>4 DEF ValueStep, GivesValue, Return
  <2> QED
    BY <2>2, <2>3
<1> QED
  BY <1>4, <1>5 DEF SingularEnds

(* The driver asks within the windows that the root leaves open.           *)
ProbesCounted == probes \in 0 .. Len(game.probes)

LEMMA NextProbe ==
  ASSUME game \in Games, ProbesCounted, RootSearch
  PROVE  /\ stack = <<>> /\ probes' = probes + 1 /\ probes + 1 \in 1 .. Len(game.probes)
         /\ \E callee : /\ stack' = <<callee>>
                        /\ callee.fn = "search" /\ callee.at = "entry" /\ callee.ply = 1 /\ callee.pv = TRUE
                        /\ callee.depth \in Nat \ {0} /\ callee.alpha \in Int /\ callee.beta \in Int
                        /\ callee.alpha < callee.beta /\ callee.alpha < MateIn(2) /\ MatedIn(1) < callee.beta
<1> DEFINE probe == game.probes[probes + 1]
           callee == Call(1, probe[1], probe[2], probe[3], TRUE, FALSE, TRUE)
<1>1. /\ game.probes \in Seq((Nat \ {0}) \X Int \X Int)
      /\ \A i \in DOMAIN game.probes :
           /\ game.probes[i][2] < game.probes[i][3] /\ game.probes[i][2] < MateIn(2)
           /\ MatedIn(1) < game.probes[i][3]
  BY ScoresAssumption
<1>2. Len(game.probes) \in Nat /\ DOMAIN game.probes = 1 .. Len(game.probes)
  BY <1>1
<1>3. stack = <<>> /\ stack' = <<callee>> /\ probes' = probes + 1 /\ probes # Len(game.probes)
  BY DEF RootSearch, Idle, Finished
<1>4. probes + 1 \in 1 .. Len(game.probes)
  BY <1>2, <1>3 DEF ProbesCounted
<1>5. probe \in (Nat \ {0}) \X Int \X Int
  BY <1>1, <1>2, <1>4
<1>6. /\ probe[1] \in Nat \ {0} /\ probe[2] \in Int /\ probe[3] \in Int
      /\ probe[2] < probe[3] /\ probe[2] < MateIn(2) /\ MatedIn(1) < probe[3]
  BY <1>1, <1>2, <1>4, <1>5
<1> HIDE DEF probe
<1>7. /\ callee.fn = "search" /\ callee.at = "entry" /\ callee.ply = 1 /\ callee.pv = TRUE
      /\ callee.depth = probe[1] /\ callee.alpha = probe[2] /\ callee.beta = probe[3]
  BY DEF Call
<1> HIDE DEF callee
<1> QED
  BY <1>3, <1>4, <1>6, <1>7

LEMMA RootSearchValues ==
  ASSUME game \in Games, ProbesCounted, ValueSound, RootSearch
  PROVE  ValueStep
<1>1. PICK callee : /\ stack = <<>> /\ stack' = <<callee>> /\ callee.fn = "search" /\ callee.at = "entry"
                    /\ callee.depth \in Nat \ {0} /\ callee.alpha \in Int /\ callee.beta \in Int
  BY NextProbe
<1>2. ret' = ret /\ table' = table /\ aborted' = aborted
  BY DEF RootSearch
<1>3. ValueOK(callee) /\ callee.at \notin Waiting
  BY <1>1 DEF ValueOK, SearchValues, Waiting, Making, AfterMove
<1> QED
  BY <1>1, <1>2, <1>3 DEF ValueStep, FirstAsks, ValueSound

LEMMA EveryStepValues ==
  ASSUME BoardInv, ProbesCounted, ValueSound, Next
  PROVE  ValueStep
<1>1. CASE RootReturns \/ Done
  BY <1>1 DEF RootReturns, Done, vars, ValueStep, ValueSound
<1> QED
  BY <1>1, RootSearchValues, AbortValues, EnterSearchValues, PruneNodeValues, NullMoveValues, VerifyValues,
     RazorNodeValues, RazorReturnsValues, SingularTestValues, SingularReturnsValues, NextMoveValues,
     SearchAgainValues, MoveReturnsValues, SearchEndsValues, EnterQSearchValues, NextQMoveValues,
     QMoveReturnsValues, QSearchEndsValues, EnterSingularValues, NextSingularMoveValues,
     SingularMoveReturnsValues, SingularEndsValues DEF Next, BoardInv

-----------------------------------------------------------------------------
(* The root: the first call is a PV node that leaves nothing out, and it   *)
(* has a line as soon as it has a score.                                   *)
RootNode(f, pv) ==
  /\ f.fn = "search" /\ f.pv /\ f.at \notin {"null", "verify", "razored"}
  /\ f.at = "entry" => f.depth > 0 /\ WindowFrom(f) < WindowTo(f)
  /\ f.at # "entry" => f.pruned = 0 /\ (pv = <<>> <=> f.best = ScoreMin)

Answer(score, pv) ==
  /\ score \in MatedIn(1) .. MateIn(2)
  /\ IF Legal(game, game.root) = {}
     THEN pv = <<>> /\ score = (IF InCheck(game, game.root) THEN MatedIn(1) ELSE 0)
     ELSE pv # <<>>

RootOK ==
  /\ stack # <<>> => RootNode(stack[1], pvs[1])
  /\ \A i \in 2 .. Len(stack) : stack[i].ply = 1 => stack[i].fn = "singular"
  /\ stack = <<>> /\ ~aborted /\ ~Collected => Answer(ret, pvs[1])
  /\ result.probe > 0 => Answer(result.score, result.pv)
  /\ ProbesCounted

RootSafe == LinesSafe /\ ValueSound /\ RootOK

(* What a step of the root's own call does.                                *)
RootTurn ==
  \/ stack' = Front(stack) /\ (aborted' \/ Answer(ret', pvs'[1]))
  \/ \E g : /\ RootNode(g, pvs'[1])
            /\ GoOn(g) \/ \E callee : CallFrom(g, callee) /\ (callee.ply = 1 => callee.fn = "singular")

AtRoot == RootSafe /\ Len(stack) = 1

LEMMA RootFacts ==
  ASSUME AtRoot
  PROVE  /\ BoardInv /\ ValueSound /\ stack # <<>> /\ RootNode(Top, pvs[1]) /\ Top.ply = 1 /\ Own = game.root
         /\ CallOK(Top) /\ NodeOK(game, Top, game.root) /\ (Top.at \notin Making => Pos = game.root)
         /\ Top.fn = "search" /\ CallFields \cup SearchFields \subseteq DOMAIN Top
         /\ Top.at # "entry" => NodeFields \subseteq DOMAIN Top
         /\ 1 \in DOMAIN pvs
         /\ game \in Games /\ IsFiniteSet(Legal(game, game.root))
<1>1. BoardInv /\ ValueSound /\ LinesOK(game, stack, line, pvs)
  BY DEF AtRoot, RootSafe, LinesSafe, BoardSafe
<1>2. stack # <<>>
  BY EmptySeq DEF AtRoot
<1>3. Top = stack[1] /\ stack[1].ply = 1 /\ RootNode(Top, pvs[1])
  BY <1>1, <1>2, FrameFacts DEF AtRoot, RootSafe, RootOK
<1>4. Own = game.root
  BY <1>3 DEF Own, PosAt
<1>5. /\ CallOK(Top) /\ NodeOK(game, Top, game.root) /\ (Top.at \notin Making => Pos = game.root)
      /\ game \in Games /\ game.root \in DOMAIN game.to
  BY <1>1, <1>2, <1>4, TopNode
<1>6. Top.fn = "search" /\ CallFields \cup SearchFields \subseteq DOMAIN Top /\ (Top.at # "entry" => NodeFields \subseteq DOMAIN Top)
  BY <1>3, <1>5 DEF RootNode, CallOK, SearchOK
<1>7. 1 \in DOMAIN pvs
  BY <1>1, ScoreAssumption DEF LinesOK
<1> QED
  BY <1>1, <1>2, <1>3, <1>4, <1>5, <1>6, <1>7, GamesAssumption

LEMMA SameRoot ==
  ASSUME NEW f, NEW pv, RootNode(f, pv), f.at # "entry",
         NEW g, g.fn = "search", g.pv = f.pv, g.at \notin {"entry", "null", "verify", "razored"},
         g.pruned = f.pruned, g.best = f.best
  PROVE  RootNode(g, pv)
BY DEF RootNode

LEMMA EnterSearchRoot ==
  ASSUME AtRoot, EnterSearch(Top)
  PROVE  RootTurn
<1> DEFINE f == Top
<1>1. f.fn = "search" /\ f.at = "entry" /\ pvs' = LineCleared(f)
  BY DEF EnterSearch
<1>2. /\ RootNode(f, pvs[1]) /\ f.ply = 1 /\ CallFields \cup SearchFields \subseteq DOMAIN f /\ 1 \in DOMAIN pvs
      /\ ValueSound /\ BoardInv /\ stack # <<>>
  BY RootFacts
<1>3. f.depth > 0 /\ WindowFrom(f) < WindowTo(f) /\ f.pv
  BY <1>1, <1>2 DEF RootNode
<1>4. f.depth \in Int /\ f.alpha \in Int /\ f.beta \in Int
  BY <1>1, <1>2, TopValues DEF ValueOK, SearchValues
<1>5. ~LeavesEarly(f)
  <2>1. WindowFrom(f) \in Int /\ WindowTo(f) \in Int
    BY <1>2, <1>4, ScoreAssumption DEF WindowFrom, WindowTo, Most, Least, MatedIn, MateIn
  <2> QED
    BY <1>2, <1>3, <2>1, ScoreAssumption DEF LeavesEarly, Drawn
<1>6. ~(f.depth <= 0)
  BY <1>3, <1>4
<1>7. \A entry : ~TableCut(f, entry)
  BY <1>3 DEF TableCut
<1>8. ~InTablebase(f)
  BY <1>2 DEF InTablebase
<1>9. PICK entry : GoOn(Node(f, entry))
  BY <1>5, <1>6, <1>7, <1>8 DEF EnterSearch
<1> DEFINE g == Node(f, entry)
<1>10. GoOn(g) /\ g.fn = "search" /\ g.pv = f.pv /\ g.at = "prune" /\ g.pruned = 0 /\ g.best = ScoreMin
  BY <1>1, <1>2, <1>9 DEF Node, Extended, CallFields, SearchFields
<1> HIDE DEF g
<1>11. pvs'[1] = <<>>
  BY <1>1, <1>2 DEF LineCleared
<1>12. RootNode(g, pvs'[1])
  BY <1>3, <1>10, <1>11 DEF RootNode
<1> QED
  BY <1>10, <1>12 DEF RootTurn

LEMMA BeforeMovesRoot ==
  ASSUME AtRoot, PruneNode(Top) \/ RazorNode(Top) \/ SingularTest(Top) \/ SingularReturns(Top)
  PROVE  RootTurn
<1> DEFINE f == Top
           r == [f EXCEPT !.at = "razor"]
           s == [f EXCEPT !.at = "single"]
           t == [f EXCEPT !.at = "singular"]
           sbeta == SingularBeta(f, f.entry)
           callee == CallSingular(f.ply, SingularDepth(f), sbeta - 1, sbeta, f.entry.move, f.cut)
           w == WithMoves(f, 0)
<1>1. /\ f.fn = "search" /\ f.at # "entry" /\ pvs' = pvs /\ aborted' = aborted
  BY DEF PruneNode, RazorNode, SingularTest, SingularReturns
<1>2. RootNode(f, pvs[1]) /\ CallFields \cup SearchFields \cup NodeFields \subseteq DOMAIN f
  BY <1>1, RootFacts
<1>3. f.pv /\ ~MayPruneNode(f)
  BY <1>2 DEF RootNode, MayPruneNode
<1>4. /\ r.at = "razor" /\ r.fn = "search" /\ r.pv = f.pv /\ r.pruned = f.pruned /\ r.best = f.best
      /\ s.at = "single" /\ s.fn = "search" /\ s.pv = f.pv /\ s.pruned = f.pruned /\ s.best = f.best
      /\ t.at = "singular" /\ t.fn = "search" /\ t.pv = f.pv /\ t.pruned = f.pruned /\ t.best = f.best
  BY <1>1, <1>2 DEF CallFields, SearchFields, NodeFields
<1>5. w.at = "moves" /\ w.fn = "search" /\ w.pv = f.pv /\ w.pruned = f.pruned /\ w.best = f.best
  BY <1>1, <1>2 DEF WithMoves, Extended, CallFields, SearchFields, NodeFields
<1>6. \/ GoOn(r) \/ GoOn(s) \/ GoOn(w) \/ CallFrom(t, callee)
      \/ aborted /\ stack' = Front(stack)
  BY <1>3 DEF PruneNode, StaticNullCut, TryNullMove, RazorNode, Razor, SingularTest, SingularReturns, Return
<1>7. callee.fn = "singular"
  BY DEF CallSingular
<1> HIDE DEF r, s, t, w, callee
<1>8. RootNode(r, pvs[1]) /\ RootNode(s, pvs[1]) /\ RootNode(t, pvs[1]) /\ RootNode(w, pvs[1])
  BY <1>1, <1>2, <1>4, <1>5, SameRoot
<1> QED
  BY <1>1, <1>6, <1>7, <1>8 DEF RootTurn

LEMMA NextMoveRoot ==
  ASSUME AtRoot, NextMove(Top)
  PROVE  RootTurn
<1> DEFINE f == Top
           Rest(i, m) == [f EXCEPT !.todo[i] = @ \ {m}]
<1>1. f.fn = "search" /\ f.at = "moves" /\ pvs' = pvs
  BY DEF NextMove
<1>2. RootNode(f, pvs[1]) /\ CallFields \cup SearchFields \cup NodeFields \subseteq DOMAIN f /\ f.ply = 1
  BY <1>1, RootFacts
<1>3. f.pv /\ ~MayPruneMoves(f)
  BY <1>2 DEF RootNode, MayPruneMoves
<1>4. PICK i, m : MakeMove(Rest(i, m), m)
  BY <1>3 DEF NextMove, Skipped, SkipQuiet, SkipBadCapture
<1> DEFINE rest == Rest(i, m)
<1>5. /\ rest.fn = "search" /\ rest.pv = f.pv /\ rest.pruned = f.pruned /\ rest.best = f.best /\ rest.ply = 1
      /\ DOMAIN rest = DOMAIN f
  BY <1>1, <1>2 DEF CallFields, SearchFields, NodeFields
<1>6. MakeMove(rest, m)
  BY <1>4
<1> HIDE DEF Rest, rest
<1> DEFINE extension == Extension(rest, m)
           depth == rest.depth - 1 + extension
           made == [move |-> m, quiet |-> m \in Quiets(game, Pos), new_depth |-> depth]
           Made(at, r) == Extended(Extended(rest, made), [at |-> at, reduction |-> r])
           full == Call(rest.ply + 1, depth, -rest.beta, -rest.alpha, rest.pv, FALSE, rest.sme)
           Scout(r) == Call(rest.ply + 1, depth - r, -rest.alpha - 1, -rest.alpha, FALSE, TRUE, rest.sme)
<1>7. CallFrom(Made("scored", 0), full) \/ \E r : CallFrom(Made("scout", r), Scout(r))
  BY <1>6 DEF MakeMove
<1>8. \A at, r : /\ Made(at, r).at = at /\ Made(at, r).fn = "search" /\ Made(at, r).pv = f.pv
                 /\ Made(at, r).pruned = f.pruned /\ Made(at, r).best = f.best
  BY <1>2, <1>5 DEF CallFields, SearchFields, NodeFields, Extended
<1>9. full.ply # 1 /\ \A r : Scout(r).ply # 1
  BY <1>5 DEF Call
<1> HIDE DEF Made, full, Scout
<1>10. f.at # "entry"
  BY <1>1
<1>11. \A r : RootNode(Made("scored", r), pvs[1]) /\ RootNode(Made("scout", r), pvs[1])
  <2>1. ASSUME NEW r, NEW at \in {"scored", "scout"} PROVE RootNode(Made(at, r), pvs[1])
    <3>1. Made(at, r).at \notin {"entry", "null", "verify", "razored"}
      BY <1>8
    <3> QED
      BY <1>2, <1>8, <1>10, <3>1, SameRoot
  <2> QED
    BY <2>1
<1> QED
  BY <1>1, <1>7, <1>9, <1>11 DEF RootTurn

LEMMA SearchAgainRoot ==
  ASSUME AtRoot, SearchAgain(Top)
  PROVE  RootTurn
<1> DEFINE f == Top
           again == [f EXCEPT !.at = "again"]
           scored == [f EXCEPT !.at = "scored"]
           deep == Call(f.ply + 1, f.new_depth, -f.alpha - 1, -f.alpha, FALSE, ~f.cut, f.sme)
           wide == Call(f.ply + 1, f.new_depth, -f.beta, -f.alpha, TRUE, FALSE, f.sme)
<1>1. f.fn = "search" /\ f.at # "entry" /\ pvs' = pvs
  BY DEF SearchAgain, NeedsDepth, NeedsWindow
<1>2. RootNode(f, pvs[1]) /\ CallFields \cup SearchFields \cup NodeFields \subseteq DOMAIN f /\ f.ply = 1
  BY <1>1, RootFacts
<1>3. /\ again.at = "again" /\ again.fn = "search" /\ again.pv = f.pv /\ again.pruned = f.pruned
      /\ again.best = f.best
      /\ scored.at = "scored" /\ scored.fn = "search" /\ scored.pv = f.pv /\ scored.pruned = f.pruned
      /\ scored.best = f.best
  BY <1>1, <1>2 DEF CallFields, SearchFields, NodeFields
<1>4. CallFrom(again, deep) \/ CallFrom(scored, wide)
  BY DEF SearchAgain
<1>5. deep.ply # 1 /\ wide.ply # 1
  BY <1>2 DEF Call
<1> HIDE DEF again, scored, deep, wide
<1>6. RootNode(again, pvs[1]) /\ RootNode(scored, pvs[1])
  BY <1>1, <1>2, <1>3, SameRoot
<1> QED
  BY <1>1, <1>4, <1>5, <1>6 DEF RootTurn

(* update_pv() always leaves a line with a move.                           *)
LEMMA UpdatedLine ==
  ASSUME NEW m, NEW pv, IsSequence(pv), NEW k \in Nat, k <= Len(pv)
  PROVE  <<m>> \o SubSeq(pv, 1, k) # <<>>
<1> DEFINE S == {pv[i] : i \in DOMAIN pv} \cup {m}
           one == <<m>>
           s == SubSeq(pv, 1, k)
<1>1. Len(pv) \in Nat /\ pv \in Seq(S) /\ m \in S
  BY SequenceFacts
<1> HIDE DEF S
<1>2. s \in Seq(S) /\ Len(s) = k
  BY <1>1, SubSeqProperties
<1>3. one \in Seq(S) /\ Len(one) = 1
  BY <1>1
<1> HIDE DEF s, one
<1>4. one \o s \in Seq(S) /\ Len(one \o s) = Len(one) + Len(s)
  BY <1>2, <1>3, ConcatProperties
<1>5. one \o s # <<>>
  BY <1>2, <1>3, <1>4, EmptySeq
<1> QED
  BY <1>5 DEF one, s

LEMMA MoveReturnsRoot ==
  ASSUME AtRoot, MoveReturns(Top)
  PROVE  RootTurn
<1> DEFINE f == Top
           score == -ret
           counted == [f EXCEPT !.at = "moves", !.played = @ + 1]
           better == [counted EXCEPT !.best = score, !.best_move = f.move, !.alpha = Most(@, score)]
<1>1. f.fn = "search" /\ f.at \in AfterMove /\ f.at # "entry" /\ aborted' = aborted
  BY DEF MoveReturns, AfterMove
<1>2. /\ RootNode(f, pvs[1]) /\ CallFields \cup SearchFields \cup NodeFields \subseteq DOMAIN f /\ f.ply = 1
      /\ NodeOK(game, f, game.root) /\ BoardInv /\ ValueSound /\ stack # <<>> /\ 1 \in DOMAIN pvs
  BY <1>1, RootFacts
<1>3. ASSUME ~aborted
      PROVE  score \in Int /\ score \in MatedIn(1) .. MateIn(2) /\ score # ScoreMin
  <2>1. ret \in Int /\ ret >= MatedIn(1 + 1) /\ ret <= MateIn(1)
    BY <1>1, <1>2, <1>3, NodeValues DEF Awaits, Waiting, Making
  <2> QED
    BY <2>1, ScoreAssumption DEF MatedIn, MateIn, ScoreMin
<1>4. /\ counted.at = "moves" /\ counted.fn = "search" /\ counted.pv = f.pv /\ counted.pruned = f.pruned
      /\ counted.best = f.best
      /\ better.at = "moves" /\ better.fn = "search" /\ better.pv = f.pv /\ better.pruned = f.pruned
      /\ better.best = score
  BY <1>1, <1>2 DEF CallFields, SearchFields, NodeFields
<1>5. Legal(game, game.root) # {}
  BY <1>1, <1>2 DEF NodeOK
<1>6. \/ aborted /\ stack' = Front(stack)
      \/ ~aborted /\ GoOn(counted) /\ pvs' = pvs
      \/ ~aborted /\ GoOn(better) /\ UpdatePv(f.ply, f.move)
      \/ ~aborted /\ stack' = Front(stack) /\ ret' = score /\ UpdatePv(f.ply, f.move)
  BY DEF MoveReturns, Return
<1>7. UpdatePv(f.ply, f.move) => pvs'[1] # <<>>
  <2> DEFINE pv == pvs[1 + 1]
             k == Least(Len(pv), MaxPly - 1)
  <2> SUFFICES ASSUME UpdatePv(f.ply, f.move) PROVE pvs'[1] # <<>>
    OBVIOUS
  <2>1. pvs'[1] = <<f.move>> \o SubSeq(pv, 1, k)
    BY <1>2 DEF UpdatePv
  <2>2. IsSequence(pv)
    <3>1. LinesOK(game, stack, line, pvs) /\ Innermost(stack) = f
      BY <1>2, TopFacts DEF AtRoot, RootSafe, LinesSafe
    <3> QED
      BY <1>1, <1>2, <3>1 DEF LinesOK, Walk
  <2>3. k \in Nat /\ k <= Len(pv)
    <3>1. Len(pv) \in Nat
      BY <2>2, SequenceFacts
    <3> QED
      BY <3>1, ScoreAssumption DEF Least
  <2> HIDE DEF pv, k
  <2> QED
    BY <2>1, <2>2, <2>3, UpdatedLine
<1> HIDE DEF score, counted, better
<1>8. CASE ~aborted /\ GoOn(counted) /\ pvs' = pvs
  <2>1. RootNode(counted, pvs[1])
    BY <1>1, <1>2, <1>4, SameRoot
  <2> QED
    BY <1>8, <2>1 DEF RootTurn
<1>9. CASE ~aborted /\ GoOn(better) /\ UpdatePv(f.ply, f.move)
  <2>1. RootNode(better, pvs'[1])
    BY <1>1, <1>2, <1>3, <1>4, <1>7, <1>9 DEF RootNode
  <2> QED
    BY <1>9, <2>1 DEF RootTurn
<1>10. CASE ~aborted /\ stack' = Front(stack) /\ ret' = score /\ UpdatePv(f.ply, f.move)
  BY <1>3, <1>5, <1>7, <1>10 DEF RootTurn, Answer
<1> QED
  BY <1>1, <1>6, <1>8, <1>9, <1>10 DEF RootTurn

(* The root has no line without a move, and none of its moves is left out. *)
LEMMA SearchEndsRoot ==
  ASSUME AtRoot, SearchEnds(Top)
  PROVE  RootTurn
<1> DEFINE f == Top
<1>1. /\ f.fn = "search" /\ f.at = "moves" /\ f.at # "entry" /\ aborted' = aborted /\ pvs' = pvs
      /\ stack' = Front(stack)
      /\ \A phase \in DOMAIN f.todo : f.todo[phase] = {}
  BY DEF SearchEnds, Return
<1>2. /\ RootNode(f, pvs[1]) /\ f.ply = 1 /\ NodeOK(game, f, game.root) /\ BoardInv /\ ValueSound /\ stack # <<>>
      /\ IsFiniteSet(Legal(game, game.root))
  BY <1>1, RootFacts
<1>3. f.pruned = 0 /\ (pvs[1] = <<>> <=> f.best = ScoreMin)
  BY <1>1, <1>2 DEF RootNode
<1>4. f.played \in Nat /\ f.played = Cardinality(Legal(game, game.root)) /\ f.checked = InCheck(game, game.root)
  <2>1. /\ DOMAIN f.todo = 1 .. 6 /\ f.played \in Nat
        /\ f.played + f.pruned + Remaining(f) + Ahead(f) = Cardinality(Legal(game, game.root))
        /\ f.checked = InCheck(game, game.root)
    BY <1>1, <1>2 DEF NodeOK
  <2>2. Ahead(f) = 0
    BY <1>1 DEF Ahead, Making, AfterMove
  <2>3. \A i \in 1 .. 6 : f.todo[i] = {}
    BY <1>1, <2>1
  <2>4. Remaining(f) = 0
    BY <2>3, FS_EmptySet DEF Remaining
  <2> QED
    BY <1>3, <2>1, <2>2, <2>4
<1>5. f.played = 0 <=> Legal(game, game.root) = {}
  BY <1>2, <1>4, FS_EmptySet
<1>6. SearchValues(f)
  BY <1>1, <1>2, NodeValues
<1>7. f.best = ScoreMin <=> f.played = 0
  BY <1>1, <1>6 DEF SearchValues
<1>8. CASE aborted
  BY <1>1, <1>8 DEF RootTurn
<1>9. CASE ~aborted /\ f.played = 0
  <2>1. ret' = IF f.checked THEN MatedIn(1) ELSE 0
    BY <1>2, <1>9 DEF SearchEnds, Return
  <2>2. 0 \in MatedIn(1) .. MateIn(2) /\ MatedIn(1) \in MatedIn(1) .. MateIn(2)
    BY ScoreAssumption DEF MatedIn, MateIn
  <2>3. ret' = IF InCheck(game, game.root) THEN MatedIn(1) ELSE 0
    BY <1>4, <2>1
  <2>4. Answer(ret', pvs[1])
    BY <1>3, <1>5, <1>7, <1>9, <2>2, <2>3 DEF Answer
  <2> QED
    BY <1>1, <2>4 DEF RootTurn
<1>10. CASE ~aborted /\ f.played # 0
  <2>1. ret' = f.best
    BY <1>10 DEF SearchEnds, Return
  <2>2. f.best \in MatedIn(1) .. MateIn(2)
    <3>1. /\ f.best \in Int /\ (f.best = ScoreMin \/ MatedIn(1) <= f.best) /\ f.best < f.beta
          /\ f.beta <= MateIn(1 + 1) /\ f.beta \in Int
      BY <1>1, <1>2, <1>6 DEF SearchValues
    <3> QED
      BY <1>7, <1>10, <3>1, ScoreAssumption DEF MatedIn, MateIn
  <2>3. Answer(ret', pvs[1])
    BY <1>3, <1>5, <1>7, <1>10, <2>1, <2>2 DEF Answer
  <2> QED
    BY <1>1, <2>3 DEF RootTurn
<1> QED
  BY <1>8, <1>9, <1>10

LEMMA RootTurns ==
  ASSUME AtRoot, Next
  PROVE  RootTurn
<1>1. BoardInv /\ stack # <<>> /\ Top.fn = "search" /\ Top.at \notin {"null", "verify", "razored"}
  BY RootFacts DEF RootNode
<1>2. CASE Abort(Top)
  BY <1>2 DEF Abort, Return, RootTurn
<1> QED
  BY <1>1, <1>2, EnterSearchRoot, BeforeMovesRoot, NextMoveRoot, SearchAgainRoot, MoveReturnsRoot, SearchEndsRoot
     DEF Next, RootSearch, RootReturns, Done, Finished, Idle, NullMoveReturns, VerifyReturns, RazorReturns,
         EnterQSearch, NextQMove, QMoveReturns, QSearchEnds, EnterSingular, NextSingularMove,
         SingularMoveReturns, SingularEnds

(* Above the root's call its line stays, and the singular test of the root *)
(* is the only other call at its ply.                                      *)
LEMMA SingularStays ==
  ASSUME BoardInv, stack # <<>>, Top.fn = "singular", Next
  PROVE  \/ stack' = Front(stack)
         \/ \E g : /\ g.fn = "singular"
                   /\ GoOn(g) \/ \E callee : CallFrom(g, callee) /\ callee.ply = Top.ply + 1
<1> DEFINE f == Top
           n == SingularNode(f)
           Rest(q, i, m) == [f EXCEPT !.quiets = q, !.todo[i] = @ \ {m}]
           Made(q, i, m) == Extended(Rest(q, i, m), [at |-> "scored", move |-> m])
           callee == Call(f.ply + 1, f.depth - 1, -f.beta, -f.alpha, FALSE, f.cut, FALSE)
           score == -ret
           counted == [f EXCEPT !.at = "moves", !.best = Most(@, score),
                                !.best_move = IF score > f.best THEN f.move ELSE @,
                                !.alpha = Most(@, score)]
<1>1. "fn" \in DOMAIN f
  BY TopNode DEF CallOK, CallFields
<1>2. n.fn = "singular" /\ counted.fn = "singular" /\ callee.ply = f.ply + 1
  BY <1>1 DEF SingularNode, Extended, Call
<1>3. \A q, i, m : Rest(q, i, m).fn = "singular" /\ Made(q, i, m).fn = "singular"
  BY <1>1 DEF Extended
<1>4. CASE EnterSingular(f)
  <2>1. stack' = Front(stack) \/ GoOn(n)
    BY <1>4 DEF EnterSingular, Return
  <2> HIDE DEF n
  <2> QED
    BY <1>2, <2>1
<1>5. CASE NextSingularMove(f)
  <2>1. PICK q, i, m : CallFrom(Made(q, i, m), callee) \/ GoOn(Rest(q, i, m))
    BY <1>5 DEF NextSingularMove
  <2> HIDE DEF Made, Rest, callee
  <2> QED
    BY <1>2, <1>3, <2>1
<1>6. CASE SingularMoveReturns(f)
  <2>1. stack' = Front(stack) \/ GoOn(counted)
    BY <1>6 DEF SingularMoveReturns, Return
  <2> HIDE DEF counted
  <2> QED
    BY <1>2, <2>1
<1>7. CASE SingularEnds(f)
  BY <1>7 DEF SingularEnds, Return
<1>8. \/ EnterSingular(f) \/ NextSingularMove(f) \/ SingularMoveReturns(f) \/ SingularEnds(f)
  BY DEF Next, RootSearch, RootReturns, Done, Finished, Idle, Abort, EnterSearch, PruneNode, NullMoveReturns,
     VerifyReturns, RazorNode, RazorReturns, SingularTest, SingularReturns, NextMove, SearchAgain, MoveReturns,
     SearchEnds, EnterQSearch, NextQMove, QMoveReturns, QSearchEnds
<1> QED
  BY <1>4, <1>5, <1>6, <1>7, <1>8

LEMMA LinesAbove ==
  ASSUME stack # <<>>, Next
  PROVE  pvs' = pvs \/ (Top.fn = "search" /\ \E q : pvs' = [pvs EXCEPT ![Top.ply] = q])
BY DEF Next, RootSearch, RootReturns, Done, Finished, Idle, vars, Abort, EnterSearch, PruneNode, NullMoveReturns,
     VerifyReturns, RazorNode, RazorReturns, SingularTest, SingularReturns, NextMove, SearchAgain, MoveReturns,
     SearchEnds, EnterQSearch, NextQMove, QMoveReturns, QSearchEnds, EnterSingular, NextSingularMove,
     SingularMoveReturns, SingularEnds, LineCleared, UpdatePv

OthersSingular == \A i \in 2 .. Len(stack) : stack[i].ply = 1 => stack[i].fn = "singular"

LEMMA AboveRoot ==
  ASSUME RootSafe, BoardInv', stack # <<>>, Len(stack) # 1, Next
  PROVE  stack' # <<>> /\ RootNode(stack'[1], pvs'[1]) /\ OthersSingular'
<1> DEFINE n == Len(stack)
<1>1. BoardInv /\ RootNode(stack[1], pvs[1]) /\ OthersSingular
  BY DEF RootSafe, LinesSafe, BoardSafe, RootOK, OthersSingular
<1>2. /\ n \in Nat /\ n >= 2 /\ Top = stack[n] /\ Top.ply \in Nat /\ Top.ply >= 1 /\ IsSequence(stack)
  <2>1. n \in Nat \ {0} /\ Top = stack[n] /\ Top.ply \in 1 .. MaxPly /\ IsSequence(stack)
    BY <1>1, FrameFacts
  <2> QED
    BY <2>1, ScoreAssumption
<1>3. LineStep
  BY EveryStepWritesLines DEF RootSafe, LinesSafe, BoardSafe
<1>4. pvs'[1] = pvs[1]
  <2>1. CASE pvs' = pvs
    BY <2>1
  <2>2. CASE Top.fn = "search" /\ \E q : pvs' = [pvs EXCEPT ![Top.ply] = q]
    <3>1. Top.ply # 1
      BY <1>1, <1>2, <2>2 DEF OthersSingular
    <3> QED
      BY <2>2, <3>1
  <2> QED
    BY <2>1, <2>2, LinesAbove
<1> HIDE DEF n
<1>5. CASE stack' = Front(stack)
  <2>1. IsSequence(stack') /\ Len(stack') = n - 1 /\ \A i \in 1 .. n - 1 : stack'[i] = stack[i]
    BY <1>2, <1>5, FrontFacts DEF n
  <2>2. stack' # <<>>
    BY <1>2, <2>1, SequenceFacts
  <2>3. stack'[1] = stack[1]
    BY <1>2, <2>1
  <2>4. OthersSingular'
    BY <1>1, <1>2, <2>1 DEF OthersSingular, n
  <2> QED
    BY <1>1, <1>4, <2>2, <2>3, <2>4
(* Wherever the innermost call goes on, it keeps its ply.                  *)
<1>6. ASSUME NEW g, g.ply = 1 => g.fn = "singular", GoOn(g)
      PROVE  stack' # <<>> /\ RootNode(stack'[1], pvs'[1]) /\ OthersSingular'
  <2>1. /\ IsSequence(stack') /\ Len(stack') = n /\ stack'[n] = g /\ \A i \in 1 .. n - 1 : stack'[i] = stack[i]
    <3> DEFINE calls == [stack EXCEPT ![n] = g]
    <3>1. IsSequence(calls) /\ Len(calls) = n /\ calls[n] = g /\ \A i \in 1 .. n - 1 : calls[i] = stack[i]
      BY <1>2, ReplaceFacts DEF n
    <3>2. stack' = calls
      BY <1>6 DEF GoOn, n
    <3> QED
      BY <3>1, <3>2
  <2>2. stack' # <<>> /\ stack'[1] = stack[1]
    BY <1>2, <2>1, SequenceFacts
  <2>3. ASSUME NEW i \in 2 .. n, stack'[i].ply = 1 PROVE stack'[i].fn = "singular"
    <3>1. i = n \/ (i \in 1 .. n - 1 /\ i \in 2 .. n)
      BY <1>2
    <3> QED
      BY <1>1, <1>6, <2>1, <2>3, <3>1 DEF OthersSingular, n
  <2>4. OthersSingular'
    BY <2>1, <2>3 DEF OthersSingular
  <2> QED
    BY <1>1, <1>4, <2>2, <2>4
<1>7. ASSUME NEW g, NEW callee, g.ply = 1 => g.fn = "singular", callee.ply # 1, CallFrom(g, callee)
      PROVE  stack' # <<>> /\ RootNode(stack'[1], pvs'[1]) /\ OthersSingular'
  <2> DEFINE calls == [stack EXCEPT ![n] = g]
  <2>1. IsSequence(calls) /\ Len(calls) = n /\ calls[n] = g /\ \A i \in 1 .. n - 1 : calls[i] = stack[i]
    BY <1>2, ReplaceFacts DEF n
  <2>2. stack' = Append(calls, callee)
    BY <1>7 DEF CallFrom, n
  <2> HIDE DEF calls
  <2>3. IsSequence(stack') /\ Len(stack') = n + 1 /\ stack'[n + 1] = callee /\ \A i \in 1 .. n : stack'[i] = calls[i]
    BY <2>1, <2>2, AppendFacts
  <2>4. stack' # <<>> /\ stack'[1] = stack[1]
    <3>1. 1 \in 1 .. n /\ 1 \in 1 .. n - 1
      BY <1>2
    <3> QED
      BY <1>2, <2>1, <2>3, <3>1, SequenceFacts
  <2>5. ASSUME NEW i \in 2 .. n + 1, stack'[i].ply = 1 PROVE stack'[i].fn = "singular"
    <3>1. i = n + 1 \/ (i = n /\ n \in 1 .. n) \/ (i \in 1 .. n - 1 /\ i \in 2 .. n /\ i \in 1 .. n)
      BY <1>2
    <3> QED
      BY <1>1, <1>7, <2>1, <2>3, <2>5, <3>1 DEF OthersSingular, n
  <2>6. OthersSingular'
    BY <2>3, <2>5 DEF OthersSingular
  <2> QED
    BY <1>1, <1>4, <2>4, <2>6
<1>8. CASE Top.ply = 1
  <2>1. Top.fn = "singular"
    BY <1>1, <1>2, <1>8 DEF OthersSingular, n
  <2> QED
    BY <1>1, <1>5, <1>6, <1>7, <1>8, <2>1, SingularStays
<1>9. CASE Top.ply # 1
  <2>1. CASE Stays
    BY <1>6, <1>9, <2>1 DEF Stays
  <2>2. CASE Enters
    <3>1. PICK g, callee : CallFrom(g, callee) /\ g.ply = Top.ply
      BY <2>2 DEF Enters
    <3>2. callee.ply # 1
      <4> DEFINE calls == [stack EXCEPT ![n] = g]
      <4>1. IsSequence(calls) /\ Len(calls) = n /\ calls[n] = g
        BY <1>2, ReplaceFacts DEF n
      <4>2. stack' = Append(calls, callee)
        BY <3>1 DEF CallFrom, n
      <4> HIDE DEF calls
      <4>3. IsSequence(stack') /\ Len(stack') = n + 1 /\ stack'[n + 1] = callee /\ \A i \in 1 .. n : stack'[i] = calls[i]
        BY <4>1, <4>2, AppendFacts
      <4>4. stack'[n] = g /\ n \in 1 .. Len(stack') - 1 /\ stack' # <<>>
        BY <1>2, <4>1, <4>3, SequenceFacts
      <4>5. callee.ply = g.ply + Ahead(g)
        BY <4>3, <4>4 DEF BoardInv, Sound, CallsOK
      <4> QED
        BY <1>2, <1>9, <3>1, <4>5 DEF Ahead
    <3> QED
      BY <1>7, <1>9, <3>1, <3>2
  <2>3. CASE UNCHANGED <<stack, pvs>>
    BY <1>1, <2>3 DEF OthersSingular
  <2> QED
    BY <1>3, <1>5, <2>1, <2>2, <2>3 DEF LineStep, Leaves, Starts
<1> QED
  BY <1>8, <1>9

(* Every step keeps the root's call and the answer that it leaves.         *)
LEMMA RootStep ==
  ASSUME RootSafe, LinesSafe', Next
  PROVE  RootOK'
<1>1. BoardInv /\ BoardInv' /\ game \in Games /\ game' = game
  <2>1. BoardSafe /\ BoardSafe'
    BY DEF RootSafe, LinesSafe
  <2> QED
    BY <2>1, EveryStepDisciplined DEF BoardSafe, BoardInv, Disciplined
<1>2. ProbesCounted /\ (result.probe > 0 => Answer(result.score, result.pv))
  BY DEF RootSafe, RootOK
<1>3. CASE RootSearch
  <2>0. /\ stack = <<>> /\ probes' = probes + 1 /\ probes + 1 \in 1 .. Len(game.probes)
        /\ \E callee : /\ stack' = <<callee>>
                       /\ callee.fn = "search" /\ callee.at = "entry" /\ callee.ply = 1 /\ callee.pv = TRUE
                       /\ callee.depth \in Nat \ {0} /\ callee.alpha \in Int /\ callee.beta \in Int
                       /\ callee.alpha < callee.beta /\ callee.alpha < MateIn(2) /\ MatedIn(1) < callee.beta
    BY <1>1, <1>2, <1>3, NextProbe
  <2>1. PICK callee : /\ stack' = <<callee>>
                      /\ callee.fn = "search" /\ callee.at = "entry" /\ callee.ply = 1 /\ callee.pv = TRUE
                      /\ callee.depth \in Nat \ {0} /\ callee.alpha \in Int /\ callee.beta \in Int
                      /\ callee.alpha < callee.beta /\ callee.alpha < MateIn(2) /\ MatedIn(1) < callee.beta
    BY <2>0
  <2> DEFINE calls == <<callee>>
  <2>2a. Len(calls) = 1 /\ calls[1] = callee /\ stack' = calls
    BY <2>1
  <2>2b. Len(<<>>) = 0
    BY EmptySeq
  <2>2c. result' = result
    BY <1>3 DEF RootSearch
  <2> HIDE DEF calls
  <2>2. Len(stack') = 1 /\ stack'[1] = callee /\ stack' # <<>> /\ result' = result
    BY <2>2a, <2>2b, <2>2c
  <2>3. WindowFrom(callee) < WindowTo(callee)
    BY <2>1, ScoreAssumption DEF WindowFrom, WindowTo, Most, Least, MatedIn, MateIn
  <2>4. RootNode(callee, pvs'[1])
    BY <2>1, <2>3 DEF RootNode
  <2>5. ProbesCounted'
    BY <1>1, <2>0 DEF ProbesCounted
  <2> QED
    BY <1>1, <1>2, <2>2, <2>4, <2>5 DEF RootOK, Answer
<1>4. CASE RootReturns
  <2>1. stack = <<>> /\ ~aborted /\ ~Collected /\ stack' = stack /\ pvs' = pvs /\ probes' = probes /\ ret' = ret
    BY <1>4 DEF RootReturns, Idle
  <2>2. result'.probe = probes' /\ result'.score = ret /\ result'.pv = pvs[1]
    BY <1>4, <2>1 DEF RootReturns
  <2>3. Answer(ret, pvs[1])
    BY <2>1 DEF RootSafe, RootOK
  <2>4. ProbesCounted'
    BY <1>1, <1>2, <2>1 DEF ProbesCounted
  <2>5. Len(<<>>) = 0
    BY EmptySeq
  <2> QED
    BY <1>1, <2>1, <2>2, <2>3, <2>4, <2>5 DEF RootOK, Answer, Collected
<1>5. ASSUME result' = result, probes' = probes, stack # <<>> PROVE RootOK'
  <2>1. ProbesCounted'
    BY <1>1, <1>2, <1>5 DEF ProbesCounted
  <2>2. (result.probe > 0 => Answer(result.score, result.pv))'
    BY <1>1, <1>2, <1>5 DEF Answer
  <2>3. CASE Len(stack) # 1
    <3>1. stack' # <<>> /\ RootNode(stack'[1], pvs'[1]) /\ OthersSingular'
      BY <1>1, <1>5, <2>3, AboveRoot
    <3> QED
      BY <2>1, <2>2, <3>1 DEF RootOK, OthersSingular
  <2>4. CASE Len(stack) = 1
    <3>1. RootTurn /\ IsSequence(stack)
      BY <1>1, <1>5, <2>4, RootTurns, FrameFacts DEF AtRoot
    <3>2. CASE stack' = Front(stack) /\ (aborted' \/ Answer(ret', pvs'[1]))
      <4>1. IsSequence(stack') /\ Len(stack') = 0
        BY <1>5, <2>4, <3>1, <3>2, FrontFacts
      <4>2. stack' = <<>>
        BY <4>1, SequenceFacts
      <4>3. aborted' \/ Answer(ret, pvs[1])'
        BY <1>1, <3>2 DEF Answer
      <4>4. OthersSingular'
        BY <4>1 DEF OthersSingular
      <4> QED
        BY <2>1, <2>2, <4>1, <4>2, <4>3, <4>4 DEF RootOK, OthersSingular
    <3>3. ASSUME NEW g, RootNode(g, pvs'[1]), GoOn(g) PROVE RootOK'
      <4> DEFINE calls == [stack EXCEPT ![Len(stack)] = g]
      <4>1. stack' = calls
        BY <3>3 DEF GoOn
      <4>2. IsSequence(calls) /\ Len(calls) = Len(stack) /\ calls[Len(stack)] = g
        BY <1>5, <3>1, ReplaceFacts
      <4> HIDE DEF calls
      <4>3. IsSequence(stack') /\ Len(stack') = 1 /\ stack'[1] = g
        BY <2>4, <4>1, <4>2
      <4>4. stack' # <<>>
        BY <4>3, SequenceFacts
      <4>5. OthersSingular'
        BY <4>3 DEF OthersSingular
      <4> QED
        BY <2>1, <2>2, <3>3, <4>3, <4>4, <4>5 DEF RootOK, OthersSingular
    <3>4. ASSUME NEW g, NEW callee, RootNode(g, pvs'[1]), CallFrom(g, callee), callee.ply = 1 => callee.fn = "singular"
          PROVE  RootOK'
      <4> DEFINE calls == [stack EXCEPT ![Len(stack)] = g]
      <4>0. IsSequence(calls) /\ Len(calls) = Len(stack) /\ calls[Len(stack)] = g
        BY <1>5, <3>1, ReplaceFacts
      <4>1. stack' = Append(calls, callee)
        BY <3>4 DEF CallFrom
      <4> HIDE DEF calls
      <4>1a. /\ IsSequence(Append(calls, callee)) /\ Len(Append(calls, callee)) = Len(calls) + 1
             /\ Append(calls, callee)[Len(calls) + 1] = callee
             /\ \A i \in 1 .. Len(calls) : Append(calls, callee)[i] = calls[i]
        BY <4>0, AppendFacts
      <4>1b. Len(calls) = 1 /\ calls[1] = g
        BY <2>4, <4>0
      <4>2. IsSequence(stack') /\ Len(stack') = 2 /\ stack'[2] = callee /\ stack'[1] = g
        BY <4>1, <4>1a, <4>1b
      <4>3. stack' # <<>>
        BY <4>2, SequenceFacts
      <4>4. OthersSingular'
        BY <3>4, <4>2 DEF OthersSingular
      <4> QED
        BY <2>1, <2>2, <3>4, <4>2, <4>3, <4>4 DEF RootOK, OthersSingular
    <3> QED
      BY <3>1, <3>2, <3>3, <3>4 DEF RootTurn
  <2> QED
    BY <2>3, <2>4
<1>6. CASE Done
  BY <1>1, <1>6 DEF Done, vars, RootSafe, RootOK, Answer, Collected, ProbesCounted
<1>7. RootSearch \/ RootReturns \/ Done \/ (result' = result /\ probes' = probes)
  BY DEF Next, Abort, EnterSearch, PruneNode, NullMoveReturns, VerifyReturns,
     RazorNode, RazorReturns, SingularTest, SingularReturns, NextMove, SearchAgain, MoveReturns, SearchEnds,
     EnterQSearch, NextQMove, QMoveReturns, QSearchEnds, EnterSingular, NextSingularMove,
     SingularMoveReturns, SingularEnds, driver
<1>8. stack # <<>> \/ RootSearch \/ RootReturns \/ Done
  BY TopEntry, <1>1 DEF Next, Abort, EnterSearch, PruneNode, NullMoveReturns, VerifyReturns,
     RazorNode, RazorReturns, SingularTest, SingularReturns, NextMove, SearchAgain, MoveReturns, SearchEnds,
     EnterQSearch, NextQMove, QMoveReturns, QSearchEnds, EnterSingular, NextSingularMove,
     SingularMoveReturns, SingularEnds, NeedsDepth, NeedsWindow
<1> QED
  BY <1>3, <1>4, <1>5, <1>6, <1>7, <1>8

LEMMA RootSafeNext ==
  ASSUME RootSafe, [Next]_vars
  PROVE  RootSafe'
<1>1. LinesSafe'
  BY LinesNext DEF RootSafe
<1>2. CASE Next
  <2>1. BoardInv /\ ProbesCounted /\ ValueSound
    BY DEF RootSafe, LinesSafe, BoardSafe, RootOK
  <2>2. ValueSound'
    BY <1>2, <2>1, EveryStepValues, ValueStepKeeps
  <2> QED
    BY <1>1, <1>2, <2>2, RootStep DEF RootSafe
<1>3. CASE UNCHANGED vars
  <2>1. ValueSound'
    BY <1>3 DEF vars, RootSafe, ValueSound, Top, Idle
  <2>2. RootOK'
    BY <1>3 DEF vars, RootSafe, RootOK, Answer, Collected, ProbesCounted
  <2> QED
    BY <1>1, <2>1, <2>2 DEF RootSafe
<1> QED
  BY <1>2, <1>3

LEMMA RootInit ==
  ASSUME Init
  PROVE  RootSafe
<1>1. PICK g \in Games : InitOf(g)
  BY DEF Init
<1>2. /\ game = g /\ stack = <<>> /\ ret = 0 /\ table = <<>> /\ aborted = FALSE /\ probes = 0
      /\ result = [probe |-> 0, score |-> 0, pv |-> <<>>]
  BY <1>1 DEF InitOf
<1>3. Len(stack) = 0 /\ DOMAIN table = {}
  BY <1>2, EmptySeq
<1>4. ValueSound
  BY <1>2, <1>3 DEF ValueSound, TableOK, LinksOK
<1>5. ProbesCounted
  <2>1. g.probes \in Seq((Nat \ {0}) \X Int \X Int)
    BY ScoresAssumption
  <2>2. Len(g.probes) \in Nat
    BY <2>1
  <2> QED
    BY <1>2, <2>2 DEF ProbesCounted
<1>6. RootOK
  BY <1>2, <1>3, <1>5 DEF RootOK, Collected
<1> QED
  BY <1>4, <1>6, LinesInit DEF RootSafe

(* What goMTD() and goPVS() rely on: a root search that was not aborted    *)
(* returns a score between "mated now" and "mate in one" with a move, or   *)
(* the mate or stalemate of the root.                                      *)
THEOREM RootKeepsPromise == Spec => []RootPromise
<1>1. Init => RootSafe
  BY RootInit
<1>2. RootSafe /\ [Next]_vars => RootSafe'
  BY RootSafeNext
<1>3. RootSafe => RootPromise
  BY DEF RootSafe, RootOK, Answer, RootPromise
<1> QED
  BY <1>1, <1>2, <1>3, PTL DEF Spec

-----------------------------------------------------------------------------
(* The history tables that order the moves of a node, for every depth and  *)
(* number of updates.  The arguments use of the limit only that it is      *)
(* positive.                                                               *)

(* All that is needed to know about the limit.                             *)
LEMMA LimitIsPositive == MAX_VAL \in Nat \ {0}
  BY DEF MAX_VAL

(* A quotient is what is left of the limit's multiples below its dividend. *)
LEMMA DivisionFacts ==
  ASSUME NEW a \in Nat, NEW m \in Nat \ {0}
  PROVE  /\ a \div m \in Nat
         /\ m * (a \div m) <= a
         /\ a < m * (a \div m) + m
  BY SMT

LEMMA ProductIsNatural ==
  ASSUME NEW a \in Nat, NEW b \in Nat
  PROVE  a * b \in Nat
  BY SMT

(* The core of the update, for an entry and a bonus that are not negative: *)
(* the share taken away is at most the bonus and leaves at most the limit. *)
LEMMA Damped ==
  ASSUME NEW v \in 0 .. MAX_VAL, NEW b \in 0 .. MAX_VAL
  PROVE  /\ (v * b) \div MAX_VAL \in 0 .. b
         /\ (v * b) \div MAX_VAL <= v
         /\ v + b - (v * b) \div MAX_VAL <= MAX_VAL
<1> DEFINE M == MAX_VAL
           q == (v * b) \div M
<1>1. M \in Nat \ {0} /\ v \in Nat /\ b \in Nat /\ v <= M /\ b <= M
  BY LimitIsPositive
<1>2. v * b \in Nat
  BY <1>1, ProductIsNatural
<1>3. q \in Nat /\ M * q <= v * b /\ v * b < M * q + M
  BY <1>1, <1>2, DivisionFacts
<1> HIDE DEF M, q
<1>4. v * b <= M * b /\ v * b <= M * v
  BY <1>1, SMTT(30)
<1>5. q <= b
  <2>1. M * q <= M * b
    BY <1>1, <1>3, <1>4, SMT
  <2> QED
    BY <2>1, <1>1, <1>3, SMTT(30)
<1>6. q <= v
  <2>1. M * q <= M * v
    BY <1>1, <1>3, <1>4, SMT
  <2> QED
    BY <2>1, <1>1, <1>3, SMTT(30)
<1>7. v + b - q <= M
  <2> SUFFICES ASSUME q + M + 1 <= v + b PROVE FALSE
    BY <1>1, <1>3, SMT
  <2>1. M * (q + M + 1) <= M * (v + b)
    BY <1>1, <1>3, SMTT(30)
  <2>2. M * q + M <= M * v + M * b - M * M
    BY <2>1, <1>1, <1>3, SMTT(30)
  <2>3. 0 <= (M - v) * (M - b)
    BY <1>1, SMTT(30)
  <2>4. (M - v) * (M - b) = M * M - M * v - M * b + v * b
    BY <1>1, SMTT(30)
  <2> QED
    BY <2>2, <2>3, <2>4, <1>1, <1>3, SMTT(30)
<1> QED
  BY <1>1, <1>3, <1>5, <1>6, <1>7 DEF M, q

LEMMA ClampedInRange ==
  ASSUME NEW bonus \in Int
  PROVE  /\ Clamped(bonus) \in -MAX_VAL .. MAX_VAL
         /\ bonus >= 0 => Clamped(bonus) >= 0
         /\ bonus <= 0 => Clamped(bonus) <= 0
  BY LimitIsPositive DEF Clamped

(* One update keeps the range and moves the entry the bonus's way.         *)
LEMMA UpdateStaysInRange ==
  ASSUME NEW v \in -MAX_VAL .. MAX_VAL, NEW bonus \in Int
  PROVE  /\ Updated(v, bonus) \in -MAX_VAL .. MAX_VAL
         /\ bonus >= 0 => Updated(v, bonus) >= v
         /\ bonus <= 0 => Updated(v, bonus) <= v
<1> DEFINE c == Clamped(bonus)
           n == Magnitude(c)
           w == Magnitude(v)
<1>1. /\ c \in -MAX_VAL .. MAX_VAL
      /\ bonus >= 0 => c >= 0
      /\ bonus <= 0 => c <= 0
  BY ClampedInRange
<1> HIDE DEF c
<1>2. n \in 0 .. MAX_VAL /\ w \in 0 .. MAX_VAL
  BY <1>1, LimitIsPositive DEF Magnitude
<1> DEFINE q == (w * n) \div MAX_VAL
<1>3. q \in 0 .. n /\ q <= w /\ w + n - q <= MAX_VAL
  BY <1>2, Damped
<1>4. Share(v * n) = IF v >= 0 THEN q ELSE -q
  <2>1. w * n \in Nat
    BY <1>2, LimitIsPositive, ProductIsNatural
  <2>2. CASE v >= 0
    BY <2>1, <2>2 DEF Share, Magnitude
  <2>3. CASE v < 0
    <3>1. -(v * n) = w * n
      BY <2>3, <1>2, LimitIsPositive, SMTT(30) DEF Magnitude
    <3> HIDE DEF n
    <3>2. CASE v * n >= 0
      <4>1. w * n = 0 /\ v * n = 0
        BY <3>1, <3>2, <2>1, <1>2, SMT
      <4>2. 0 \div MAX_VAL = 0
        BY LimitIsPositive, SMT
      <4> QED
        BY <4>1, <4>2, <2>3 DEF Share
    <3>3. CASE ~(v * n >= 0)
      BY <3>1, <3>3, <2>3 DEF Share
    <3> QED
      BY <3>2, <3>3
  <2> QED
    BY <2>2, <2>3
<1>5. Updated(v, bonus) = v + (c - Share(v * n))
  BY DEF Updated, c
<1> HIDE DEF q
<1> QED
  BY <1>1, <1>2, <1>3, <1>4, <1>5, LimitIsPositive, SMTT(30) DEF n, Magnitude
-----------------------------------------------------------------------------
LEMMA BoundedInductive == HistoryInBounds /\ [HistoryNext]_history_table => HistoryInBounds'
<1> SUFFICES ASSUME HistoryInBounds, [HistoryNext]_history_table PROVE HistoryInBounds'
  OBVIOUS
<1>1. CASE UNCHANGED history_table
  BY <1>1 DEF HistoryInBounds
<1>2. ASSUME NEW e \in Entries, NEW bonus \in Int, history_table' = [history_table EXCEPT ![e] = Updated(@, bonus)]
      PROVE  HistoryInBounds'
  <2>1. Updated(history_table[e], bonus) \in -MAX_VAL .. MAX_VAL
    BY UpdateStaysInRange DEF HistoryInBounds
  <2> QED
    BY <1>2, <2>1 DEF HistoryInBounds
<1>3. CASE HistoryNext
  <2>1. PICK e \in Entries, depth \in Depths : OnCutoff(e, depth) \/ OnPoor(e, depth)
    BY <1>3 DEF HistoryNext
  <2>2. depth * depth \in Int /\ -depth \in Int
    BY ProductIsNatural DEF Depths
  <2> QED
    BY <2>1, <2>2, <1>2 DEF OnCutoff, OnPoor
<1> QED
  BY <1>1, <1>3

(* The entries of the history tables never leave -MAX_VAL .. MAX_VAL.      *)
THEOREM HistoryBounded == HistorySpec => []HistoryInBounds
<1>1. HistoryInit => HistoryInBounds
  BY LimitIsPositive DEF HistoryInit, HistoryInBounds
<1> QED
  BY <1>1, BoundedInductive, PTL DEF HistorySpec

(* Rewards raise and blames lower, or leave an entry at its limit.         *)
THEOREM HistoryMovesTheRightWay == HistorySpec => RewardsAndBlames
<1> DEFINE Right == \A e \in Entries, depth \in Depths :
                      /\ OnCutoff(e, depth) => history_table'[e] >= history_table[e]
                      /\ OnPoor(e, depth) => history_table'[e] <= history_table[e]
<1>1. HistoryInBounds => Right
  <2> SUFFICES ASSUME HistoryInBounds, NEW e \in Entries, NEW depth \in Depths
               PROVE  /\ OnCutoff(e, depth) => history_table'[e] >= history_table[e]
                      /\ OnPoor(e, depth) => history_table'[e] <= history_table[e]
    OBVIOUS
  <2>1. depth \in Nat /\ depth * depth \in Nat
    BY ProductIsNatural DEF Depths
  <2>2. Updated(history_table[e], depth * depth) >= history_table[e] /\ Updated(history_table[e], -depth) <= history_table[e]
    BY <2>1, UpdateStaysInRange DEF HistoryInBounds
  <2> QED
    BY <2>2 DEF HistoryInBounds, OnCutoff, OnPoor
<1>2. HistorySpec => [][Right]_history_table
  BY <1>1, HistoryBounded, PTL DEF HistorySpec
<1> QED
  BY <1>2 DEF RewardsAndBlames

=============================================================================
