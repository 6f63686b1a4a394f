--------------------------- MODULE MCRepetitionStack ---------------------------
(***************************************************************************)
(* Keys are numbers; keys that are equal modulo the capacity collide.      *)
(***************************************************************************)
EXTENDS RepetitionStack

LowBits(key) == key % Capacity

SomeKeys == {0, 5, 10, 1, 4}

=============================================================================
