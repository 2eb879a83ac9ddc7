-------------------------------- MODULE Slices --------------------------------
(* Parts of a sequence, and the steps of an iteration.                        *)
EXTENDS Integers, Sequences

\* What is between two positions of a sequence, counted from 0.
Slice(s, a, b) == SubSeq(s, a + 1, b)

\* A state, and what 1 to n steps make of it.
Iterated(step, start, n) ==
    LET after[k \in 0..n] == IF k = 0 THEN start ELSE step[after[k - 1]] IN after
==============================================================================
