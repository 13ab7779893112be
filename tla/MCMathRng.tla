----------------------------- MODULE MCMathRng -----------------------------
EXTENDS MathRng, TLC

CONSTANTS g1, g2

MCGens == {g1, g2}

Symmetry == Permutations(MCGens)

\* Zero, the word zero stands for, and words whose bits sit at either end.
MCSeeds == {{}, GOLDEN, {0}, {63}, {50, 63}}

\* Before the epoch; within its first second; in the next one, twice in one
\* millisecond; and around the wrap at MsSize = 4500, inside second 4.
MCClocks == [secs : {-1, 0, 1, 4}, nanos : {1999999, 999999999}]
            \cup {[secs |-> 1, nanos |-> 1000001]}
=============================================================================
