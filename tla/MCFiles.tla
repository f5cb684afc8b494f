------------------------------- MODULE MCFiles -------------------------------
EXTENDS Files, TLC
CONSTANTS n1, n2
MCPath   == {<<n1>>, <<n1, n2>>}
MCDots   == {<<n1>>, <<n1, n2>>, <<n1, n2, DotDot>>}
Symmetry == Permutations(Proc)
=============================================================================
