------------------------------ MODULE MCLogCore ------------------------------
EXTENDS LogCore, TLC

CONSTANTS s1, s2

MCFilters == {-1, 1}     \* everything; the upper of the two levels

SinkSymmetry == Permutations(Sinks)
=============================================================================
