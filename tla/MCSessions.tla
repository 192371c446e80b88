----------------------------- MODULE MCSessions -----------------------------
EXTENDS Sessions

CONSTANTS w1, w2
MCWindows == {w1, w2}
Symmetry == Permutations(MCWindows)

Up == [s \in SessionIds |-> s]
Down == [s \in SessionIds |-> -s]
Opt(r, u, d, a) ==
    [renumber |-> r, destroy_unattached |-> u, detach_on_destroy |-> d, act |-> a]
MCOptions == {Opt(FALSE, 2, 4, Down), Opt(TRUE, 1, 1, Up)}
=============================================================================
