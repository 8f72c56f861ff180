----------------------------- MODULE MCListener -----------------------------
(* Small instances of the listener for TLC.                                *)
EXTENDS Listener, TLC

CONSTANTS a1, a2, t1, t2

MCAddrs == {a1, a2}
MCTokens == {t1, t2}

Symmetry == Permutations(MCTokens)

=============================================================================
