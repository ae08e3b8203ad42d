----------------------------- MODULE MCTeardown -----------------------------
(* Model values and symmetry for checking Teardown with TLC. *)
EXTENDS Teardown, TLC

CONSTANTS c1, c2, ch1, ch2

Circ1 == {c1}
Circ2 == {c1, c2}
Chan2 == {ch1, ch2}

\* A reserved id comes back into use: said of one channel, as both are alike.
ReservedIsReleasedOnCh1 == ReservedIsReleased(ch1)

Symmetry2 == Permutations(Circ2) \cup Permutations(Chan2)

=============================================================================
