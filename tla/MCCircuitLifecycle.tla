------------------------- MODULE MCCircuitLifecycle -------------------------
(* Model values for checking CircuitLifecycle with TLC.                        *)
EXTENDS CircuitLifecycle

CONSTANTS c1, c2, ch1, ch2

Circ2 == {c1, c2}
Chan2 == {ch1, ch2}

=============================================================================
