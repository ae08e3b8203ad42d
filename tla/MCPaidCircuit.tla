---------------------------- MODULE MCPaidCircuit ----------------------------
(* Model values and symmetry for checking PaidCircuit with TLC. *)
EXTENDS PaidCircuit, TLC

CONSTANTS r1, r2

Relays == {r1, r2}

=============================================================================
