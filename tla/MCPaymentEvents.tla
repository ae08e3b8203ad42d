--------------------------- MODULE MCPaymentEvents ---------------------------
(* Model values for checking PaymentEvents with TLC. *)
EXTENDS PaymentEvents

CONSTANTS main, t1, t2, pay1, pay2, pay3, log1, log2

MCThread == {main, t1, t2}
MCPayment == {pay1, pay2, pay3}
MCEvent == MCPayment \cup {log1, log2}
==============================================================================
