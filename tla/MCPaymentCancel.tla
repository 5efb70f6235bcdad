-------------------------- MODULE MCPaymentCancel --------------------------
(* Model-checking instance of PaymentCancel: two merchants, each owning    *)
(* one payment, one cancellation reason, two concurrent request tasks.     *)
EXTENDS PaymentCancel

CONSTANTS m1, m2, p1, p2

MCOwner == [p \in {p1, p2} |-> IF p = p1 THEN m1 ELSE m2]

=============================================================================
