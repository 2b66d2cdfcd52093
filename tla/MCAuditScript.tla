---------------------------- MODULE MCAuditScript ----------------------------
(* An instance of AuditScript for TLC: a payment and the completion of the   *)
(* loan, in one block or two.                                                *)
EXTENDS AuditScript

CONSTANTS e1, e2

MCEvent == {e1, e2}
MCKindOf == [e \in MCEvent |-> IF e = e1 THEN "PaymentConfirmed" ELSE "LoanCompleted"]
MCNone == {}
=============================================================================
