----------------------------- MODULE MCAuditTrail -----------------------------
(***************************************************************************)
(* Instances of AuditTrail for TLC: a payment, which its caller records,   *)
(* and the completion of the loan, which only the listener sees.           *)
(*                                                                         *)
(* Four calls may fail, and the run of the properties has two kinds of     *)
(* initial states, since record makes only four calls.  In the first the   *)
(* backend has stopped once, after a read of its cursor that failed, and   *)
(* the three failures left may meet record.  In the second they have met   *)
(* it: the payment is parked, and the last failure may meet what drains it.*)
(***************************************************************************)
EXTENDS AuditTrail

CONSTANTS e1, e2

MCEvent == {e1, e2}
MCKindOf == [e \in MCEvent |-> IF e = e1 THEN "PaymentConfirmed" ELSE "LoanCompleted"]
MCApi == {e1}
MCNone == {}

Restarted ==
    /\ head = 0
    /\ block = [e \in Event |-> 0]
    /\ pos = [e \in Event |-> 0]
    /\ logs = {}
    /\ outbox = {}
    /\ api = [e \in ApiEvent |-> "NO"]
    /\ faults = 1
    /\ crashes = 1

\* Any of the three writes may have been applied.
Parked ==
    /\ head = 1
    /\ block = [e \in Event |-> IF e = e1 THEN 1 ELSE 0]
    /\ pos = [e \in Event |-> 0]
    /\ logs \in SUBSET {Row(e1, 0)}
    /\ outbox = {Row(e1, 0)}
    /\ api = [e \in ApiEvent |-> "RETURNED"]
    /\ faults = 3
    /\ crashes = 1

MCInit ==
    /\ Restarted \/ Parked
    /\ cursor = [w \in {"listener", "script"} |-> Null]
    /\ record = [s \in Source |-> Null]
    /\ flush = Null
    /\ lst = Down

MCFairSpec == MCInit /\ [][Next]_vars /\ Fairness
===============================================================================
