---------------------------- MODULE PaymentBook ----------------------------
(***************************************************************************)
(* What the settlement tables promise, without saying how: a libreta whose *)
(* installments are reserved for one rail, paid once with a proof of their *)
(* own, and attested, and which is closed when all of them are paid.       *)
(***************************************************************************)
CONSTANTS
    Account,    \* loans
    Debt,       \* installments
    AccountOf,  \* the loan of an installment
    Before(_),  \* the installments that come before one in its loan
    Proof,      \* receipt hashes
    Null

VARIABLES
    stage,      \* how far each installment is
    proof,      \* the receipt it was paid with
    closed      \* the loans that are closed

bookVars == <<stage, proof, closed>>

Rail == {"CASH", "POLLAR"}
Paid == {"PAID", "ATTESTED"}

Init ==
    /\ stage = [d \in Debt |-> "OPEN"]
    /\ proof = [d \in Debt |-> Null]
    /\ closed = {}

\* Once reserved, the rail is decided; Pollar goes in order.
Reserve(d, rail) ==
    /\ stage[d] = "OPEN"
    /\ rail = "POLLAR" => \A e \in Before(d) : stage[e] = "ATTESTED"
    /\ stage' = [stage EXCEPT ![d] = rail]
    /\ UNCHANGED <<proof, closed>>

\* A digital payment is attested later; cash is attested before it is booked.
\* The last payment may close the loan at once.
Pay(d, p) ==
    /\ stage[d] \in Rail
    /\ \A e \in Debt : proof[e] # p
    /\ stage' = [stage EXCEPT ![d] = IF @ = "CASH" THEN "ATTESTED" ELSE "PAID"]
    /\ proof' = [proof EXCEPT ![d] = p]
    /\ \/ closed' = closed
       \/ /\ \A e \in Debt : AccountOf[e] = AccountOf[d] => stage'[e] \in Paid
          /\ closed' = closed \cup {AccountOf[d]}

Attest(d) ==
    /\ stage[d] = "PAID"
    /\ stage' = [stage EXCEPT ![d] = "ATTESTED"]
    /\ UNCHANGED <<proof, closed>>

Close(a) ==
    /\ \A d \in Debt : AccountOf[d] = a => stage[d] \in Paid
    /\ closed' = closed \cup {a}
    /\ UNCHANGED <<stage, proof>>

Next ==
    \/ \E d \in Debt :
          \/ \E rail \in Rail : Reserve(d, rail)
          \/ \E p \in Proof : Pay(d, p)
          \/ Attest(d)
    \/ \E a \in Account : Close(a)

Spec == Init /\ [][Next]_bookVars
=============================================================================
