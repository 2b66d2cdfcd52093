------------------------------ MODULE Payments ------------------------------
(***************************************************************************)
(* The whole of the payment of a loan: Stellar transfers and cash, online  *)
(* and offline, on the same installments, the same tables and the same     *)
(* contract, at the same time.                                             *)
(***************************************************************************)
EXTENDS PollarSettlement, CashCollection

ASSUME PaymentsAssumption == (Worker \cup Client) \cap CashRequest = {}

paymentVars == <<dbVars, chainVars, pollarVars, cashVars>>

PaymentsInit == DbInit /\ ChainInit /\ PollarInit /\ CashInit

PaymentsNext ==
    \/ PollarStep /\ UNCHANGED cashVars
    \/ CashStep /\ UNCHANGED pollarVars
    \/ ChainStep /\ UNCHANGED <<pollarVars, cashVars>>

PaymentsSpec == PaymentsInit /\ [][PaymentsNext]_paymentVars

-----------------------------------------------------------------------------

PaymentsTypeOK == PollarTypeOK /\ CashTypeOK

\* What a reader sees of all this: of an installment, of the proofs, and of
\* the loans that are closed.
RowSeen(k) ==
    LET paid == inst[k].status = "PAID"
    IN  [paid |-> paid, receipt |-> inst[k].receipt,
         digital |-> paid /\ inst[k].rail = "POLLAR", synced |-> inst[k].sync = "SYNCED"]

Numbered(l, n) == CHOOSE k \in InstallmentsOf(l) : NumberOf[k] = n

CountOf == [l \in Loan |-> Cardinality(InstallmentsOf(l))]

RowsSeen == [l \in Loan |-> [n \in 1 .. CountOf[l] |-> RowSeen(Numbered(l, n))]]

ProofsSeen == [l \in Loan |-> [j \in DOMAIN hskProofs[l] |->
                 [receipt |-> hskProofs[l][j].data.receipt,
                  digital |-> hskProofs[l][j].data.isDigital]]]

ClosedSeen == {l \in Loan : loanStatus[l] = "COMPLETED"}

Flow == INSTANCE PaymentFlow WITH
    NoReceipt <- Null, Count <- CountOf,
    row <- RowsSeen, proofs <- ProofsSeen, closed <- ClosedSeen

\* Tables and chain change before a reader's eyes only in the order of
\* PaymentFlow: cash is proved before it is booked and with the receipt that
\* is booked, a Stellar payment is settled at its turn, proved with its own
\* receipt and attested when the proof is buried.  The exception is the
\* offline item that could not read the installments (CompletedOnlyWhenPaid).
ImplementsFlow ==
    /\ Flow!FlowInit
    /\ [][ \/ UNCHANGED <<loanStatus, inst, hskProofs, buried>>
           \/ Flow!FlowNext
           \/ \E s \in SyncItem : CompleteUnread(s) ]_<<Flow!flowVars>>
=============================================================================
