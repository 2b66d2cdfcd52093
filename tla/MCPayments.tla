----------------------------- MODULE MCPayments -----------------------------
(***************************************************************************)
(* One loan of two installments, and two kinds of initial states, so that  *)
(* the size of the run is a sum and not a product.  In the first, one      *)
(* Stellar transaction, one backend process, one request of a borrower and *)
(* an offline item meet; in the second, two collections online and the     *)
(* offline item, and nobody pays with Stellar.  One-time passwords are for *)
(* collections online.                                                     *)
(***************************************************************************)
EXTENDS Payments, TLC

CONSTANTS l1, k1, k2, borrower, lender, w1, w2, c1, c2

MCLoan == {l1}
MCInstallment == {k1, k2}
MCLoanOf == [k \in MCInstallment |-> l1]
MCNumberOf == [k \in MCInstallment |-> IF k = k1 THEN 1 ELSE 2]
MCProfile == {borrower, lender}
MCBorrowerOf == [l \in MCLoan |-> borrower]
MCLenderOf == [l \in MCLoan |-> lender]
MCWallet == {w1, w2}
MCLedger == 0 .. MaxTransfers
MCCashReceipt == Collect \cup SyncItem
MCActor == Worker \cup Client \cup MCCashReceipt
MCCollect == {c1, c2}
MCSymmetry == Permutations(MCWallet) \cup Permutations(MCCollect)

\* No collection online was begun, and none will be.
OnlyOffline == \A c \in Collect : cash[c] = [pc |-> "FAILED", k |-> Null]

WithStellar ==
    /\ DbInit /\ ChainInit /\ PollarInit
    /\ otp = {}
    /\ queue = [s \in SyncItem |-> "NONE"]
    /\ cash = [r \in CashRequest |->
                 [pc |-> IF r \in Collect THEN "FAILED" ELSE "NEW", k |-> Null]]

MCInit == WithStellar \/ PaymentsInit

MCNext ==
    /\ PaymentsNext
    /\ <<pollarVars, route>>' # <<pollarVars, route>> => OnlyOffline
    /\ otp' # otp => ~ OnlyOffline

MCSpec == MCInit /\ [][MCNext]_paymentVars
=============================================================================
