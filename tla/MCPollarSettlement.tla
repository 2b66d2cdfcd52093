------------------------- MODULE MCPollarSettlement -------------------------
(***************************************************************************)
(* One loan of one or two installments, Stellar transactions between two   *)
(* wallets, either of which the lender may choose for its payments, one    *)
(* request of the borrower at a time, and one backend process or two that  *)
(* contend for the lease.                                                  *)
(***************************************************************************)
EXTENDS PollarSettlement, TLC

CONSTANTS l1, k1, k2, borrower, lender, w1, w2, t1, t2, client, b1, b2

MCLoan == {l1}
MCLoanOf == [k \in Installment |-> l1]
MCNumberOf == [k \in Installment |-> IF k = k1 THEN 1 ELSE 2]
MCProfile == {borrower, lender}
MCBorrowerOf == [l \in MCLoan |-> borrower]
MCLenderOf == [l \in MCLoan |-> lender]
MCWallet == {w1, w2}
MCLedger == 0 .. MaxTransfers
MCActor == Worker \cup Client
MCSymmetry ==
    Permutations(Tx) \cup Permutations(MCWallet) \cup Permutations(Worker)
=============================================================================
