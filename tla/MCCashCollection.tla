-------------------------- MODULE MCCashCollection --------------------------
(***************************************************************************)
(* One loan of one or two installments, with requests to collect in cash   *)
(* that can meet on the same installment.                                  *)
(***************************************************************************)
EXTENDS CashCollection, TLC

CONSTANTS l1, k1, k2, borrower, lender, c1, c2, s1

MCLoan == {l1}
MCLoanOf == [k \in Installment |-> l1]
MCNumberOf == [k \in Installment |-> IF k = k1 THEN 1 ELSE 2]
MCProfile == {borrower, lender}
MCBorrowerOf == [l \in MCLoan |-> borrower]
MCLenderOf == [l \in MCLoan |-> lender]
MCCashReceipt == Collect \cup SyncItem
MCSymmetry == Permutations(Collect)
=============================================================================
