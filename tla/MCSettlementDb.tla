--------------------------- MODULE MCSettlementDb ---------------------------
(***************************************************************************)
(* One borrower owes two loans: two installments payable on Stellar or in  *)
(* cash, and one more of another loan with the same parties.  Two Stellar  *)
(* transactions, each of which can be reported for any intent, two cash    *)
(* receipts, and one unresolved candidate per intent.                      *)
(***************************************************************************)
EXTENDS SettlementDb, TLC

CONSTANTS l1, l2, k1, k2, k3, borrower, lender, w1, w2, t1, t2, c1, c2

MCLoan == {l1, l2}
MCInstallment == {k1, k2, k3}
MCLoanOf == (k1 :> l1) @@ (k2 :> l1) @@ (k3 :> l2)
MCNumberOf == (k1 :> 1) @@ (k2 :> 2) @@ (k3 :> 1)
MCProfile == {borrower, lender}
MCBorrowerOf == [l \in MCLoan |-> borrower]
MCLenderOf == [l \in MCLoan |-> lender]
MCWallet == {w1, w2}
MCTx == {t1, t2}
MCLedger == {1}
MCCashReceipt == {c1, c2}
MCSymmetry == Permutations(MCTx) \cup Permutations(MCCashReceipt)
                  \cup Permutations(MCWallet)
=============================================================================
