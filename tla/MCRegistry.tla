----------------------------- MODULE MCRegistry -----------------------------
(***************************************************************************)
(* Two loan ids, two accounts, up to three installments (a uint16 of 0..3):*)
(* enough for a loan to be registered twice, confirmed out of turn, by the *)
(* wrong account, with either of two proofs, and after completion.         *)
(***************************************************************************)
EXTENDS Registry, TLC

CONSTANTS l1, l2, a1, a2, d1, d2

MCLoanIds == {l1, l2}
MCAddresses == {a1, a2}
MCProofData == {d1, d2}

MCSymmetry == Permutations(MCLoanIds) \cup Permutations(MCProofData)
=============================================================================
