----------------------------- MODULE MCLending -----------------------------
(***************************************************************************)
(* Two users, who may be given ids of their own in the table of profiles,  *)
(* two requests for a profile, two for a loan, of which the second may     *)
(* repeat the first, and terms with remainders in both the capital and the *)
(* total, months of different length, and installments that do not cover   *)
(* the capital.                                                            *)
(*                                                                         *)
(* The run has two kinds of initial states, so that its size is the sum and*)
(* not the product of two questions: the empty system, in which users and  *)
(* loans come to be and nothing is assigned, and one in which two loans    *)
(* have come to be, of which routes are then made.                         *)
(***************************************************************************)
EXTENDS CollectionRoutes, TLC

CONSTANTS u1, u2, x1, x2, wl, wb, l1, l2, c1, c2, s1, s2

MCAuthUser == {u1, u2}
MCUuid == {u1, u2, x1, x2}
MCAddress == {wl, wb}
MCRequest == {c1, c2}
MCProfileCall == {s1, s2}
MCLoanId == {l1, l2}
MCTerms ==
    {[capital |-> 100, rate |-> 950, installment |-> 0, count |-> 3,
      frequency |-> "MONTHLY", currency |-> "USDC", stellar |-> TRUE,
      start |-> [year |-> 2024, month |-> 1, day |-> 31]],
     [capital |-> 50, rate |-> NoRate, installment |-> 17, count |-> 3,
      frequency |-> "BIWEEKLY", currency |-> "BOB", stellar |-> FALSE,
      start |-> [year |-> 2023, month |-> 12, day |-> 25]],
     [capital |-> 50, rate |-> NoRate, installment |-> 16, count |-> 3,
      frequency |-> "DAILY", currency |-> "BOB", stellar |-> TRUE,
      start |-> [year |-> 2023, month |-> 12, day |-> 25]]}

\* Nothing is assigned while users and loans come to be.
FromNothing ==
    /\ AccountsInit
    /\ OriginInit
    /\ routeLender = [u \in Uuid |-> Null]
    /\ stops = [u \in Uuid |-> {}]
    /\ assignment = [q \in Assignment |->
                       [pc |-> "FAILED", collector |-> Null, loans |-> <<>>]]

\* A lender whose profile has the id of its user, a borrower whose profile has
\* another, and two loans.
MCTermsAgreed == CHOOSE t \in MCTerms : t.rate # NoRate

LoanOf == [c \in Request |-> IF c = c1 THEN l1 ELSE l2]

Answered == [c \in Request |->
    [pc |-> "DONE", lender |-> u1, borrower |-> x1, wallet |-> wb,
     terms |-> MCTermsAgreed, id |-> LoanOf[c]]]

Established ==
    /\ users = {u1, u2}
    /\ profiles = {[id |-> u1, auth |-> u1, role |-> "LENDER", wallet |-> wl],
                   [id |-> x1, auth |-> u2, role |-> "BORROWER", wallet |-> wb]}
    /\ call = [s \in ProfileCall |->
          [pc |-> "DONE", auth |-> u1, role |-> "LENDER", wallet |-> wl, id |-> u1]]
    /\ hskLoans = [l \in LoanId |->
          [lender |-> Operator, borrower |-> wb, totalInstallments |-> MCTermsAgreed.count,
           paidInstallments |-> 0, registered |-> TRUE, status |-> "ACTIVE"]]
    /\ hskIndex = [a \in MCAddress \cup {Operator} |->
                     IF a = wb THEN <<l1, l2>> ELSE <<>>]
    /\ hskProofs = [l \in LoanId |-> <<>>]
    /\ loan = [l \in LoanId |-> LoanRow(Answered[c1])]
    /\ schedule = [l \in LoanId |-> InstallmentRows(MCTermsAgreed)]
    /\ origin = Answered
    /\ sent = {}
    /\ faults = 0
    /\ RoutesInit

MCSpec == (FromNothing \/ Established) /\ [][LendingNext]_lendingVars

MCSymmetry == Permutations(MCAuthUser) \cup Permutations({x1, x2})
                \cup Permutations(MCAddress) \cup Permutations(MCLoanId)
                \cup Permutations(Request) \cup Permutations(ProfileCall)
=============================================================================
