---------------------------- MODULE PaymentFlow ----------------------------
(***************************************************************************)
(* What the readers of a libreta may rely on: the order in which the       *)
(* payment of an installment shows in the tables and on HSK Chain, however *)
(* it is made.  Module Payments, with all its requests and workers, is     *)
(* shown to implement it (ImplementsFlow there); module PassportReports    *)
(* reads it.                                                               *)
(***************************************************************************)
EXTENDS Integers, Sequences

CONSTANTS
    Loan,
    Count,      \* the number of installments of a loan
    Receipt,    \* receipt hashes
    NoReceipt   \* SQL NULL

ASSUME FlowAssumption ==
    /\ Count \in [Loan -> Nat \ {0}]
    /\ NoReceipt \notin Receipt

VARIABLES
    row,        \* the installments of a loan
    proofs,     \* the contract's proofs of a loan, in the order of installments
    buried,     \* how many of them have two confirmations
    closed      \* loans whose status is COMPLETED

flowVars == <<row, proofs, buried, closed>>

Numbers(l) == 1 .. Count[l]

Row == [paid : BOOLEAN, receipt : Receipt \cup {NoReceipt}, digital : BOOLEAN,
        synced : BOOLEAN]

Unpaid == [paid |-> FALSE, receipt |-> NoReceipt, digital |-> FALSE, synced |-> FALSE]

FlowInit ==
    /\ row = [l \in Loan |-> [n \in Numbers(l) |-> Unpaid]]
    /\ proofs = [l \in Loan |-> <<>>]
    /\ buried = [l \in Loan |-> 0]
    /\ closed = {}

\* The contract takes the installments in order.
NextNumber(l) == Len(proofs[l]) + 1

AllRowsPaid(rows) == \A n \in DOMAIN rows : rows[n].paid

\* The proof of a payment in cash comes before anything else ...
ProveCash(l, r) ==
    LET n == NextNumber(l) IN
    /\ n \in Numbers(l)
    /\ ~ row[l][n].paid
    /\ proofs' = [proofs EXCEPT ![l] = Append(@, [receipt |-> r, digital |-> FALSE])]
    /\ UNCHANGED <<row, buried, closed>>

\* ... and it is booked, if at all, with the receipt that is proved.
BookCash(l, n) ==
    /\ n < NextNumber(l)
    /\ ~ row[l][n].paid
    /\ row' = [row EXCEPT ![l][n] =
          [paid |-> TRUE, receipt |-> proofs[l][n].receipt, digital |-> FALSE,
           synced |-> TRUE]]
    /\ UNCHANGED <<proofs, buried, closed>>

\* A payment in Stellar is settled first, when it is the turn of its
\* installment on the chain, and may close the loan at once.
Settle(l, r) ==
    LET n == NextNumber(l) IN
    /\ n \in Numbers(l)
    /\ ~ row[l][n].paid
    /\ row' = [row EXCEPT ![l][n] =
          [paid |-> TRUE, receipt |-> r, digital |-> TRUE, synced |-> FALSE]]
    /\ \/ closed' = closed
       \/ AllRowsPaid(row'[l]) /\ closed' = closed \cup {l}
    /\ UNCHANGED <<proofs, buried>>

\* It is then proved with its receipt, and attested when the proof is buried.
Anchor(l) ==
    LET n == NextNumber(l) IN
    /\ n \in Numbers(l)
    /\ row[l][n].paid
    /\ proofs' = [proofs EXCEPT ![l] =
          Append(@, [receipt |-> row[l][n].receipt, digital |-> TRUE])]
    /\ UNCHANGED <<row, buried, closed>>

Sync(l, n) ==
    /\ row[l][n].paid
    /\ n <= buried[l]
    /\ row' = [row EXCEPT ![l][n].synced = TRUE]
    /\ UNCHANGED <<proofs, buried, closed>>

BuryProof(l) ==
    /\ buried[l] < Len(proofs[l])
    /\ buried' = [buried EXCEPT ![l] = @ + 1]
    /\ UNCHANGED <<row, proofs, closed>>

Close(l) ==
    /\ AllRowsPaid(row[l])
    /\ closed' = closed \cup {l}
    /\ UNCHANGED <<row, proofs, buried>>

FlowStep(l) ==
    \/ \E r \in Receipt : ProveCash(l, r) \/ Settle(l, r)
    \/ \E n \in Numbers(l) : BookCash(l, n) \/ Sync(l, n)
    \/ Anchor(l) \/ BuryProof(l) \/ Close(l)

FlowNext == \E l \in Loan : FlowStep(l)

FlowSpec == FlowInit /\ [][FlowNext]_flowVars

-----------------------------------------------------------------------------

FlowTypeOK ==
    /\ \A l \in Loan :
          /\ row[l] \in [Numbers(l) -> Row]
          /\ proofs[l] \in Seq([receipt : Receipt, digital : BOOLEAN])
          /\ Len(proofs[l]) <= Count[l]
          /\ buried[l] \in 0 .. Len(proofs[l])
    /\ closed \subseteq Loan

\* A row that is paid has the receipt of the proof of its number, if there is
\* one yet; one that is synced has one; and only the installment whose turn it
\* is can be paid and not yet proved.
RowsAgreeWithChain ==
    \A l \in Loan : \A n \in Numbers(l) :
        row[l][n].paid =>
            \/ n = NextNumber(l) /\ row[l][n].digital /\ ~ row[l][n].synced
            \/ n < NextNumber(l) /\ proofs[l][n] =
                  [receipt |-> row[l][n].receipt, digital |-> row[l][n].digital]

\* A closed loan is paid.
ClosedIsPaid == \A l \in closed : AllRowsPaid(row[l])
=============================================================================
