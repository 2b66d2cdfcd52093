------------------------------ MODULE HskChain ------------------------------
(***************************************************************************)
(* The registry contract as the backend reaches it: one operator key, whose*)
(* transactions wait in nonce order until they are mined or dropped, calls *)
(* that read the head of the chain, and calls that read one block below it *)
(* and so see only proofs with two confirmations.  Reorganisations of the  *)
(* chain are left out.  `faults` counts the failures of the environment:   *)
(* MaxFaults bounds them.                                                  *)
(***************************************************************************)
EXTENDS SettlementDb, Sequences

CONSTANTS
    Actor,          \* requests and workers that use the database and the chain
    Operator,       \* the address of HSK_OPERATOR_PRIVATE_KEY
    MaxUint16,      \* largest installment number of the contract
    MaxPool,        \* bound on the transactions waiting to be mined
    MaxFaults       \* bound on the failures of the environment

\* createLoan numbers the installments of a loan 1, 2, ... and registers how
\* many they are, at least one, as a uint16.
ASSUME ChainAssumption ==
    /\ Null \notin Actor
    /\ Null \notin Profile \cup {Operator}
    /\ MaxUint16 \in Nat \ {0}
    /\ MaxFaults \in Nat
    /\ \A l \in Loan :
          LET count == Cardinality(InstallmentsOf(l)) IN
          /\ count \in 1 .. MaxUint16
          /\ {NumberOf[k] : k \in InstallmentsOf(l)} = 1 .. count

ProofData ==
    [receipt : Receipt, isDigital : BOOLEAN, externalTx : Tx \cup {Null}]

VARIABLES
    hskLoans,       \* the contract's loans
    hskProofs,      \* the contract's loanProofs
    buried,         \* how many proofs of a loan have two confirmations
    pool,           \* transactions sent and not yet mined
    outcome,        \* what became of the transaction an actor waits for
    faults

chainVars == <<hskLoans, hskProofs, buried, pool, outcome, faults>>

\* No borrower's index is read, and no loan registered, after Init.
Chain == INSTANCE Registry WITH
            LoanIds <- Loan, Addresses <- Profile \cup {Operator},
            ZeroAddress <- Null, loans <- hskLoans, loanProofs <- hskProofs,
            borrowerLoans <- << >>

\* Every loan as LoansService.createLoan registers it.
ChainInit ==
    /\ hskLoans = [l \in Loan |->
          [Chain!EmptyLoan EXCEPT
              !.lender = Operator, !.borrower = BorrowerOf[l],
              !.totalInstallments = Cardinality(InstallmentsOf(l)),
              !.registered = TRUE, !.status = "ACTIVE"]]
    /\ hskProofs = [l \in Loan |-> << >>]
    /\ buried = [l \in Loan |-> 0]
    /\ pool = << >>
    /\ outcome = [a \in Actor |-> "NONE"]
    /\ faults = 0

Fault == faults < MaxFaults /\ faults' = faults + 1

\* The installment is the next one the contract takes.
NextOnChain(k) ==
    hskLoans[LoanOf[k]].paidInstallments + 1 = NumberOf[k]

\* eth_estimateGas runs the call against the head of the chain first.
Estimate(k) == Chain!CanConfirm(Operator, LoanOf[k], NumberOf[k])

\* confirmPayment is estimated, signed with the next nonce and sent.
Send(a, k, data) ==
    /\ Estimate(k)
    /\ Len(pool) < MaxPool
    /\ pool' = Append(pool, [by |-> a, loan |-> LoanOf[k],
                             number |-> NumberOf[k], data |-> data])
    /\ outcome' = [outcome EXCEPT ![a] = "NONE"]
    /\ UNCHANGED <<hskLoans, hskProofs, buried, faults>>

\* The actor stops waiting; its transaction stays in the pool.
Abandon(a) ==
    /\ pool' = [j \in DOMAIN pool |->
                  IF pool[j].by = a THEN [pool[j] EXCEPT !.by = Null] ELSE pool[j]]
    /\ outcome' = [outcome EXCEPT ![a] = "NONE"]

Tell(a, result) ==
    outcome' = IF a = Null THEN outcome ELSE [outcome EXCEPT ![a] = result]

\* The next transaction is executed, or reverts.
Mine ==
    /\ pool # << >>
    /\ LET t == Head(pool) IN
         \/ /\ Chain!ConfirmPayment(Operator, t.loan, t.number, t.data)
            /\ Tell(t.by, "OK")
         \/ /\ ~ Chain!CanConfirm(Operator, t.loan, t.number)
            /\ Tell(t.by, "REVERTED")
            /\ UNCHANGED <<hskLoans, hskProofs>>
    /\ pool' = Tail(pool)
    /\ UNCHANGED <<buried, faults>>

\* A node evicts a transaction, or another one takes its nonce.
Drop ==
    /\ \E j \in DOMAIN pool :
          pool' = SubSeq(pool, 1, j - 1) \o SubSeq(pool, j + 1, Len(pool))
    /\ Fault
    /\ UNCHANGED <<hskLoans, hskProofs, buried, outcome>>

\* Mutant: the block read is the head of the chain or beyond.
BuriableAhead(l) == buried[l] <= Len(hskProofs[l])

Buriable(l) == buried[l] < Len(hskProofs[l])

\* One more block: the oldest proof not yet buried is.
Bury ==
    /\ \E l \in Loan :
          /\ Buriable(l)
          /\ buried' = [buried EXCEPT ![l] = @ + 1]
    /\ UNCHANGED <<hskLoans, hskProofs, pool, outcome, faults>>

ChainStep == (Mine \/ Drop \/ Bury) /\ UNCHANGED dbVars

InPool(a) == \E j \in DOMAIN pool : pool[j].by = a

-----------------------------------------------------------------------------

ProofOf(k) ==
    {j \in DOMAIN hskProofs[LoanOf[k]] :
        hskProofs[LoanOf[k]][j].installmentNumber = NumberOf[k]}

\* The contract holds a proof of k with exactly this content.
Proved(k, data) ==
    \E j \in ProofOf(k) : hskProofs[LoanOf[k]][j].data = data

CashProof(receipt) == [receipt |-> receipt, isDigital |-> FALSE, externalTx |-> Null]

PollarProof(receipt, tx) == [receipt |-> receipt, isDigital |-> TRUE, externalTx |-> tx]

\* What the contract must hold for an installment that is paid.
ProofOfPayment(k) ==
    IF inst[k].rail = "POLLAR" THEN PollarProof(inst[k].receipt, inst[k].tx)
                               ELSE CashProof(inst[k].receipt)

ChainTypeOK ==
    /\ hskLoans \in [Loan -> Chain!LoanStruct]
    /\ hskProofs \in [Loan -> Seq(Chain!PaymentProof)]
    /\ buried \in [Loan -> Nat]
    /\ \A l \in Loan : buried[l] <= Len(hskProofs[l])
    /\ \A j \in DOMAIN pool :
          pool[j] \in [by : Actor \cup {Null}, loan : Loan, number : Nat \ {0},
                       data : ProofData]
    /\ outcome \in [Actor -> {"NONE", "OK", "REVERTED"}]
    /\ faults \in 0 .. MaxFaults

\* SYNCED is never claimed without evidence: the contract holds the proof of
\* that installment with the receipt, the rail and the Stellar transaction of
\* the stored payment, whatever was sent twice, dropped, timed out or retried.
SyncedHasProof ==
    \A k \in Installment :
        inst[k].sync = "SYNCED" => Proved(k, ProofOfPayment(k))

\* The chain never tells another story than the tables.  A digital proof is
\* there only for an installment settled with that very receipt, and a cash
\* proof only for one whose rail is cash, from before the transaction is sent.
ProofMatchesRail ==
    \A k \in Installment : \A j \in ProofOf(k) :
        LET data == hskProofs[LoanOf[k]][j].data IN
        IF data.isDigital
        THEN Settled(k) /\ data = PollarProof(intent[k].receipt, intent[k].tx)
        ELSE inst[k].rail = "CASH"

\* A verified Stellar payment can always be anchored: the contract holds its
\* proof already, or is waiting for exactly that installment.  Otherwise the
\* worker would retry for ever a payment that HSK can no longer take.
AnchorNeverBlocked ==
    \A k \in Installment :
        intent[k].status = "VERIFIED" =>
            \/ Proved(k, ProofOfPayment(k))
            \/ ProofOf(k) = {} /\ Estimate(k)
=============================================================================
