---------------------------- MODULE SettlementDb ----------------------------
(***************************************************************************)
(* The payment tables in Postgres and the statements that write them       *)
(* (migrations/20260912_pollar_settlements.sql, docs/Supabase.sql and the  *)
(* repositories).  A statement that decides on rows it has locked, or that *)
(* is a single UPDATE, is one atomic action; a RAISE, a CHECK or a UNIQUE  *)
(* that fails aborts it, so it is a guard.  pollar_settle is not: it reads *)
(* the candidate without a lock and writes it later, and a rejection takes *)
(* none of its locks.  So it is two steps, SettleBegins and Settle, with   *)
(* the loan, the installment and the intent locked in between.             *)
(*                                                                         *)
(* Left out: amounts and dates, which no statement changes after creation, *)
(* retry times, and the loan states PENDING and DEFAULTED and installment  *)
(* states other than PENDING and PAID, which no code writes.  The other    *)
(* installments, which pollar_settle reads without a lock as well, are     *)
(* read when it commits: cash is booked in the order of the contract, so   *)
(* none of a later installment can come in between.                        *)
(***************************************************************************)
EXTENDS Integers, FiniteSets

CONSTANTS
    Loan,           \* loan ids
    Installment,    \* installment ids
    LoanOf,         \* installment -> its loan_id
    NumberOf,       \* installment -> its installment_number
    Profile,        \* profiles of borrowers and lenders
    BorrowerOf,     \* loan -> borrower_id
    LenderOf,       \* loan -> lender_id
    StellarLoan,    \* loans in USDC with settlement_network stellar:testnet
    Wallet,         \* Stellar addresses
    Tx,             \* Stellar transaction hashes
    Ledger,         \* Stellar ledger numbers
    CashReceipt,    \* receipt hashes of cash payments
    MaxPending,     \* unresolved candidates an intent may have: 5
    Null            \* SQL NULL

\* keccak256 over the intent's snapshot and the transaction hash: different
\* for every pair, and different from every cash receipt.
PollarReceipt(k, tx) == <<k, tx>>

Receipt == {PollarReceipt(k, tx) : k \in Installment, tx \in Tx} \cup CashReceipt

ASSUME DbAssumption ==
    /\ LoanOf \in [Installment -> Loan]
    /\ NumberOf \in [Installment -> Nat \ {0}]
    /\ \A j, k \in Installment :
          LoanOf[j] = LoanOf[k] /\ NumberOf[j] = NumberOf[k] => j = k
    /\ BorrowerOf \in [Loan -> Profile]
    /\ LenderOf \in [Loan -> Profile]
    /\ StellarLoan \subseteq Loan
    /\ Ledger \subseteq Nat
    /\ MaxPending \in Nat \ {0}
    /\ \A k \in Installment, tx \in Tx : PollarReceipt(k, tx) \notin CashReceipt

ASSUME NullAssumption ==
    /\ Null \notin Wallet \cup Tx
    /\ Null \notin Receipt
    /\ Null \notin {"CASH", "POLLAR"}

VARIABLES
    loanStatus,     \* loans.status
    inst,           \* installments
    intent,         \* pollar_payment_intents, at most one per installment
    candidate,      \* pollar_payment_candidates: status of (intent, tx)
    route,          \* pollar_wallet_routes: the lender's receiving address
    settling        \* the hash for which a pollar_settle not yet committed
                    \* has found the candidate PENDING, or Null

dbVars == <<loanStatus, inst, intent, candidate, route, settling>>

InstallmentRow ==
    [status : {"PENDING", "PAID"},
     rail   : {"CASH", "POLLAR", Null},             \* payment_rail
     method : {"CASH", "POLLAR_USDC", Null},        \* payment_method
     receipt: Receipt \cup {Null},
     tx     : Tx \cup {Null},                       \* pollar_tx_hash
     sync   : {"PENDING", "SYNCED"}]                \* hsk_sync_status

IntentRow ==
    [status : {"NONE", "CREATED", "VERIFIED", "ANCHORED"},  \* NONE: no row
     sender : Wallet \cup {Null},
     recipient : Wallet \cup {Null},
     minLedger : Ledger \cup {Null},
     tx     : Tx \cup {Null},
     receipt: Receipt \cup {Null},
     hskTx  : BOOLEAN]                              \* hsk_tx_hash IS NOT NULL

CandidateStatus == {"NONE", "PENDING", "VERIFIED", "REJECTED"}

UnpaidRow == [status |-> "PENDING", rail |-> Null, method |-> Null,
              receipt |-> Null, tx |-> Null, sync |-> "PENDING"]

NoIntent == [status |-> "NONE", sender |-> Null, recipient |-> Null,
             minLedger |-> Null, tx |-> Null, receipt |-> Null, hskTx |-> FALSE]

\* The rows as LoansService.createLoan leaves them.
DbInit ==
    /\ loanStatus = [l \in Loan |-> "ACTIVE"]
    /\ inst = [k \in Installment |-> UnpaidRow]
    /\ intent = [k \in Installment |-> NoIntent]
    /\ candidate = [k \in Installment |-> [tx \in Tx |-> "NONE"]]
    /\ route = [p \in Profile |-> Null]
    /\ settling = [k \in Installment |-> Null]

InstallmentsOf(l) == {k \in Installment : LoanOf[k] = l}

Earlier(k) == {j \in InstallmentsOf(LoanOf[k]) : NumberOf[j] < NumberOf[k]}

Settled(i) == intent[i].status \in {"VERIFIED", "ANCHORED"}

Pending(k) == {tx \in Tx : candidate[k][tx] = "PENDING"}

\* No pollar_settle in progress holds the row of the loan.
LoanUnlocked(l) == \A k \in InstallmentsOf(l) : settling[k] = Null

-----------------------------------------------------------------------------

\* SettlementService.receivingWallet: a lender sets its receiving address.
SetRoute(p, w) ==
    /\ route' = [route EXCEPT ![p] = w]
    /\ UNCHANGED <<loanStatus, inst, intent, candidate, settling>>

\* Mutants: the order of the installments is not looked at; an earlier one
\* need not be anchored.
AvailableInAnyOrder(k) ==
    /\ LoanOf[k] \in StellarLoan
    /\ loanStatus[LoanOf[k]] = "ACTIVE"
    /\ inst[k].status = "PENDING" /\ inst[k].rail = Null
AvailablePaidButNotAnchored(k) ==
    /\ LoanOf[k] \in StellarLoan
    /\ loanStatus[LoanOf[k]] = "ACTIVE"
    /\ inst[k].status = "PENDING" /\ inst[k].rail = Null
    /\ \A j \in Earlier(k) : inst[j].status = "PAID"

\* The installment can be reserved for Pollar.
Available(k) ==
    /\ LoanOf[k] \in StellarLoan
    /\ loanStatus[LoanOf[k]] = "ACTIVE"
    /\ inst[k].status = "PENDING" /\ inst[k].rail = Null
    /\ \A j \in Earlier(k) : inst[j].status = "PAID" /\ inst[j].sync = "SYNCED"

\* pollar_create_intent when there is no intent yet; when there is one it
\* returns it to its sender, or raises, and changes nothing.
CreateIntent(k, actor, sender, ledger) ==
    LET dest == route[LenderOf[LoanOf[k]]] IN
    /\ LoanUnlocked(LoanOf[k])
    /\ actor = BorrowerOf[LoanOf[k]]
    /\ intent[k].status = "NONE"
    /\ Available(k)
    /\ dest # Null /\ dest # sender
    /\ inst' = [inst EXCEPT ![k].rail = "POLLAR"]
    /\ intent' = [intent EXCEPT ![k] =
                    [NoIntent EXCEPT !.status = "CREATED", !.sender = sender,
                        !.recipient = dest, !.minLedger = ledger]]
    /\ UNCHANGED <<loanStatus, candidate, route, settling>>

RoomForCandidate(k) == Cardinality(Pending(k)) < MaxPending

\* pollar_observe when it inserts; otherwise it changes nothing.
Observe(k, actor, tx) ==
    /\ settling[k] = Null
    /\ actor = BorrowerOf[LoanOf[k]]
    /\ intent[k].status = "CREATED"
    /\ candidate[k][tx] = "NONE"
    /\ RoomForCandidate(k)
    /\ candidate' = [candidate EXCEPT ![k][tx] = "PENDING"]
    /\ UNCHANGED <<loanStatus, inst, intent, route, settling>>

\* Mutant: the UNIQUE(network, tx_hash) constraints are missing.
TxUnusedAnywhere(k, tx) == TRUE

\* UNIQUE(network, tx_hash) on intents, UNIQUE(pollar_network, pollar_tx_hash)
\* on installments.
TxUnused(k, tx) ==
    \A j \in Installment \ {k} : intent[j].tx # tx /\ inst[j].tx # tx

\* UNIQUE(receipt_hash) on installments.
ReceiptUnused(k, r) == \A j \in Installment \ {k} : inst[j].receipt # r

Reported(k, tx) == candidate[k][tx] = "PENDING"

\* Mutant: completion looks at the installments before this one only.
LastOfLoanByNumber(k) == \A j \in Earlier(k) : inst[j].status = "PAID"

\* Every other installment of the loan is PAID.
LastOfLoan(k) ==
    \A j \in InstallmentsOf(LoanOf[k]) \ {k} : inst[j].status = "PAID"

\* pollar_settle's checks; a repeated call with the same hash and receipt
\* returns the intent, and any other raises.
CanSettle(k, tx) ==
    /\ intent[k].status = "CREATED"
    /\ inst[k].status # "PAID" /\ inst[k].rail = "POLLAR"
    /\ Reported(k, tx)

\* pollar_settle up to its checks: loan, installment and intent are locked
\* from here to its end, the candidate is not.
SettleBegins(k, tx) ==
    /\ LoanUnlocked(LoanOf[k])
    /\ CanSettle(k, tx)
    /\ settling' = [settling EXCEPT ![k] = tx]
    /\ UNCHANGED <<loanStatus, inst, intent, candidate, route>>

\* Mutant: only a candidate that is still PENDING becomes VERIFIED.
VerifiedIfPending(k, tx) ==
    [candidate EXCEPT ![k][tx] = IF @ = "PENDING" THEN "VERIFIED" ELSE @]

\* Whatever has become of the candidate.
CandidateVerified(k, tx) == [candidate EXCEPT ![k][tx] = "VERIFIED"]

\* pollar_settle from its first UPDATE to its commit.
Settle(k, tx, receipt) ==
    /\ settling[k] = tx
    /\ TxUnused(k, tx)
    /\ ReceiptUnused(k, receipt)
    /\ intent' = [intent EXCEPT ![k].status = "VERIFIED", ![k].tx = tx,
                                ![k].receipt = receipt]
    /\ inst' = [inst EXCEPT ![k] =
                  [@ EXCEPT !.status = "PAID", !.method = "POLLAR_USDC",
                            !.tx = tx, !.receipt = receipt, !.sync = "PENDING"]]
    /\ candidate' = CandidateVerified(k, tx)
    /\ loanStatus' = IF LastOfLoan(k)
                     THEN [loanStatus EXCEPT ![LoanOf[k]] = "COMPLETED"]
                     ELSE loanStatus
    /\ settling' = [settling EXCEPT ![k] = Null]
    /\ UNCHANGED route

\* A UNIQUE is violated, or the transaction is rolled back for the database's
\* own reasons.
SettleAborts(k) ==
    /\ settling[k] # Null
    /\ settling' = [settling EXCEPT ![k] = Null]
    /\ UNCHANGED <<loanStatus, inst, intent, candidate, route>>

\* SettlementRepository.reject: only a PENDING candidate is rejected, and no
\* lock of pollar_settle is asked for.
Reject(k, tx) ==
    /\ candidate[k][tx] = "PENDING"
    /\ candidate' = [candidate EXCEPT ![k][tx] = "REJECTED"]
    /\ UNCHANGED <<loanStatus, inst, intent, route, settling>>

\* Mutant: an intent is anchored without having been verified.
AnchorableAlways(k) == intent[k].status # "NONE"

Anchorable(k) == intent[k].status \in {"VERIFIED", "ANCHORED"}

\* pollar_mark_anchored; hashKnown is whether the chain transaction's hash is
\* passed: coalesce keeps a hash already stored.
MarkAnchored(k, hashKnown) ==
    /\ Anchorable(k)
    /\ intent' = [intent EXCEPT ![k].status = "ANCHORED",
                                ![k].hskTx = hashKnown \/ @]
    /\ inst' = IF inst[k].receipt = intent[k].receipt
               THEN [inst EXCEPT ![k].sync = "SYNCED"]
               ELSE inst
    /\ UNCHANGED <<loanStatus, candidate, route, settling>>

\* Mutant: a rail already reserved is overwritten.
ClaimableOnAnyRail(k) == inst[k].status # "PAID"

Claimable(k) == inst[k].status # "PAID" /\ inst[k].rail \in {Null, "CASH"}

\* libreta_claim_cash.
ClaimCash(k) ==
    /\ Claimable(k)
    /\ inst' = [inst EXCEPT ![k].rail = "CASH"]
    /\ UNCHANGED <<loanStatus, intent, candidate, route, settling>>

\* Mutant: the trigger does not protect a payment already stored.
PayCashUnprotected(k, receipt) ==
    inst[k].rail # "POLLAR" /\ ReceiptUnused(k, receipt)

\* What libreta_protect_payment and the UNIQUE receipt let through of an
\* update to PAID in cash: not on the POLLAR rail, and a PAID row only again
\* with the same receipt and method.
CashPayable(k, receipt) ==
    /\ inst[k].rail # "POLLAR"
    /\ inst[k].status = "PAID" =>
          inst[k].receipt = receipt /\ inst[k].method = "CASH"
    /\ ReceiptUnused(k, receipt)

\* updateInstallment as collectCash and processSinglePayment call it.
PayCash(k, receipt) ==
    /\ CashPayable(k, receipt)
    /\ inst' = [inst EXCEPT ![k] =
                  [@ EXCEPT !.status = "PAID", !.method = "CASH",
                            !.receipt = receipt, !.sync = "SYNCED"]]
    /\ UNCHANGED <<loanStatus, intent, candidate, route, settling>>

\* Mutant: a status of another table.
CompleteLoanAsPaid(l) ==
    /\ loanStatus' = [loanStatus EXCEPT ![l] = "PAID"]
    /\ UNCHANGED <<inst, intent, candidate, route, settling>>

\* updateLoan, as both callers use it.
CompleteLoan(l) ==
    /\ LoanUnlocked(l)
    /\ loanStatus' = [loanStatus EXCEPT ![l] = "COMPLETED"]
    /\ UNCHANGED <<inst, intent, candidate, route, settling>>

\* InstallmentsService.checkAndCompleteLoan: at least one row, all PAID.
AllPaid(l) ==
    /\ InstallmentsOf(l) # {}
    /\ \A k \in InstallmentsOf(l) : inst[k].status = "PAID"

\* Every statement in any order, each with the arguments its callers give it:
\* cash is paid on an installment whose cash rail was claimed, and a loan is
\* completed after reading that all its installments are paid.
DbNext ==
    \/ \E p \in {LenderOf[l] : l \in Loan}, w \in Wallet : SetRoute(p, w)
    \/ \E k \in Installment :
        \/ \E a \in Profile, w \in Wallet, g \in Ledger : CreateIntent(k, a, w, g)
        \/ \E a \in Profile, tx \in Tx : Observe(k, a, tx)
        \/ \E tx \in Tx :
              \/ SettleBegins(k, tx)
              \/ Settle(k, tx, PollarReceipt(k, tx))
              \/ Reject(k, tx)
        \/ SettleAborts(k)
        \/ \E known \in BOOLEAN : MarkAnchored(k, known)
        \/ ClaimCash(k)
        \/ \E r \in CashReceipt : inst[k].rail = "CASH" /\ PayCash(k, r)
    \/ \E l \in Loan : AllPaid(l) /\ CompleteLoan(l)

DbSpec == DbInit /\ [][DbNext]_dbVars

-----------------------------------------------------------------------------

DbTypeOK ==
    /\ loanStatus \in [Loan -> {"ACTIVE", "COMPLETED"}]
    /\ inst \in [Installment -> InstallmentRow]
    /\ intent \in [Installment -> IntentRow]
    /\ candidate \in [Installment -> [Tx -> CandidateStatus]]
    /\ route \in [Profile -> Wallet \cup {Null}]
    /\ settling \in [Installment -> Tx \cup {Null}]

\* A paid installment has one source.  Either cash, and then no Pollar intent
\* was ever made for it, or a verified intent whose transaction and receipt
\* it carries.  A reservation of one rail excludes the other for good, so a
\* late Stellar payment never competes with cash.
PaymentHasOneSource ==
    \A k \in Installment :
        /\ intent[k].status # "NONE" <=> inst[k].rail = "POLLAR"
        /\ Settled(k) <=> inst[k].status = "PAID" /\ inst[k].rail = "POLLAR"
        /\ inst[k].tx = intent[k].tx
        /\ inst[k].rail = "POLLAR" => inst[k].receipt = intent[k].receipt
        /\ inst[k].status = "PAID" =>
              inst[k].method = IF inst[k].rail = "POLLAR" THEN "POLLAR_USDC"
                                                          ELSE "CASH"

\* One Stellar transaction pays at most one installment, and no receipt hash
\* stands for two payments.
StellarPaymentUsedOnce ==
    \A j, k \in Installment :
        j # k =>
            /\ intent[j].tx # Null => intent[j].tx # intent[k].tx
            /\ inst[j].receipt # Null => inst[j].receipt # inst[k].receipt

\* A Pollar intent is made only when every earlier installment is paid and
\* anchored, and that stays so: the contract, which takes installments in
\* order only, can never be waiting for an earlier one when it is anchored.
ReservedInOrder ==
    \A k \in Installment :
        intent[k].status # "NONE" =>
            \A j \in Earlier(k) :
                inst[j].status = "PAID" /\ inst[j].sync = "SYNCED"

\* A loan is COMPLETED only when every installment is paid; and a loan paid
\* through Pollar alone is COMPLETED with its last payment, without anyone
\* coming back to it.
CompletedOnlyWhenPaid ==
    \A l \in Loan :
        /\ loanStatus[l] = "COMPLETED" => AllPaid(l)
        /\ AllPaid(l) /\ (\A k \in InstallmentsOf(l) : inst[k].rail = "POLLAR")
              => loanStatus[l] = "COMPLETED"

\* Of the hashes reported for an intent exactly the one that settled it is
\* VERIFIED, also when it was rejected while pollar_settle was under way; and
\* no more than MaxPending are unresolved.
OneVerifiedCandidate ==
    \A k \in Installment :
        /\ \A tx \in Tx : candidate[k][tx] = "VERIFIED" <=> intent[k].tx = tx
        /\ Cardinality(Pending(k)) <= MaxPending

\* An installment paid through Pollar is SYNCED exactly when its intent is
\* ANCHORED: the UPDATE of pollar_mark_anchored that matches on the receipt
\* never misses, and SYNCED never precedes payment.
AnchoredIffSynced ==
    \A k \in Installment :
        /\ inst[k].sync = "SYNCED" => inst[k].status = "PAID"
        /\ inst[k].rail = "POLLAR" =>
              (inst[k].sync = "SYNCED" <=> intent[k].status = "ANCHORED")

IntentRank == [NONE |-> 0, CREATED |-> 1, VERIFIED |-> 2, ANCHORED |-> 3]

\* What is settled stays settled.  A rail once reserved, a payment once
\* stored, the snapshot of an intent and a completed loan never change, and
\* an intent only moves forward.  A VERIFIED candidate never changes, and a
\* REJECTED one only when a pollar_settle that had found it PENDING before it
\* was rejected commits: that one overwrites the rejection.
SettlementIsFinal ==
    [][/\ \A k \in Installment :
            /\ inst[k].rail # Null => inst'[k].rail = inst[k].rail
            /\ inst[k].status = "PAID" =>
                  /\ inst'[k].status = "PAID"
                  /\ inst'[k].receipt = inst[k].receipt
                  /\ inst'[k].method = inst[k].method
                  /\ inst'[k].tx = inst[k].tx
                  /\ inst[k].sync = "SYNCED" => inst'[k].sync = "SYNCED"
            /\ IntentRank[intent[k].status] <= IntentRank[intent'[k].status]
            /\ intent[k].status # "NONE" =>
                  /\ intent'[k].sender = intent[k].sender
                  /\ intent'[k].recipient = intent[k].recipient
                  /\ intent'[k].minLedger = intent[k].minLedger
                  /\ intent[k].hskTx => intent'[k].hskTx
            /\ \A tx \in Tx :
                  /\ candidate[k][tx] = "VERIFIED" => candidate'[k][tx] = "VERIFIED"
                  /\ candidate[k][tx] = "REJECTED" =>
                        \/ candidate'[k][tx] = "REJECTED"
                        \/ /\ settling[k] = tx
                           /\ candidate'[k][tx] = "VERIFIED"
       /\ \A l \in Loan :
            loanStatus[l] = "COMPLETED" => loanStatus'[l] = "COMPLETED"]_dbVars

-----------------------------------------------------------------------------

BookStage == [k \in Installment |->
    IF inst[k].status = "PAID"
    THEN IF inst[k].sync = "SYNCED" THEN "ATTESTED" ELSE "PAID"
    ELSE IF inst[k].rail = Null THEN "OPEN" ELSE inst[k].rail]

Book == INSTANCE PaymentBook WITH
            Account <- Loan, Debt <- Installment, AccountOf <- LoanOf,
            Before <- Earlier, Proof <- Receipt,
            stage <- BookStage,
            proof <- [k \in Installment |-> inst[k].receipt],
            closed <- {l \in Loan : loanStatus[l] = "COMPLETED"}

\* The tables implement the libreta: every statement reserves, pays, attests
\* or closes as PaymentBook allows, or changes nothing a libreta shows.
ImplementsBook == Book!Spec
=============================================================================
