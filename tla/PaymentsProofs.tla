--------------------------- MODULE PaymentsProofs ---------------------------
(***************************************************************************)
(* Theorems about the payment of loans as a whole, for any loans,          *)
(* installments, workers, requests, transactions and numbers of failures.  *)
(*                                                                         *)
(* The tables change only by the statements of SettlementDb (DbStep), the  *)
(* contract only by the transactions of the pool, so that what an actor    *)
(* has seen stays true whatever the others do (Grows).  The invariant      *)
(* says of every place a payment can be at - a proof on the chain, a       *)
(* transaction in the pool, a request, a job of a worker - what the tables *)
(* and the chain hold already when it is there.                            *)
(***************************************************************************)
EXTENDS Payments, SettlementDbProofs, SequenceTheorems

InstallmentCount(l) == Cardinality(InstallmentsOf(l))

-----------------------------------------------------------------------------
(* The invariant. *)

\* The contract, as registered and since then only paid.
ContractInv ==
    /\ hskLoans \in [Loan -> Chain!LoanStruct]
    /\ hskProofs \in [Loan -> Seq(Chain!PaymentProof)]
    /\ buried \in [Loan -> Nat]
    /\ \A l \in Loan :
          LET loan == hskLoans[l]
              paid == Len(hskProofs[l]) IN
          /\ loan.lender = Operator
          /\ loan.totalInstallments = InstallmentCount(l)
          /\ loan.paidInstallments = paid
          /\ paid <= InstallmentCount(l)
          /\ loan.status = IF paid = InstallmentCount(l) THEN "COMPLETED" ELSE "ACTIVE"
          /\ buried[l] <= paid
          /\ \A j \in 1 .. paid : hskProofs[l][j].installmentNumber = j

\* The proof of an installment is the one at its number.
ProofCount(k) == Len(hskProofs[LoanOf[k]])
IsProved(k) == NumberOf[k] <= ProofCount(k)
ProofAt(k) == hskProofs[LoanOf[k]][NumberOf[k]].data

\* Data that may be proved of an installment: that of the intent that settled
\* it, or that of a request which pays it in cash on a rail reserved for cash.
Tells(k, data) ==
    \/ Settled(k) /\ data = IntentProof(k)
    \/ /\ inst[k].rail = "CASH"
       /\ \E r \in CashRequest : data = CashProof(r) /\ cash[r].pc # "NEW" /\ Target(r) = k

ProofsTell == \A k \in Installment : IsProved(k) => Tells(k, ProofAt(k))

Transaction ==
    [by : Actor \cup {Null}, loan : Loan, number : Nat \ {0}, data : ProofData]

TransactionOK(t) ==
    \E k \in Installment :
        /\ LoanOf[k] = t.loan /\ NumberOf[k] = t.number
        /\ Tells(k, t.data)
        /\ t.by \in CashRequest =>
              At(t.by, "WAIT") /\ Target(t.by) = k /\ t.data = CashProof(t.by)

Waiting(t) == \E j \in DOMAIN pool : pool[j] = t

PoolInv ==
    /\ pool \in Seq(Transaction)
    /\ \A t \in Transaction : Waiting(t) => TransactionOK(t)

CashPc == {"NEW", "ENQUEUE", "REJECT", "CLAIM", "SEND", "WAIT", "BOOK",
           "PROCESSED", "COMPLETE", "DONE", "FAILED"}

CashTypes ==
    /\ otp \subseteq Installment
    /\ queue \in [SyncItem -> {"NONE", "PENDING", "PROCESSED", "REJECTED"}]
    /\ cash \in [CashRequest -> [pc : CashPc, k : Installment \cup {Null}]]
    /\ outcome \in [Actor -> {"NONE", "OK", "REVERTED"}]
    /\ faults \in 0 .. MaxFaults

\* The payment of a request is on the chain, and in the table.
CashProved(r, k) == IsProved(k) /\ ProofAt(k) = CashProof(r)
Booked(r, k) == CashProved(r, k) /\ inst[k].status = "PAID" /\ inst[k].receipt = r

\* What is so of the installment k of a request when it is where it is.
RequestOn(r, k) ==
    /\ cash[r].pc \in {"SEND", "WAIT", "BOOK"} => inst[k].rail = "CASH"
    /\ At(r, "BOOK") \/ (At(r, "WAIT") /\ outcome[r] = "OK") => CashProved(r, k)
    /\ cash[r].pc \in {"PROCESSED", "COMPLETE"} => Booked(r, k)
    /\ At(r, "DONE") => Booked(r, k) \/ (r \in SyncItem /\ queue[r] = "REJECTED")
    /\ r \in SyncItem /\ queue[r] = "PROCESSED" => Booked(r, k)

RequestInv(r) ==
    /\ ~ At(r, "NEW") => Target(r) \in Installment
    /\ cash[r].pc \in {"ENQUEUE", "REJECT", "PROCESSED"} => r \in SyncItem
    /\ r \in SyncItem /\ queue[r] = "PROCESSED" => ~ At(r, "NEW")
    /\ \A k \in Installment : Target(r) = k /\ ~ At(r, "NEW") => RequestOn(r, k)

CashInv == CashTypes /\ \A r \in CashRequest : RequestInv(r)

JobPc == {"IDLE", "CREATE", "VERIFY", "RESOLVE", "ANSWER", "CANDIDATE", "ANCHOR",
          "EXISTING", "SEQUENCE", "SEND", "WAIT", "RECHECK", "MARK", "RELEASE"}

Job == [pc : JobPc, k : Installment \cup {Null}, tx : Tx \cup {Null},
        sender : Wallet \cup {Null}, ledger : Ledger \cup {Null},
        verdict : {"PENDING", "VERIFIED", "MISMATCH", Null}, known : BOOLEAN]

PaymentRecord == [from : Wallet, to : Wallet, good : BOOLEAN, ledger : 1 .. MaxTransfers]

PollarTypes ==
    /\ payment \in [Tx -> PaymentRecord \cup {Null}]
    /\ ledgerNow \in 0 .. MaxTransfers
    /\ lease \in Worker \cup {Null}
    /\ job \in [Worker \cup Client -> Job]

\* The transfer is there, and is the one the intent describes.
PaidBy(k, tx) == payment[tx] # Null /\ Pays(tx, k)

\* The proof of the intent is there and buried.
BuriedProof(k) == NumberOf[k] <= buried[LoanOf[k]] /\ ProofAt(k) = IntentProof(k)

\* What is so of an installment and a hash that a worker or a client's request
\* is about when it is where it is.
JobOn(a, k, tx) ==
    /\ job[a].pc = "RESOLVE" /\ job[a].verdict = "VERIFIED" /\ job[a].tx = tx =>
          intent[k].status # "NONE" /\ PaidBy(k, tx)
    /\ job[a].pc \in {"EXISTING", "SEQUENCE", "SEND", "WAIT", "RECHECK", "MARK"} => Settled(k)
    /\ job[a].pc = "MARK" => BuriedProof(k)

JobInv(a) ==
    /\ job[a].pc = "CREATE" =>
          job[a].k \in Installment /\ job[a].sender \in Wallet /\ job[a].ledger \in Ledger
    /\ job[a].pc \in {"VERIFY", "RESOLVE"} => job[a].k \in Installment /\ job[a].tx \in Tx
    /\ job[a].pc \in {"EXISTING", "SEQUENCE", "SEND", "WAIT", "RECHECK", "MARK"} =>
          job[a].k \in Installment
    /\ \A k \in Installment, tx \in Tx \cup {Null} : job[a].k = k => JobOn(a, k, tx)

\* What an intent fixed, and what settled it.
IntentInv(k) ==
    /\ intent[k].status # "NONE" => intent[k].sender # intent[k].recipient
    /\ Settled(k) => PaidBy(k, intent[k].tx)

\* What a pollar_settle in progress is about to write was paid.
LockedInv(k) == settling[k] # Null => PaidBy(k, settling[k])

PollarInv ==
    /\ PollarTypes
    /\ \A a \in Worker \cup Client : JobInv(a)
    /\ \A k \in Installment : IntentInv(k)
    /\ \A k \in Installment : LockedInv(k)

\* SYNCED means proved, and attested by Pollar means buried.
SyncInv ==
    \A k \in Installment : inst[k].sync = "SYNCED" =>
        IsProved(k) /\ ProofAt(k) = ProofOfPayment(k)

PaymentsInv ==
    /\ TablesInv
    /\ ContractInv
    /\ ProofsTell
    /\ PoolInv
    /\ CashInv
    /\ PollarInv
    /\ SyncInv

-----------------------------------------------------------------------------
(* Lemmas about the operators of the chain. *)

\* The numbers of the installments of a loan are those the contract counts.
LEMMA NumbersFit ==
  ASSUME NEW k \in Installment
  PROVE  /\ LoanOf[k] \in Loan
         /\ InstallmentCount(LoanOf[k]) \in 1 .. MaxUint16
         /\ NumberOf[k] \in 1 .. InstallmentCount(LoanOf[k])
         /\ NumberOf[k] \in Nat \ {0}
<1>1. LoanOf[k] \in Loan /\ k \in InstallmentsOf(LoanOf[k])
  BY DbAssumption DEF InstallmentsOf
<1>2. {NumberOf[j] : j \in InstallmentsOf(LoanOf[k])} = 1 .. InstallmentCount(LoanOf[k])
      /\ InstallmentCount(LoanOf[k]) \in 1 .. MaxUint16
  BY <1>1, ChainAssumption DEF InstallmentCount
<1> QED
  BY <1>1, <1>2, DbAssumption

\* Two installments of a loan have two numbers, and every number is one's.
LEMMA NumbersAreInstallments ==
  ASSUME NEW l \in Loan, NEW n \in 1 .. InstallmentCount(l)
  PROVE  \E k \in Installment : LoanOf[k] = l /\ NumberOf[k] = n
<1>1. n \in {NumberOf[j] : j \in InstallmentsOf(l)}
  BY ChainAssumption DEF InstallmentCount
<1> QED
  BY <1>1 DEF InstallmentsOf

\* The contract takes an installment exactly when the proofs of the earlier
\* ones are there and its own is not.
LEMMA EstimateIs ==
  ASSUME ContractInv, NEW k \in Installment
  PROVE  Estimate(k) <=> NumberOf[k] = ProofCount(k) + 1
<1> DEFINE l == LoanOf[k]
<1>1. /\ l \in Loan /\ InstallmentCount(l) \in 1 .. MaxUint16
      /\ NumberOf[k] \in 1 .. InstallmentCount(l)
  BY NumbersFit
<1>2. /\ hskLoans[l].lender = Operator
      /\ hskLoans[l].paidInstallments = ProofCount(k)
      /\ ProofCount(k) <= InstallmentCount(l)
      /\ hskLoans[l].status = IF ProofCount(k) = InstallmentCount(l)
                              THEN "COMPLETED" ELSE "ACTIVE"
  BY <1>1 DEF ContractInv, ProofCount
<1>3. ProofCount(k) \in Nat /\ MaxUint16 \in Nat
  BY <1>1, ChainAssumption DEF ContractInv, ProofCount
<1> QED
  BY <1>1, <1>2, <1>3 DEF Estimate, Chain!CanConfirm

\* The proof of an installment is found at its number, or there is none.
LEMMA ProofOfIs ==
  ASSUME ContractInv, NEW k \in Installment
  PROVE  ProofOf(k) = IF IsProved(k) THEN {NumberOf[k]} ELSE {}
<1>1. LoanOf[k] \in Loan /\ NumberOf[k] \in Nat \ {0}
  BY NumbersFit
<1>2. /\ hskProofs[LoanOf[k]] \in Seq(Chain!PaymentProof)
      /\ \A j \in 1 .. ProofCount(k) : hskProofs[LoanOf[k]][j].installmentNumber = j
  BY <1>1 DEF ContractInv, ProofCount
<1>3. DOMAIN hskProofs[LoanOf[k]] = 1 .. ProofCount(k) /\ ProofCount(k) \in Nat
  BY <1>2 DEF ProofCount
<1> QED
  BY <1>1, <1>2, <1>3 DEF ProofOf, IsProved

\* Proved looks the proof up.
LEMMA ProvedIs ==
  ASSUME ContractInv, NEW k \in Installment, NEW data
  PROVE  Proved(k, data) <=> IsProved(k) /\ ProofAt(k) = data
  BY ProofOfIs DEF Proved, ProofAt

-----------------------------------------------------------------------------
(* What every step leaves as it was. *)

\* Every step of a request, a worker or the chain changes the tables by one
\* of their statements, with the arguments DbNext gives it, or not at all;
\* the exception is the offline item that could not read the installments.
LEMMA StepOfTables ==
  ASSUME PaymentsInv, PaymentsNext
  PROVE  \/ UNCHANGED dbVars
         \/ DbNext
         \/ \E s \in SyncItem : CompleteUnread(s)
<1>1. ASSUME NEW l \in Loan, NEW w \in Wallet, ReceivingWallet(LenderOf[l], w)
      PROVE  DbNext
  BY <1>1 DEF ReceivingWallet, DbNext
<1>2. ASSUME NEW c \in Client, Create(c)
      PROVE  DbNext \/ UNCHANGED dbVars
  <2>1. /\ job[c].k \in Installment /\ job[c].sender \in Wallet
        /\ job[c].ledger \in Ledger
    BY <1>2 DEF Create, PaymentsInv, PollarInv, JobInv
  <2>2. BorrowerOf[LoanOf[job[c].k]] \in Profile
    BY <2>1, DbAssumption
  <2> QED
    BY <1>2, <2>1, <2>2 DEF Create, DbNext
<1>3. ASSUME NEW c \in Client, NEW k \in Installment, NEW tx \in Tx, Report(c, k, tx)
      PROVE  DbNext \/ UNCHANGED dbVars
  <2>1. BorrowerOf[LoanOf[k]] \in Profile
    BY DbAssumption
  <2> QED
    BY <1>3, <2>1 DEF Report, DbNext
<1>4. ASSUME NEW a \in Worker \cup Client, Resolve(a)
      PROVE  DbNext \/ UNCHANGED dbVars
  <2>1. job[a].k \in Installment /\ job[a].tx \in Tx
    BY <1>4 DEF Resolve, PaymentsInv, PollarInv, JobInv
  <2> QED
    BY <1>4, <2>1 DEF Resolve, DbNext
<1>14. ASSUME NEW k \in Installment, SettleEnds(k) \/ SettleIsLost(k)
       PROVE  DbNext
  <2>1. settling[k] \in Tx \cup {Null}
    BY DEF PaymentsInv, TablesInv, DbTypeOK
  <2> QED
    BY <1>14, <2>1 DEF SettleEnds, SettleIsLost, DbNext
<1>5. ASSUME NEW w \in Worker, Mark(w)
      PROVE  DbNext
  <2>1. job[w].k \in Installment /\ job[w].known \in BOOLEAN
    BY <1>5 DEF Mark, PaymentsInv, PollarInv, JobInv, PollarTypes, Job
  <2> QED
    BY <1>5, <2>1 DEF Mark, DbNext
<1>6. ASSUME NEW r \in CashRequest, ~ At(r, "NEW")
      PROVE  Target(r) \in Installment
  BY <1>6 DEF PaymentsInv, CashInv, RequestInv
<1>7. ASSUME NEW r \in CashRequest, Claim(r)
      PROVE  DbNext \/ UNCHANGED dbVars
  <2>1. Target(r) \in Installment
    BY <1>6, <1>7 DEF Claim, At
  <2> QED
    BY <1>7, <2>1 DEF Claim, DbNext
<1>8. ASSUME NEW r \in CashRequest, BookCash(r)
      PROVE  DbNext \/ UNCHANGED dbVars
  <2>1. Target(r) \in Installment /\ inst[Target(r)].rail = "CASH"
    BY <1>8 DEF BookCash, At, PaymentsInv, CashInv, RequestInv, RequestOn
  <2>2. r \in CashReceipt
    BY CashAssumption
  <2> QED
    BY <1>8, <2>1, <2>2 DEF BookCash, DbNext
<1>9. ASSUME NEW r \in CashRequest, Complete(r)
      PROVE  DbNext \/ UNCHANGED dbVars
  <2>1. LoanOf[Target(r)] \in Loan
    BY <1>6, <1>9, DbAssumption DEF Complete, At
  <2> QED
    BY <1>9, <2>1 DEF Complete, DbNext
<1>10. ASSUME NEW r \in CashRequest, CompleteUnread(r)
       PROVE  UNCHANGED dbVars \/ r \in SyncItem
  BY <1>10 DEF CompleteUnread
<1>11. CASE PollarStep
  <2>1. ASSUME Outside PROVE DbNext \/ UNCHANGED dbVars
    <3>1. ASSUME NEW c \in Client, NEW k \in Installment, NEW w \in Wallet, Prepare(c, k, w)
          PROVE  UNCHANGED dbVars
      BY <3>1 DEF Prepare
    <3> QED
      BY <1>1, <1>3, <2>1, <3>1 DEF Outside
  <2>2. ASSUME NEW a, Verify(a) \/ Answered(a) PROVE UNCHANGED dbVars
    BY <2>2 DEF Verify, Answered
  <2>3. ASSUME NEW w \in Worker, Tick(w) \/ TickFails(w)
        PROVE  DbNext \/ UNCHANGED dbVars
    BY <1>4, <1>5, <2>2, <2>3
    DEF Tick, TickFails, ClaimLease, TakeCandidate, TakeAnchor, Existing, Sequence,
        SendProof, WaitOk, WaitFails, Recheck, Release
  <2>4. ASSUME NEW a, OperationsNotFound(a) \/ Crash(a) PROVE UNCHANGED dbVars
    BY <2>4 DEF OperationsNotFound, Crash
  <2>5. ASSUME LeaseExpires PROVE UNCHANGED dbVars
    BY <2>5 DEF LeaseExpires
  <2> QED
    BY <1>2, <1>4, <1>11, <1>14, <2>1, <2>2, <2>3, <2>4, <2>5 DEF PollarStep, Request
<1>12. CASE CashStep
  <2>1. ASSUME NEW k, GenerateOtp(k) \/ ForgetOtp(k)
        PROVE  UNCHANGED dbVars
    BY <2>1 DEF GenerateOtp, ForgetOtp
  <2>2. ASSUME NEW r, NEW k, StartCollect(r, k) \/ StartSync(r, k)
        PROVE  UNCHANGED dbVars
    BY <2>2 DEF StartCollect, StartSync
  <2>3. ASSUME NEW r, Enqueue(r) \/ SendCash(r) \/ WaitCash(r) \/ MarkProcessed(r)
                      \/ RequestFails(r)
        PROVE  UNCHANGED dbVars
    BY <2>3 DEF Enqueue, SendCash, WaitCash, MarkProcessed, RequestFails
  <2> QED
    BY <1>7, <1>8, <1>9, <1>10, <1>12, <2>1, <2>2, <2>3 DEF CashStep, Serve
<1>13. CASE ChainStep
  BY <1>13 DEF ChainStep
<1> QED
  BY <1>11, <1>12, <1>13 DEF PaymentsNext

\* Requests and workers change neither the contract nor what is buried.
LEMMA ActorsOnChain ==
  ASSUME PollarStep \/ CashStep
  PROVE  UNCHANGED <<hskLoans, hskProofs, buried>> /\ (UNCHANGED faults \/ Fault)
<1> DEFINE Goal == UNCHANGED <<hskLoans, hskProofs, buried>> /\ (UNCHANGED faults \/ Fault)
<1>1. ASSUME NEW a, Verify(a) \/ Resolve(a) \/ Answered(a) \/ Create(a) PROVE Goal
  BY <1>1 DEF Verify, Resolve, Answered, Create, chainVars
<1>2. ASSUME Outside PROVE Goal
  BY <1>2 DEF Outside, ReceivingWallet, Prepare, Report, chainVars
<1>3. ASSUME NEW w, Tick(w) PROVE Goal
  BY <1>1, <1>3 DEF Tick, ClaimLease, TakeCandidate, TakeAnchor, Existing, Sequence,
                    SendProof, Send, WaitOk, WaitFails, Recheck, Mark, Release, chainVars
<1>4. ASSUME NEW a, TickFails(a) \/ OperationsNotFound(a) \/ Crash(a) PROVE Goal
  BY <1>4 DEF TickFails, OperationsNotFound, Crash
<1>5. ASSUME NEW r, Serve(r) PROVE Goal
  BY <1>5 DEF Serve, Enqueue, Claim, SendCash, Send, WaitCash, BookCash, MarkProcessed,
              Complete, chainVars
<1>6. ASSUME NEW r, CompleteUnread(r) \/ RequestFails(r) PROVE Goal
  BY <1>6 DEF CompleteUnread, RequestFails
<1>9. ASSUME NEW k, SettleEnds(k) \/ SettleIsLost(k) PROVE Goal
  BY <1>9 DEF SettleEnds, SettleIsLost, chainVars
<1>7. ASSUME PollarStep PROVE Goal
  BY <1>1, <1>2, <1>3, <1>4, <1>7, <1>9 DEF PollarStep, Request, LeaseExpires, chainVars
<1>8. ASSUME CashStep PROVE Goal
  BY <1>5, <1>6, <1>8
  DEF CashStep, GenerateOtp, ForgetOtp, StartCollect, StartSync, chainVars
<1> QED
  BY <1>7, <1>8

\* What is there stays there: rows and intents (FinalStep), proofs, what is
\* buried, the payments Horizon knows, and what a request is to pay.
Grows ==
    /\ FinalStep
    /\ \A l \in Loan :
          /\ buried[l] <= buried'[l]
          /\ Len(hskProofs[l]) <= Len(hskProofs'[l])
          /\ \A j \in 1 .. Len(hskProofs[l]) : hskProofs'[l][j] = hskProofs[l][j]
    /\ \A tx \in Tx : payment[tx] # Null => payment'[tx] = payment[tx]
    /\ \A r \in CashRequest :
          ~ At(r, "NEW") => ~ At(r, "NEW")' /\ Target(r)' = Target(r)

\* A transaction that the contract takes adds the proof of its installment
\* to its loan, whose turn it was.
LEMMA MineProves ==
  ASSUME ContractInv, PoolInv, NEW t \in Transaction, TransactionOK(t),
         Chain!ConfirmPayment(Operator, t.loan, t.number, t.data)
  PROVE  /\ hskLoans' \in [Loan -> Chain!LoanStruct]
         /\ hskProofs' \in [Loan -> Seq(Chain!PaymentProof)]
         /\ hskProofs' = [hskProofs EXCEPT ![t.loan] =
               Append(@, [data |-> t.data, installmentNumber |-> t.number])]
         /\ t.number = Len(hskProofs[t.loan]) + 1
         /\ t.number <= InstallmentCount(t.loan)
         /\ hskLoans' = [hskLoans EXCEPT ![t.loan] =
               [@ EXCEPT !.paidInstallments = t.number,
                         !.status = IF t.number = InstallmentCount(t.loan)
                                    THEN "COMPLETED" ELSE "ACTIVE"]]
<1> DEFINE l == t.loan
<1>1. l \in Loan /\ t.data \in ProofData
  BY DEF Transaction
<1>2. PICK k \in Installment : LoanOf[k] = l /\ NumberOf[k] = t.number
  BY DEF TransactionOK
<1>3. t.number \in 1 .. InstallmentCount(l) /\ InstallmentCount(l) \in 1 .. MaxUint16
  BY <1>2, NumbersFit
<1>4. /\ hskLoans[l] \in Chain!LoanStruct
      /\ hskLoans[l].paidInstallments = Len(hskProofs[l])
      /\ hskLoans[l].totalInstallments = InstallmentCount(l)
      /\ Len(hskProofs[l]) \in Nat /\ MaxUint16 \in Nat
  BY <1>1, ChainAssumption DEF ContractInv
<1>5. /\ hskLoans[l].status = "ACTIVE" /\ t.number = Len(hskProofs[l]) + 1
      /\ hskLoans' = [hskLoans EXCEPT ![l] = Chain!Confirmed(@)]
      /\ hskProofs' = [hskProofs EXCEPT ![l] =
            Append(@, [data |-> t.data, installmentNumber |-> t.number])]
  BY <1>1, <1>4 DEF Chain!ConfirmPayment, Chain!CanConfirm
<1>6. Chain!Confirmed(hskLoans[l]) =
        [hskLoans[l] EXCEPT !.paidInstallments = t.number,
            !.status = IF t.number = InstallmentCount(l) THEN "COMPLETED" ELSE "ACTIVE"]
  BY <1>4, <1>5 DEF Chain!Confirmed, Chain!StatusAfter
<1>7. Chain!Confirmed(hskLoans[l]) \in Chain!LoanStruct
  <2>1. t.number \in Chain!Uint16
    BY <1>3, <1>4 DEF Chain!Uint16
  <2> QED
    BY <1>4, <1>6, <2>1 DEF Chain!LoanStruct, Chain!LoanStatus
<1>8. [data |-> t.data, installmentNumber |-> t.number] \in Chain!PaymentProof
  BY <1>1, <1>3, <1>4 DEF Chain!PaymentProof, Chain!Uint16
<1>9. hskLoans' \in [Loan -> Chain!LoanStruct]
  BY <1>5, <1>7 DEF ContractInv
<1>10. hskProofs' \in [Loan -> Seq(Chain!PaymentProof)]
  BY <1>1, <1>5, <1>8 DEF ContractInv
<1> QED
  BY <1>3, <1>5, <1>6, <1>9, <1>10

\* The transaction at the head of the pool is one the invariant speaks of.
LEMMA HeadOfPool ==
  ASSUME PoolInv, pool # << >>
  PROVE  Head(pool) \in Transaction /\ TransactionOK(Head(pool))
<1>1. pool \in Seq(Transaction) /\ 1 \in DOMAIN pool /\ Head(pool) = pool[1]
  BY DEF PoolInv
<1> QED
  BY <1>1 DEF PoolInv, Waiting

\* The contract after a step.
LEMMA ContractKept ==
  ASSUME PaymentsInv, PaymentsNext
  PROVE  /\ ContractInv'
         /\ \A l \in Loan :
               /\ buried[l] <= buried'[l]
               /\ Len(hskProofs[l]) <= Len(hskProofs'[l])
               /\ \A j \in 1 .. Len(hskProofs[l]) : hskProofs'[l][j] = hskProofs[l][j]
<1> USE DEF InstallmentCount
<1>1. /\ ContractInv /\ PoolInv
      /\ \A l \in Loan : buried[l] \in Nat /\ Len(hskProofs[l]) \in Nat
      /\ hskProofs \in [Loan -> Seq(Chain!PaymentProof)]
      /\ hskLoans \in [Loan -> Chain!LoanStruct]
      /\ buried \in [Loan -> Nat]
  BY DEF PaymentsInv, ContractInv
<1>2. CASE UNCHANGED <<hskLoans, hskProofs, buried>>
  BY <1>1, <1>2 DEF ContractInv
<1>3. CASE Mine
  <2>1. CASE UNCHANGED <<hskLoans, hskProofs, buried>>
    BY <1>2, <2>1
  <2> DEFINE t == Head(pool)
             l == t.loan
             proof == [data |-> t.data, installmentNumber |-> t.number]
  <2>2. CASE Chain!ConfirmPayment(Operator, t.loan, t.number, t.data)
    <3>1. t \in Transaction /\ TransactionOK(t) /\ buried' = buried
      BY <1>1, <1>3, HeadOfPool DEF Mine
    <3> HIDE DEF t
    <3>2. /\ hskLoans' \in [Loan -> Chain!LoanStruct]
          /\ hskProofs' \in [Loan -> Seq(Chain!PaymentProof)]
          /\ hskProofs' = [hskProofs EXCEPT ![l] = Append(@, proof)]
          /\ t.number = Len(hskProofs[l]) + 1
          /\ t.number <= InstallmentCount(l)
          /\ hskLoans' = [hskLoans EXCEPT ![l] =
                [@ EXCEPT !.paidInstallments = t.number,
                          !.status = IF t.number = InstallmentCount(l)
                                     THEN "COMPLETED" ELSE "ACTIVE"]]
      BY <1>1, <2>2, <3>1, MineProves
    <3>3. l \in Loan
      BY <3>1 DEF Transaction
    <3>4. /\ hskProofs'[l] = Append(hskProofs[l], proof)
          /\ Len(hskProofs'[l]) = t.number
          /\ hskProofs'[l][t.number].installmentNumber = t.number
          /\ \A j \in 1 .. Len(hskProofs[l]) : hskProofs'[l][j] = hskProofs[l][j]
      BY <1>1, <3>2, <3>3
    <3>5. /\ hskLoans'[l].lender = hskLoans[l].lender
          /\ hskLoans'[l].totalInstallments = hskLoans[l].totalInstallments
          /\ hskLoans'[l].paidInstallments = t.number
          /\ hskLoans'[l].status = IF t.number = InstallmentCount(l)
                                   THEN "COMPLETED" ELSE "ACTIVE"
      BY <1>1, <3>2, <3>3 DEF Chain!LoanStruct
    <3>6. \A m \in Loan \ {l} : hskProofs'[m] = hskProofs[m] /\ hskLoans'[m] = hskLoans[m]
      BY <1>1, <3>2, <3>3
    <3>7. \A m \in Loan :
             /\ Len(hskProofs[m]) <= Len(hskProofs'[m])
             /\ \A j \in 1 .. Len(hskProofs[m]) : hskProofs'[m][j] = hskProofs[m][j]
      BY <1>1, <3>2, <3>4, <3>6
    <3>8. ContractInv'
      <4> SUFFICES ASSUME NEW m \in Loan
                   PROVE  /\ hskLoans'[m].lender = Operator
                          /\ hskLoans'[m].totalInstallments = InstallmentCount(m)
                          /\ hskLoans'[m].paidInstallments = Len(hskProofs'[m])
                          /\ Len(hskProofs'[m]) <= InstallmentCount(m)
                          /\ hskLoans'[m].status =
                                IF Len(hskProofs'[m]) = InstallmentCount(m)
                                THEN "COMPLETED" ELSE "ACTIVE"
                          /\ buried'[m] <= Len(hskProofs'[m])
                          /\ \A j \in 1 .. Len(hskProofs'[m]) :
                                hskProofs'[m][j].installmentNumber = j
        BY <1>1, <3>1, <3>2 DEF ContractInv
      <4>1. /\ hskLoans[m].lender = Operator
            /\ hskLoans[m].totalInstallments = InstallmentCount(m)
            /\ buried[m] <= Len(hskProofs[m]) /\ buried'[m] = buried[m]
            /\ \A j \in 1 .. Len(hskProofs[m]) : hskProofs[m][j].installmentNumber = j
        BY <1>1, <3>1 DEF ContractInv
      <4>2. CASE m = l
        <5>1. ASSUME NEW j \in 1 .. Len(hskProofs'[l])
              PROVE  hskProofs'[l][j].installmentNumber = j
          <6>1. j = t.number \/ j \in 1 .. Len(hskProofs[l])
            BY <1>1, <3>2, <3>3, <3>4
          <6> QED
            BY <3>4, <4>1, <4>2, <6>1
        <5>2. buried'[l] <= Len(hskProofs'[l])
          BY <1>1, <3>2, <3>4, <4>1, <4>2
        <5> QED
          BY <3>2, <3>4, <3>5, <4>1, <4>2, <5>1, <5>2
      <4>3. CASE m # l
        BY <1>1, <3>6, <4>1, <4>3 DEF ContractInv
      <4> QED
        BY <4>2, <4>3
    <3> QED
      BY <1>1, <3>1, <3>7, <3>8
  <2> QED
    BY <1>3, <2>1, <2>2 DEF Mine
<1>4. CASE Bury
  <2>1. PICK l \in Loan : Buriable(l) /\ buried' = [buried EXCEPT ![l] = @ + 1]
    BY <1>4 DEF Bury
  <2>2. UNCHANGED <<hskLoans, hskProofs>>
    BY <1>4 DEF Bury
  <2>3. /\ buried' \in [Loan -> Nat]
        /\ \A m \in Loan : buried[m] <= buried'[m] /\ buried'[m] <= Len(hskProofs[m])
    BY <1>1, <2>1 DEF Buriable, ContractInv
  <2> QED
    BY <1>1, <2>2, <2>3 DEF ContractInv
<1>5. CASE Drop
  BY <1>2, <1>5 DEF Drop
<1> QED
  BY <1>2, <1>3, <1>4, <1>5, ActorsOnChain DEF PaymentsNext, ChainStep

\* A step takes nothing back.
LEMMA StepGrows ==
  ASSUME PaymentsInv, PaymentsNext
  PROVE  TablesInv' /\ ContractInv' /\ Grows
<1>1. TablesInv' /\ FinalStep
  <2>1. ASSUME NEW s \in SyncItem, CompleteUnread(s) PROVE DbStep
    <3>1. s \in CashRequest
      BY DEF CashRequest
    <3>2. Target(s) \in Installment
      BY <2>1, <3>1 DEF CompleteUnread, At, PaymentsInv, CashInv, RequestInv
    <3>3. LoanOf[Target(s)] \in Loan
      BY <3>2, DbAssumption
    <3> QED
      BY <2>1, <3>3 DEF CompleteUnread, DbStep
  <2>2. [DbStep]_dbVars
    BY <2>1, StepOfTables DEF DbStep
  <2> QED
    BY <2>2, DbStepKept DEF PaymentsInv
<1>2. \A tx \in Tx : payment[tx] # Null => payment'[tx] = payment[tx]
  <2>1. payment \in [Tx -> PaymentRecord \cup {Null}]
    BY DEF PaymentsInv, PollarInv, PollarTypes
  <2>2. ASSUME NEW tx \in Tx, NEW from, NEW to, NEW good, Transfer(tx, from, to, good)
        PROVE  \A u \in Tx : payment[u] # Null => payment'[u] = payment[u]
    BY <2>1, <2>2 DEF Transfer
  <2>3. ASSUME NEW a, Verify(a) \/ Resolve(a) \/ Answered(a) \/ Create(a)
                      \/ OperationsNotFound(a) \/ Crash(a) \/ TickFails(a)
        PROVE  payment' = payment
    BY <2>3 DEF Verify, Resolve, Answered, Create, OperationsNotFound, Crash, TickFails
  <2>4. ASSUME NEW w, Tick(w) PROVE payment' = payment
    BY <2>3, <2>4 DEF Tick, ClaimLease, TakeCandidate, TakeAnchor, Existing, Sequence,
                      SendProof, WaitOk, WaitFails, Recheck, Mark, Release
  <2>5. ASSUME PollarStep
        PROVE  \/ payment' = payment
               \/ \A u \in Tx : payment[u] # Null => payment'[u] = payment[u]
    <3>1. ASSUME NEW c, NEW k, NEW x, Prepare(c, k, x) \/ Report(c, k, x)
          PROVE  payment' = payment
      BY <3>1 DEF Prepare, Report
    <3>2. ASSUME NEW p, NEW w, ReceivingWallet(p, w) PROVE payment' = payment
      BY <3>2 DEF ReceivingWallet, pollarVars
    <3>3. ASSUME LeaseExpires PROVE payment' = payment
      BY <3>3 DEF LeaseExpires
    <3>4. ASSUME NEW k, SettleEnds(k) \/ SettleIsLost(k) PROVE payment' = payment
      BY <3>4 DEF SettleEnds, SettleIsLost, pollarVars
    <3> QED
      BY <2>2, <2>3, <2>4, <2>5, <3>1, <3>2, <3>3, <3>4 DEF PollarStep, Outside, Request
  <2> QED
    BY <2>1, <2>5 DEF PaymentsNext, pollarVars
<1>3. ASSUME NEW r \in CashRequest, ~ At(r, "NEW")
      PROVE  ~ At(r, "NEW")' /\ Target(r)' = Target(r)
  <2> DEFINE Goal == ~ At(r, "NEW")' /\ Target(r)' = Target(r)
  <2> USE DEF At, Target
  <2>1. cash \in [CashRequest -> [pc : CashPc, k : Installment \cup {Null}]]
    BY DEF PaymentsInv, CashInv, CashTypes
  <2>2. CASE cash' = cash
    BY <1>3, <2>2
  <2>3. ASSUME NEW s \in CashRequest, NEW pc, Step(s, pc), pc # "NEW" PROVE Goal
    <3>1. cash'[r].k = cash[r].k /\ (r # s => cash'[r].pc = cash[r].pc)
          /\ (r = s => cash'[r].pc = pc)
      BY <2>1, <2>3 DEF Step
    <3> QED
      BY <1>3, <2>3, <3>1
  <2>4. ASSUME NEW s \in CashRequest,
               Serve(s) \/ CompleteUnread(s) \/ RequestFails(s)
        PROVE  Goal
    <3>1. ASSUME Enqueue(s) PROVE Goal
      BY <2>3, <3>1 DEF Enqueue, Insert
    <3>2. ASSUME Claim(s) \/ SendCash(s) \/ WaitCash(s) PROVE Goal
      BY <2>3, <3>2 DEF Claim, SendCash, WaitCash
    <3>3. ASSUME BookCash(s) PROVE Goal
      <4>1. \E pc : Step(s, pc) /\ pc # "NEW"
        BY <3>3 DEF BookCash
      <4> QED
        BY <4>1, <2>3
    <3>4. ASSUME MarkProcessed(s) \/ Complete(s) \/ CompleteUnread(s) \/ RequestFails(s)
          PROVE  Goal
      BY <2>3, <3>4 DEF MarkProcessed, Complete, CompleteUnread, RequestFails
    <3> QED
      BY <2>4, <3>1, <3>2, <3>3, <3>4 DEF Serve
  <2>5. ASSUME NEW c \in CashRequest, NEW k \in Installment, StartCollect(c, k) PROVE Goal
    <3>1. r # c /\ cash'[r] = cash[r]
      BY <1>3, <2>1, <2>5 DEF StartCollect
    <3> QED
      BY <1>3, <3>1
  <2>6. ASSUME NEW s \in CashRequest, NEW k \in Installment, StartSync(s, k) PROVE Goal
    <3>1. CASE r # s
      <4>1. cash'[r] = cash[r]
        BY <2>1, <2>6, <3>1 DEF StartSync
      <4> QED
        BY <1>3, <4>1
    <3>2. CASE r = s
      <4>1. cash[r].k = k
        BY <1>3, <2>6, <3>2 DEF StartSync
      <4>2. cash'[r].k = k /\ cash'[r].pc \in {"DONE", "REJECT", "ENQUEUE"}
        BY <2>1, <2>6, <3>2 DEF StartSync
      <4> QED
        BY <4>1, <4>2
    <3> QED
      BY <3>1, <3>2
  <2>7. ASSUME CashStep PROVE Goal
    <3>1. ASSUME NEW k, GenerateOtp(k) \/ ForgetOtp(k) PROVE Goal
      BY <2>2, <3>1 DEF GenerateOtp, ForgetOtp
    <3> QED
      BY <2>4, <2>5, <2>6, <2>7, <3>1 DEF CashStep, CashRequest
  <2> QED
    BY <2>2, <2>7 DEF PaymentsNext, cashVars
<1> QED
  BY <1>1, <1>2, <1>3, ContractKept DEF Grows

-----------------------------------------------------------------------------
(* What is known stays so. *)

\* What the lemmas below need of a step.
Step2 == TablesInv /\ TablesInv' /\ ContractInv /\ ContractInv' /\ Grows

\* What settled an installment.
LEMMA SettledStays ==
  ASSUME Step2, NEW k \in Installment, Settled(k)
  PROVE  Settled(k)' /\ IntentProof(k)' = IntentProof(k) /\ intent'[k].tx = intent[k].tx
<1>1. /\ RowInv(k, inst[k], intent[k], candidate[k])
      /\ RowInv(k, inst'[k], intent'[k], candidate'[k])
  <2>1. RowsAgree' <=>
          \A j \in Installment : RowInv(j, inst'[j], intent'[j], candidate'[j])
    BY DEF RowsAgree, RowInv, PollarReceipt
  <2> QED
    BY <2>1 DEF Step2, TablesInv, RowsAgree
<1>2. FinalRow(k)
  BY DEF Step2, Grows, FinalStep
<1>3. /\ inst[k].status = "PAID" /\ inst[k].rail = "POLLAR"
      /\ inst[k].tx = intent[k].tx /\ inst[k].receipt = intent[k].receipt
  BY <1>1 DEF RowInv, Settled
<1>4. /\ inst'[k].status = "PAID" /\ inst'[k].rail = "POLLAR"
      /\ inst'[k].tx = inst[k].tx /\ inst'[k].receipt = inst[k].receipt
  BY <1>2, <1>3, NullAssumption DEF FinalRow
<1>5. Settled(k)' /\ intent'[k].tx = inst'[k].tx /\ intent'[k].receipt = inst'[k].receipt
  BY <1>1, <1>4 DEF RowInv, Settled
<1> QED
  BY <1>3, <1>4, <1>5 DEF IntentProof

\* A proof on the chain, and that it is buried.
LEMMA ProofStays ==
  ASSUME Step2, NEW k \in Installment, IsProved(k)
  PROVE  IsProved(k)' /\ ProofAt(k)' = ProofAt(k)
<1>1. LoanOf[k] \in Loan /\ NumberOf[k] \in Nat \ {0}
  BY NumbersFit
<1>2. /\ hskProofs[LoanOf[k]] \in Seq(Chain!PaymentProof)
      /\ hskProofs'[LoanOf[k]] \in Seq(Chain!PaymentProof)
  BY <1>1 DEF Step2, ContractInv
<1>3. NumberOf[k] \in 1 .. Len(hskProofs[LoanOf[k]])
  BY <1>1, <1>2 DEF IsProved, ProofCount
<1>4. NumberOf[k] <= Len(hskProofs'[LoanOf[k]])
      /\ hskProofs'[LoanOf[k]][NumberOf[k]] = hskProofs[LoanOf[k]][NumberOf[k]]
  BY <1>1, <1>2, <1>3 DEF Step2, Grows
<1> QED
  BY <1>4 DEF IsProved, ProofCount, ProofAt

LEMMA BuriedIsProved ==
  ASSUME ContractInv, NEW k \in Installment, BuriedProof(k)
  PROVE  IsProved(k)
<1>1. LoanOf[k] \in Loan /\ NumberOf[k] \in Nat \ {0}
  BY NumbersFit
<1>2. /\ buried[LoanOf[k]] \in Nat /\ Len(hskProofs[LoanOf[k]]) \in Nat
      /\ buried[LoanOf[k]] <= Len(hskProofs[LoanOf[k]])
  BY <1>1 DEF ContractInv
<1> QED
  BY <1>1, <1>2 DEF BuriedProof, IsProved, ProofCount

LEMMA BuriedStays ==
  ASSUME Step2, NEW k \in Installment, Settled(k), BuriedProof(k)
  PROVE  BuriedProof(k)'
<1>1. IsProved(k)
  BY BuriedIsProved DEF Step2
<1>2. ProofAt(k)' = ProofAt(k) /\ IntentProof(k)' = IntentProof(k)
  BY <1>1, ProofStays, SettledStays
<1>3. LoanOf[k] \in Loan /\ NumberOf[k] \in Nat \ {0}
  BY NumbersFit
<1>4. /\ buried[LoanOf[k]] \in Nat /\ buried'[LoanOf[k]] \in Nat
      /\ buried[LoanOf[k]] <= buried'[LoanOf[k]]
  BY <1>3 DEF Step2, ContractInv, Grows
<1> QED
  BY <1>2, <1>3, <1>4 DEF BuriedProof

\* A rail once reserved.
LEMMA RailStays ==
  ASSUME Step2, NEW k \in Installment, inst[k].rail # Null
  PROVE  inst'[k].rail = inst[k].rail
  BY DEF Step2, Grows, FinalStep, FinalRow

\* Data that may be proved may be proved for good.
LEMMA TellsStays ==
  ASSUME Step2, NEW k \in Installment, NEW data, Tells(k, data)
  PROVE  Tells(k, data)'
<1>1. CASE Settled(k) /\ data = IntentProof(k)
  BY <1>1, SettledStays DEF Tells
<1>2. ASSUME inst[k].rail = "CASH",
             NEW r \in CashRequest, data = CashProof(r), cash[r].pc # "NEW", Target(r) = k
      PROVE  Tells(k, data)'
  <2>1. inst'[k].rail = "CASH"
    BY <1>2, RailStays, NullAssumption
  <2>2. cash'[r].pc # "NEW" /\ Target(r)' = k
    BY <1>2 DEF Step2, Grows, At
  <2>3. data = CashProof(r)'
    BY <1>2 DEF CashProof
  <2> QED
    BY <2>1, <2>2, <2>3 DEF Tells
<1> QED
  BY <1>1, <1>2 DEF Tells

\* The payment of a request, on the chain and in the table.
LEMMA CashProvedStays ==
  ASSUME Step2, NEW r, NEW k \in Installment, CashProved(r, k)
  PROVE  CashProved(r, k)'
<1>1. CashProof(r)' = CashProof(r)
  BY DEF CashProof
<1> QED
  BY <1>1, ProofStays DEF CashProved

LEMMA BookedStays ==
  ASSUME Step2, NEW r, NEW k \in Installment, Booked(r, k)
  PROVE  Booked(r, k)'
<1>1. inst'[k].status = "PAID" /\ inst'[k].receipt = r
  BY DEF Booked, Step2, Grows, FinalStep, FinalRow
<1> QED
  BY <1>1, CashProvedStays DEF Booked

\* The transfer of an intent.
LEMMA PaidByStays ==
  ASSUME Step2, NEW k \in Installment, NEW tx \in Tx,
         intent[k].status # "NONE", PaidBy(k, tx)
  PROVE  PaidBy(k, tx)' /\ intent'[k].status # "NONE"
<1>1. payment'[tx] = payment[tx]
  BY DEF PaidBy, Step2, Grows
<1>2. /\ intent'[k].sender = intent[k].sender
      /\ intent'[k].recipient = intent[k].recipient
      /\ intent'[k].minLedger = intent[k].minLedger
      /\ IntentRank[intent[k].status] <= IntentRank[intent'[k].status]
  BY DEF Step2, Grows, FinalStep, FinalRow
<1>3. /\ intent[k].status \in {"NONE", "CREATED", "VERIFIED", "ANCHORED"}
      /\ intent'[k].status \in {"NONE", "CREATED", "VERIFIED", "ANCHORED"}
  BY DEF Step2, TablesInv, DbTypeOK, IntentRow
<1>4. intent'[k].status # "NONE"
  BY <1>2, <1>3 DEF IntentRank
<1> QED
  BY <1>1, <1>2, <1>4 DEF PaidBy, Pays

\* A request that does not move, and is not told of a success, is as it was.
LEMMA RequestKept ==
  ASSUME Step2, NEW r \in CashRequest, RequestInv(r), cash'[r] = cash[r],
         r \in SyncItem => queue'[r] = queue[r],
         outcome'[r] = "OK" => outcome[r] = "OK"
  PROVE  RequestInv(r)'
<1>1. ASSUME NEW k \in Installment, RequestOn(r, k)
      PROVE  RequestOn(r, k)'
  <2>1. inst[k].rail = "CASH" => inst'[k].rail = "CASH"
    BY RailStays, NullAssumption
  <2>2. /\ CashProved(r, k) => CashProved(r, k)'
        /\ Booked(r, k) => Booked(r, k)'
    BY CashProvedStays, BookedStays
  <2> QED
    BY <1>1, <2>1, <2>2 DEF RequestOn, At
<1>2. Target(r)' = Target(r)
  BY DEF Target
<1> QED
  BY <1>1, <1>2 DEF RequestInv, At

\* What is known of a job stays so until it moves.
LEMMA JobOnKept ==
  ASSUME Step2, NEW a \in Worker \cup Client, NEW k \in Installment,
         NEW tx \in Tx \cup {Null}, JobOn(a, k, tx), job'[a] = job[a],
         job[a].pc = "RESOLVE" => job[a].tx \in Tx
  PROVE  JobOn(a, k, tx)'
<1>1. tx \in Tx /\ intent[k].status # "NONE" /\ PaidBy(k, tx)
         => intent'[k].status # "NONE" /\ PaidBy(k, tx)'
  BY PaidByStays
<1>2. Settled(k) => Settled(k)'
  BY SettledStays
<1>3. Settled(k) /\ BuriedProof(k) => BuriedProof(k)'
  BY BuriedStays
<1> QED
  BY <1>1, <1>2, <1>3 DEF JobOn

LEMMA JobKept ==
  ASSUME Step2, NEW a \in Worker \cup Client, JobInv(a), job'[a] = job[a]
  PROVE  JobInv(a)'
<1>1. \A k \in Installment, tx \in Tx \cup {Null} : job'[a].k = k => JobOn(a, k, tx)'
  BY JobOnKept DEF JobInv
<1> QED
  BY <1>1 DEF JobInv

\* A transaction in the pool is as good as it was, as long as the request that
\* waits for it does.
LEMMA TransactionKept ==
  ASSUME Step2, NEW t \in Transaction, TransactionOK(t),
         t.by \in CashRequest => cash'[t.by] = cash[t.by]
  PROVE  TransactionOK(t)'
<1>1. PICK k \in Installment :
        /\ LoanOf[k] = t.loan /\ NumberOf[k] = t.number
        /\ Tells(k, t.data)
        /\ t.by \in CashRequest =>
              At(t.by, "WAIT") /\ Target(t.by) = k /\ t.data = CashProof(t.by)
  BY DEF TransactionOK
<1>2. Tells(k, t.data)'
  BY <1>1, TellsStays
<1>3. t.by \in CashRequest =>
        At(t.by, "WAIT")' /\ Target(t.by)' = k /\ t.data = CashProof(t.by)'
  BY <1>1 DEF At, Target, CashProof
<1> QED
  BY <1>1, <1>2, <1>3 DEF TransactionOK

\* The pool that does not grow while requests that wait stay.
LEMMA SmallerPool ==
  ASSUME Step2, PoolInv, pool' \in Seq(Transaction),
         \A t \in Transaction : Waiting(t)' => Waiting(t),
         \A r \in CashRequest : At(r, "WAIT") => cash'[r] = cash[r]
  PROVE  PoolInv'
<1>1. ASSUME NEW t \in Transaction, Waiting(t)' PROVE TransactionOK(t)'
  <2>1. TransactionOK(t)
    BY <1>1 DEF PoolInv
  <2>2. t.by \in CashRequest => cash'[t.by] = cash[t.by]
    BY <2>1 DEF TransactionOK
  <2> QED
    BY <2>1, <2>2, TransactionKept
<1> QED
  BY <1>1 DEF PoolInv

LEMMA SamePool ==
  ASSUME Step2, PoolInv, pool' = pool,
         \A r \in CashRequest : At(r, "WAIT") => cash'[r] = cash[r]
  PROVE  PoolInv'
<1>1. pool' \in Seq(Transaction) /\ \A t \in Transaction : Waiting(t)' => Waiting(t)
  BY DEF PoolInv, Waiting
<1> QED
  BY <1>1, SmallerPool

\* The pool after an actor stops waiting.
LEMMA AbandonPool ==
  ASSUME Step2, PoolInv, NEW a \in Actor, Abandon(a),
         \A r \in CashRequest : At(r, "WAIT") /\ r # a => cash'[r] = cash[r]
  PROVE  PoolInv'
<1>1. /\ pool \in Seq(Transaction)
      /\ pool' = [j \in DOMAIN pool |->
            IF pool[j].by = a THEN [pool[j] EXCEPT !.by = Null] ELSE pool[j]]
  BY DEF PoolInv, Abandon
<1>2. ASSUME NEW j \in DOMAIN pool
      PROVE  pool[j] \in Transaction /\ pool'[j] \in Transaction
  <2>1. pool[j] \in Transaction
    BY <1>1
  <2>2. [pool[j] EXCEPT !.by = Null] \in Transaction
    BY <2>1 DEF Transaction
  <2> QED
    BY <1>1, <2>1, <2>2
<1>3. pool' \in Seq(Transaction)
  <2>1. DOMAIN pool = 1 .. Len(pool) /\ Len(pool) \in Nat
    BY <1>1
  <2>2. pool' \in [1 .. Len(pool) -> Transaction]
    BY <1>1, <1>2, <2>1
  <2> QED
    BY <2>1, <2>2
<1>4. DOMAIN pool' = DOMAIN pool
  BY <1>1
<1>5. ASSUME NEW t \in Transaction, Waiting(t)' PROVE TransactionOK(t)'
  <2>1. PICK j \in DOMAIN pool : pool'[j] = t
    BY <1>4, <1>5 DEF Waiting
  <2>2. PICK s \in Transaction : s = pool[j] /\ TransactionOK(s)
    BY <1>2 DEF PoolInv, Waiting
  <2>3. CASE s.by = a
    <3>1. t = [s EXCEPT !.by = Null]
      BY <1>1, <2>1, <2>2, <2>3
    <3>2. t.by = Null /\ t.loan = s.loan /\ t.number = s.number /\ t.data = s.data
      BY <3>1 DEF Transaction
    <3>3. Null \notin CashRequest
      BY CashAssumption, ChainAssumption
    <3>4. TransactionOK(t)
      BY <2>2, <3>2, <3>3 DEF TransactionOK
    <3> QED
      BY <3>2, <3>3, <3>4, TransactionKept
  <2>4. CASE s.by # a
    <3>1. t = s
      BY <1>1, <2>1, <2>2, <2>4
    <3>2. t.by \in CashRequest => At(t.by, "WAIT")
      BY <2>2, <3>1 DEF TransactionOK
    <3> QED
      BY <2>2, <2>4, <3>1, <3>2, TransactionKept
  <2> QED
    BY <2>3, <2>4
<1> QED
  BY <1>3, <1>5 DEF PoolInv

\* The pool after an actor sends.
LEMMA SendPool ==
  ASSUME Step2, PoolInv, NEW a \in Actor, NEW k \in Installment, NEW data \in ProofData,
         Send(a, k, data),
         \A r \in CashRequest : At(r, "WAIT") => cash'[r] = cash[r],
         Tells(k, data)',
         a \in CashRequest =>
            At(a, "WAIT")' /\ Target(a)' = k /\ data = CashProof(a)
  PROVE  PoolInv'
<1> DEFINE new == [by |-> a, loan |-> LoanOf[k], number |-> NumberOf[k], data |-> data]
<1>1. pool' = Append(pool, new) /\ pool \in Seq(Transaction)
  BY DEF Send, PoolInv
<1>2. new \in Transaction
  BY NumbersFit DEF Transaction
<1>3. pool' \in Seq(Transaction)
  BY <1>1, <1>2
<1>4. TransactionOK(new)'
  BY DEF TransactionOK, CashProof
<1>5. ASSUME NEW t \in Transaction, Waiting(t)' PROVE Waiting(t) \/ t = new
  BY <1>1, <1>2, <1>5 DEF Waiting
<1>6. ASSUME NEW t \in Transaction, Waiting(t) PROVE TransactionOK(t)'
  <2>1. TransactionOK(t)
    BY <1>6 DEF PoolInv
  <2>2. t.by \in CashRequest => cash'[t.by] = cash[t.by]
    BY <2>1 DEF TransactionOK
  <2> QED
    BY <2>1, <2>2, TransactionKept
<1> QED
  BY <1>3, <1>4, <1>5, <1>6 DEF PoolInv

-----------------------------------------------------------------------------
(* The chain moves. *)

\* A transaction is mined: the proof it adds is one that may be added, and
\* the request that is told of it is the one whose payment it proves.
LEMMA MineKept ==
  ASSUME PaymentsInv, Step2, Mine, UNCHANGED <<dbVars, pollarVars, cashVars>>
  PROVE  /\ PoolInv' /\ ProofsTell'
         /\ outcome' \in [Actor -> {"NONE", "OK", "REVERTED"}]
         /\ \A r \in CashRequest : RequestInv(r)'
<1>1. PICK t \in Transaction : t = Head(pool) /\ TransactionOK(t)
  BY HeadOfPool DEF PaymentsInv, Mine
<1>2. PICK k \in Installment :
        /\ LoanOf[k] = t.loan /\ NumberOf[k] = t.number
        /\ Tells(k, t.data)
        /\ t.by \in CashRequest =>
              At(t.by, "WAIT") /\ Target(t.by) = k /\ t.data = CashProof(t.by)
  BY <1>1 DEF TransactionOK
<1>3. PoolInv /\ ContractInv /\ ProofsTell /\ CashInv
  BY DEF PaymentsInv
<1>4. t.by \in Actor \cup {Null} /\ t.loan \in Loan
  BY DEF Transaction
<1>5. outcome \in [Actor -> {"NONE", "OK", "REVERTED"}] /\ UNCHANGED <<cash, queue>>
  BY <1>3 DEF CashInv, CashTypes, cashVars
<1>6. PoolInv'
  <2>1. pool \in Seq(Transaction) /\ pool # << >> /\ pool' = Tail(pool)
    BY <1>3 DEF PoolInv, Mine
  <2>2. pool' \in Seq(Transaction) /\ \A j \in DOMAIN pool' : pool'[j] = pool[j + 1] /\ j + 1 \in DOMAIN pool
    BY <2>1
  <2>3. \A s \in Transaction : Waiting(s)' => Waiting(s)
    BY <2>2 DEF Waiting
  <2> QED
    BY <1>3, <1>5, <2>2, <2>3, SmallerPool
<1>7. CASE ~ Chain!CanConfirm(Operator, t.loan, t.number)
  <2>1. Tell(t.by, "REVERTED") /\ UNCHANGED <<hskLoans, hskProofs>>
    BY <1>1, <1>7 DEF Mine, Chain!ConfirmPayment
  <2>2. /\ outcome' \in [Actor -> {"NONE", "OK", "REVERTED"}]
        /\ \A r \in Actor : outcome'[r] = "OK" => outcome[r] = "OK"
    BY <1>4, <1>5, <2>1 DEF Tell
  <2>3. \A r \in CashRequest : RequestInv(r)'
    BY <1>3, <1>5, <2>2, RequestKept, CashAssumption DEF CashInv
  <2>4. ASSUME NEW i \in Installment, IsProved(i)' PROVE Tells(i, ProofAt(i))'
    <3>1. IsProved(i) /\ ProofAt(i)' = ProofAt(i)
      BY <2>1, <2>4 DEF IsProved, ProofCount, ProofAt
    <3>2. PICK data : data = ProofAt(i) /\ Tells(i, data)
      BY <1>3, <3>1 DEF ProofsTell
    <3>3. Tells(i, data)'
      BY <3>2, TellsStays
    <3> QED
      BY <3>1, <3>2, <3>3 DEF Tells
  <2> QED
    BY <1>6, <2>2, <2>3, <2>4 DEF ProofsTell
<1>8. CASE Chain!CanConfirm(Operator, t.loan, t.number)
  <2>1. /\ Chain!ConfirmPayment(Operator, t.loan, t.number, t.data)
        /\ Tell(t.by, "OK")
    BY <1>1, <1>8 DEF Mine
  <2>2. /\ hskProofs' = [hskProofs EXCEPT ![t.loan] =
              Append(@, [data |-> t.data, installmentNumber |-> t.number])]
        /\ t.number = Len(hskProofs[t.loan]) + 1
    BY <1>1, <1>3, <2>1, MineProves
  <2>3. /\ outcome' \in [Actor -> {"NONE", "OK", "REVERTED"}]
        /\ \A r \in Actor : r # t.by => outcome'[r] = outcome[r]
    BY <1>4, <1>5, <2>1 DEF Tell
  <2>4. /\ hskProofs \in [Loan -> Seq(Chain!PaymentProof)]
        /\ Len(hskProofs[t.loan]) \in Nat
    BY <1>3, <1>4 DEF ContractInv
  <2>5. IsProved(k)' /\ ProofAt(k)' = t.data
    BY <1>2, <1>4, <2>2, <2>4 DEF IsProved, ProofCount, ProofAt
  <2>6. ASSUME NEW i \in Installment, i # k, IsProved(i)'
        PROVE  IsProved(i) /\ ProofAt(i)' = ProofAt(i)
    <3>1. LoanOf[i] \in Loan /\ NumberOf[i] \in Nat \ {0}
          /\ (LoanOf[i] = t.loan => NumberOf[i] # t.number)
      BY <1>2, <2>6, DbAssumption
    <3>2. CASE LoanOf[i] # t.loan
      BY <2>2, <2>4, <2>6, <3>1, <3>2 DEF IsProved, ProofCount, ProofAt
    <3>3. CASE LoanOf[i] = t.loan
      <4>1. Len(hskProofs'[t.loan]) = t.number
        BY <1>4, <2>2, <2>4
      <4>2. NumberOf[i] \in 1 .. Len(hskProofs[t.loan])
        BY <2>2, <2>4, <2>6, <3>1, <3>3, <4>1 DEF IsProved, ProofCount
      <4> QED
        BY <1>4, <2>2, <2>4, <3>3, <4>2 DEF IsProved, ProofCount, ProofAt
    <3> QED
      BY <3>2, <3>3
  <2>7. ASSUME NEW i \in Installment, IsProved(i)' PROVE Tells(i, ProofAt(i))'
    <3>1. PICK data : data = ProofAt(i)' /\ Tells(i, data)
      BY <1>2, <1>3, <2>5, <2>6, <2>7 DEF ProofsTell
    <3>2. Tells(i, data)'
      BY <3>1, TellsStays
    <3> QED
      BY <3>1, <3>2 DEF Tells
  <2>8. ASSUME NEW r \in CashRequest PROVE RequestInv(r)'
    <3>1. RequestInv(r) /\ r \in Actor /\ Null \notin CashRequest
      BY <1>3, CashAssumption, ChainAssumption DEF CashInv
    <3>2. CASE r # t.by
      BY <1>5, <2>3, <3>1, <3>2, RequestKept
    <3>3. CASE r = t.by
      <4>1. At(r, "WAIT") /\ Target(r) = k /\ t.data = CashProof(r)
        BY <1>2, <3>3
      <4>2. CashProved(r, k)'
        BY <2>5, <4>1 DEF CashProved, CashProof
      <4>3. inst'[k].rail = "CASH"
        BY <3>1, <4>1, RailStays, NullAssumption DEF RequestInv, RequestOn, At
      <4>4. r \in SyncItem /\ queue[r] = "PROCESSED" => Booked(r, k)'
        BY <3>1, <4>1, BookedStays DEF RequestInv, RequestOn, At
      <4>5. RequestOn(r, k)'
        BY <1>5, <4>1, <4>2, <4>3, <4>4 DEF RequestOn, At
      <4> QED
        BY <1>5, <3>1, <4>1, <4>5 DEF RequestInv, At, Target
    <3> QED
      BY <3>2, <3>3
  <2> QED
    BY <1>6, <2>3, <2>7, <2>8 DEF ProofsTell
<1> QED
  BY <1>7, <1>8

\* Nothing is proved that was not.
LEMMA ProofsTellKept ==
  ASSUME Step2, ProofsTell, hskProofs' = hskProofs
  PROVE  ProofsTell'
<1> SUFFICES ASSUME NEW i \in Installment, IsProved(i)' PROVE Tells(i, ProofAt(i))'
  BY DEF ProofsTell
<1>1. IsProved(i) /\ ProofAt(i)' = ProofAt(i)
  BY DEF IsProved, ProofCount, ProofAt
<1>2. PICK data : data = ProofAt(i) /\ Tells(i, data)
  BY <1>1 DEF ProofsTell
<1>3. Tells(i, data)'
  BY <1>2, TellsStays
<1> QED
  BY <1>1, <1>2, <1>3 DEF Tells

\* A row that was SYNCED stays proved.
LEMMA SyncedStays ==
  ASSUME Step2, SyncInv, NEW k \in Installment, inst[k].sync = "SYNCED"
  PROVE  IsProved(k)' /\ ProofAt(k)' = ProofOfPayment(k)'
<1>1. IsProved(k) /\ ProofAt(k) = ProofOfPayment(k)
  BY DEF SyncInv
<1>2. inst[k].status = "PAID" /\ inst[k].rail \in {"CASH", "POLLAR"}
  <2>1. inst[k].status \in {"PENDING", "PAID"}
    BY DEF Step2, TablesInv, DbTypeOK, InstallmentRow
  <2>2. RowInv(k, inst[k], intent[k], candidate[k])
    BY DEF Step2, TablesInv, RowsAgree
  <2> QED
    BY <2>1, <2>2 DEF RowInv
<1>3. /\ inst'[k].rail = inst[k].rail /\ inst'[k].receipt = inst[k].receipt
      /\ inst'[k].tx = inst[k].tx
  BY <1>2, NullAssumption DEF Step2, Grows, FinalStep, FinalRow
<1>4. ProofOfPayment(k)' = ProofOfPayment(k)
  BY <1>3 DEF ProofOfPayment, PollarProof, CashProof
<1> QED
  BY <1>1, <1>4, ProofStays

LEMMA SyncKept ==
  ASSUME Step2, SyncInv,
         \A k \in Installment : inst'[k].sync = "SYNCED" => inst[k].sync = "SYNCED"
  PROVE  SyncInv'
  BY SyncedStays DEF SyncInv

\* What an intent fixed stays, and what settled it.
LEMMA IntentKept ==
  ASSUME Step2, NEW k \in Installment, IntentInv(k), intent'[k] = intent[k],
         intent[k].tx # Null => intent[k].tx \in Tx
  PROVE  IntentInv(k)'
<1>1. ASSUME Settled(k) PROVE intent[k].tx \in Tx
  BY <1>1 DEF Settled, Step2, TablesInv, RowsAgree, RowInv
<1>2. ASSUME Settled(k) PROVE PaidBy(k, intent[k].tx)'
  <2>1. PICK tx \in Tx : tx = intent[k].tx
    BY <1>1, <1>2
  <2>2. PaidBy(k, tx) /\ intent[k].status # "NONE"
    BY <1>2, <2>1 DEF IntentInv, Settled
  <2>3. PaidBy(k, tx)'
    BY <2>2, PaidByStays
  <2> QED
    BY <2>1, <2>3 DEF PaidBy, Pays
<1>3. Settled(k)' => Settled(k)
  BY DEF Settled
<1> QED
  BY <1>2, <1>3 DEF IntentInv

\* What is about to be written stays paid.
LEMMA LockedKept ==
  ASSUME Step2, NEW k \in Installment, LockedInv(k), settling'[k] \in {settling[k], Null}
  PROVE  LockedInv(k)'
<1>1. ASSUME settling'[k] # Null PROVE PaidBy(k, settling[k])'
  <2>1. PICK tx \in Tx : tx = settling[k]
    BY <1>1 DEF Step2, TablesInv, DbTypeOK
  <2>2. intent[k].status # "NONE" /\ PaidBy(k, tx) /\ settling'[k] = tx
    BY <1>1, <2>1 DEF Step2, TablesInv, LockedIsOpen, LockedInv
  <2>3. PaidBy(k, tx)'
    BY <2>2, PaidByStays
  <2> QED
    BY <2>1, <2>2, <2>3 DEF PaidBy, Pays
<1> QED
  BY <1>1 DEF LockedInv, PaidBy, Pays

\* The elements of a concatenation, and of a sequence without one element.
LEMMA ConcatElements ==
  ASSUME NEW S, NEW a \in Seq(S), NEW b \in Seq(S), NEW i \in DOMAIN (a \o b)
  PROVE  (\E m \in DOMAIN a : (a \o b)[i] = a[m]) \/ (\E m \in DOMAIN b : (a \o b)[i] = b[m])
<1>1. Len(a) \in Nat /\ DOMAIN a = 1 .. Len(a) /\ Len(b) \in Nat /\ DOMAIN b = 1 .. Len(b)
  OBVIOUS
<1>2. /\ i \in 1 .. Len(a) + Len(b)
      /\ (a \o b)[i] = IF i <= Len(a) THEN a[i] ELSE b[i - Len(a)]
  BY ConcatProperties
<1>3. CASE i <= Len(a)
  BY <1>1, <1>2, <1>3
<1>4. CASE i > Len(a)
  BY <1>1, <1>2, <1>4
<1> QED
  BY <1>1, <1>2, <1>3, <1>4

Without(s, j) == SubSeq(s, 1, j - 1) \o SubSeq(s, j + 1, Len(s))

LEMMA WithoutOne ==
  ASSUME NEW S, NEW s \in Seq(S), NEW j \in DOMAIN s
  PROVE  /\ Without(s, j) \in Seq(S)
         /\ \A i \in DOMAIN Without(s, j) : \E m \in DOMAIN s : Without(s, j)[i] = s[m]
<1>0. PICK d : d = Without(s, j)
  OBVIOUS
<1>1. PICK a : a = SubSeq(s, 1, j - 1)
  OBVIOUS
<1>2. PICK b : b = SubSeq(s, j + 1, Len(s))
  OBVIOUS
<1>3. d = a \o b
  BY <1>0, <1>1, <1>2 DEF Without
<1>4. a \in Seq(S) /\ \A i \in DOMAIN a : \E m \in DOMAIN s : a[i] = s[m]
  <2>1. /\ a \in Seq(S) /\ Len(a) = j - 1
        /\ \A i \in 1 .. j - 1 : a[i] = s[i] /\ i \in DOMAIN s
    BY <1>1
  <2> QED
    BY <2>1
<1>5. b \in Seq(S) /\ \A i \in DOMAIN b : \E m \in DOMAIN s : b[i] = s[m]
  <2>1. /\ b \in Seq(S) /\ Len(b) = Len(s) - j
        /\ \A i \in 1 .. Len(s) - j : b[i] = s[j + i] /\ j + i \in DOMAIN s
    BY <1>2
  <2>2. DOMAIN b = 1 .. Len(s) - j
    BY <2>1
  <2> QED
    BY <2>1, <2>2, Zenon
<1>6. a \o b \in Seq(S)
  BY <1>4, <1>5, ConcatProperties
<1>7. ASSUME NEW i \in DOMAIN d PROVE \E m \in DOMAIN s : d[i] = s[m]
  <2>1. (\E m \in DOMAIN a : d[i] = a[m]) \/ (\E m \in DOMAIN b : d[i] = b[m])
    <3>1. i \in DOMAIN (a \o b) /\ d[i] = (a \o b)[i]
      BY <1>3
    <3>2. (\E m \in DOMAIN a : (a \o b)[i] = a[m]) \/ (\E m \in DOMAIN b : (a \o b)[i] = b[m])
      BY <1>4, <1>5, <3>1, ConcatElements
    <3> QED
      BY <3>1, <3>2, Zenon
  <2> QED
    BY <1>4, <1>5, <2>1, Zenon
<1> QED
  BY <1>0, <1>3, <1>6, <1>7, Zenon

\* The failures are counted.
LEMMA FaultsCounted ==
  ASSUME CashInv, faults' = faults \/ Fault
  PROVE  faults' \in 0 .. MaxFaults
  BY ChainAssumption DEF CashInv, CashTypes, Fault

\* The chain moves alone.
LEMMA ChainStepKept ==
  ASSUME PaymentsInv, Step2, ChainStep, UNCHANGED <<pollarVars, cashVars>>
  PROVE  PaymentsInv'
<1>1. /\ TablesInv /\ ContractInv /\ ProofsTell /\ PoolInv /\ CashInv /\ PollarInv /\ SyncInv
      /\ TablesInv' /\ ContractInv'
      /\ UNCHANGED <<dbVars, pollarVars, cashVars>>
      /\ Mine \/ Drop \/ Bury
  BY DEF PaymentsInv, ChainStep, Step2
<1>2. UNCHANGED <<inst, intent, settling, otp, queue, cash, payment, ledgerNow,
                  lease, job>>
  BY <1>1 DEF dbVars, pollarVars, cashVars
<1>3. PollarInv'
  <2>1. PollarTypes'
    BY <1>1, <1>2 DEF PollarInv, PollarTypes
  <2>2. \A a \in Worker \cup Client : JobInv(a)'
    BY <1>1, <1>2, JobKept DEF PollarInv
  <2>3. \A k \in Installment : intent[k].tx # Null => intent[k].tx \in Tx
    BY <1>1 DEF TablesInv, DbTypeOK, IntentRow
  <2>4. \A k \in Installment : IntentInv(k)'
    BY <1>1, <1>2, <2>3, IntentKept DEF PollarInv
  <2>5. \A k \in Installment : LockedInv(k)'
    BY <1>1, <1>2, LockedKept DEF PollarInv
  <2> QED
    BY <2>1, <2>2, <2>4, <2>5 DEF PollarInv
<1>4. SyncInv'
  BY <1>1, <1>2, SyncKept
<1>5. faults' \in 0 .. MaxFaults
  <2>1. faults' = faults \/ Fault
    BY <1>1 DEF Mine, Drop, Bury
  <2> QED
    BY <1>1, <2>1, FaultsCounted
<1>6. CASE Mine
  <2>1. /\ PoolInv' /\ ProofsTell'
        /\ outcome' \in [Actor -> {"NONE", "OK", "REVERTED"}]
        /\ \A r \in CashRequest : RequestInv(r)'
    BY <1>1, <1>6, MineKept
  <2>2. CashInv'
    BY <1>1, <1>2, <1>5, <2>1 DEF CashInv, CashTypes
  <2> QED
    BY <1>1, <1>3, <1>4, <2>1, <2>2 DEF PaymentsInv
<1>7. CASE Drop \/ Bury
  <2>1. hskProofs' = hskProofs /\ outcome' = outcome
    BY <1>7 DEF Drop, Bury
  <2>2. CashInv'
    BY <1>1, <1>2, <1>5, <2>1, RequestKept DEF CashInv, CashTypes
  <2>3. PoolInv'
    <3>1. CASE pool' = pool
      BY <1>1, <1>2, <3>1, SamePool
    <3>2. ASSUME NEW j \in DOMAIN pool,
                 pool' = SubSeq(pool, 1, j - 1) \o SubSeq(pool, j + 1, Len(pool))
          PROVE  PoolInv'
      <4>4. /\ pool' \in Seq(Transaction)
            /\ \A i \in DOMAIN pool' : \E m \in DOMAIN pool : pool'[i] = pool[m]
        <5>1. pool \in Seq(Transaction)
          BY <1>1 DEF PoolInv
        <5>2. pool' = Without(pool, j)
          BY <3>2 DEF Without
        <5> QED
          BY <5>1, <5>2, WithoutOne
      <4>5. \A t \in Transaction : Waiting(t)' => Waiting(t)
        BY <4>4 DEF Waiting
      <4> QED
        BY <1>1, <1>2, <4>4, <4>5, SmallerPool
    <3> QED
      BY <1>7, <3>1, <3>2 DEF Drop, Bury
  <2>4. ProofsTell'
    BY <1>1, <2>1, ProofsTellKept
  <2> QED
    BY <1>1, <1>3, <1>4, <2>2, <2>3, <2>4 DEF PaymentsInv
<1> QED
  BY <1>1, <1>6, <1>7

-----------------------------------------------------------------------------
(* Requests that pay in cash. *)

\* A request whose move leaves its own invariant and the types leaves that of
\* the others.
LEMMA OneRequestMoves ==
  ASSUME CashInv, Step2, NEW r \in CashRequest, CashTypes', RequestInv(r)',
         \A s \in CashRequest \ {r} :
            /\ cash'[s] = cash[s]
            /\ s \in SyncItem => queue'[s] = queue[s]
            /\ outcome'[s] = outcome[s]
  PROVE  CashInv'
  BY RequestKept DEF CashInv

\* What a move has to show about the request itself.
LEMMA RequestStep ==
  ASSUME CashInv, Step2, NEW r \in CashRequest, ~ At(r, "NEW"),
         cash'[r].pc \notin {"ENQUEUE", "REJECT"},
         cash'[r].pc = "PROCESSED" => r \in SyncItem,
         \A k \in Installment : Target(r) = k => RequestOn(r, k)'
  PROVE  RequestInv(r)'
<1>1. RequestInv(r)
  BY DEF CashInv
<1>2. ~ At(r, "NEW")' /\ Target(r)' = Target(r)
  BY DEF Step2, Grows
<1> QED
  BY <1>1, <1>2 DEF RequestInv, At, Target

\* What it knows.
LEMMA RequestFacts ==
  ASSUME CashInv, Step2, NEW r \in CashRequest, ~ At(r, "NEW"),
         NEW k \in Installment, Target(r) = k
  PROVE  /\ RequestOn(r, k)
         /\ inst[k].rail = "CASH" => inst'[k].rail = "CASH"
         /\ CashProved(r, k) => CashProved(r, k)'
         /\ Booked(r, k) => Booked(r, k)'
<1>1. RequestOn(r, k)
  BY DEF CashInv, RequestInv
<1> QED
  BY <1>1, RailStays, CashProvedStays, BookedStays, NullAssumption

\* A step of a request to another place.
LEMMA StepTypes ==
  ASSUME CashTypes, NEW r \in CashRequest, NEW pc \in CashPc, Step(r, pc)
  PROVE  /\ cash' \in [CashRequest -> [pc : CashPc, k : Installment \cup {Null}]]
         /\ cash'[r].pc = pc /\ cash'[r].k = cash[r].k
         /\ \A s \in CashRequest \ {r} : cash'[s] = cash[s]
<1>1. cash \in [CashRequest -> [pc : CashPc, k : Installment \cup {Null}]]
  BY DEF CashTypes
<1>2. cash' = [cash EXCEPT ![r] = [cash[r] EXCEPT !.pc = pc]]
  BY <1>1 DEF Step
<1> QED
  BY <1>1, <1>2

\* What the actions that only move a request, and perhaps its item in the
\* queue, have in common.
LEMMA QuietMove ==
  ASSUME PaymentsInv, Step2, NEW r \in CashRequest, ~ At(r, "NEW"), ~ At(r, "WAIT"),
         NEW pc \in CashPc \ {"NEW", "ENQUEUE", "REJECT"}, Step(r, pc),
         pc = "PROCESSED" => r \in SyncItem,
         UNCHANGED <<otp, pool, outcome>>, faults' = faults \/ Fault,
         queue' = queue \/
            \E status \in {"PENDING", "PROCESSED", "REJECTED"} :
               r \in SyncItem /\ queue' = [queue EXCEPT ![r] = status],
         \A k \in Installment : Target(r) = k => RequestOn(r, k)'
  PROVE  CashInv' /\ PoolInv'
<1>1. CashInv /\ CashTypes /\ PoolInv
  BY DEF PaymentsInv, CashInv
<1>2. /\ cash' \in [CashRequest -> [pc : CashPc, k : Installment \cup {Null}]]
      /\ cash'[r].pc = pc
      /\ \A s \in CashRequest \ {r} : cash'[s] = cash[s]
  BY <1>1, StepTypes
<1>3. RequestInv(r)'
  BY <1>1, <1>2, RequestStep
<1>4. /\ queue' \in [SyncItem -> {"NONE", "PENDING", "PROCESSED", "REJECTED"}]
      /\ \A s \in SyncItem \ {r} : queue'[s] = queue[s]
  BY <1>1 DEF CashTypes
<1>5. CashTypes'
  BY <1>1, <1>2, <1>4, FaultsCounted DEF CashTypes
<1>6. CashInv'
  BY <1>1, <1>2, <1>3, <1>4, <1>5, OneRequestMoves
<1>7. PoolInv'
  BY <1>1, <1>2, SamePool
<1> QED
  BY <1>6, <1>7

\* The queue takes an item, or has it already.
LEMMA EnqueueKept ==
  ASSUME PaymentsInv, Step2, NEW r \in CashRequest, Enqueue(r)
  PROVE  CashInv' /\ PoolInv'
<1>1. CashInv /\ RequestInv(r) /\ ~ At(r, "NEW") /\ ~ At(r, "WAIT") /\ r \in SyncItem
  BY DEF Enqueue, PaymentsInv, CashInv, RequestInv, At
<1>2. UNCHANGED <<otp, pool, outcome, faults>>
  BY DEF Enqueue, chainVars
<1>3. ASSUME NEW status \in {"PENDING", "REJECTED"}, NEW next \in {"CLAIM", "DONE"},
             Insert(r, status, next), next = "DONE" => status = "REJECTED"
      PROVE  CashInv' /\ PoolInv'
  <2>1. PICK pc \in {next, "FAILED"} :
          /\ Step(r, pc)
          /\ \/ pc = next /\ queue[r] = "NONE" /\ queue' = [queue EXCEPT ![r] = status]
             \/ pc = "FAILED" /\ queue' = queue
    BY <1>3 DEF Insert
  <2>2. queue \in [SyncItem -> {"NONE", "PENDING", "PROCESSED", "REJECTED"}]
    BY <1>1 DEF CashInv, CashTypes
  <2>3. cash'[r].pc = pc
    BY <1>1, <2>1, StepTypes DEF CashInv, CashPc
  <2>4. ASSUME NEW k \in Installment, Target(r) = k PROVE RequestOn(r, k)'
    <3>1. RequestOn(r, k) /\ (Booked(r, k) => Booked(r, k)')
      BY <1>1, <2>4, RequestFacts
    <3> QED
      BY <1>1, <1>3, <2>1, <2>2, <2>3, <3>1 DEF RequestOn, At
  <2> QED
    BY <1>1, <1>2, <2>1, <2>4, QuietMove DEF CashPc
<1> QED
  BY <1>3 DEF Enqueue

\* The rail is reserved for cash before anything is sent.
LEMMA ClaimKept ==
  ASSUME PaymentsInv, Step2, NEW r \in CashRequest, Claim(r)
  PROVE  CashInv' /\ PoolInv'
<1>1. CashInv /\ RequestInv(r) /\ At(r, "CLAIM") /\ ~ At(r, "NEW") /\ ~ At(r, "WAIT")
  BY DEF Claim, PaymentsInv, CashInv, At
<1>2. UNCHANGED <<otp, queue, pool, outcome, faults>>
  BY DEF Claim, chainVars
<1>3. PICK pc \in {"SEND", "FAILED"} :
        Step(r, pc) /\ (pc = "SEND" => ClaimCash(Target(r)))
  BY DEF Claim
<1>4. cash'[r].pc = pc
  BY <1>1, <1>3, StepTypes DEF CashInv, CashPc
<1>5. ASSUME NEW k \in Installment, Target(r) = k PROVE RequestOn(r, k)'
  <2>1. RequestOn(r, k) /\ (Booked(r, k) => Booked(r, k)')
    BY <1>1, <1>5, RequestFacts
  <2>2. pc = "SEND" => inst'[k].rail = "CASH"
    <3>1. inst \in [Installment -> InstallmentRow]
      BY DEF Step2, TablesInv, DbTypeOK
    <3> QED
      BY <1>3, <1>5, <3>1 DEF ClaimCash, InstallmentRow
  <2> QED
    BY <1>2, <1>4, <2>1, <2>2 DEF RequestOn, At
<1> QED
  BY <1>1, <1>2, <1>3, <1>5, QuietMove DEF CashPc

\* The proof of the payment is sent, or the contract would not take it.
LEMMA SendCashKept ==
  ASSUME PaymentsInv, Step2, NEW r \in CashRequest, SendCash(r)
  PROVE  CashInv' /\ PoolInv'
<1>1. CashInv /\ PoolInv /\ RequestInv(r) /\ At(r, "SEND") /\ ~ At(r, "NEW") /\ ~ At(r, "WAIT")
      /\ CashTypes
  BY DEF SendCash, PaymentsInv, CashInv, At
<1>2. PICK k \in Installment : Target(r) = k
  BY <1>1 DEF RequestInv
<1>3. /\ RequestOn(r, k) /\ inst[k].rail = "CASH" /\ inst'[k].rail = "CASH"
      /\ Booked(r, k) => Booked(r, k)'
  BY <1>1, <1>2, RequestFacts DEF RequestOn, At
<1>4. UNCHANGED <<otp, queue>>
  BY DEF SendCash
<1>5. CASE ~ Estimate(Target(r)) /\ Step(r, "FAILED") /\ UNCHANGED chainVars
  <2>1. cash'[r].pc = "FAILED" /\ UNCHANGED <<pool, outcome, faults>>
    BY <1>1, <1>5, StepTypes DEF CashPc, chainVars
  <2>2. \A i \in Installment : Target(r) = i => RequestOn(r, i)'
    BY <1>2, <1>3, <1>4, <2>1 DEF RequestOn, At
  <2> QED
    BY <1>1, <1>4, <1>5, <2>1, <2>2, QuietMove DEF CashPc
<1>6. CASE Send(r, Target(r), CashProof(r)) /\ Step(r, "WAIT")
  <2>1. /\ cash' \in [CashRequest -> [pc : CashPc, k : Installment \cup {Null}]]
        /\ cash'[r].pc = "WAIT"
        /\ \A s \in CashRequest \ {r} : cash'[s] = cash[s]
    BY <1>1, <1>6, StepTypes DEF CashPc
  <2>2. r \in Actor /\ r \in CashReceipt
    BY CashAssumption
  <2>3. /\ outcome' \in [Actor -> {"NONE", "OK", "REVERTED"}]
        /\ outcome'[r] = "NONE" /\ faults' = faults
        /\ \A s \in CashRequest \ {r} : outcome'[s] = outcome[s]
    BY <1>1, <1>6, <2>2, CashAssumption DEF Send, CashTypes
  <2>4. RequestOn(r, k)'
    BY <1>3, <1>4, <2>1, <2>3 DEF RequestOn, At
  <2>5. RequestInv(r)'
    BY <1>1, <1>2, <2>1, <2>4, RequestStep
  <2>6. CashTypes'
    BY <1>1, <1>4, <2>1, <2>3 DEF CashTypes
  <2>7. CashInv'
    BY <1>1, <1>4, <2>1, <2>3, <2>5, <2>6, OneRequestMoves
  <2>8. CashProof(r) \in ProofData
    BY <2>2 DEF CashProof, ProofData, Receipt
  <2>9. At(r, "WAIT")' /\ Target(r)' = k
    BY <1>1, <1>2, <2>1 DEF At, Step2, Grows
  <2>10. Tells(k, CashProof(r))'
    <3>1. cash'[r].pc # "NEW"
      BY <2>1
    <3> QED
      BY <1>3, <2>9, <3>1 DEF Tells, CashProof
  <2>11. \A s \in CashRequest : At(s, "WAIT") => cash'[s] = cash[s]
    BY <1>1, <2>1
  <2>12. PICK data \in ProofData : data = CashProof(r)
    BY <2>8
  <2>13. Send(r, k, data) /\ Tells(k, data)'
    BY <1>2, <1>6, <2>10, <2>12 DEF Tells, CashProof
  <2>14. PoolInv'
    BY <1>1, <2>2, <2>9, <2>11, <2>12, <2>13, SendPool
  <2> QED
    BY <2>7, <2>14
<1> QED
  BY <1>5, <1>6 DEF SendCash

\* What the actions by which a request stops waiting have in common.
LEMMA LeavingMove ==
  ASSUME PaymentsInv, Step2, NEW r \in CashRequest, ~ At(r, "NEW"),
         NEW pc \in {"BOOK", "FAILED"}, Step(r, pc), Abandon(r),
         UNCHANGED <<otp, queue>>, faults' = faults \/ Fault,
         pc = "BOOK" => At(r, "WAIT") /\ outcome[r] = "OK"
  PROVE  CashInv' /\ PoolInv'
<1>1. CashInv /\ CashTypes /\ PoolInv /\ RequestInv(r) /\ r \in Actor
  BY CashAssumption DEF PaymentsInv, CashInv
<1>2. /\ cash' \in [CashRequest -> [pc : CashPc, k : Installment \cup {Null}]]
      /\ cash'[r].pc = pc
      /\ \A s \in CashRequest \ {r} : cash'[s] = cash[s]
  BY <1>1, StepTypes DEF CashPc
<1>3. /\ outcome' \in [Actor -> {"NONE", "OK", "REVERTED"}]
      /\ \A s \in CashRequest \ {r} : outcome'[s] = outcome[s]
  BY <1>1, CashAssumption DEF Abandon, CashTypes
<1>4. ASSUME NEW k \in Installment, Target(r) = k PROVE RequestOn(r, k)'
  <2>1. /\ RequestOn(r, k)
        /\ inst[k].rail = "CASH" => inst'[k].rail = "CASH"
        /\ CashProved(r, k) => CashProved(r, k)'
        /\ Booked(r, k) => Booked(r, k)'
    BY <1>1, <1>4, RequestFacts
  <2> QED
    BY <1>2, <2>1 DEF RequestOn, At
<1>5. RequestInv(r)'
  BY <1>1, <1>2, <1>4, RequestStep
<1>6. CashTypes'
  BY <1>1, <1>2, <1>3, FaultsCounted DEF CashTypes
<1>7. CashInv'
  BY <1>1, <1>2, <1>3, <1>5, <1>6, OneRequestMoves
<1>8. PoolInv'
  BY <1>1, <1>2, AbandonPool
<1> QED
  BY <1>7, <1>8

\* The answer to the transaction, a failure, and the end of the process.
LEMMA WaitCashKept ==
  ASSUME PaymentsInv, Step2, NEW r \in CashRequest, WaitCash(r)
  PROVE  CashInv' /\ PoolInv'
<1>1. ~ At(r, "NEW") /\ UNCHANGED <<otp, queue, faults>> /\ Abandon(r) /\ At(r, "WAIT")
  BY DEF WaitCash, At
<1>2. CASE Confirmed(r) /\ Step(r, "BOOK")
  BY <1>1, <1>2, LeavingMove DEF Confirmed
<1>3. CASE Step(r, "FAILED")
  BY <1>1, <1>3, LeavingMove
<1> QED
  BY <1>2, <1>3 DEF WaitCash

LEMMA RequestFailsKept ==
  ASSUME PaymentsInv, Step2, NEW r \in CashRequest, RequestFails(r)
  PROVE  CashInv' /\ PoolInv'
<1>1. ~ At(r, "NEW") /\ UNCHANGED <<otp, queue>> /\ Fault /\ Abandon(r) /\ Step(r, "FAILED")
  BY DEF RequestFails, At
<1> QED
  BY <1>1, LeavingMove

\* The payment is booked with the receipt that is proved, or the trigger
\* refuses it.
LEMMA BookCashKept ==
  ASSUME PaymentsInv, Step2, NEW r \in CashRequest, BookCash(r)
  PROVE  CashInv' /\ PoolInv'
<1>1. CashInv /\ RequestInv(r) /\ At(r, "BOOK") /\ ~ At(r, "NEW") /\ ~ At(r, "WAIT")
  BY DEF BookCash, PaymentsInv, CashInv, At
<1>2. UNCHANGED <<otp, queue, pool, outcome, faults>>
  BY DEF BookCash, chainVars
<1>3. PICK pc \in {"PROCESSED", "COMPLETE", "FAILED"} :
        /\ Step(r, pc)
        /\ pc # "FAILED" => PayCash(Target(r), r)
        /\ pc = "PROCESSED" => r \in SyncItem
  BY DEF BookCash
<1>4. cash'[r].pc = pc
  BY <1>1, <1>3, StepTypes DEF CashInv, CashPc
<1>5. ASSUME NEW k \in Installment, Target(r) = k PROVE RequestOn(r, k)'
  <2>1. RequestOn(r, k) /\ CashProved(r, k)' /\ (Booked(r, k) => Booked(r, k)')
    BY <1>1, <1>5, RequestFacts DEF RequestOn
  <2>2. pc # "FAILED" => Booked(r, k)'
    <3>1. inst \in [Installment -> InstallmentRow]
      BY DEF Step2, TablesInv, DbTypeOK
    <3>2. pc # "FAILED" => inst'[k].status = "PAID" /\ inst'[k].receipt = r
      <4>1. pc # "FAILED" =>
              inst' = [inst EXCEPT ![k] =
                  [inst[k] EXCEPT !.status = "PAID", !.method = "CASH",
                                  !.receipt = r, !.sync = "SYNCED"]]
        BY <1>3, <1>5, <3>1 DEF PayCash
      <4>2. inst[k] \in InstallmentRow
        BY <3>1
      <4>3. pc # "FAILED" =>
              inst'[k] = [inst[k] EXCEPT !.status = "PAID", !.method = "CASH",
                                         !.receipt = r, !.sync = "SYNCED"]
        BY <3>1, <4>1
      <4> QED
        BY <4>2, <4>3 DEF InstallmentRow
    <3> QED
      BY <2>1, <3>2 DEF Booked
  <2> QED
    BY <1>2, <1>4, <2>1, <2>2 DEF RequestOn, At
<1> QED
  BY <1>1, <1>2, <1>3, <1>5, QuietMove DEF CashPc

\* The item is marked, and the loan is completed or not.
LEMMA EndOfRequestKept ==
  ASSUME PaymentsInv, Step2, NEW r \in CashRequest,
         MarkProcessed(r) \/ Complete(r) \/ CompleteUnread(r)
  PROVE  CashInv' /\ PoolInv'
<1>1. /\ CashInv /\ RequestInv(r) /\ ~ At(r, "NEW") /\ ~ At(r, "WAIT")
      /\ At(r, "PROCESSED") \/ At(r, "COMPLETE")
  BY DEF MarkProcessed, Complete, CompleteUnread, PaymentsInv, CashInv, At
<1>2. UNCHANGED <<otp, pool, outcome>> /\ (faults' = faults \/ Fault)
  BY DEF MarkProcessed, Complete, CompleteUnread, chainVars
<1>3. PICK pc \in {"COMPLETE", "DONE"} : Step(r, pc)
  BY DEF MarkProcessed, Complete, CompleteUnread
<1>4. queue' = queue \/ (r \in SyncItem /\ queue' = [queue EXCEPT ![r] = "PROCESSED"])
  BY <1>1 DEF MarkProcessed, Complete, CompleteUnread, RequestInv, At
<1>5. cash'[r].pc = pc
  BY <1>1, <1>3, StepTypes DEF CashInv, CashPc
<1>6. ASSUME NEW k \in Installment, Target(r) = k PROVE RequestOn(r, k)'
  <2>1. Booked(r, k)'
    BY <1>1, <1>6, RequestFacts DEF RequestOn, At
  <2> QED
    BY <1>5, <2>1 DEF RequestOn, At
<1> QED
  BY <1>1, <1>2, <1>3, <1>4, <1>6, QuietMove DEF CashPc

\* A collection online begins.
LEMMA StartCollectKept ==
  ASSUME PaymentsInv, Step2, NEW c \in Collect, NEW k \in Installment, StartCollect(c, k)
  PROVE  CashInv' /\ PoolInv'
<1>1. CashInv /\ CashTypes /\ PoolInv /\ c \in CashRequest
  BY DEF PaymentsInv, CashInv, CashRequest
<1>2. /\ At(c, "NEW")
      /\ cash' = [cash EXCEPT ![c] = [pc |-> "CLAIM", k |-> k]]
      /\ otp' = otp \ {k}
      /\ UNCHANGED <<queue, pool, outcome, faults>>
  BY DEF StartCollect, chainVars
<1>3. /\ cash' \in [CashRequest -> [pc : CashPc, k : Installment \cup {Null}]]
      /\ cash'[c].pc = "CLAIM" /\ cash'[c].k = k
      /\ \A s \in CashRequest \ {c} : cash'[s] = cash[s]
  BY <1>1, <1>2 DEF CashTypes, CashPc
<1>4. CashTypes'
  BY <1>1, <1>2, <1>3 DEF CashTypes
<1>5. ~ (c \in SyncItem /\ queue[c] = "PROCESSED")
  BY <1>1, <1>2 DEF CashInv, RequestInv
<1>6. RequestInv(c)'
  BY <1>2, <1>3, <1>5 DEF RequestInv, RequestOn, At, Target
<1>7. CashInv'
  BY <1>1, <1>2, <1>3, <1>4, <1>6, OneRequestMoves
<1>8. PoolInv'
  BY <1>1, <1>2, <1>3, SamePool DEF At
<1> QED
  BY <1>7, <1>8

\* An offline item arrives, for the first time or again.
LEMMA StartSyncKept ==
  ASSUME PaymentsInv, Step2, NEW s \in SyncItem, NEW k \in Installment, StartSync(s, k)
  PROVE  CashInv' /\ PoolInv'
<1> DEFINE pc == IF queue[s] = "PROCESSED" THEN "DONE"
                 ELSE IF inst[k].status = "PAID" THEN "REJECT" ELSE "ENQUEUE"
<1>1. CashInv /\ CashTypes /\ PoolInv /\ s \in CashRequest /\ RequestInv(s)
  BY DEF PaymentsInv, CashInv, CashRequest
<1>2. /\ At(s, "NEW") \/ (At(s, "FAILED") /\ Target(s) = k)
      /\ cash' = [cash EXCEPT ![s] = [pc |-> pc, k |-> k]]
      /\ UNCHANGED <<otp, queue, pool, outcome, faults>>
  BY DEF StartSync, chainVars
<1>3. /\ cash' \in [CashRequest -> [pc : CashPc, k : Installment \cup {Null}]]
      /\ cash'[s].pc = pc /\ cash'[s].k = k
      /\ \A r \in CashRequest \ {s} : cash'[r] = cash[r]
  BY <1>1, <1>2 DEF CashTypes, CashPc
<1>4. CashTypes'
  BY <1>1, <1>2, <1>3 DEF CashTypes
<1>5. queue[s] = "PROCESSED" => Booked(s, k)'
  <2>1. ASSUME queue[s] = "PROCESSED" PROVE ~ At(s, "NEW") /\ Target(s) = k
    BY <1>1, <1>2, <2>1 DEF RequestInv
  <2>2. ASSUME queue[s] = "PROCESSED" PROVE Booked(s, k)'
    BY <1>1, <2>1, <2>2, RequestFacts DEF RequestOn
  <2> QED
    BY <2>2
<1>6. RequestOn(s, k)'
  BY <1>2, <1>3, <1>5 DEF RequestOn, At
<1>7. RequestInv(s)'
  BY <1>2, <1>3, <1>6 DEF RequestInv, At, Target
<1>8. CashInv'
  BY <1>1, <1>2, <1>3, <1>4, <1>7, OneRequestMoves
<1>9. PoolInv'
  BY <1>1, <1>2, <1>3, SamePool DEF At
<1> QED
  BY <1>8, <1>9

\* A request changes no intent and holds no lock, and makes a row SYNCED only when it books.
LEMMA CashOnTables ==
  ASSUME TablesInv, CashStep
  PROVE  /\ intent' = intent /\ settling' = settling
         /\ \/ \A k \in Installment : inst'[k].sync = inst[k].sync
            \/ \E r \in CashRequest : BookCash(r)
<1> DEFINE Quiet == /\ intent' = intent /\ settling' = settling
                    /\ \A k \in Installment : inst'[k].sync = inst[k].sync
<1>1. inst \in [Installment -> InstallmentRow]
  BY DEF TablesInv, DbTypeOK
<1>2. ASSUME UNCHANGED dbVars PROVE Quiet
  BY <1>2 DEF dbVars
<1>3. ASSUME NEW l, CompleteLoan(l) PROVE Quiet
  BY <1>3 DEF CompleteLoan
<1>4. ASSUME NEW k, ClaimCash(k) PROVE Quiet
  BY <1>1, <1>4 DEF ClaimCash, InstallmentRow
<1>5. ASSUME NEW k, GenerateOtp(k) \/ ForgetOtp(k) PROVE Quiet
  BY <1>2, <1>5 DEF GenerateOtp, ForgetOtp
<1>6. ASSUME NEW r, NEW k, StartCollect(r, k) \/ StartSync(r, k) PROVE Quiet
  BY <1>2, <1>6 DEF StartCollect, StartSync
<1>7. ASSUME NEW r, Enqueue(r) \/ SendCash(r) \/ WaitCash(r) \/ MarkProcessed(r)
                    \/ RequestFails(r)
      PROVE  Quiet
  BY <1>2, <1>7 DEF Enqueue, SendCash, WaitCash, MarkProcessed, RequestFails
<1>8. ASSUME NEW r, Claim(r) \/ Complete(r) \/ CompleteUnread(r) PROVE Quiet
  BY <1>2, <1>3, <1>4, <1>8 DEF Claim, Complete, CompleteUnread
<1>9. ASSUME NEW r, BookCash(r) PROVE intent' = intent /\ settling' = settling
  BY <1>9 DEF BookCash, PayCash, dbVars
<1> QED
  BY <1>5, <1>6, <1>7, <1>8, <1>9 DEF CashStep, Serve

\* A booking is the payment that the contract has a proof of.
LEMMA BookCashSynced ==
  ASSUME PaymentsInv, Step2, NEW r \in CashRequest, BookCash(r)
  PROVE  SyncInv'
<1>1. /\ SyncInv /\ RequestInv(r) /\ At(r, "BOOK") /\ ~ At(r, "NEW") /\ CashInv
  BY DEF BookCash, PaymentsInv, CashInv, At
<1>2. PICK k \in Installment : Target(r) = k
  BY <1>1 DEF RequestInv
<1>3. CASE UNCHANGED dbVars
  BY <1>1, <1>3, SyncKept DEF dbVars
<1>4. CASE PayCash(k, r)
  <2>1. inst \in [Installment -> InstallmentRow] /\ inst[k] \in InstallmentRow
    BY DEF Step2, TablesInv, DbTypeOK
  <2>2. /\ \A i \in Installment \ {k} : inst'[i] = inst[i]
        /\ inst'[k] = [inst[k] EXCEPT !.status = "PAID", !.method = "CASH",
                                      !.receipt = r, !.sync = "SYNCED"]
    BY <1>4, <2>1 DEF PayCash
  <2>3. inst'[k].rail = inst[k].rail /\ inst'[k].receipt = r
    BY <2>1, <2>2 DEF InstallmentRow
  <2>4. CashProved(r, k)' /\ inst[k].rail = "CASH"
    BY <1>1, <1>2, RequestFacts DEF RequestOn, At
  <2>5. ProofOfPayment(k)' = CashProof(r)'
    BY <2>3, <2>4 DEF ProofOfPayment, CashProof
  <2>6. IsProved(k)' /\ ProofAt(k)' = ProofOfPayment(k)'
    BY <2>4, <2>5 DEF CashProved, CashProof
  <2>7. ASSUME NEW i \in Installment, i # k, inst'[i].sync = "SYNCED"
        PROVE  IsProved(i)' /\ ProofAt(i)' = ProofOfPayment(i)'
    BY <1>1, <2>2, <2>7, SyncedStays
  <2> QED
    BY <2>6, <2>7 DEF SyncInv
<1> QED
  BY <1>2, <1>3, <1>4 DEF BookCash

\* A request moves alone.
LEMMA CashStepKept ==
  ASSUME PaymentsInv, Step2, CashStep, UNCHANGED pollarVars
  PROVE  PaymentsInv'
<1>1. /\ TablesInv /\ ContractInv /\ ProofsTell /\ PoolInv /\ CashInv /\ PollarInv /\ SyncInv
      /\ TablesInv' /\ ContractInv'
  BY DEF PaymentsInv, Step2
<1>2. hskProofs' = hskProofs
  BY ActorsOnChain
<1>3. CashInv' /\ PoolInv'
  <2>1. ASSUME NEW k \in Installment, GenerateOtp(k) \/ ForgetOtp(k)
        PROVE  CashInv' /\ PoolInv'
    <3>1. UNCHANGED <<queue, cash, pool, outcome, faults>> /\ otp' \subseteq otp \cup {k}
      BY <2>1 DEF GenerateOtp, ForgetOtp, chainVars
    <3>2. CashTypes'
      BY <1>1, <3>1 DEF CashInv, CashTypes
    <3>3. CashInv'
      BY <1>1, <3>1, <3>2, RequestKept DEF CashInv
    <3> QED
      BY <1>1, <3>1, <3>3, SamePool
  <2> QED
    BY <2>1, StartCollectKept, StartSyncKept, EnqueueKept, ClaimKept, SendCashKept,
       WaitCashKept, BookCashKept, EndOfRequestKept, RequestFailsKept
    DEF CashStep, Serve
<1>4. ProofsTell'
  BY <1>1, <1>2, ProofsTellKept
<1>5. SyncInv'
  <2>1. ASSUME \A k \in Installment : inst'[k].sync = inst[k].sync PROVE SyncInv'
    BY <1>1, <2>1, SyncKept
  <2> QED
    BY <1>1, <2>1, CashOnTables, BookCashSynced
<1>6. PollarInv'
  <2>1. UNCHANGED <<intent, settling, payment, ledgerNow, lease, job>>
    BY <1>1, CashOnTables DEF pollarVars
  <2>2. PollarTypes'
    BY <1>1, <2>1 DEF PollarInv, PollarTypes
  <2>3. \A a \in Worker \cup Client : JobInv(a)'
    BY <1>1, <2>1, JobKept DEF PollarInv
  <2>4. \A k \in Installment : intent[k].tx # Null => intent[k].tx \in Tx
    BY <1>1 DEF TablesInv, DbTypeOK, IntentRow
  <2>5. \A k \in Installment : IntentInv(k)'
    BY <1>1, <2>1, <2>4, IntentKept DEF PollarInv
  <2>6. \A k \in Installment : LockedInv(k)'
    BY <1>1, <2>1, LockedKept DEF PollarInv
  <2> QED
    BY <2>2, <2>3, <2>5, <2>6 DEF PollarInv
<1> QED
  BY <1>1, <1>3, <1>4, <1>5, <1>6 DEF PaymentsInv

-----------------------------------------------------------------------------
(* Workers and clients of Pollar. *)

PollarActor == Worker \cup Client

\* Where an actor may be without knowing anything, and where it anchors.
Free == {"IDLE", "ANSWER", "CANDIDATE", "ANCHOR", "RELEASE"}
Anchoring == {"EXISTING", "SEQUENCE", "SEND", "WAIT", "RECHECK", "MARK"}

\* Only actor a moves.
Moves(a) ==
    /\ job' \in [PollarActor -> Job]
    /\ \A b \in PollarActor \ {a} : job'[b] = job[b]

\* An actor that goes on keeps what it is about, unless the tick is over.
LEMMA GotoIs ==
  ASSUME PollarTypes, NEW a \in PollarActor, NEW pc \in JobPc, Goto(a, pc)
  PROVE  /\ Moves(a) /\ job'[a].pc = pc
         /\ pc \notin {"ANCHOR", "RELEASE"} => job'[a].k = job[a].k
<1>1. job \in [PollarActor -> Job] /\ job[a] \in Job
  BY DEF PollarTypes, PollarActor
<1>2. Idle \in Job
  BY DEF Idle, Job, JobPc
<1>3. PICK j \in Job : j = IF pc \in {"ANCHOR", "RELEASE"} THEN Idle ELSE job[a]
  BY <1>1, <1>2
<1>4. job' = [job EXCEPT ![a] = [j EXCEPT !.pc = pc]]
  BY <1>1, <1>3 DEF Goto
<1>5. [j EXCEPT !.pc = pc] \in Job /\ [j EXCEPT !.pc = pc].pc = pc
      /\ [j EXCEPT !.pc = pc].k = j.k
  BY <1>3 DEF Job
<1> QED
  BY <1>1, <1>3, <1>4, <1>5 DEF Moves

LEMMA FinishIs ==
  ASSUME PollarTypes, NEW a \in PollarActor, Finish(a)
  PROVE  Moves(a) /\ job'[a].pc = "IDLE"
  BY DEF PollarTypes, PollarActor, Finish, Idle, Job, JobPc, Moves

\* An actor begins with a job of its own.
LEMMA BeginIs ==
  ASSUME PollarTypes, NEW a \in PollarActor, NEW j \in Job, job' = [job EXCEPT ![a] = j]
  PROVE  Moves(a) /\ job'[a] = j
  BY DEF PollarTypes, PollarActor, Moves

\* The jobs it begins with.
CreateJob(k, w, g) == [Idle EXCEPT !.pc = "CREATE", !.k = k, !.sender = w, !.ledger = g]
VerifyJob(k, tx) == [Idle EXCEPT !.pc = "VERIFY", !.k = k, !.tx = tx]
AnchorJob(k) == [Idle EXCEPT !.pc = "EXISTING", !.k = k]

LEMMA NewJobs ==
  ASSUME NEW k \in Installment
  PROVE  /\ \A w \in Wallet, g \in Ledger :
              LET j == CreateJob(k, w, g) IN
              j \in Job /\ j.pc = "CREATE" /\ j.k = k /\ j.sender = w /\ j.ledger = g
         /\ \A tx \in Tx :
              LET j == VerifyJob(k, tx) IN
              j \in Job /\ j.pc = "VERIFY" /\ j.k = k /\ j.tx = tx
         /\ AnchorJob(k) \in Job /\ AnchorJob(k).pc = "EXISTING" /\ AnchorJob(k).k = k
  BY DEF Idle, CreateJob, VerifyJob, AnchorJob, Job, JobPc

\* What it must know there.
LEMMA FreeMove ==
  ASSUME NEW a \in PollarActor, job'[a].pc \in Free
  PROVE  JobInv(a)'
<1>1. \A k \in Installment, tx \in Tx \cup {Null} : JobOn(a, k, tx)'
  BY DEF Free, JobOn
<1> QED
  BY <1>1 DEF JobInv, Free

LEMMA VerifyMove ==
  ASSUME PollarTypes, NEW a \in PollarActor, NEW k \in Installment, NEW tx \in Tx,
         job' = [job EXCEPT ![a] = VerifyJob(k, tx)]
  PROVE  Moves(a) /\ JobInv(a)'
<1>1. PICK j \in Job : j = VerifyJob(k, tx) /\ j.pc = "VERIFY" /\ j.k = k /\ j.tx = tx
  BY NewJobs
<1>2. Moves(a) /\ job'[a] = j
  BY <1>1, BeginIs
<1> QED
  BY <1>1, <1>2 DEF JobInv, JobOn

LEMMA FoundIsBuried ==
  ASSUME ContractInv, NEW k \in Installment,
         \E j \in BuriedProofOf(k) : Matches(k, j)
  PROVE  BuriedProof(k)
  BY ProofOfIs DEF BuriedProofOf, Matches, BuriedProof, ProofAt

LEMMA AnchoringMove ==
  ASSUME Step2, NEW a \in PollarActor, NEW k \in Installment, Settled(k),
         job'[a].pc \in Anchoring, job'[a].k = k,
         job'[a].pc = "MARK" => BuriedProof(k)
  PROVE  JobInv(a)'
<1>1. Settled(k)' /\ (job'[a].pc = "MARK" => BuriedProof(k)')
  BY SettledStays, BuriedStays
<1>2. \A tx \in Tx \cup {Null} : JobOn(a, k, tx)'
  BY <1>1 DEF JobOn, Anchoring
<1> QED
  BY <1>2 DEF JobInv, Anchoring

\* What an anchoring worker knows.
LEMMA AnchoringFacts ==
  ASSUME PollarInv, NEW a \in PollarActor, job[a].pc \in Anchoring
  PROVE  /\ job[a].k \in Installment /\ Settled(job[a].k)
         /\ job[a].pc = "MARK" => BuriedProof(job[a].k)
<1>1. JobInv(a) /\ job[a].k \in Installment
  BY DEF PollarInv, JobInv, PollarActor, Anchoring
<1>2. Null \in Tx \cup {Null}
  OBVIOUS
<1>3. JobOn(a, job[a].k, Null)
  BY <1>1, <1>2 DEF JobInv
<1> QED
  BY <1>1, <1>3 DEF JobOn, Anchoring

\* reconcile ends, at the worker's anchor or at the client's answer.
LEMMA ReconciledMove ==
  ASSUME PollarTypes, NEW a \in PollarActor, Reconciled(a)
  PROVE  Moves(a) /\ JobInv(a)'
<1>1. [Idle EXCEPT !.pc = "ANCHOR"] \in Job /\ [Idle EXCEPT !.pc = "ANCHOR"].pc = "ANCHOR"
  BY DEF Idle, Job, JobPc
<1>2. CASE a \in Worker
  <2>1. PICK j \in Job : j = [Idle EXCEPT !.pc = "ANCHOR"]
    BY <1>1
  <2>2. Moves(a) /\ job'[a] = j
    BY <1>2, <2>1, BeginIs DEF Reconciled
  <2> QED
    BY <1>1, <2>1, <2>2, FreeMove DEF Free
<1>3. CASE a \notin Worker
  BY <1>3, FinishIs, FreeMove DEF Reconciled, Free
<1> QED
  BY <1>2, <1>3

\* The steps of a client, of a worker before its anchor, and of both in
\* reconcile.
LEMMA RequestMoves ==
  ASSUME PaymentsInv, Step2, NEW a \in PollarActor,
         \/ \E k \in Installment, w \in Wallet : Prepare(a, k, w)
         \/ \E k \in Installment, tx \in Tx : Report(a, k, tx)
         \/ Create(a) \/ Verify(a) \/ Resolve(a) \/ Answered(a) \/ OperationsNotFound(a)
  PROVE  Moves(a) /\ JobInv(a)'
<1>1. PollarInv /\ PollarTypes /\ JobInv(a) /\ job[a] \in Job
  BY DEF PaymentsInv, PollarInv, PollarTypes, PollarActor
<1>2. ASSUME NEW k \in Installment, NEW w \in Wallet, Prepare(a, k, w)
      PROVE  Moves(a) /\ JobInv(a)'
  <2>1. ledgerNow \in Ledger
    BY <1>1, PollarAssumption DEF PollarTypes
  <2>2. PICK g \in Ledger : g = ledgerNow
    BY <2>1
  <2>3. job' = [job EXCEPT ![a] = CreateJob(k, w, g)]
    BY <1>2, <2>2, Zenon DEF Prepare, CreateJob
  <2>4. PICK j \in Job : /\ j = CreateJob(k, w, g)
                         /\ j.pc = "CREATE" /\ j.k = k /\ j.sender = w /\ j.ledger = g
    BY NewJobs
  <2>5. Moves(a) /\ job'[a] = j
    BY <1>1, <2>3, <2>4, BeginIs
  <2> QED
    BY <2>4, <2>5 DEF JobInv, JobOn
<1>3. ASSUME NEW k \in Installment, NEW tx \in Tx, Report(a, k, tx)
      PROVE  Moves(a) /\ JobInv(a)'
  <2>1. job' = [job EXCEPT ![a] = VerifyJob(k, tx)]
    BY <1>3, Zenon DEF Report, VerifyJob
  <2> QED
    BY <1>1, <2>1, VerifyMove
<1>4. ASSUME NEW verdict \in {"PENDING", "VERIFIED", "MISMATCH"}, job[a].pc = "VERIFY",
             job' = [job EXCEPT ![a].pc = "RESOLVE", ![a].verdict = verdict],
             verdict = "VERIFIED" => \E k \in Installment, tx \in Tx :
                /\ job[a].k = k /\ job[a].tx = tx
                /\ intent[k].status # "NONE" /\ PaidBy(k, tx)
      PROVE  Moves(a) /\ JobInv(a)'
  <2>1. PICK j \in Job : j = [job[a] EXCEPT !.pc = "RESOLVE", !.verdict = verdict]
    BY <1>1 DEF Job, JobPc
  <2>2. j.pc = "RESOLVE" /\ j.verdict = verdict /\ j.k = job[a].k /\ j.tx = job[a].tx
    BY <1>1, <2>1 DEF Job
  <2>3. job' = [job EXCEPT ![a] = j]
    BY <1>1, <1>4, <2>1 DEF PollarTypes, PollarActor
  <2>4. Moves(a) /\ job'[a] = j
    BY <1>1, <2>3, BeginIs
  <2>5. job[a].k \in Installment /\ job[a].tx \in Tx
    BY <1>1, <1>4 DEF JobInv
  <2>6. ASSUME NEW k \in Installment, NEW tx \in Tx, verdict = "VERIFIED",
               job[a].k = k, job[a].tx = tx
        PROVE  intent'[k].status # "NONE" /\ PaidBy(k, tx)'
    BY <1>4, <2>6, PaidByStays
  <2>7. ASSUME NEW k \in Installment, NEW tx \in Tx \cup {Null}, job'[a].k = k
        PROVE  JobOn(a, k, tx)'
    BY <2>2, <2>4, <2>5, <2>6, <2>7 DEF JobOn
  <2> QED
    BY <2>2, <2>4, <2>5, <2>7 DEF JobInv
<1>5. ASSUME Verify(a) PROVE Moves(a) /\ JobInv(a)'
  <2>1. PICK k \in Installment, tx \in Tx : job[a].k = k /\ job[a].tx = tx
    BY <1>1, <1>5 DEF Verify, JobInv
  <2>2. CASE Reconciled(a)
    BY <1>1, <2>2, ReconciledMove
  <2>3. CASE ~ Reconciled(a)
    <3>1. PICK verdict \in {"PENDING", "VERIFIED", "MISMATCH"} : verdict = Verdict(tx, k)
      BY DEF Verdict
    <3>2. verdict = "VERIFIED" => PaidBy(k, tx)
      BY <3>1 DEF Verdict, PaidBy
    <3>3. /\ job[a].pc = "VERIFY" /\ intent[k].status = "CREATED"
          /\ job' = [job EXCEPT ![a].pc = "RESOLVE", ![a].verdict = verdict]
      BY <1>5, <2>1, <2>3, <3>1 DEF Verify
    <3> QED
      BY <1>4, <2>1, <3>2, <3>3
  <2> QED
    BY <2>2, <2>3
<1>6. ASSUME OperationsNotFound(a) PROVE Moves(a) /\ JobInv(a)'
  <2>1. PICK verdict \in {"PENDING", "VERIFIED", "MISMATCH"} : verdict = "MISMATCH"
    OBVIOUS
  <2> QED
    BY <1>4, <1>6, <2>1 DEF OperationsNotFound
<1>7. ASSUME Create(a) \/ Reconciled(a) PROVE Moves(a) /\ JobInv(a)'
  BY <1>1, <1>7, FinishIs, FreeMove, ReconciledMove DEF Create, Free
<1>8. ASSUME job' = [job EXCEPT ![a].pc = "ANSWER"] PROVE Moves(a) /\ JobInv(a)'
  <2>1. PICK j \in Job : j = [job[a] EXCEPT !.pc = "ANSWER"]
    BY <1>1 DEF Job, JobPc
  <2>4. j.pc = "ANSWER"
    BY <1>1, <2>1 DEF Job
  <2>2. job' = [job EXCEPT ![a] = j]
    BY <1>1, <1>8, <2>1 DEF PollarTypes, PollarActor
  <2>3. Moves(a) /\ job'[a] = j
    BY <1>1, <2>2, BeginIs
  <2> QED
    BY <2>3, <2>4, FreeMove DEF Free
<1>9. ASSUME Resolve(a) \/ Answered(a) PROVE Moves(a) /\ JobInv(a)'
  BY <1>7, <1>8, <1>9 DEF Resolve, Answered
<1> QED
  BY <1>2, <1>3, <1>5, <1>6, <1>7, <1>9

\* The steps of a tick that only move the worker, with what it found before
\* or at once.
LEMMA TickMoves ==
  ASSUME PaymentsInv, Step2, NEW w \in Worker,
         \/ ClaimLease(w) \/ TakeCandidate(w) \/ TakeAnchor(w) \/ Existing(w)
         \/ Sequence(w) \/ SendProof(w) \/ WaitOk(w) \/ WaitFails(w) \/ Recheck(w)
         \/ Mark(w) \/ Release(w) \/ TickFails(w)
  PROVE  Moves(w) /\ JobInv(w)'
<1>1. /\ PollarInv /\ PollarTypes /\ JobInv(w) /\ w \in PollarActor /\ job[w] \in Job
      /\ ContractInv
  BY DEF PaymentsInv, PollarInv, PollarTypes, PollarActor
<1>2. ASSUME NEW pc \in Free, Goto(w, pc) PROVE Moves(w) /\ JobInv(w)'
  <2>1. pc \in JobPc
    BY DEF JobPc, Free
  <2> QED
    BY <1>1, <1>2, <2>1, GotoIs, FreeMove
<1>3. ASSUME NEW pc \in Anchoring, job[w].pc \in Anchoring, Goto(w, pc),
             pc = "MARK" =>
                \E k \in Installment : job[w].k = k /\ \E j \in BuriedProofOf(k) : Matches(k, j)
      PROVE  Moves(w) /\ JobInv(w)'
  <2>1. PICK k \in Installment : job[w].k = k
    BY <1>1, <1>3, AnchoringFacts
  <2>2. Settled(k) /\ (pc = "MARK" => BuriedProof(k))
    BY <1>1, <1>3, <2>1, AnchoringFacts, FoundIsBuried
  <2>3. pc \in JobPc /\ pc \notin {"ANCHOR", "RELEASE"}
    BY DEF JobPc, Anchoring
  <2>4. Moves(w) /\ job'[w].pc = pc /\ job'[w].k = k
    BY <1>1, <1>3, <2>1, <2>3, GotoIs
  <2> QED
    BY <1>1, <2>2, <2>4, AnchoringMove
<1>4. CASE ClaimLease(w)
  BY <1>2, <1>4 DEF ClaimLease, Free
<1>5. CASE TakeCandidate(w)
  <2>1. ASSUME NEW k \in Installment, NEW tx \in Tx,
               job' = [job EXCEPT ![w] = [Idle EXCEPT !.pc = "VERIFY", !.k = k, !.tx = tx]]
        PROVE  Moves(w) /\ JobInv(w)'
    <3>1. job' = [job EXCEPT ![w] = VerifyJob(k, tx)]
      BY <2>1, Zenon DEF VerifyJob
    <3> QED
      BY <1>1, <3>1, VerifyMove
  <2> QED
    BY <1>2, <1>5, <2>1 DEF TakeCandidate, Pending, Free
<1>6. CASE TakeAnchor(w)
  <2>1. ASSUME NEW k \in Verified,
               job' = [job EXCEPT ![w] = [Idle EXCEPT !.pc = "EXISTING", !.k = k]]
        PROVE  Moves(w) /\ JobInv(w)'
    <3>1. k \in Installment /\ Settled(k)
      BY DEF Verified, Settled
    <3>2. job' = [job EXCEPT ![w] = AnchorJob(k)]
      BY <2>1, Zenon DEF AnchorJob
    <3>3. PICK j \in Job : j = AnchorJob(k) /\ j.pc = "EXISTING" /\ j.k = k
      BY <3>1, NewJobs
    <3>4. Moves(w) /\ job'[w] = j
      BY <1>1, <3>2, <3>3, BeginIs
    <3> QED
      BY <1>1, <3>1, <3>3, <3>4, AnchoringMove DEF Anchoring
  <2> QED
    BY <1>2, <1>6, <2>1 DEF TakeAnchor, Free
<1>7. ASSUME job[w].pc \in Anchoring PROVE job[w].k \in Installment
  BY <1>1, <1>7, AnchoringFacts
<1>8. CASE Existing(w)
  <2>1. job[w].pc \in Anchoring /\ job[w].k \in Installment
    BY <1>7, <1>8 DEF Existing, Anchoring
  <2>2. CASE Goto(w, "SEQUENCE")
    BY <1>3, <2>1, <2>2 DEF Anchoring
  <2>3. ASSUME NEW j \in BuriedProofOf(job[w].k),
               Goto(w, IF Matches(job[w].k, j) THEN "MARK" ELSE "RELEASE")
        PROVE  Moves(w) /\ JobInv(w)'
    <3>1. CASE Matches(job[w].k, j)
      BY <1>3, <2>1, <2>3, <3>1 DEF Anchoring
    <3>2. CASE ~ Matches(job[w].k, j)
      BY <1>2, <2>3, <3>2 DEF Free
    <3> QED
      BY <3>1, <3>2
  <2> QED
    BY <1>8, <2>2, <2>3 DEF Existing
<1>9. CASE Sequence(w)
  <2>1. job[w].pc \in Anchoring
    BY <1>9 DEF Sequence, Anchoring
  <2>2. Goto(w, "SEND") \/ Goto(w, "RELEASE")
    BY <1>9 DEF Sequence
  <2> QED
    BY <1>2, <1>3, <2>1, <2>2 DEF Anchoring, Free
<1>10. CASE SendProof(w)
  BY <1>3, <1>10 DEF SendProof, Anchoring
<1>11. CASE WaitOk(w)
  <2>1. PICK k \in Installment : job[w].k = k
    BY <1>7, <1>11 DEF WaitOk, Anchoring
  <2>2. Settled(k) /\ BuriedProof(k)
    BY <1>1, <1>11, <2>1, AnchoringFacts, FoundIsBuried DEF WaitOk, Anchoring
  <2>3. PICK j \in Job : j = [job[w] EXCEPT !.pc = "MARK", !.known = TRUE]
    BY <1>1 DEF Job, JobPc
  <2>4. j.pc = "MARK" /\ j.k = k
    BY <1>1, <2>1, <2>3 DEF Job
  <2>5. job' = [job EXCEPT ![w] = j]
    BY <1>1, <1>11, <2>3 DEF WaitOk, PollarTypes, PollarActor
  <2>6. Moves(w) /\ job'[w] = j
    BY <1>1, <2>5, BeginIs
  <2> QED
    BY <1>1, <2>2, <2>4, <2>6, AnchoringMove DEF Anchoring
<1>12. CASE WaitFails(w)
  BY <1>3, <1>12 DEF WaitFails, Anchoring
<1>13. CASE Recheck(w)
  <2>1. job[w].pc \in Anchoring /\ job[w].k \in Installment
    BY <1>7, <1>13 DEF Recheck, Anchoring
  <2>2. CASE FoundAfterFailure(w)
    BY <1>3, <1>13, <2>1, <2>2 DEF Recheck, FoundAfterFailure, Anchoring
  <2>3. CASE ~ FoundAfterFailure(w)
    BY <1>2, <1>13, <2>3 DEF Recheck, Free
  <2> QED
    BY <2>2, <2>3
<1>14. CASE Mark(w)
  BY <1>2, <1>14 DEF Mark, Free
<1>15. CASE Release(w)
  BY <1>1, <1>15, FinishIs, FreeMove DEF Release, Free
<1>16. CASE TickFails(w)
  <2>1. Goto(w, "ANCHOR") \/ Goto(w, "RELEASE")
    BY <1>16 DEF TickFails
  <2> QED
    BY <1>2, <2>1 DEF Free
<1> QED
  BY <1>4, <1>5, <1>6, <1>8, <1>9, <1>10, <1>11, <1>12, <1>13, <1>14, <1>15, <1>16

\* At most one actor moves, and knows what it must where it comes to.
LEMMA OneJobMoves ==
  ASSUME PaymentsInv, Step2, PollarStep
  PROVE  job' \in [PollarActor -> Job] /\ \A a \in PollarActor : JobInv(a)'
<1>1. PollarInv /\ job \in [PollarActor -> Job]
  BY DEF PaymentsInv, PollarInv, PollarTypes, PollarActor
<1>2. ASSUME job' = job
      PROVE  job' \in [PollarActor -> Job] /\ \A a \in PollarActor : JobInv(a)'
  BY <1>1, <1>2, JobKept DEF PollarInv, PollarActor
<1>3. ASSUME NEW a \in PollarActor, Moves(a), JobInv(a)'
      PROVE  job' \in [PollarActor -> Job] /\ \A b \in PollarActor : JobInv(b)'
  <2>1. \A b \in PollarActor \ {a} : JobInv(b)'
    BY <1>1, <1>3, JobKept DEF PollarInv, PollarActor, Moves
  <2> QED
    BY <1>3, <2>1 DEF Moves
<1>4. CASE Outside
  <2>1. ASSUME NEW p, NEW w, ReceivingWallet(p, w) PROVE job' = job
    BY <2>1 DEF ReceivingWallet, pollarVars
  <2>2. ASSUME NEW tx, NEW from, NEW to, NEW good, Transfer(tx, from, to, good)
        PROVE  job' = job
    BY <2>2 DEF Transfer
  <2>3. ASSUME NEW c \in Client, NEW k \in Installment,
               \/ \E w \in Wallet : Prepare(c, k, w)
               \/ \E tx \in Tx : Report(c, k, tx)
        PROVE  Moves(c) /\ JobInv(c)'
    BY <2>3, RequestMoves DEF PollarActor
  <2>4. Client \subseteq PollarActor
    BY DEF PollarActor
  <2> QED
    BY <1>2, <1>3, <1>4, <2>1, <2>2, <2>3, <2>4 DEF Outside
<1>5. ASSUME NEW c \in Client, Request(c)
      PROVE  c \in PollarActor /\ Moves(c) /\ JobInv(c)'
  BY <1>5, RequestMoves DEF Request, PollarActor
<1>6. ASSUME NEW w \in Worker, Tick(w) \/ TickFails(w)
      PROVE  w \in PollarActor /\ Moves(w) /\ JobInv(w)'
  BY <1>6, RequestMoves, TickMoves DEF Tick, PollarActor
<1>7. ASSUME NEW a \in PollarActor, OperationsNotFound(a) \/ Crash(a)
      PROVE  Moves(a) /\ JobInv(a)'
  BY <1>1, <1>7, RequestMoves, FinishIs, FreeMove DEF Crash, Free, PollarInv
<1>8. CASE LeaseExpires \/ \E k \in Installment : SettleEnds(k) \/ SettleIsLost(k)
  BY <1>2, <1>8 DEF LeaseExpires, SettleEnds, SettleIsLost, pollarVars
<1> QED
  BY <1>2, <1>3, <1>4, <1>5, <1>6, <1>7, <1>8 DEF PollarStep, PollarActor

\* What Horizon, the ledger and the lease are after a step.
LEMMA PollarTypesKept ==
  ASSUME PaymentsInv, Step2, PollarStep
  PROVE  PollarTypes'
<1> DEFINE Goal == /\ payment' \in [Tx -> PaymentRecord \cup {Null}]
                   /\ ledgerNow' \in 0 .. MaxTransfers
                   /\ lease' \in Worker \cup {Null}
<1>1. PollarTypes
  BY DEF PaymentsInv, PollarInv
<1>2. ASSUME UNCHANGED <<payment, ledgerNow>>, lease' \in {lease, Null} PROVE Goal
  BY <1>1, <1>2 DEF PollarTypes
<1>3. ASSUME NEW tx \in Tx, NEW from \in Wallet, NEW to \in Wallet, NEW good \in BOOLEAN,
             Transfer(tx, from, to, good)
      PROVE  Goal
  <2>1. ledgerNow' \in 1 .. MaxTransfers
    BY <1>1, <1>3, PollarAssumption DEF PollarTypes, Transfer
  <2>2. [from |-> from, to |-> to, good |-> good, ledger |-> ledgerNow'] \in PaymentRecord
    BY <2>1 DEF PaymentRecord
  <2>3. lease' = lease
    BY <1>3 DEF Transfer
  <2>4. payment' \in [Tx -> PaymentRecord \cup {Null}]
    BY <1>1, <1>3, <2>2 DEF PollarTypes, Transfer
  <2>5. ledgerNow' \in 0 .. MaxTransfers
    BY <2>1, PollarAssumption
  <2> QED
    BY <1>1, <2>3, <2>4, <2>5 DEF PollarTypes
<1> HIDE DEF Goal
<1>4. ASSUME Outside PROVE Goal
  <2>1. ASSUME NEW p, NEW w, ReceivingWallet(p, w) PROVE Goal
    BY <1>2, <2>1 DEF ReceivingWallet, pollarVars
  <2>2. ASSUME NEW c, NEW k, NEW x, Prepare(c, k, x) \/ Report(c, k, x) PROVE Goal
    BY <1>2, <2>2 DEF Prepare, Report
  <2> QED
    BY <1>3, <1>4, <2>1, <2>2 DEF Outside
<1>5. ASSUME NEW a, Create(a) \/ Verify(a) \/ Resolve(a) \/ Answered(a) \/ TickFails(a)
                    \/ OperationsNotFound(a) \/ Crash(a)
      PROVE  Goal
  BY <1>2, <1>5 DEF Create, Verify, Resolve, Answered, TickFails, OperationsNotFound, Crash
<1>6. ASSUME NEW w \in Worker, Tick(w) PROVE Goal
  <2>1. CASE ClaimLease(w)
    BY <1>1, <2>1 DEF ClaimLease, PollarTypes, Goal
  <2>2. CASE Release(w)
    BY <1>2, <2>2 DEF Release
  <2>3. CASE \/ TakeCandidate(w) \/ TakeAnchor(w) \/ Existing(w) \/ Sequence(w) \/ SendProof(w)
             \/ WaitOk(w) \/ WaitFails(w) \/ Recheck(w) \/ Mark(w)
    BY <1>2, <2>3 DEF TakeCandidate, TakeAnchor, Existing, Sequence, SendProof,
                      WaitOk, WaitFails, Recheck, Mark
  <2> QED
    BY <1>5, <1>6, <2>1, <2>2, <2>3 DEF Tick
<1>7. ASSUME LeaseExpires PROVE Goal
  BY <1>1, <1>7 DEF LeaseExpires, PollarTypes, Goal
<1>9. ASSUME NEW k, SettleEnds(k) \/ SettleIsLost(k) PROVE Goal
  BY <1>2, <1>9 DEF SettleEnds, SettleIsLost, pollarVars
<1>8. Goal
  BY <1>4, <1>5, <1>6, <1>7, <1>9 DEF PollarStep, Request
<1> QED
  BY <1>8, OneJobMoves DEF PollarTypes, PollarActor, Goal

\* Workers and clients are not among the requests that pay in cash.
LEMMA ActorsDiffer ==
  ASSUME NEW a \in PollarActor
  PROVE  a \in Actor /\ a \notin CashRequest
  BY PollarAssumption, PaymentsAssumption DEF PollarActor

\* What they do to the pool: nothing, or one sends its proof, or one waits no
\* longer for a transaction of its own.
LEMMA PollarOnPool ==
  ASSUME PollarStep
  PROVE  \/ UNCHANGED <<pool, outcome>>
         \/ \E a \in PollarActor : Abandon(a)
         \/ \E w \in Worker : job[w].pc = "SEND" /\ Send(w, job[w].k, IntentProof(job[w].k))
<1>1. ASSUME NEW a \in PollarActor, \/ Verify(a) \/ Resolve(a) \/ Answered(a) \/ Create(a)
                                     \/ OperationsNotFound(a)
      PROVE  UNCHANGED <<pool, outcome>>
  BY <1>1 DEF Verify, Resolve, Answered, Create, OperationsNotFound, chainVars
<1>2. ASSUME Outside PROVE UNCHANGED <<pool, outcome>>
  BY <1>2 DEF Outside, ReceivingWallet, Prepare, Report, chainVars
<1>3. ASSUME NEW w \in Worker, Tick(w) \/ TickFails(w)
      PROVE  \/ UNCHANGED <<pool, outcome>> \/ Abandon(w)
             \/ job[w].pc = "SEND" /\ Send(w, job[w].k, IntentProof(job[w].k))
  <2>1. CASE SendProof(w)
    BY <2>1 DEF SendProof, chainVars
  <2>2. CASE WaitOk(w) \/ WaitFails(w)
    BY <2>2 DEF WaitOk, WaitFails
  <2>3. CASE \/ ClaimLease(w) \/ TakeCandidate(w) \/ TakeAnchor(w) \/ Existing(w)
             \/ Sequence(w) \/ Recheck(w) \/ Mark(w) \/ Release(w) \/ TickFails(w)
    BY <2>3 DEF ClaimLease, TakeCandidate, TakeAnchor, Existing, Sequence, Recheck,
                Mark, Release, TickFails, chainVars
  <2> QED
    BY <1>1, <1>3, <2>1, <2>2, <2>3 DEF Tick, PollarActor
<1>4. ASSUME NEW k, SettleEnds(k) \/ SettleIsLost(k) PROVE UNCHANGED <<pool, outcome>>
  BY <1>4 DEF SettleEnds, SettleIsLost, chainVars
<1> QED
  BY <1>1, <1>2, <1>3, <1>4
  DEF PollarStep, Request, LeaseExpires, Crash, PollarActor, chainVars

LEMMA PollarPoolKept ==
  ASSUME PaymentsInv, Step2, PollarStep, UNCHANGED cashVars
  PROVE  PoolInv'
<1>1. PoolInv /\ PollarInv /\ cash' = cash
  BY DEF PaymentsInv, cashVars
<1>2. CASE UNCHANGED <<pool, outcome>>
  BY <1>1, <1>2, SamePool
<1>3. ASSUME NEW a \in PollarActor, Abandon(a) PROVE PoolInv'
  BY <1>1, <1>3, ActorsDiffer, AbandonPool
<1>4. ASSUME NEW w \in Worker, job[w].pc = "SEND", Send(w, job[w].k, IntentProof(job[w].k))
      PROVE  PoolInv'
  <2>1. PICK k \in Installment : job[w].k = k /\ Settled(k)
    BY <1>1, <1>4, AnchoringFacts DEF Anchoring, PollarActor
  <2>2. IntentProof(k) \in ProofData
    <3>1. intent[k].tx \in Tx /\ intent[k].receipt = PollarReceipt(k, intent[k].tx)
      BY <2>1 DEF Step2, TablesInv, RowsAgree, RowInv, Settled
    <3> QED
      BY <3>1 DEF IntentProof, PollarProof, ProofData, Receipt
  <2>3. PICK data \in ProofData : data = IntentProof(k)
    BY <2>2
  <2>4. Tells(k, data)'
    BY <2>1, <2>3, SettledStays DEF Tells
  <2> QED
    BY <1>1, <1>4, <2>1, <2>3, <2>4, ActorsDiffer, SendPool DEF PollarActor
<1> QED
  BY <1>2, <1>3, <1>4, PollarOnPool

\* The requests stay where they are, and none of them is told anything.
LEMMA PollarCashKept ==
  ASSUME PaymentsInv, Step2, PollarStep, UNCHANGED cashVars
  PROVE  CashInv'
<1>1. CashInv /\ CashTypes /\ UNCHANGED <<otp, queue, cash>>
  BY DEF PaymentsInv, CashInv, cashVars
<1>2. faults' \in 0 .. MaxFaults
  BY <1>1, ActorsOnChain, FaultsCounted
<1>3. outcome' = outcome \/ \E a \in PollarActor : outcome' = [outcome EXCEPT ![a] = "NONE"]
  BY PollarOnPool DEF Abandon, Send, PollarActor
<1>4. /\ outcome' \in [Actor -> {"NONE", "OK", "REVERTED"}]
      /\ \A r \in CashRequest : outcome'[r] = outcome[r]
  BY <1>1, <1>3, ActorsDiffer, CashAssumption DEF CashTypes
<1>5. CashTypes'
  BY <1>1, <1>2, <1>4 DEF CashTypes
<1> QED
  BY <1>1, <1>4, <1>5, RequestKept DEF CashInv

\* What workers and clients, and the database for them, do to the rows, the
\* intents and the locks.
LEMMA PollarOnTables ==
  ASSUME PollarStep
  PROVE  \/ UNCHANGED <<loanStatus, inst, intent, settling>>
         \/ \E a \in PollarActor :
               \/ /\ job[a].pc = "CREATE"
                  /\ CreateIntent(job[a].k, BorrowerOf[LoanOf[job[a].k]],
                                  job[a].sender, job[a].ledger)
               \/ /\ job[a].pc = "RESOLVE" /\ job[a].verdict = "VERIFIED"
                  /\ SettleBegins(job[a].k, job[a].tx)
               \/ /\ job[a].pc = "MARK"
                  /\ MarkAnchored(job[a].k, job[a].known)
         \/ \E k \in Installment :
               \/ settling[k] # Null /\ Settle(k, settling[k], PollarReceipt(k, settling[k]))
               \/ SettleAborts(k)
<1> DEFINE Same == UNCHANGED <<loanStatus, inst, intent, settling>>
           Creates(a) == /\ job[a].pc = "CREATE"
                         /\ CreateIntent(job[a].k, BorrowerOf[LoanOf[job[a].k]],
                                         job[a].sender, job[a].ledger)
           Begins(a) ==
              /\ job[a].pc = "RESOLVE" /\ job[a].verdict = "VERIFIED"
              /\ SettleBegins(job[a].k, job[a].tx)
           Marks(a) == job[a].pc = "MARK" /\ MarkAnchored(job[a].k, job[a].known)
           Ends(k) ==
              \/ settling[k] # Null /\ Settle(k, settling[k], PollarReceipt(k, settling[k]))
              \/ SettleAborts(k)
<1>1. ASSUME UNCHANGED dbVars PROVE Same
  BY <1>1 DEF dbVars
<1>2. ASSUME NEW a, Create(a) PROVE Same \/ Creates(a)
  BY <1>1, <1>2 DEF Create
<1>3. ASSUME NEW a, Resolve(a) PROVE Same \/ Begins(a)
  BY <1>1, <1>3 DEF Resolve, Reject
<1>4. ASSUME NEW a, \/ Verify(a) \/ Answered(a) \/ OperationsNotFound(a) \/ Crash(a)
                    \/ TickFails(a)
      PROVE  Same
  BY <1>1, <1>4 DEF Verify, Answered, OperationsNotFound, Crash, TickFails
<1>5. ASSUME NEW w, Mark(w) PROVE Marks(w)
  BY <1>5 DEF Mark
<1>6. ASSUME NEW w, \/ ClaimLease(w) \/ TakeCandidate(w) \/ TakeAnchor(w) \/ Existing(w)
                    \/ Sequence(w) \/ SendProof(w) \/ WaitOk(w) \/ WaitFails(w)
                    \/ Recheck(w) \/ Release(w)
      PROVE  Same
  BY <1>1, <1>6 DEF ClaimLease, TakeCandidate, TakeAnchor, Existing, Sequence, SendProof,
                    WaitOk, WaitFails, Recheck, Release
<1>7. ASSUME Outside PROVE Same
  <2>1. ASSUME NEW p, NEW w, ReceivingWallet(p, w) PROVE Same
    BY <2>1 DEF ReceivingWallet, SetRoute
  <2>2. ASSUME NEW c, NEW k, NEW x, Prepare(c, k, x) PROVE Same
    BY <1>1, <2>2 DEF Prepare
  <2>3. ASSUME NEW c, NEW k, NEW x, Report(c, k, x) PROVE Same
    BY <1>1, <2>3 DEF Report, Observe
  <2> QED
    BY <1>1, <1>7, <2>1, <2>2, <2>3 DEF Outside
<1>8. LeaseExpires => Same
  BY <1>1 DEF LeaseExpires
<1>9. ASSUME NEW k, SettleEnds(k) \/ SettleIsLost(k) PROVE Ends(k)
  BY <1>9 DEF SettleEnds, SettleIsLost
<1> HIDE DEF Same, Creates, Begins, Marks, Ends
<1>10. \/ Same
       \/ \E a \in PollarActor : Creates(a) \/ Begins(a) \/ Marks(a)
       \/ \E k \in Installment : Ends(k)
  BY <1>2, <1>3, <1>4, <1>5, <1>6, <1>7, <1>8, <1>9
  DEF PollarStep, Request, Tick, PollarActor
<1> QED
  BY <1>10 DEF Same, Creates, Begins, Marks, Ends

\* An intent that moves on keeps what it fixed and what pays it.
LEMMA IntentMoved ==
  ASSUME Step2, NEW k \in Installment, IntentInv(k), intent[k].status # "NONE",
         NEW tx \in Tx, PaidBy(k, tx), intent'[k].tx = tx
  PROVE  IntentInv(k)'
<1>1. PaidBy(k, tx)'
  BY PaidByStays
<1>2. intent'[k].sender = intent[k].sender /\ intent'[k].recipient = intent[k].recipient
  BY DEF Step2, Grows, FinalStep, FinalRow
<1>3. PaidBy(k, intent[k].tx)'
  BY <1>1 DEF PaidBy, Pays
<1> QED
  BY <1>2, <1>3 DEF IntentInv

LEMMA PollarIntentsKept ==
  ASSUME PaymentsInv, Step2, PollarStep
  PROVE  \A k \in Installment : IntentInv(k)'
<1>1. /\ PollarInv
      /\ intent \in [Installment -> IntentRow]
      /\ \A k \in Installment : IntentInv(k) /\ (intent[k].tx # Null => intent[k].tx \in Tx)
  BY DEF PaymentsInv, PollarInv, TablesInv, DbTypeOK, IntentRow
<1>2. ASSUME NEW k \in Installment, intent'[k] = intent[k] PROVE IntentInv(k)'
  BY <1>1, <1>2, IntentKept
<1>3. ASSUME NEW i \in Installment, IntentInv(i)',
             \A k \in Installment \ {i} : intent'[k] = intent[k]
      PROVE  \A k \in Installment : IntentInv(k)'
  BY <1>2, <1>3
<1>4. ASSUME NEW a \in PollarActor, job[a].pc = "CREATE",
             CreateIntent(job[a].k, BorrowerOf[LoanOf[job[a].k]], job[a].sender, job[a].ledger)
      PROVE  \A k \in Installment : IntentInv(k)'
  <2>1. PICK i \in Installment, w \in Wallet, g \in Ledger :
          i = job[a].k /\ w = job[a].sender /\ g = job[a].ledger
    BY <1>1, <1>4 DEF PollarInv, JobInv, PollarActor
  <2>2. PICK dest : dest = route[LenderOf[LoanOf[i]]]
    OBVIOUS
  <2>3. /\ dest # w
        /\ intent' = [intent EXCEPT ![i] =
              [NoIntent EXCEPT !.status = "CREATED", !.sender = w,
                               !.recipient = dest, !.minLedger = g]]
    BY <1>4, <2>1, <2>2 DEF CreateIntent
  <2>4. /\ intent'[i].status = "CREATED" /\ intent'[i].sender = w /\ intent'[i].recipient = dest
        /\ \A k \in Installment \ {i} : intent'[k] = intent[k]
    BY <1>1, <2>3 DEF NoIntent
  <2>5. IntentInv(i)'
    BY <2>3, <2>4 DEF IntentInv, Settled
  <2> QED
    BY <1>3, <2>4, <2>5
<1>5. ASSUME NEW i \in Installment, settling[i] # Null,
             Settle(i, settling[i], PollarReceipt(i, settling[i]))
      PROVE  \A k \in Installment : IntentInv(k)'
  <2>1. PICK tx \in Tx : tx = settling[i]
    BY <1>5 DEF PaymentsInv, TablesInv, DbTypeOK
  <2>2. intent[i].status # "NONE" /\ PaidBy(i, tx)
    BY <1>1, <1>5, <2>1 DEF PaymentsInv, TablesInv, LockedIsOpen, PollarInv, LockedInv
  <2>3. PICK receipt : receipt = PollarReceipt(i, tx)
    OBVIOUS
  <2>4. intent' = [intent EXCEPT ![i].status = "VERIFIED", ![i].tx = tx, ![i].receipt = receipt]
    BY <1>5, <2>1, <2>3 DEF Settle
  <2>5. intent'[i] = [[[intent[i] EXCEPT !.status = "VERIFIED"] EXCEPT !.tx = tx]
                        EXCEPT !.receipt = receipt]
        /\ \A k \in Installment \ {i} : intent'[k] = intent[k]
    BY <1>1, <2>4
  <2>6. intent[i] \in IntentRow
    BY <1>1
  <2>7. intent'[i].tx = tx
    BY <2>5, <2>6 DEF IntentRow
  <2>8. IntentInv(i)'
    BY <1>1, <2>2, <2>7, IntentMoved
  <2> QED
    BY <1>3, <2>5, <2>8
<1>6. ASSUME NEW a \in PollarActor, job[a].pc = "MARK", MarkAnchored(job[a].k, job[a].known)
      PROVE  \A k \in Installment : IntentInv(k)'
  <2>1. PICK i \in Installment : i = job[a].k /\ Settled(i)
    BY <1>1, <1>6, AnchoringFacts DEF Anchoring
  <2>2. PICK tx \in Tx : tx = intent[i].tx
    BY <2>1 DEF PaymentsInv, TablesInv, RowsAgree, RowInv, Settled
  <2>3. intent[i].status # "NONE" /\ PaidBy(i, tx)
    BY <1>1, <2>1, <2>2 DEF IntentInv, Settled
  <2>4. intent'[i].tx = tx
    BY <2>1, <2>2, SettledStays
  <2>5. IntentInv(i)'
    BY <1>1, <2>3, <2>4, IntentMoved
  <2>6. \A k \in Installment \ {i} : intent'[k] = intent[k]
    BY <1>1, <1>6, <2>1 DEF MarkAnchored
  <2> QED
    BY <1>3, <2>5, <2>6
<1>7. ASSUME NEW a, NEW tx, SettleBegins(a, tx) \/ SettleAborts(a) PROVE intent' = intent
  BY <1>7 DEF SettleBegins, SettleAborts
<1> QED
  BY <1>2, <1>4, <1>5, <1>6, <1>7, PollarOnTables

\* pollar_settle is called for a transfer that Horizon confirmed.
LEMMA PollarLocksKept ==
  ASSUME PaymentsInv, Step2, PollarStep
  PROVE  \A k \in Installment : LockedInv(k)'
<1>1. /\ PollarInv
      /\ settling \in [Installment -> Tx \cup {Null}]
      /\ \A k \in Installment : LockedInv(k)
  BY DEF PaymentsInv, PollarInv, TablesInv, DbTypeOK
<1>2. ASSUME NEW k \in Installment, settling'[k] \in {settling[k], Null} PROVE LockedInv(k)'
  BY <1>1, <1>2, LockedKept
<1>3. ASSUME NEW a \in PollarActor, job[a].pc = "RESOLVE", job[a].verdict = "VERIFIED",
             SettleBegins(job[a].k, job[a].tx)
      PROVE  \A k \in Installment : LockedInv(k)'
  <2>1. PICK i \in Installment, tx \in Tx : i = job[a].k /\ tx = job[a].tx
    BY <1>1, <1>3 DEF PollarInv, JobInv, PollarActor
  <2>2. PaidBy(i, tx)' /\ settling' = [settling EXCEPT ![i] = tx]
    <3>1. intent[i].status # "NONE" /\ PaidBy(i, tx)
      BY <1>1, <1>3, <2>1 DEF PollarInv, JobInv, JobOn, PollarActor
    <3> QED
      BY <1>3, <2>1, <3>1, PaidByStays DEF SettleBegins
  <2>3. settling'[i] = tx /\ \A k \in Installment \ {i} : settling'[k] = settling[k]
    BY <1>1, <2>2
  <2>4. LockedInv(i)'
    BY <2>2, <2>3 DEF LockedInv, PaidBy, Pays
  <2> QED
    BY <1>2, <2>3, <2>4
<1>4. ASSUME NEW i \in Installment, NEW tx, NEW r, Settle(i, tx, r) \/ SettleAborts(i)
      PROVE  \A k \in Installment : settling'[k] \in {settling[k], Null}
  BY <1>1, <1>4 DEF Settle, SettleAborts
<1>5. ASSUME NEW k, NEW a, NEW s, NEW g, NEW known,
             CreateIntent(k, a, s, g) \/ MarkAnchored(k, known)
      PROVE  settling' = settling
  BY <1>5 DEF CreateIntent, MarkAnchored
<1> QED
  BY <1>2, <1>3, <1>4, <1>5, PollarOnTables

\* A row is attested when its proof was found, and by nothing else here.
LEMMA PollarSyncKept ==
  ASSUME PaymentsInv, Step2, PollarStep
  PROVE  SyncInv'
<1>1. /\ SyncInv /\ PollarInv /\ ContractInv
      /\ inst \in [Installment -> InstallmentRow]
      /\ \A k \in Installment : inst[k] \in InstallmentRow
  BY DEF PaymentsInv, TablesInv, DbTypeOK
<1>2. CASE inst' = inst
  BY <1>1, <1>2, SyncKept
<1>3. ASSUME NEW a \in PollarActor, job[a].pc = "CREATE",
             CreateIntent(job[a].k, BorrowerOf[LoanOf[job[a].k]], job[a].sender, job[a].ledger)
      PROVE  SyncInv'
  <2>1. PICK i \in Installment : i = job[a].k
    BY <1>1, <1>3 DEF PollarInv, JobInv, PollarActor
  <2>2. inst' = [inst EXCEPT ![i].rail = "POLLAR"]
    BY <1>3, <2>1 DEF CreateIntent
  <2>3. \A k \in Installment : inst'[k].sync = inst[k].sync
    BY <1>1, <2>2 DEF InstallmentRow
  <2> QED
    BY <1>1, <2>3, SyncKept
<1>4. ASSUME NEW i \in Installment, settling[i] # Null,
             Settle(i, settling[i], PollarReceipt(i, settling[i]))
      PROVE  SyncInv'
  <2>1. PICK tx \in Tx : tx = settling[i]
    BY <1>4 DEF PaymentsInv, TablesInv, DbTypeOK
  <2>2. PICK receipt : receipt = PollarReceipt(i, tx)
    OBVIOUS
  <2>3. inst' = [inst EXCEPT ![i] = [inst[i] EXCEPT !.status = "PAID", !.method = "POLLAR_USDC",
                    !.tx = tx, !.receipt = receipt, !.sync = "PENDING"]]
    BY <1>1, <1>4, <2>1, <2>2 DEF Settle
  <2>4. /\ inst'[i] = [inst[i] EXCEPT !.status = "PAID", !.method = "POLLAR_USDC",
                          !.tx = tx, !.receipt = receipt, !.sync = "PENDING"]
        /\ \A k \in Installment \ {i} : inst'[k] = inst[k]
    BY <1>1, <2>3
  <2>5. inst'[i].sync = "PENDING"
    BY <1>1, <2>4 DEF InstallmentRow
  <2> QED
    BY <1>1, <2>4, <2>5, SyncKept
<1>5. ASSUME NEW a \in PollarActor, job[a].pc = "MARK", MarkAnchored(job[a].k, job[a].known)
      PROVE  SyncInv'
  <2>1. PICK i \in Installment : i = job[a].k /\ Settled(i) /\ BuriedProof(i)
    BY <1>1, <1>5, AnchoringFacts DEF Anchoring
  <2>2. IsProved(i) /\ ProofAt(i) = PollarProof(intent[i].receipt, intent[i].tx)
    BY <1>1, <2>1, BuriedIsProved DEF BuriedProof, IntentProof
  <2>3. RowInv(i, inst[i], intent[i], candidate[i])
    BY DEF PaymentsInv, TablesInv, RowsAgree
  <2>4. /\ inst[i].rail = "POLLAR" /\ inst[i].receipt = intent[i].receipt
        /\ inst[i].tx = intent[i].tx
    BY <2>1, <2>3 DEF RowInv, Settled
  <2>5. inst' = [inst EXCEPT ![i].sync = "SYNCED"]
    BY <1>5, <2>1, <2>4 DEF MarkAnchored
  <2>6. inst'[i] = [inst[i] EXCEPT !.sync = "SYNCED"]
        /\ \A k \in Installment \ {i} : inst'[k] = inst[k]
    BY <1>1, <2>5
  <2>7. inst'[i].rail = "POLLAR" /\ inst'[i].receipt = inst[i].receipt
        /\ inst'[i].tx = inst[i].tx
    BY <1>1, <2>4, <2>6 DEF InstallmentRow
  <2>8. ProofOfPayment(i)' = PollarProof(intent[i].receipt, intent[i].tx)
    BY <2>4, <2>7 DEF ProofOfPayment, PollarProof
  <2>9. IsProved(i)' /\ ProofAt(i)' = ProofOfPayment(i)'
    BY <2>2, <2>8, ProofStays
  <2>10. ASSUME NEW k \in Installment, k # i, inst'[k].sync = "SYNCED"
         PROVE  IsProved(k)' /\ ProofAt(k)' = ProofOfPayment(k)'
    BY <1>1, <2>6, <2>10, SyncedStays
  <2> QED
    BY <2>9, <2>10 DEF SyncInv
<1>6. ASSUME NEW k, NEW tx, SettleBegins(k, tx) \/ SettleAborts(k) PROVE inst' = inst
  BY <1>6 DEF SettleBegins, SettleAborts
<1> QED
  BY <1>2, <1>3, <1>4, <1>5, <1>6, PollarOnTables

\* A worker, a client or somebody outside moves alone.
LEMMA PollarStepKept ==
  ASSUME PaymentsInv, Step2, PollarStep, UNCHANGED cashVars
  PROVE  PaymentsInv'
<1>1. TablesInv' /\ ContractInv' /\ ProofsTell
  BY DEF Step2, PaymentsInv
<1>2. ProofsTell'
  BY <1>1, ActorsOnChain, ProofsTellKept
<1>3. PollarInv'
  BY PollarTypesKept, OneJobMoves, PollarIntentsKept, PollarLocksKept
  DEF PollarInv, PollarActor
<1> QED
  BY <1>1, <1>2, <1>3, PollarPoolKept, PollarCashKept, PollarSyncKept DEF PaymentsInv

-----------------------------------------------------------------------------
(* The invariant holds. *)

\* Nothing is paid, asked for or sent.
LEMMA InitPaymentsInv == PaymentsInit => PaymentsInv
<1> SUFFICES ASSUME PaymentsInit PROVE PaymentsInv
  OBVIOUS
<1>1. DbInit /\ ChainInit /\ PollarInit /\ CashInit
  BY DEF PaymentsInit
<1>2. TablesInv
  BY <1>1, InitIInv DEF IInv
<1>3. \A k \in Installment : /\ inst[k].rail = Null /\ inst[k].sync = "PENDING"
                             /\ intent[k].status = "NONE"
  BY <1>1 DEF DbInit, UnpaidRow, NoIntent
<1>4. ContractInv
  <2> DEFINE loan(l) == [Chain!EmptyLoan EXCEPT
                            !.lender = Operator, !.borrower = BorrowerOf[l],
                            !.totalInstallments = Cardinality(InstallmentsOf(l)),
                            !.registered = TRUE, !.status = "ACTIVE"]
  <2>1. /\ hskLoans = [l \in Loan |-> loan(l)]
        /\ hskProofs = [l \in Loan |-> << >>]
        /\ buried = [l \in Loan |-> 0]
    BY <1>1 DEF ChainInit
  <2>2. ASSUME NEW l \in Loan
        PROVE  /\ loan(l) \in Chain!LoanStruct
               /\ loan(l).lender = Operator
               /\ loan(l).totalInstallments = InstallmentCount(l)
               /\ loan(l).paidInstallments = 0
               /\ loan(l).status = "ACTIVE"
    <3>1. /\ Cardinality(InstallmentsOf(l)) \in 1 .. MaxUint16 /\ MaxUint16 \in Nat
          /\ BorrowerOf[l] \in Profile
      BY ChainAssumption, DbAssumption
    <3>2. Cardinality(InstallmentsOf(l)) \in Chain!Uint16 /\ 0 \in Chain!Uint16
      BY <3>1 DEF Chain!Uint16
    <3> QED
      BY <3>1, <3>2 DEF Chain!EmptyLoan, Chain!LoanStruct, Chain!LoanStatus, InstallmentCount
  <2> HIDE DEF loan
  <2>3. ASSUME NEW l \in Loan PROVE InstallmentCount(l) \in Nat \ {0}
    BY ChainAssumption DEF InstallmentCount
  <2>4. hskLoans \in [Loan -> Chain!LoanStruct]
    BY <2>1, <2>2
  <2>5. hskProofs \in [Loan -> Seq(Chain!PaymentProof)] /\ buried \in [Loan -> Nat]
    BY <2>1
  <2>6. \A l \in Loan : Len(hskProofs[l]) = 0 /\ buried[l] = 0 /\ hskLoans[l] = loan(l)
    BY <2>1
  <2> QED
    BY <2>2, <2>3, <2>4, <2>5, <2>6 DEF ContractInv
<1>5. ProofsTell
  <2>1. \A k \in Installment : LoanOf[k] \in Loan /\ NumberOf[k] \in Nat \ {0}
    BY NumbersFit
  <2>2. \A l \in Loan : Len(hskProofs[l]) = 0
    BY <1>1 DEF ChainInit
  <2> QED
    BY <2>1, <2>2 DEF ProofsTell, IsProved, ProofCount
<1>6. PoolInv
  <2>1. pool = << >>
    BY <1>1 DEF ChainInit
  <2>2. pool \in Seq(Transaction) /\ Len(pool) = 0
    BY <2>1
  <2>3. DOMAIN pool = 1 .. 0
    BY <2>2
  <2> QED
    BY <2>2, <2>3 DEF PoolInv, Waiting
<1>7. CashInv
  <2>1. CashTypes
    <3>1. faults = 0 /\ outcome = [a \in Actor |-> "NONE"]
      BY <1>1 DEF ChainInit
    <3>2. /\ otp = {} /\ queue = [s \in SyncItem |-> "NONE"]
          /\ cash = [r \in CashRequest |-> [pc |-> "NEW", k |-> Null]]
      BY <1>1 DEF CashInit
    <3> QED
      BY <3>1, <3>2, ChainAssumption DEF CashTypes, CashPc
  <2>2. \A r \in CashRequest : RequestInv(r)
    BY <1>1 DEF CashInit, RequestInv, At
  <2> QED
    BY <2>1, <2>2 DEF CashInv
<1>8. PollarInv
  <2>1. /\ payment = [tx \in Tx |-> Null] /\ ledgerNow = 0 /\ lease = Null
        /\ job = [a \in Worker \cup Client |-> Idle]
    BY <1>1 DEF PollarInit
  <2>2. PollarTypes
    BY <2>1, PollarAssumption DEF PollarTypes, Idle, Job, JobPc
  <2>3. \A a \in Worker \cup Client : JobInv(a)
    BY <2>1 DEF Idle, JobInv, JobOn
  <2>4. \A k \in Installment : IntentInv(k)
    BY <1>3 DEF IntentInv, Settled
  <2>5. \A k \in Installment : LockedInv(k)
    BY <1>1 DEF DbInit, LockedInv
  <2> QED
    BY <2>2, <2>3, <2>4, <2>5 DEF PollarInv
<1>9. SyncInv
  BY <1>3 DEF SyncInv
<1> QED
  BY <1>2, <1>4, <1>5, <1>6, <1>7, <1>8, <1>9 DEF PaymentsInv

\* Every step keeps it.
LEMMA NextPaymentsInv == PaymentsInv /\ [PaymentsNext]_paymentVars => PaymentsInv'
<1> SUFFICES ASSUME PaymentsInv, [PaymentsNext]_paymentVars PROVE PaymentsInv'
  OBVIOUS
<1>1. CASE PaymentsNext
  <2>1. Step2
    BY <1>1, StepGrows DEF Step2, PaymentsInv
  <2> QED
    BY <1>1, <2>1, PollarStepKept, CashStepKept, ChainStepKept DEF PaymentsNext
<1>2. CASE UNCHANGED paymentVars
  <2>1. UNCHANGED <<dbVars, chainVars, pollarVars, cashVars>>
    BY <1>2 DEF paymentVars
  <2>2. UNCHANGED <<inst, intent, settling, hskLoans, hskProofs, buried, pool, outcome, faults,
                    payment, ledgerNow, lease, job, otp, queue, cash>>
    BY <2>1 DEF dbVars, chainVars, pollarVars, cashVars
  <2>3. TablesInv /\ ContractInv /\ ProofsTell /\ PoolInv /\ CashInv /\ PollarInv /\ SyncInv
    BY DEF PaymentsInv
  <2>4. Step2
    <3>1. TablesInv' /\ FinalStep
      BY <2>1, <2>3, DbStepKept
    <3>2. ContractInv'
      BY <2>2, <2>3 DEF ContractInv
    <3>3. \A l \in Loan : buried[l] \in Nat /\ Len(hskProofs[l]) \in Nat
      BY <2>3 DEF ContractInv
    <3>4. Grows
      BY <2>2, <3>1, <3>3 DEF Grows, At, Target
    <3> QED
      BY <2>3, <3>1, <3>2, <3>4 DEF Step2
  <2>5. ProofsTell' /\ SyncInv' /\ PoolInv'
    BY <2>2, <2>3, <2>4, ProofsTellKept, SyncKept, SamePool
  <2>6. CashInv'
    BY <2>2, <2>3, <2>4, RequestKept DEF CashInv, CashTypes
  <2>7. PollarInv'
    <3>1. PollarTypes'
      BY <2>2, <2>3 DEF PollarInv, PollarTypes
    <3>2. \A a \in Worker \cup Client : JobInv(a)'
      BY <2>2, <2>3, <2>4, JobKept DEF PollarInv
    <3>3. \A k \in Installment : intent[k].tx # Null => intent[k].tx \in Tx
      BY <2>3 DEF TablesInv, DbTypeOK, IntentRow
    <3>4. \A k \in Installment : IntentInv(k)'
      BY <2>2, <2>3, <2>4, <3>3, IntentKept DEF PollarInv
    <3>5. \A k \in Installment : LockedInv(k)'
      BY <2>2, <2>3, <2>4, LockedKept DEF PollarInv
    <3> QED
      BY <3>1, <3>2, <3>4, <3>5 DEF PollarInv
  <2> QED
    BY <2>4, <2>5, <2>6, <2>7 DEF PaymentsInv, Step2
<1> QED
  BY <1>1, <1>2

\* Every place a payment can be at agrees with the tables and the chain, in
\* every reachable state.
THEOREM PaymentsInvariant == PaymentsSpec => []PaymentsInv
  BY InitPaymentsInv, NextPaymentsInv, PTL DEF PaymentsSpec

-----------------------------------------------------------------------------
(* What follows from it. *)

\* Types of the whole: the tables, the contract, the workers, the requests.
LEMMA TypesFromInv == PaymentsInv => PaymentsTypeOK
<1> SUFFICES ASSUME PaymentsInv PROVE PaymentsTypeOK
  OBVIOUS
<1>1. /\ DbTypeOK /\ ContractInv /\ PoolInv /\ CashTypes /\ PollarTypes
  BY DEF PaymentsInv, TablesInv, CashInv, PollarInv
<1>2. ChainTypeOK
  <2>1. \A j \in DOMAIN pool : pool[j] \in Transaction
    BY <1>1 DEF PoolInv
  <2>2. \A l \in Loan : buried[l] <= Len(hskProofs[l])
    BY <1>1 DEF ContractInv
  <2> QED
    BY <1>1, <2>1, <2>2 DEF ChainTypeOK, ContractInv, CashTypes, Transaction
<1>3. CashTypeOK
  BY <1>1, <1>2 DEF CashTypeOK, CashTypes, CashPc
<1>4. PollarTypeOK
  <2>1. \A tx \in Tx : payment[tx] # Null => payment[tx] \in PaymentRecord
    BY <1>1 DEF PollarTypes
  <2>2. \A a \in Worker \cup Client : job[a].k \in Installment \cup {Null}
    BY <1>1 DEF PollarTypes, Job
  <2> QED
    BY <1>1, <1>2, <2>1, <2>2 DEF PollarTypeOK, PollarTypes, PaymentRecord
<1> QED
  BY <1>3, <1>4 DEF PaymentsTypeOK

\* Money first: what settled an installment is a transfer of its own, from
\* the sender to the recipient that its intent fixed, in a later ledger.
LEMMA SettledFromInv == PaymentsInv => SettledByRealPayment
<1> SUFFICES ASSUME PaymentsInv, NEW k \in Installment, Settled(k)
             PROVE  LET p == payment[intent[k].tx] IN
                    /\ p # Null /\ p.good /\ p.from = intent[k].sender
                    /\ p.to = intent[k].recipient /\ p.ledger > intent[k].minLedger
                    /\ p.from # p.to
  BY DEF SettledByRealPayment
<1>1. PaidBy(k, intent[k].tx) /\ intent[k].sender # intent[k].recipient
  BY DEF PaymentsInv, PollarInv, IntentInv, Settled
<1> QED
  BY <1>1 DEF PaidBy, Pays

\* SYNCED is never claimed without the proof on the chain.
LEMMA SyncedFromInv == PaymentsInv => SyncedHasProof
  BY ProvedIs DEF PaymentsInv, SyncInv, SyncedHasProof

\* A proof on the chain tells what the tables tell.
LEMMA RailFromInv == PaymentsInv => ProofMatchesRail
<1> SUFFICES ASSUME PaymentsInv, NEW k \in Installment, NEW j \in ProofOf(k)
             PROVE  LET data == hskProofs[LoanOf[k]][j].data IN
                    IF data.isDigital
                    THEN Settled(k) /\ data = PollarProof(intent[k].receipt, intent[k].tx)
                    ELSE inst[k].rail = "CASH"
  BY DEF ProofMatchesRail
<1>1. IsProved(k) /\ j = NumberOf[k]
  BY ProofOfIs DEF PaymentsInv
<1>2. Tells(k, ProofAt(k))
  BY <1>1 DEF PaymentsInv, ProofsTell
<1>3. PICK data : data = hskProofs[LoanOf[k]][j].data
  OBVIOUS
<1>4. Tells(k, data)
  BY <1>1, <1>2, <1>3 DEF ProofAt
<1>5. CASE Settled(k) /\ data = IntentProof(k)
  <2>1. data.isDigital = TRUE
    BY <1>5 DEF IntentProof, PollarProof
  <2> QED
    BY <1>3, <1>5, <2>1 DEF IntentProof
<1>6. ASSUME inst[k].rail = "CASH", NEW r, data = CashProof(r)
      PROVE  data.isDigital = FALSE
  BY <1>6 DEF CashProof
<1> QED
  BY <1>3, <1>4, <1>5, <1>6 DEF Tells

\* An installment with an intent that is not proved is the next one of the
\* contract: the earlier ones are SYNCED, and so proved, since it was reserved.
LEMMA TurnIsNext ==
  ASSUME TablesInv, ContractInv, SyncInv, NEW k \in Installment,
         intent[k].status # "NONE", ~ IsProved(k)
  PROVE  NumberOf[k] = ProofCount(k) + 1
<1>1. /\ LoanOf[k] \in Loan /\ NumberOf[k] \in 1 .. InstallmentCount(LoanOf[k])
      /\ InstallmentCount(LoanOf[k]) \in Nat
      /\ ProofCount(k) \in Nat
  BY NumbersFit DEF ContractInv, ProofCount
<1>2. \A j \in Earlier(k) : IsProved(j)
  BY DEF TablesInv, ReservedInOrder, Earlier, InstallmentsOf, SyncInv
<1> SUFFICES ASSUME ProofCount(k) + 1 < NumberOf[k] PROVE FALSE
  BY <1>1 DEF IsProved
<1>3. ProofCount(k) + 1 \in 1 .. InstallmentCount(LoanOf[k])
  BY <1>1
<1>4. PICK j \in Installment : LoanOf[j] = LoanOf[k] /\ NumberOf[j] = ProofCount(k) + 1
  BY <1>1, <1>3, NumbersAreInstallments
<1>5. IsProved(j)
  BY <1>1, <1>2, <1>4 DEF Earlier, InstallmentsOf
<1> QED
  BY <1>1, <1>4, <1>5 DEF IsProved, ProofCount

\* A verified payment is proved already, or it is its installment's turn.
LEMMA AnchorFromInv == PaymentsInv => AnchorNeverBlocked
<1> SUFFICES ASSUME PaymentsInv, NEW k \in Installment, intent[k].status = "VERIFIED",
                    ~ Proved(k, ProofOfPayment(k))
             PROVE  ProofOf(k) = {} /\ Estimate(k)
  BY DEF AnchorNeverBlocked
<1>1. /\ TablesInv /\ ContractInv /\ ProofsTell /\ SyncInv /\ Settled(k)
  BY DEF PaymentsInv, Settled
<1>2. RowInv(k, inst[k], intent[k], candidate[k])
  BY <1>1 DEF TablesInv, RowsAgree
<1>3. ProofOfPayment(k) = IntentProof(k) /\ inst[k].rail = "POLLAR"
  BY <1>1, <1>2 DEF RowInv, Settled, ProofOfPayment, IntentProof
<1>4. ~ IsProved(k)
  <2>1. IsProved(k) => Tells(k, ProofAt(k))
    BY <1>1 DEF ProofsTell
  <2>2. IsProved(k) => ProofAt(k) = IntentProof(k)
    BY <1>3, <2>1 DEF Tells
  <2> QED
    BY <1>1, <1>3, <2>2, ProvedIs
<1>5. NumberOf[k] = ProofCount(k) + 1
  BY <1>1, <1>4, TurnIsNext DEF Settled
<1> QED
  BY <1>1, <1>4, <1>5, ProofOfIs, EstimateIs

\* An acknowledged request left its receipt in the table and on the chain.
LEMMA AcknowledgedFromInv == PaymentsInv => AcknowledgedIsBooked
<1> SUFFICES ASSUME PaymentsInv, NEW r \in CashRequest, At(r, "DONE"),
                    r \in SyncItem => queue[r] # "REJECTED"
             PROVE  /\ inst[Target(r)].status = "PAID" /\ inst[Target(r)].receipt = r
                    /\ Proved(Target(r), CashProof(r))
  BY DEF AcknowledgedIsBooked
<1>1. Target(r) \in Installment /\ RequestOn(r, Target(r)) /\ ContractInv
  BY DEF PaymentsInv, CashInv, RequestInv, At
<1>2. Booked(r, Target(r))
  BY <1>1 DEF RequestOn
<1>3. IsProved(Target(r)) /\ ProofAt(Target(r)) = CashProof(r)
  BY <1>2 DEF Booked, CashProved
<1>4. \A k \in Installment : \A data : Proved(k, data) <=> IsProved(k) /\ ProofAt(k) = data
  BY <1>1, ProvedIs
<1> QED
  BY <1>1, <1>2, <1>3, <1>4, Zenon DEF Booked

\* PaymentsTypeOK holds in every reachable state.
THEOREM PaymentsTypesCorrect == PaymentsSpec => []PaymentsTypeOK
  BY PaymentsInvariant, TypesFromInv, PTL

\* SettledByRealPayment: nothing is settled that was not paid on Stellar.
THEOREM MoneyFirst == PaymentsSpec => []SettledByRealPayment
  BY PaymentsInvariant, SettledFromInv, PTL

\* SyncedHasProof: the tables claim no proof that the chain has not.
THEOREM SyncedIsProved == PaymentsSpec => []SyncedHasProof
  BY PaymentsInvariant, SyncedFromInv, PTL

\* ProofMatchesRail: the chain holds no proof that the tables deny.
THEOREM ProofsTellTheTables == PaymentsSpec => []ProofMatchesRail
  BY PaymentsInvariant, RailFromInv, PTL

\* AnchorNeverBlocked: HSK can always take a verified payment.
THEOREM AnchorIsPossible == PaymentsSpec => []AnchorNeverBlocked
  BY PaymentsInvariant, AnchorFromInv, PTL

\* AcknowledgedIsBooked: a receipt handed out is good for ever.
THEOREM ReceiptsAreGood == PaymentsSpec => []AcknowledgedIsBooked
  BY PaymentsInvariant, AcknowledgedFromInv, PTL

\* ImplementsDb: the requests, workers and clients together use the tables
\* only as DbNext does, the unread completion excepted.
THEOREM TablesUsedAsMeant == PaymentsSpec => ImplementsDb
<1>1. PaymentsInit => DbInit
  BY DEF PaymentsInit
<1>2. PaymentsInv /\ [PaymentsNext]_paymentVars
        => [DbNext \/ \E s \in SyncItem : CompleteUnread(s)]_dbVars
  <2>1. UNCHANGED paymentVars => UNCHANGED dbVars
    BY DEF paymentVars
  <2> QED
    BY <2>1, StepOfTables
<1> QED
  BY <1>1, <1>2, PaymentsInvariant, PTL DEF PaymentsSpec, ImplementsDb
=============================================================================
