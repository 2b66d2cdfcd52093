--------------------------- MODULE CashCollection ---------------------------
(***************************************************************************)
(* Payment of an installment in cash: InstallmentsService.collectCash, a   *)
(* request the lender makes in front of the borrower, and                  *)
(* SyncService.processSinglePayment, the same payment taken offline and    *)
(* sent later, again and again until it is answered.  Both reserve the     *)
(* cash rail, prove the payment on HSK Chain, and only then book it.       *)
(*                                                                         *)
(* Every request has a receipt of its own, so it is named by its receipt.  *)
(* An offline item names its installment by id, and by loan and number:    *)
(* here the two agree, as they do in what a correct client sends.  The     *)
(* checks of actors and amounts, which do not change between the steps,    *)
(* are left out, and so is the audit record (module AuditTrail).           *)
(***************************************************************************)
EXTENDS HskChain

CONSTANTS
    Collect,        \* online requests
    SyncItem        \* offline payments: their client_tx_id

CashRequest == Collect \cup SyncItem

ASSUME CashAssumption == CashRequest \subseteq CashReceipt \cap Actor

VARIABLES
    otp,            \* installments with a valid challenge in otpChallenges
    queue,          \* sync_queue: the status of an item
    cash            \* where each request is, and the installment it pays

cashVars == <<otp, queue, cash>>

CashInit ==
    /\ otp = {}
    /\ queue = [s \in SyncItem |-> "NONE"]
    /\ cash = [r \in CashRequest |-> [pc |-> "NEW", k |-> Null]]

Step(r, pc) == cash' = [cash EXCEPT ![r].pc = pc]

At(r, pc) == cash[r].pc = pc

Target(r) == cash[r].k

-----------------------------------------------------------------------------

\* generateOtpChallenge.
GenerateOtp(k) ==
    /\ inst[k].status # "PAID"
    /\ otp' = otp \cup {k}
    /\ UNCHANGED <<queue, cash, dbVars, chainVars>>

\* A challenge expires after 300 seconds, or is lost with the process.
ForgetOtp(k) ==
    /\ k \in otp
    /\ otp' = otp \ {k}
    /\ UNCHANGED <<queue, cash, dbVars, chainVars>>

\* collectCash up to the OTP, which is consumed whatever happens next.
StartCollect(c, k) ==
    /\ At(c, "NEW")
    /\ inst[k].status # "PAID"
    /\ k \in otp
    /\ otp' = otp \ {k}
    /\ cash' = [cash EXCEPT ![c] = [pc |-> "CLAIM", k |-> k]]
    /\ UNCHANGED <<queue, dbVars, chainVars>>

\* processSinglePayment reads the queue and the installment.  An item that
\* failed is sent again as it was.
StartSync(s, k) ==
    /\ \/ At(s, "NEW")
       \/ At(s, "FAILED") /\ Target(s) = k
    /\ cash' = [cash EXCEPT ![s] =
          [pc |-> IF queue[s] = "PROCESSED" THEN "DONE"
                  ELSE IF inst[k].status = "PAID" THEN "REJECT" ELSE "ENQUEUE",
           k  |-> k]]
    /\ UNCHANGED <<otp, queue, dbVars, chainVars>>

\* enqueue inserts, or fails on UNIQUE(client_tx_id).
Insert(s, status, next) ==
    \/ /\ queue[s] = "NONE"
       /\ queue' = [queue EXCEPT ![s] = status]
       /\ Step(s, next)
    \/ queue[s] # "NONE" /\ Step(s, "FAILED") /\ UNCHANGED queue

Enqueue(s) ==
    /\ \/ At(s, "ENQUEUE") /\ Insert(s, "PENDING", "CLAIM")
       \/ At(s, "REJECT") /\ Insert(s, "REJECTED", "DONE")
    /\ UNCHANGED <<otp, dbVars, chainVars>>

\* Mutant: the cash rail is not reserved.
ClaimNothing(r) ==
    /\ At(r, "CLAIM")
    /\ Step(r, "SEND")
    /\ UNCHANGED <<otp, queue, dbVars, chainVars>>

\* claimCash, before anything is sent to HSK.
Claim(r) ==
    /\ At(r, "CLAIM")
    /\ \/ ClaimCash(Target(r)) /\ Step(r, "SEND")
       \/ ~ Claimable(Target(r)) /\ Step(r, "FAILED") /\ UNCHANGED dbVars
    /\ UNCHANGED <<otp, queue, chainVars>>

\* HskBlockchainService.confirmPayment, as far as it sends.
SendCash(r) ==
    /\ At(r, "SEND")
    /\ \/ Send(r, Target(r), CashProof(r)) /\ Step(r, "WAIT")
       \/ ~ Estimate(Target(r)) /\ Step(r, "FAILED") /\ UNCHANGED chainVars
    /\ UNCHANGED <<otp, queue, dbVars>>

\* Mutant: any answer is taken for a confirmation.
AnsweredAnyhow(r) == outcome[r] # "NONE"

Confirmed(r) == outcome[r] = "OK"

\* ... and as far as tx.wait() answers, after one confirmation.
WaitCash(r) ==
    /\ At(r, "WAIT")
    /\ \/ Confirmed(r) /\ Step(r, "BOOK")
       \/ outcome[r] = "REVERTED" /\ ~ Confirmed(r) /\ Step(r, "FAILED")
    /\ Abandon(r)
    /\ UNCHANGED <<otp, queue, dbVars, hskLoans, hskProofs, buried, faults>>

\* updateInstallment, which the trigger may refuse.
BookCash(r) ==
    /\ At(r, "BOOK")
    /\ \/ /\ PayCash(Target(r), r)
          /\ Step(r, IF r \in SyncItem THEN "PROCESSED" ELSE "COMPLETE")
       \/ ~ CashPayable(Target(r), r) /\ Step(r, "FAILED") /\ UNCHANGED dbVars
    /\ UNCHANGED <<otp, queue, chainVars>>

\* markProcessed; its error is logged and forgotten.
MarkProcessed(s) ==
    /\ At(s, "PROCESSED")
    /\ Step(s, "COMPLETE")
    /\ \/ queue' = [queue EXCEPT ![s] = "PROCESSED"] /\ UNCHANGED faults
       \/ Fault /\ UNCHANGED queue
    /\ UNCHANGED <<otp, dbVars, hskLoans, hskProofs, buried, pool, outcome>>

\* checkAndCompleteLoan, and its counterpart in processSinglePayment.
Complete(r) ==
    LET l == LoanOf[Target(r)] IN
    /\ At(r, "COMPLETE")
    /\ \/ AllPaid(l) /\ CompleteLoan(l)
       \/ ~ AllPaid(l) /\ UNCHANGED dbVars
    /\ Step(r, "DONE")
    /\ UNCHANGED <<otp, queue, chainVars>>

\* findByLoanId fails and returns no rows: checkAndCompleteLoan does nothing,
\* and for processSinglePayment every one of none is PAID.
CompleteUnread(r) ==
    /\ At(r, "COMPLETE")
    /\ Fault
    /\ IF r \in SyncItem THEN CompleteLoan(LoanOf[Target(r)]) ELSE UNCHANGED dbVars
    /\ Step(r, "DONE")
    /\ UNCHANGED <<otp, queue, hskLoans, hskProofs, buried, pool, outcome>>

\* A call throws, or the process ends: nothing else of the request happens.
RequestFails(r) ==
    /\ cash[r].pc \notin {"NEW", "DONE", "FAILED"}
    /\ Fault
    /\ Step(r, "FAILED")
    /\ Abandon(r)
    /\ UNCHANGED <<otp, queue, dbVars, hskLoans, hskProofs, buried>>

-----------------------------------------------------------------------------

\* What the server does for a request once it is there.
Serve(r) ==
    \/ Enqueue(r) \/ Claim(r) \/ SendCash(r) \/ WaitCash(r) \/ BookCash(r)
    \/ MarkProcessed(r) \/ Complete(r)

CashStep ==
    \/ \E k \in Installment :
          \/ GenerateOtp(k) \/ ForgetOtp(k)
          \/ \E c \in Collect : StartCollect(c, k)
          \/ \E s \in SyncItem : StartSync(s, k)
    \/ \E r \in CashRequest : Serve(r) \/ CompleteUnread(r) \/ RequestFails(r)

CollectionInit == DbInit /\ ChainInit /\ CashInit

CollectionNext ==
    \/ CashStep
    \/ ChainStep /\ UNCHANGED cashVars

collectionVars == <<dbVars, chainVars, cashVars>>

CollectionSpec == CollectionInit /\ [][CollectionNext]_collectionVars

\* Transactions are mined, calls answer, and a client sends an offline item
\* that was not answered again.
CollectionFairness ==
    /\ WF_collectionVars(Mine /\ UNCHANGED <<dbVars, cashVars>>)
    /\ \A r \in CashRequest : WF_collectionVars(Serve(r))
    /\ \A s \in SyncItem : WF_collectionVars(
          At(s, "FAILED") /\ StartSync(s, Target(s)))

CollectionFairSpec == CollectionSpec /\ CollectionFairness

-----------------------------------------------------------------------------

CashTypeOK ==
    /\ DbTypeOK
    /\ ChainTypeOK
    /\ otp \subseteq Installment
    /\ queue \in [SyncItem -> {"NONE", "PENDING", "PROCESSED", "REJECTED"}]
    /\ cash \in [CashRequest ->
          [pc : {"NEW", "ENQUEUE", "REJECT", "CLAIM", "SEND", "WAIT", "BOOK",
                 "PROCESSED", "COMPLETE", "DONE", "FAILED"},
           k  : Installment \cup {Null}]]

\* A receipt handed out is good for ever: a request answered with success
\* left its own receipt in the table and on the chain, whatever other
\* requests for the same installment were doing.
AcknowledgedIsBooked ==
    \A r \in CashRequest :
        LET k == Target(r) IN
        At(r, "DONE") /\ (r \in SyncItem => queue[r] # "REJECTED") =>
            /\ inst[k].status = "PAID"
            /\ inst[k].receipt = r
            /\ Proved(k, CashProof(r))

\* An offline payment ends as a paid installment, as the client sends it again
\* until it is answered: `Al recuperar conexión, el endpoint POST
\* /api/sync/batch ... guarda en base de datos y envía la transacción
\* confirmPayment a HSK Chain' (docs/BACKEND_SPECIFICATION.md:71).
OfflinePaymentIsBooked ==
    \A s \in SyncItem, k \in Installment :
        Target(s) = k ~> inst[k].status = "PAID"

\* Every step a request takes in the tables is a statement with the arguments
\* that DbNext gives it: cash is booked only on a rail claimed for it, and a
\* loan completed only after all its installments were read as paid, except
\* by an offline item that could not read them (CompletedOnlyWhenPaid).
ImplementsDb ==
    DbInit /\ [][DbNext \/ \E s \in SyncItem : CompleteUnread(s)]_dbVars
=============================================================================
