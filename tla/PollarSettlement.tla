-------------------------- MODULE PollarSettlement --------------------------
(***************************************************************************)
(* Payment of an installment with a Stellar transfer                       *)
(* (src/application/modules/pollar).  A client's request creates the       *)
(* intent, or reports a transaction hash and reconciles it at once; the    *)
(* workers, one per backend process, reconcile what was reported and       *)
(* anchor what was verified, under a lease in the database that can run    *)
(* out while its owner still works.  Every call to the database, to        *)
(* Horizon or to the chain is a step, so others act between any two; and   *)
(* pollar_settle is two, of which the second is the database's own: it     *)
(* commits or not whether or not the process that called it is there.      *)
(***************************************************************************)
EXTENDS HskChain

CONSTANTS
    Worker,         \* backend processes
    Client,         \* requests of borrowers in progress at a time
    MaxTransfers    \* bound on the Stellar payments made

ASSUME PollarAssumption ==
    /\ Worker \cup Client \subseteq Actor
    /\ Worker \cap Client = {}
    /\ MaxTransfers \in Nat
    /\ 0 .. MaxTransfers \subseteq Ledger

VARIABLES
    payment,        \* what Horizon holds for a transaction hash, or Null
    ledgerNow,      \* the last closed Stellar ledger
    lease,          \* owner of pollar_worker_lease until until_at, or Null
    job             \* where each worker and client is

pollarVars == <<payment, ledgerNow, lease, job>>

Idle == [pc |-> "IDLE", k |-> Null, tx |-> Null, sender |-> Null,
         ledger |-> Null, verdict |-> Null, known |-> FALSE]

\* What reconcile and anchor know ends with them.
Goto(a, pc) ==
    job' = [job EXCEPT ![a] =
              [(IF pc \in {"ANCHOR", "RELEASE"} THEN Idle ELSE @) EXCEPT !.pc = pc]]
Finish(a) == job' = [job EXCEPT ![a] = Idle]

PollarInit ==
    /\ payment = [tx \in Tx |-> Null]
    /\ ledgerNow = 0
    /\ lease = Null
    /\ job = [a \in Worker \cup Client |-> Idle]

-----------------------------------------------------------------------------
(* Stellar. *)

\* Somebody pays: `good` is a successful payment of the installments' amount
\* in USDC of the configured issuer.  The ledger that holds it closes.
Transfer(tx, from, to, good) ==
    /\ payment[tx] = Null
    /\ ledgerNow < MaxTransfers
    /\ ledgerNow' = ledgerNow + 1
    /\ payment' = [payment EXCEPT ![tx] =
                     [from |-> from, to |-> to, good |-> good, ledger |-> ledgerNow']]
    /\ UNCHANGED <<lease, job>>

\* Mutant: the destination is read from the lender's current route.
PaysCurrentRoute(tx, k) ==
    LET p == payment[tx] IN
    /\ p.good /\ p.from = intent[k].sender /\ p.to = route[LenderOf[LoanOf[k]]]
    /\ p.ledger > intent[k].minLedger

\* The transfer is the one the intent describes.
Pays(tx, k) ==
    LET p == payment[tx] IN
    /\ p.good /\ p.from = intent[k].sender /\ p.to = intent[k].recipient
    /\ p.ledger > intent[k].minLedger

\* PollarService.verify: what Horizon says of a hash.
Verdict(tx, k) ==
    IF payment[tx] = Null THEN "PENDING"
    ELSE IF Pays(tx, k) THEN "VERIFIED" ELSE "MISMATCH"

-----------------------------------------------------------------------------
(* SettlementService: the requests of a borrower. *)

\* SettlementAnchorService.assertReady.
Ready(k) == NextOnChain(k) /\ hskLoans[LoanOf[k]].status = "ACTIVE"

\* create: the checks, the chain and the ledger are read ...
Prepare(c, k, w) ==
    /\ job[c].pc = "IDLE"
    /\ intent[k].status = "NONE"
    /\ Ready(k)
    /\ job' = [job EXCEPT ![c] = [Idle EXCEPT !.pc = "CREATE", !.k = k,
                                    !.sender = w, !.ledger = ledgerNow]]
    /\ UNCHANGED <<payment, ledgerNow, lease, dbVars, chainVars>>

\* What makes pollar_create_intent raise.
Refused(k, sender) ==
    \/ intent[k].status # "NONE"
    \/ ~ Available(k)
    \/ route[LenderOf[LoanOf[k]]] \in {Null, sender}

\* ... and then pollar_create_intent is called.
Create(c) ==
    LET j == job[c] IN
    /\ j.pc = "CREATE"
    /\ \/ CreateIntent(j.k, BorrowerOf[LoanOf[j.k]], j.sender, j.ledger)
       \/ Refused(j.k, j.sender) /\ UNCHANGED dbVars
    /\ Finish(c)
    /\ UNCHANGED <<payment, ledgerNow, lease, chainVars>>

\* report: the hash is persisted before Horizon is asked.
Report(c, k, tx) ==
    /\ job[c].pc = "IDLE"
    /\ intent[k].status # "NONE"
    /\ \/ Observe(k, BorrowerOf[LoanOf[k]], tx)
       \/ candidate[k][tx] # "NONE" /\ UNCHANGED dbVars
    /\ job' = [job EXCEPT ![c] = [Idle EXCEPT !.pc = "VERIFY", !.k = k, !.tx = tx]]
    /\ UNCHANGED <<payment, ledgerNow, lease, chainVars>>

\* receivingWallet, in the middle of anything.
ReceivingWallet(p, w) ==
    /\ SetRoute(p, w)
    /\ UNCHANGED <<pollarVars, chainVars>>

-----------------------------------------------------------------------------
(* SettlementService.reconcile, called by report and by tick. *)

\* Where the caller goes on after reconcile, whether it returned or threw.
Reconciled(a) ==
    IF a \in Worker
    THEN job' = [job EXCEPT ![a] = [Idle EXCEPT !.pc = "ANCHOR"]]
    ELSE Finish(a)

\* The intent is read, then Horizon.
Verify(a) ==
    LET j == job[a] IN
    /\ j.pc = "VERIFY"
    /\ IF intent[j.k].status # "CREATED"
       THEN Reconciled(a)
       ELSE job' = [job EXCEPT ![a].pc = "RESOLVE",
                               ![a].verdict = Verdict(j.tx, j.k)]
    /\ UNCHANGED <<payment, ledgerNow, lease, dbVars, chainVars>>

\* Horizon knows the transaction and answers 404 for its operations, as an
\* instance that lags does: the payment is taken for one that does not match.
OperationsNotFound(a) ==
    LET j == job[a] IN
    /\ j.pc = "VERIFY"
    /\ intent[j.k].status = "CREATED"
    /\ payment[j.tx] # Null
    /\ payment[j.tx].ledger > intent[j.k].minLedger
    /\ Fault
    /\ job' = [job EXCEPT ![a].pc = "RESOLVE", ![a].verdict = "MISMATCH"]
    /\ UNCHANGED <<payment, ledgerNow, lease, dbVars, hskLoans, hskProofs,
                   buried, pool, outcome>>

\* pollar_settle is called, or reject, or neither.  A hash that settled
\* already is returned, any other conflict raises: nothing changes.
Resolve(a) ==
    LET j == job[a] IN
    /\ j.pc = "RESOLVE"
    /\ \/ /\ j.verdict = "VERIFIED"
          /\ SettleBegins(j.k, j.tx)
          /\ job' = [job EXCEPT ![a].pc = "ANSWER"]
       \/ /\ \/ /\ j.verdict = "VERIFIED"
                /\ LoanUnlocked(LoanOf[j.k]) /\ ~ CanSettle(j.k, j.tx)
                /\ UNCHANGED dbVars
             \/ j.verdict = "MISMATCH" /\ Reject(j.k, j.tx)
             \/ /\ j.verdict = "MISMATCH" /\ candidate[j.k][j.tx] # "PENDING"
                /\ UNCHANGED dbVars
             \/ j.verdict = "PENDING" /\ UNCHANGED dbVars
          /\ Reconciled(a)
    /\ UNCHANGED <<payment, ledgerNow, lease, chainVars>>

\* pollar_settle commits, or a UNIQUE raises.
SettleEnds(k) ==
    LET tx == settling[k]
        receipt == PollarReceipt(k, tx) IN
    /\ tx # Null
    /\ IF TxUnused(k, tx) /\ ReceiptUnused(k, receipt)
       THEN Settle(k, tx, receipt)
       ELSE SettleAborts(k)
    /\ UNCHANGED <<pollarVars, chainVars>>

\* The database rolls it back: a deadlock, a timeout, a restart.
SettleIsLost(k) ==
    /\ SettleAborts(k)
    /\ Fault
    /\ UNCHANGED <<pollarVars, hskLoans, hskProofs, buried, pool, outcome>>

\* Its caller is answered, one way or the other.
Answered(a) ==
    LET j == job[a] IN
    /\ j.pc = "ANSWER"
    /\ settling[j.k] # j.tx
    /\ Reconciled(a)
    /\ UNCHANGED <<payment, ledgerNow, lease, dbVars, chainVars>>

-----------------------------------------------------------------------------
(* SettlementService.tick: candidate, anchor, release. *)

\* pollar_claim_worker; a tick that does not get the lease does nothing.
ClaimLease(w) ==
    /\ job[w].pc = "IDLE"
    /\ lease = Null
    /\ lease' = w
    /\ Goto(w, "CANDIDATE")
    /\ UNCHANGED <<payment, ledgerNow, dbVars, chainVars>>

\* One candidate that is due, if there is one.  Which are due, and which is
\* first, is left open here.
TakeCandidate(w) ==
    /\ job[w].pc = "CANDIDATE"
    /\ \/ Goto(w, "ANCHOR")
       \/ \E k \in Installment : \E tx \in Pending(k) :
             job' = [job EXCEPT ![w] = [Idle EXCEPT !.pc = "VERIFY", !.k = k, !.tx = tx]]
    /\ UNCHANGED <<payment, ledgerNow, lease, dbVars, chainVars>>

Verified == {k \in Installment : intent[k].status = "VERIFIED"}

\* One verified intent, if there is one.
TakeAnchor(w) ==
    /\ job[w].pc = "ANCHOR"
    /\ \/ Verified = {} /\ Goto(w, "RELEASE")
       \/ \E k \in Verified :
             job' = [job EXCEPT ![w] = [Idle EXCEPT !.pc = "EXISTING", !.k = k]]
    /\ UNCHANGED <<payment, ledgerNow, lease, dbVars, chainVars>>

Release(w) ==
    /\ job[w].pc = "RELEASE"
    /\ lease' = IF lease = w THEN Null ELSE lease
    /\ Finish(w)
    /\ UNCHANGED <<payment, ledgerNow, dbVars, chainVars>>

\* until_at passes, whatever the owner is doing.
LeaseExpires ==
    /\ lease # Null
    /\ lease' = Null
    /\ UNCHANGED <<payment, ledgerNow, job, dbVars, chainVars>>

-----------------------------------------------------------------------------
(* SettlementAnchorService.anchor. *)

\* readExisting: the proof of k among those with two confirmations.
BuriedProofOf(k) == {j \in ProofOf(k) : j <= buried[LoanOf[k]]}

IntentProof(k) == PollarProof(intent[k].receipt, intent[k].tx)

Matches(k, j) == hskProofs[LoanOf[k]][j].data = IntentProof(k)

\* Mutant: nothing recovers from success on the chain and failure after it.
ExistingIsConflict(w) ==
    LET k == job[w].k IN
    /\ job[w].pc = "EXISTING"
    /\ Goto(w, IF BuriedProofOf(k) = {} THEN "SEQUENCE" ELSE "RELEASE")
    /\ UNCHANGED <<payment, ledgerNow, lease, dbVars, chainVars>>

\* A proof that is already there is only to be marked; another one is a
\* conflict that will be tried again.
Existing(w) ==
    LET k == job[w].k IN
    /\ job[w].pc = "EXISTING"
    /\ \/ BuriedProofOf(k) = {} /\ Goto(w, "SEQUENCE")
       \/ \E j \in BuriedProofOf(k) :
             Goto(w, IF Matches(k, j) THEN "MARK" ELSE "RELEASE")
    /\ UNCHANGED <<payment, ledgerNow, lease, dbVars, chainVars>>

\* The head of the chain is read: it must be this installment's turn.
Sequence(w) ==
    /\ job[w].pc = "SEQUENCE"
    /\ Goto(w, IF NextOnChain(job[w].k) THEN "SEND" ELSE "RELEASE")
    /\ UNCHANGED <<payment, ledgerNow, lease, dbVars, chainVars>>

SendProof(w) ==
    LET k == job[w].k IN
    /\ job[w].pc = "SEND"
    /\ \/ Send(w, k, IntentProof(k)) /\ Goto(w, "WAIT")
       \/ ~ Estimate(k) /\ Goto(w, "RECHECK") /\ UNCHANGED chainVars
    /\ UNCHANGED <<payment, ledgerNow, lease, dbVars>>

\* tx.wait(2, 30000) and the proof read again.
WaitOk(w) ==
    LET k == job[w].k IN
    /\ job[w].pc = "WAIT"
    /\ outcome[w] = "OK"
    /\ \E j \in BuriedProofOf(k) : Matches(k, j)
    /\ job' = [job EXCEPT ![w].pc = "MARK", ![w].known = TRUE]
    /\ Abandon(w)
    /\ UNCHANGED <<payment, ledgerNow, lease, dbVars, hskLoans, hskProofs,
                   buried, faults>>

\* Reverted; or it takes longer than 30 seconds, which is a fault unless the
\* transaction is no longer there to be mined.
WaitFails(w) ==
    /\ job[w].pc = "WAIT"
    /\ \/ outcome[w] = "REVERTED" /\ UNCHANGED faults
       \/ outcome[w] = "NONE" /\ ~ InPool(w) /\ UNCHANGED faults
       \/ outcome[w] # "REVERTED" /\ Fault
    /\ Goto(w, "RECHECK")
    /\ Abandon(w)
    /\ UNCHANGED <<payment, ledgerNow, lease, dbVars, hskLoans, hskProofs, buried>>

\* Mutant: success is claimed without reading the proof again.
RecheckOptimistic(w) == TRUE

\* The exact proof may be there all the same.
FoundAfterFailure(w) ==
    \E j \in BuriedProofOf(job[w].k) : Matches(job[w].k, j)

Recheck(w) ==
    /\ job[w].pc = "RECHECK"
    /\ Goto(w, IF FoundAfterFailure(w) THEN "MARK" ELSE "RELEASE")
    /\ UNCHANGED <<payment, ledgerNow, lease, dbVars, chainVars>>

\* pollar_mark_anchored with the hash, when this call learned it.
Mark(w) ==
    /\ job[w].pc = "MARK"
    /\ MarkAnchored(job[w].k, job[w].known)
    /\ Goto(w, "RELEASE")
    /\ UNCHANGED <<payment, ledgerNow, lease, chainVars>>

\* A call of tick throws.  What reconcile throws is caught and the anchor has
\* its turn; after that the finally block releases the lease.
TickFails(w) ==
    /\ job[w].pc \notin {"IDLE", "RELEASE", "WAIT"}
    /\ Fault
    /\ Goto(w, IF job[w].pc \in {"VERIFY", "RESOLVE", "ANSWER"}
                THEN "ANCHOR" ELSE "RELEASE")
    /\ UNCHANGED <<payment, ledgerNow, lease, dbVars, hskLoans, hskProofs,
                   buried, pool, outcome>>

\* The process ends between two steps; a request it served is lost, and the
\* lease stays until it expires.
Crash(a) ==
    /\ job[a].pc # "IDLE"
    /\ Fault
    /\ Finish(a)
    /\ Abandon(a)
    /\ UNCHANGED <<payment, ledgerNow, lease, dbVars, hskLoans, hskProofs, buried>>

-----------------------------------------------------------------------------

\* The lenders' routes, the clients' requests and the payments made.
Outside ==
    \/ \E l \in Loan, w \in Wallet : ReceivingWallet(LenderOf[l], w)
    \/ \E tx \in Tx, from, to \in Wallet, good \in BOOLEAN :
          Transfer(tx, from, to, good) /\ UNCHANGED <<dbVars, chainVars>>
    \/ \E c \in Client, k \in Installment :
          \/ \E w \in Wallet : Prepare(c, k, w)
          \/ \E tx \in Tx : Report(c, k, tx)

Request(c) == Create(c) \/ Verify(c) \/ Resolve(c) \/ Answered(c)

Tick(w) ==
    \/ ClaimLease(w) \/ TakeCandidate(w)
    \/ Verify(w) \/ Resolve(w) \/ Answered(w)
    \/ TakeAnchor(w) \/ Existing(w) \/ Sequence(w) \/ SendProof(w)
    \/ WaitOk(w) \/ WaitFails(w) \/ Recheck(w) \/ Mark(w) \/ Release(w)

PollarStep ==
    \/ Outside
    \/ \E c \in Client : Request(c)
    \/ \E w \in Worker : Tick(w) \/ TickFails(w)
    \/ \E a \in Worker \cup Client : OperationsNotFound(a) \/ Crash(a)
    \/ \E k \in Installment : SettleEnds(k) \/ SettleIsLost(k)
    \/ LeaseExpires

-----------------------------------------------------------------------------

SettlementInit == DbInit /\ ChainInit /\ PollarInit

SettlementNext ==
    \/ PollarStep
    \/ ChainStep /\ UNCHANGED pollarVars

settlementVars == <<dbVars, chainVars, pollarVars>>

SettlementSpec == SettlementInit /\ [][SettlementNext]_settlementVars

\* Transactions are mined and buried, the timer of each process keeps calling
\* tick and tick's calls return, a transaction of the database ends, an
\* expired lease is found expired.
SettlementFairness ==
    /\ WF_settlementVars(Mine /\ UNCHANGED <<dbVars, pollarVars>>)
    /\ WF_settlementVars(Bury /\ UNCHANGED <<dbVars, pollarVars>>)
    /\ \A w \in Worker : WF_settlementVars(Tick(w))
    /\ \A k \in Installment : WF_settlementVars(SettleEnds(k))
    /\ WF_settlementVars(LeaseExpires)

SettlementFairSpec == SettlementSpec /\ SettlementFairness
-----------------------------------------------------------------------------

PollarTypeOK ==
    /\ DbTypeOK
    /\ ChainTypeOK
    /\ \A tx \in Tx : payment[tx] # Null =>
          payment[tx] \in [from : Wallet, to : Wallet, good : BOOLEAN,
                           ledger : 1 .. MaxTransfers]
    /\ ledgerNow \in 0 .. MaxTransfers
    /\ lease \in Worker \cup {Null}
    /\ \A a \in Worker \cup Client :
          job[a].pc # "IDLE" => job[a].k \in Installment \cup {Null}

\* Money first: an installment settled through Pollar was paid by a successful
\* transfer of its own, from the sender and to the recipient its intent fixed
\* when it was made and in a later ledger, though the lender changes its
\* address and many hashes are reported, for the wrong installments too.
SettledByRealPayment ==
    \A k \in Installment :
        Settled(k) =>
            LET p == payment[intent[k].tx] IN
            /\ p # Null
            /\ p.good
            /\ p.from = intent[k].sender
            /\ p.to = intent[k].recipient
            /\ p.ledger > intent[k].minLedger
            /\ p.from # p.to

\* A verified payment is anchored in the end: after an outage of HSK, a crash
\* between the chain and the database, or a lease that ran out, the workers
\* find the proof or send it again.
VerifiedIsAnchored ==
    \A k \in Installment :
        intent[k].status = "VERIFIED" ~> intent[k].status = "ANCHORED"

\* No payment that the intent describes is ever rejected: `durable candidate
\* is retried; invalid proofs are rejected' (settlement.service.ts:235).
OnlyInvalidIsRejected ==
    \A k \in Installment, tx \in Tx :
        candidate[k][tx] = "REJECTED" => ~ Pays(tx, k)
=============================================================================
