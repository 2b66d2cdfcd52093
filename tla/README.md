# Verification of the Libreta backend

TLA+ models of the Libreta backend (NestJS, Supabase, HSK Chain, Stellar/Pollar), the TLC runs
that check them and the TLAPS proofs about them. Paths of the form `x.ts:n` are relative to the
repository; "database" is the PostgreSQL behind Supabase, "chain" is HSK Chain.

    tlc -workers 2 -config <Run>.cfg <MCModule>     # one run, see the table of runs
    tlapm RegistryProofs.tla                        # proofs, also the other *Proofs, PaymentsRefinement

## 1. The system

A lender registers a loan with 1 to 52 installments. Each installment is paid in cash, to a
collector who is online or not, or with a USDC transfer on Stellar. Each payment leaves a proof in
the contract `LibretaRegistry`, which accepts the proofs of a loan in order and from its lender
only (the backend's operator wallet). Three stores have to tell the same story: the chain, the
database and, for digital payments, Stellar. No transaction spans two of them.

| Component | State | Operations | Talks to |
|---|---|---|---|
| `LibretaRegistry` contract | `loans`, `loanProofs`, `borrowerLoans` | `registerLoan`, `confirmPayment` | emits events to the audit listeners |
| Payment tables (`migrations/20260912_pollar_settlements.sql`, `docs/Supabase.sql`) | `installments`, `loans.status`, `pollar_payment_intents`, `pollar_payment_candidates`, `pollar_wallet_routes`, `pollar_worker_lease` | `pollar_create_intent`, `pollar_observe`, `pollar_settle`, `pollar_mark_anchored`, `pollar_claim_worker`, `libreta_claim_cash`, the trigger `libreta_protect_payment`, updates by the services | called by all services |
| Pollar settlement (`modules/pollar/settlement.*`) | a job per request and per worker pass | `create`, `report`, `reconcile`, `receivingWallet`, `tick` | database, Horizon, anchoring |
| Verification (`pollar.service.ts`) | none | `verify` | Horizon |
| Anchoring (`settlement-anchor.service.ts`) | evidence cache | `assertReady`, `anchor`, `evidence` | chain |
| Cash collection (`modules/installments`) | one-time passwords in memory | `generateOtpChallenge`, `collectCash`, `checkAndCompleteLoan` | database, chain |
| Offline synchronisation (`modules/sync`) | `sync_queue` | `processBatch`, `processSinglePayment` | database, chain |
| Audit (`infrastructure/audit`, `scripts/audit-listener.mjs`) | `audit_logs`, `audit_outbox`, `audit_listener_state`, cursors and queues in memory | `record`, `flushOutbox`, `start`, `processEvent`, `flushCursor`; the script's `loop`, which never gets past its first query | database, chain |
| Loan origination (`modules/loans`) | `loans`, `installments`, the contract | `createLoan`, `calculateLoan`, `installmentDate` | database, chain |
| Users (`modules/auth`, `pollar/session.controller.ts`, the guard) | `profiles`, users of Supabase Auth | `register`, `profile`, the lookups of every other service | database, Supabase Auth |
| Collection routes (`modules/routes`) | `collection_routes`, `collection_route_items` | `assignRoute`, `getTodayRoute` | database |
| Passports and Unlock (`modules/passports`, `infrastructure/unlock`) | membership cache | `verifyKey`, `getAuditDossier`, `getSummary` | Unlock contract, database, chain, audit |
| Views and the list of settlements (`modules/borrower`, `modules/lender`, `settlement.service.ts`) | `passport_enabled`, evidence cache | `getPassport`, `updatePassport`, `getAnalyticsOverview`, `list` | database, chain |
| LRI, crypto, webhooks, scripts | none | pure functions, a signature check, tools run by hand | |

What makes each of them correct:

- *contract*: the proofs of a loan are installments 1..n in order; it is completed exactly when
  all are there; nothing registered is ever rewritten;
- *tables*: a payment has exactly one source; one Stellar transaction pays one installment; a
  Pollar installment is reserved only behind anchored ones; what is settled stays settled;
- *settlement and anchoring*: nothing is settled without a transfer to the snapshot of the intent;
  the row that says SYNCED has its proof on the chain; what was verified is anchored in the end;
- *cash*: a request that is acknowledged is booked and proved; nothing it writes is a transition
  the tables do not expect; a loan is completed when, and only when, all is paid;
- *audit*: nothing recorded is lost between its tables, cursors never pass what is not stored;
- *users and origination*: a user is one profile; a request that succeeded left the same loan on
  the chain, in `loans` and in `installments`; schedules add up to the cent;
- *routes*: a stop that was assigned stays on the sheet;
- *readers*: what is shown as verified or completed is, although payments go on between the reads
  of a report; what comes from a cache is no older than the cache allows.

Hard behaviours: a request and several workers reconcile the same candidate; a lease expires while
its owner still works; a transaction is dropped, mined late, or mined after its sender gave up;
the backend stops between the chain and the database; calls fail with or without having had their
effect; the device repeats an offline item; cash and Stellar race for the same installment; the
audit listener misses blocks between backfill and subscription; a loan is on the chain and not, or not
wholly, in the database; two requests create the profile of one user; a report is put together from
reads with payments between them; an old answer replaces a newer one in a cache. `PROJECT.json` lists each hazard at
its line with the properties that watch it.

## 2. Modules

| Module | Models | Notes |
|---|---|---|
| `Registry` | `contracts/LibretaRegistry.sol` | one action per transaction, `require`s as guards, `uint16` as `0..MaxUint16` |
| `PaymentBook` | abstract specification | a libreta whose installments go OPEN, reserved, paid, attested; no code of its own |
| `SettlementDb` | the SQL statements | one action per SQL function or update that decides on rows it has locked, or is a single `UPDATE`; `pollar_settle` tests the candidate without a lock and is two, `SettleBegins` and `Settle`, with loan, installment and intent locked in between (`settling`) |
| `HskChain` | the operator's transactions on `Registry` | extends `SettlementDb`, instantiates `Registry`; send, mine, drop, bury (second confirmation), and a budget of failures |
| `PollarSettlement` | `modules/pollar` | every awaited call of `create`, `report`, `reconcile`, `tick` and `anchor` is a step; `job[a].pc` names the await the actor is at |
| `CashCollection` | `modules/installments`, `modules/sync` | same style; `cash[r].pc` |
| `Payments` | both of the above on one database and one chain | composition: steps of either interleave |
| `AuditTrail` | `infrastructure/audit`, the audit tables | independent of the payment modules: the chain is a source of events in blocks |
| `AuditScript` | `scripts/audit-listener.mjs` | extends `AuditTrail` for chain and tables, with no backend running: `ScriptCycle` reads its cursor, and every query it makes throws |
| `LoanTerms` | `loan-calculation.ts`, `create-loan.dto.ts` | operators: cents as integers, dates as day numbers |
| `Accounts` | `auth.service.ts`, `session.controller.ts`, the guard, the repository of profiles | who a user is; `register_libreta_user` is used, not shown, by the repository |
| `LoanOrigination` | `loans.service.ts` with `registerLoan` | extends `Accounts` and `LoanTerms`, instantiates `Registry`; every await of `createLoan` is a step |
| `CollectionRoutes` | `modules/routes` | extends `LoanOrigination`: routes of the loans that come to be; `LendingSpec` is the three together |
| `PaymentFlow` | what readers may rely on of `Payments` | abstract: the order in which rows and proofs change; `Payments` is proved to implement it |
| `UnlockVerifier` | `unlock-verifier.service.ts` | the cache of memberships, with a clock |
| `ReliabilityIndex` | `lri-calculator.service.ts` | operators, exact tenths of a point |
| `PassportReports` | `modules/passports`, `borrower`, `lender`, `list` and `evidence` | the readers on top of `PaymentFlow` and `UnlockVerifier`; every read is a step |
| `MC*` | instances for TLC | small sets as model values |
| `*Proofs`, `PaymentsRefinement` | theorems | section 6 |
| `NumberFacts` | quotients, induction, sums over finite sets | lemmas for the other proofs; models no code |

How the modules compose: `Registry` is the contract in `HskChain` and in `LoanOrigination`;
`SettlementDb` and `HskChain` are shared by `PollarSettlement` and `CashCollection`, and
`Payments` interleaves these two. `Payments` implements `SettlementDb` and `PaymentFlow`
(`ImplementsDb`, `ImplementsFlow`), and `PassportReports` extends the latter: what is proved of the
readers rests on nothing of the payments but `PaymentFlow`. The state that `createLoan` leaves when
it succeeds (`AcknowledgedLoanIsWhole`) is the one the payment modules begin in.

How state corresponds to code. A row of a table is a record in a function from its key; SQL `NULL`
is the model value `Null`; amounts, wallets, hashes and dates are model values or left out. The
hash of a Pollar receipt is a function of installment and transaction, as in `settlement.service.ts`, and
hashes of different inputs differ. A Stellar payment is `[from, to, good, ledger]`, with `good` for
a successful transfer of the right amount and asset: the comparisons of `pollar.service.ts:101-129`
that the properties do not tell apart are one bit. A handler is cut at its awaits and nowhere else:
what happens between two awaits is one step. An error thrown at an await ends the handler
the way its `catch` does, and costs one unit of `MaxFaults`.

Modelled from use, since their code is not in the repository: Horizon (`Transfer`), ethers and the chain
(`Estimate`, `Mine`, `Drop`, `Bury`, `MineBlock`, ...), and the lock of Unlock (`MembershipChanges`). The contract trusts its caller's hashes; the
operator is the only caller in `HskChain`, while `Registry` by itself lets any account call.

## 3. Runs

Each run ends within about two minutes on two workers; most need seconds.

| Run (`.cfg`) | Question | Result |
|---|---|---|
| `registry` (`Registry`) | contract: complete, ordered, immutable, whoever calls | holds |
| `settlement_db` (`SettlementDb`) | tables: seven invariants, finality, and that they implement `PaymentBook` | holds |
| `payments` (`Payments`) | all ways to pay, on the same installments: do chain and tables agree, is what is acknowledged booked, can what was verified always be anchored, is every write one `SettlementDb` allows and every change one `PaymentFlow` shows? | holds |
| `pollar_recovery` (`PollarRecovery`) | two processes, one lease, two failures: is a verified payment anchored in the end? | holds (liveness) |
| `pollar_rejection` (`PollarRejection`) | are only invalid transfers rejected? | **violated** |
| `offline_retry` (`OfflineRetry`) | is an offline item that is sent again booked in the end? | **violated** |
| `offline_completion` (`OfflineCompletion`) | is a loan completed only when paid? | **violated** |
| `audit_listener` (`AuditListener`) | backend recording and backfill with 4 failures and two crashes: is anything returned, backfilled or parked missing, and is what is parked drained in the end? | holds (also liveness) |
| `audit_script` (`AuditScript`) | does the standalone script store every event in the end? | **violated** (liveness) |
| `audit_block_lost` (`AuditBlockLost`) | does the listener's cursor ever pass an event nobody has? | **violated** |
| `lending` (`Lending`) | users, profiles, loans and routes with two failures anywhere: is what succeeded whole, exact and kept? | holds |
| `dossier` (`Dossier`) | reports and lists while loans are paid: is anything shown as verified or completed that is not, or older than its cache allows? | holds |

Four runs start in several kinds of states, so that their size is the sum and not the product of
the questions. `payments`: a Stellar payment, its worker and an offline item; or two collections
online and an offline item. `lending`: the empty system, in which users and loans come to be; or two
loans that have come to be, of which routes are made. `audit_listener`: a backend that has stopped once after one failure, with three
left; or a payment that three failures have parked, with one left for what drains it. `dossier`: one report and the payments of two
loans; two lists with evidence, the last payment of a loan and the clock; a dossier, another call of
`verifyKey` and the clock. Each kind is a state the program can be in: `Established` of `MCLending`,
for one, is what two successful requests leave.

`ImplementsDb` is the specification of `SettlementDb` as a property of the services: it ties the
theorems of `SettlementDb` to what the services really send. `ImplementsFlow` does the same for
`PaymentFlow` and the theorems about the readers. Both are also proved (section 6), and both except one write, the completion after a
failed read at `sync.service.ts:151` (`CompleteUnread` of an offline item), which
`offline_completion` shows to break the tables' own invariant: the theorems hold of the system
as long as that read does not fail.

### Findings

Each violated run checks one sentence of the repository's own documents or comments.

1. *A failed read completes a loan* (`sync.service.ts:154`). `findByLoanId` returns `[]` on
   error, and `every` of nothing is true. `offline_completion`.
2. *An offline item that failed once is stuck* (`sync.service.ts:116`). The retry inserts its
   `client_tx_id` again, which is UNIQUE, and stops there. `offline_retry`.
3. *A valid transfer may be rejected for good* (`pollar.service.ts:110`). A 404 of the operations
   of a known transaction counts as a mismatch. `pollar_rejection`.
4. *Blocks mined around the start of the listener are skipped* (`audit-listener.service.ts:112`).
   Backfill ends at the block read at the beginning, each subscription starts at the one that is
   the latest when it is attached. `audit_block_lost`.
5. *The standalone script stores nothing* (`audit-listener.mjs:142`). Its `Contract` is made from
   bare event names, of which ethers keeps none, so `queryFilter` throws for every range, the loop
   logs the error and goes on for ever. `audit_script`.

Limits of the code met on the way, which the bounds of the passing runs state exactly:

- `AuditService.record` loses an event whose three direct writes and outbox insert all fail
  (`audit.service.ts:185`): the outbox is in the database that is down. `RecordedIsDurable` holds
  with three failing calls and not with four.
- `pollar_settle` tests a candidate (`20260912_pollar_settlements.sql:142`) and sets it to VERIFIED
  six lines on without asking again, and `SettlementRepository.reject` takes none of its locks: a
  rejection that commits in between is overwritten. The candidate agrees with its intent in the end
  (`OneVerifiedCandidate`), and no other step undoes a rejection (`SettlementIsFinal`).
- The second settle of a hash and the mark of its anchor lock installment and intent in opposite order
  (`:135-136`, `:159-162`): the database may have to end one of them, which is a failed call.
- A payment recorded by its service has the log index 0 in its idempotency key
  (`installments.service.ts:171`, `loans.service.ts:154`), the listener's row the real index: one
  event may be two rows. The model keeps both.
- `createLoan` registers on the chain first and repeats nothing: a request that failed may leave a
  loan on the chain alone, or with its row in `loans` and no installment, and the client's
  repetition makes another loan (`loans.service.ts:117-170`). What the model shows is that this is
  all: no success is answered for such a loan, and no row exists without its registration.
- `tx.wait()` of a registration has no timeout (`hsk-blockchain.service.ts:75`): when the
  transaction is dropped, its request never ends.
- `getTodayRoute` and `assignRoute` take the id of the user in Supabase Auth for the id of its profile
  (`collector.controller.ts:12`, `lender-routes.controller.ts:13`). Where the two differ, the foreign key
  refuses the lender, and the collector is shown an empty sheet whatever was assigned to its profile,
  although `docs/PROJECT_DOCUMENTATION.md:200` promises it the sheet of the day. `AssignedStopsStay` therefore is of
  collectors whose two ids agree. A sheet whose route or items could not be read is empty too, and
  does not say so (`supabase-route.repository.ts:27-30`, `:51-54`).
- Profiles are taken as unchanging; a policy lets a user update its own (`docs/Supabase.sql:201`), after
  which what `RowIsRegistered` says of wallets is of the profile as it was.
- A read of the tables that fails is an empty answer (`supabase-loan.repository.ts:71`,
  `supabase-installment.repository.ts:44`), and a report built on it is smaller than the truth and does not say so:
  `CompletedLoansAreWhole` speaks of reports without a failed read (`whole`).
- Capital paid back, in the index, is all that was paid, with interest
  (`passports.service.ts:66`); the calculator bounds the ratio, so the index stays below 100.
- A loan whose last installment is paid in cash online stays ACTIVE if the call after the booking
  fails (`installments.service.ts:175`); nothing repeats it.

## 4. Bounds

- Two loans with three installments in `SettlementDb`, one with two elsewhere: order within a loan
  and the last installment need two, uniqueness across loans needs the third.
- Two wallets, so that the receiving wallet changes under an intent, and two Stellar transactions in
  the tables; one in `payments`, where it may be reported for the wrong installment of the two.
  `MaxTransfers` bounds the ledgers that close.
- `MaxPending = 1` (5 in the code) reaches the limit of unresolved candidates with two hashes.
- `MaxUint16 = 3`: the boundary of the counters is reached with a loan of three installments.
- `MaxPool = 2`: two transactions of the operator are under way at once, so one can be mined between
  another's estimate and its own block.
- Two workers contend for the lease; three requests collect two installments, so that two meet.
- `MaxFaults` is a total over a behaviour. Two failures are the least that lets a transaction be
  late *and* its wait fail elsewhere. In `AuditTrail` the bound is exact: `record` survives three
  failing calls and not four (three direct writes and the insert); of the four of the run one is spent
  elsewhere, before them or in the draining of what they parked.
- `MaxBlock` is two or three, and `BackfillBlocks` covers it: a backfill from a shorter window is not
  claimed to be complete by anyone. After the crash that is left a restart meets a cursor of its own making.
- `lending`: two users and two ids more for profiles, so that the id of a profile may or may not be
  that of its user and two requests can insert one each; two requests for a profile, two for a loan and two
  assignments, since every conflict is between two; rated terms with remainders in capital and
  total, on a monthly schedule from January 31st across a leap February, and terms that do not cover the
  capital. The arithmetic is proved for all terms (section 6).
- `dossier`: a loan of two installments, so that a report may count it between the two, one of one
  that is paid late; two receipts, two lists for one entry of the cache, two calls of
  `verifyKey` of one viewer. Lifetimes of two ticks, calls of one and a clock of three let an entry be
  made, used, run out and be used once more.
- Symmetry is used for model values that no constant tells apart, and never with a liveness
  property.
- `CHECK_DEADLOCK FALSE` where everything is paid or a bound is reached: the system has nothing
  more to do then.

## 5. Fairness

- Blocks are mined and buried (`Mine`, `Bury`): the chain makes progress with what its pool holds.
- Each worker keeps passing (`Tick`): the interval timer of `settlement.service.ts:29-37`; a lease that nobody
  renews expires (`LeaseExpires`): its clock is the database's. A `pollar_settle` that has begun ends
  (`SettleEnds`): it waits for no one.
- A request in progress proceeds (`Serve`): the event loop; and a device sends again what was
  answered with an error: the offline client of `BACKEND_SPECIFICATION.md`.
- The outbox and its deletions proceed: `setInterval` of `audit.service.ts`; the script's loop is
  `while (running)`, and its claim fails although it keeps going (`ScriptCycle` in `AuditScript`).
- Nothing is assumed of clients of the API, of Stellar, or of the chain accepting anything; failures
  and crashes are never fair and are bounded, which stands for "the fault ends".

All fairness is weak: no step that is waited for is disabled again and again by others.

## 6. Proofs

TLAPS proves, for all values of the constants that satisfy the named assumptions, every invariant
and every safety action property that the passing runs check. TLC evaluates the assumptions on the instances of
the runs.

**The contract** (`RegistryProofs`; `RegistryAssumption`: the zero address is not an account,
`MaxUint16 > 0`): `TypesOfRegistry`, `ProofsInOrder`, `CompletionIsExact`, `ImmutableHistory`,
`IndexIsExact`. The inductive invariant adds to the properties that an unregistered loan has no terms
and no proofs (`UnregisteredIsEmpty`): without it, registering could find proofs already there.

**The tables** (`SettlementDbProofs`; `DbAssumption`: numbers identify the installments of a loan,
Pollar receipts are not cash receipts; `NullAssumption`): `TypesCorrect`, `OneSource`, `UsedOnce`,
`InOrder`, `CompletionSound`, `CandidatesResolved`, `SyncedMeansAnchored`, `FinalSettlement`, and
`TablesImplementBook`, that every statement is a step of `PaymentBook` or of nothing. The heart of the
inductive invariant is `RowsAgree`: for each installment the row, its intent and its candidates fit
together (`RowInv`). No property alone is inductive: that a settled installment is the only one with
its transaction needs that its intent and its row name the same one, and completion needs that a
paid row keeps its rail. Each statement of the database has a lemma; those that change one
installment share `RowUpdate`. `LockedIsOpen` joins the two halves of
`pollar_settle`: while one is in progress its intent is CREATED. Nothing is said of the candidate, which
may have been rejected meanwhile.

**The services on tables and chain** (`PaymentsProofs`; besides the above, `ChainAssumption`: a loan has
between 1 and `MaxUint16` installments, numbered from 1; `PollarAssumption`, `CashAssumption`,
`PaymentsAssumption`: workers, clients and requests are different actors, a request's receipt is its
own): `PaymentsTypesCorrect`, `MoneyFirst`, `SyncedIsProved`, `ProofsTellTheTables`, `AnchorIsPossible`,
`ReceiptsAreGood`. They follow from one invariant, `PaymentsInv` (theorem `PaymentsInvariant`), which
says of every place a payment can be at what must be in tables and chain already:

- `ContractInv`: the operator's loans, with as many proofs as the contract counts, in order, and no
  more of them buried than there are;
- `ProofsTell`: a proof is of the intent that settled the installment, or of a request in cash on a
  row reserved for cash. This excludes that cash and Stellar both prove one installment;
- `PoolInv`: a transaction that waits in the pool is one the chain may take: its sender may have
  crashed or given up long ago, so this is of the transaction and not of its sender;
- `CashInv`: a request that sends holds the rail; one that was told of success is proved; one that was
  acknowledged is booked with its own receipt;
- `PollarInv`: a worker past its verification has a transfer that pays the intent, also if the lease
  went to another meanwhile; one that marks has seen the proof buried;
- `LockedInv`: a `pollar_settle` in progress, whether or not its caller is still there, has a good transfer
  for its intent;
- `SyncInv`: `SYNCED` has its proof. By itself it is not inductive: `pollar_mark_anchored` is safe only
  because of what `PollarInv` says of the job, which in turn rests on `PoolInv` and `ProofsTell`.

What an actor has seen stays true whatever the others do, because tables and chain only grow
(`Grows`); each action then has a lemma for what it changes itself.

**The services implement their abstractions**: `TablesUsedAsMeant` (`ImplementsDb`) and, in
`PaymentsRefinement`, `PaymentsRefineFlow` (`ImplementsFlow`). With the first, the theorems about the tables, and with
the second, those about the readers, hold of the services, up to a completion after a failed
read (`CompleteUnread`), the exception that both properties name. The refinement needs of the invariant that
what is settled is at its turn, and that a booking in cash has the receipt that was proved.

**The audit trail** (`AuditTrailProofs`; `AuditAssumption`, `AuditNullAssumption`: events are finite, and
`Null` is none of them): `AuditTypesCorrect`, `DurableIsForever`, and two that state the limit of the code as a
hypothesis: `RecordedStaysDurable` and `BackfillLeavesNoHole` for `MaxFaults <= DirectAttempts` (three failing
calls are survived, the fourth takes the outbox too). The invariants count the attempts of a call in
progress against the failures so far (`AttemptsCounted`), and say of each event of a range where it is:
stored, to be done, or at hand (`BackfillInv`).

**Users, loans, routes** (`LendingProofs`; `AccountsAssumption`, `OriginAssumption`, `TermsAssumption`,
`RowAssumption`, `LoanTermsAssumption`): `UsersAreOne`, `AnsweredLoansAreWhole`, `RowsAreRegistered`,
`StopsStay`, `LendingTypesCorrect`. The inductive invariant follows a request (`RequestOK`): before its
transaction is sent it has no id; what the contract and the tables have under an id is of the
request that drew it (`LoanOK`); after each insert the row is there. It needs that two requests never
share an id, and that no profile changes or goes. `StopsStay` needs that a stop's loan is never removed
by another upsert, and is of collectors whose two ids agree.

The arithmetic of schedules is proved for all terms that are accepted: `SharesAreEven`,
`ScheduleMeetsTheChecks` (the rows satisfy the CHECKs of `docs/Supabase.sql:88-89`, so the last insert of
`createLoan` is never refused for them), `SharesAddUp` and `SchedulesAddUp` (no cent is lost, by induction over the
installments), `SchedulesFollowTheCalendar` (dates increase; a monthly one is on the day of the start, or
on the last day of a shorter month, across years and leap years). `SchedulesAreRight`: every schedule
in the table is such a one.

**The readers** (`PassportReportsProofs`; `FlowAssumption`, `ReportAssumption`, `UnlockAssumption`): of the flow
alone `FlowTypes`, `RowsAgree`, `ClosedLoansArePaid`, from an invariant which adds that an unpaid row
has no receipt, and that an installment which is proved and not booked is one in cash.
`PaymentsUndisturbed` gives the readers all of this; payments only add (`FlowGrows`), so that what a
report, a list or the cache has read stays true (`ReadBefore`, `RowsBefore`, `AnswerOK`):
`CompletedAreWhole`, `ShownIsProved`. With the clock in the invariant, `EvidenceOK` and `CacheOK` bound the
age of an entry and of the call that is about to make one: `ShownIsFresh`, `AnswersAreRecent`.
`IndexIsBounded` is the arithmetic of the index for all inputs; `ReportTypesCorrect` applies it to what
any report has listed.

`NumberFacts` has what these share. The library's induction theorems take an operator, which the
provers cannot instantiate; induction is therefore stated with sets (`NaturalsByStep`: a set with 0 that
is closed under successor has every natural number), and from it that running totals and sums
over a finite set exist and are numbers (`RunningTotals`, `FiniteSums`, `SumsAreNatural`).

Only model-checked: the liveness properties `VerifiedIsAnchored` and `OutboxDrains`, since the prover has
no rule for fairness and `ENABLED`; and the five violated runs, which are counterexamples.

## 7. Not modelled

- Roles as far as a guard only asks for a token, sessions and passwords: Supabase Auth.
- Cryptography: hashes of different inputs differ, signatures hold or do not.
- The delays of the settlement queue, and hence who is served first: `PollarSettlement` takes any
  candidate that is due. The waiting times of the audit retries.
- Reorganisations of either chain deeper than the confirmations waited for.
- The sums a lender's overview makes over payment methods and days, `getActiveLoan` and
  `markItemVisited` (no caller): they show rows or are not run.
- `webhooks.service.ts` verifies a signature and keeps nothing; HTTP, filters, interceptors, start-up;
  the scripts run by hand.

The `not_modelled` and `partly` entries of `PROJECT.json` give the reason for each part.

## 8. Plan

Done, in the order of the money: contract, tables, the two ways to pay, their composition and the
trail; then what comes before the payments (users, terms, origination, routes) and after them (the
readers), with the proofs of section 6.

What is left, in this order:

1. `SettlementQueue`: `next_attempt_at`, one candidate and one anchor per pass, the 60 s delays;
   property: a resolvable candidate is resolved although others never are.
2. Proofs: the readers on the services themselves, `PassportReports` with the variables of `Payments` in the place
   of those of `PaymentFlow`, so that `PaymentsRefineFlow` and the theorems about readers become one; the sum of
   `repaid` in the index, which is now only shown to be a number.
3. Several days and the visited stops of `CollectionRoutes`, when `markItemVisited` gets a caller.
