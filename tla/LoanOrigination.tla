-------------------------- MODULE LoanOrigination --------------------------
(***************************************************************************)
(* LoansService.createLoan: a loan is first registered on HSK Chain, under *)
(* an id drawn for it, and then written to `loans' and to `installments',  *)
(* in two statements with the audit record between them.  Nothing undoes   *)
(* an earlier step when a later one fails, and a client that repeats the   *)
(* request makes another loan.  Every await that matters to it is a step.  *)
(*                                                                         *)
(* A request is single use: a repetition is another request.  The audit    *)
(* record between the two statements is in module AuditTrail.              *)
(***************************************************************************)
EXTENDS Accounts, LoanTerms, Sequences

CONSTANTS
    Request,        \* requests to POST /api/loans
    LoanId,         \* ids that keccak256(uuid:now) can give
    Terms,          \* capital, rate or installment, count, frequency, start
                    \* date, currency, and whether to settle on Stellar
    Operator,       \* the backend's account on HSK Chain
    ZeroAddress,
    MaxFaults       \* bound on calls that fail and transactions lost

LargestUint16 == 65535

\* CreateLoanDto allows no more installments than the contract can count.
ASSUME OriginAssumption ==
    /\ Null \notin LoanId
    /\ MaxFaults \in Nat
    /\ MaxCount <= LargestUint16

\* CreateLoanDto and installmentDate accept dates of the calendar only.
ASSUME TermsAssumption ==
    \A t \in Terms : t.frequency \in Frequency /\ ValidDate(t.start)

VARIABLES
    hskLoans,       \* LibretaRegistry.loans
    hskIndex,       \* LibretaRegistry.borrowerLoans
    hskProofs,      \* LibretaRegistry.loanProofs: no payment is made here
    loan,           \* the rows of `loans', by hsk_loan_id, or Null
    schedule,       \* the rows of `installments' of a loan, in order
    origin,         \* where each request is
    sent,           \* requests whose registration waits to be mined
    faults

chainOfLoans == <<hskLoans, hskIndex, hskProofs>>
originVars == <<chainOfLoans, loan, schedule, origin, sent, faults>>

Chain == INSTANCE Registry WITH
    LoanIds <- LoanId, Addresses <- Address \cup {Operator}, ProofData <- {},
    MaxUint16 <- LargestUint16, loans <- hskLoans, loanProofs <- hskProofs,
    borrowerLoans <- hskIndex

Unsubmitted == [pc |-> "NEW", lender |-> Null, borrower |-> Null,
                wallet |-> Null, terms |-> Null, id |-> Null]

OriginInit ==
    /\ Chain!Init
    /\ loan = [l \in LoanId |-> Null]
    /\ schedule = [l \in LoanId |-> <<>>]
    /\ origin = [c \in Request |-> Unsubmitted]
    /\ sent = {}
    /\ faults = 0

Fault == faults < MaxFaults /\ faults' = faults + 1

Goto(c, pc) == origin' = [origin EXCEPT ![c].pc = pc]

\* The client is told that there is no loan, and there is none.
Refuse(c) == origin' = [origin EXCEPT ![c] = [Unsubmitted EXCEPT !.pc = "REFUSED"]]

-----------------------------------------------------------------------------

\* The whole schedule is computed before anything else; then the profile of
\* the user is read, which must be a lender's.
Submit(c, a, borrower, wallet, terms) ==
    /\ origin[c].pc = "NEW"
    /\ a \in users
    /\ \/ /\ Acceptable(terms)
          /\ \E p \in ProfileOf(a) :
                /\ p.role = "LENDER"
                /\ origin' = [origin EXCEPT ![c] =
                      [pc |-> "CHECK", lender |-> p.id, borrower |-> borrower,
                       wallet |-> wallet, terms |-> terms, id |-> Null]]
       \/ /\ Acceptable(terms) => \A p \in ProfileOf(a) : p.role # "LENDER"
          /\ Refuse(c)
    /\ UNCHANGED <<accountVars, chainOfLoans, loan, schedule, sent, faults>>

\* Mutant: the wallet of the request is not compared with the profile's.
MatchesById(r, p) == p.id = r.borrower /\ p.role = "BORROWER" /\ p.id # r.lender

\* Loans to be paid with Stellar are in USDC, and HSK Chain is the testnet,
\* which is taken for granted here.
CurrencyAllowed(terms) == terms.stellar => terms.currency = "USDC"

\* The borrower of a request, with the wallet it claims.
Matches(r, p) ==
    /\ p.id = r.borrower
    /\ p.role = "BORROWER"
    /\ p.id # r.lender
    /\ p.wallet = r.wallet

CheckParties(c) ==
    /\ origin[c].pc = "CHECK"
    /\ IF /\ CurrencyAllowed(origin[c].terms)
          /\ \E p \in profiles : Matches(origin[c], p)
       THEN Goto(c, "REGISTER")
       ELSE Refuse(c)
    /\ UNCHANGED <<accountVars, chainOfLoans, loan, schedule, sent, faults>>

\* An id nobody has drawn, and the transaction is broadcast.
SendRegistration(c) ==
    /\ origin[c].pc = "REGISTER"
    /\ \E l \in LoanId :
          /\ \A d \in Request : origin[d].id # l
          /\ origin' = [origin EXCEPT ![c] = [@ EXCEPT !.pc = "WAIT", !.id = l]]
    /\ sent' = sent \cup {c}
    /\ UNCHANGED <<accountVars, chainOfLoans, loan, schedule, faults>>

\* The chain executes it, whether or not somebody still waits.
MineRegistration(c) ==
    LET r == origin[c] IN
    /\ c \in sent
    /\ Chain!RegisterLoan(Operator, r.id, r.wallet, r.terms.count)
    /\ sent' = sent \ {c}
    /\ UNCHANGED <<accountVars, loan, schedule, origin, faults>>

\* A node forgets it: tx.wait() has no timeout, so its request never ends.
DropRegistration(c) ==
    /\ c \in sent
    /\ sent' = sent \ {c}
    /\ Fault
    /\ UNCHANGED <<accountVars, chainOfLoans, loan, schedule, origin>>

\* tx.wait() answers after one confirmation.
Registered(c) == hskLoans[origin[c].id].registered

WaitRegistration(c) ==
    /\ origin[c].pc = "WAIT"
    /\ Registered(c)
    /\ Goto(c, "INSERT")
    /\ UNCHANGED <<accountVars, chainOfLoans, loan, schedule, sent, faults>>

\* Mutant: the loan waits for its borrower to accept it.
LoanRowDraft(r) == [lender |-> r.lender, borrower |-> r.borrower,
                    capital |-> r.terms.capital, count |-> r.terms.count,
                    installment |-> AmountOf(r.terms, 0), rate |-> r.terms.rate,
                    stellar |-> r.terms.stellar, currency |-> r.terms.currency,
                    status |-> "PENDING"]

LoanRow(r) == [lender |-> r.lender, borrower |-> r.borrower,
               capital |-> r.terms.capital, count |-> r.terms.count,
               installment |-> AmountOf(r.terms, 0), rate |-> r.terms.rate,
               stellar |-> r.terms.stellar, currency |-> r.terms.currency,
               status |-> "ACTIVE"]

ASSUME RowAssumption ==
    \A lender, borrower \in Uuid, terms \in Terms :
        LoanRow([lender |-> lender, borrower |-> borrower, terms |-> terms]) # Null

InsertLoan(c) ==
    LET r == origin[c] IN
    /\ r.pc = "INSERT"
    /\ loan[r.id] = Null
    /\ loan' = [loan EXCEPT ![r.id] = LoanRow(r)]
    /\ \/ Goto(c, "SCHEDULE") /\ UNCHANGED faults
       \/ Goto(c, "FAILED") /\ Fault    \* the answer is lost
    /\ UNCHANGED <<accountVars, chainOfLoans, schedule, sent>>

InstallmentRows(terms) ==
    [j \in 1 .. terms.count |->
        [amount |-> AmountOf(terms, j - 1), principal |-> PrincipalOf(terms, j - 1),
         due |-> InstallmentDate(terms.start, terms.frequency, j - 1)]]

\* CHECK (amount > 0), CHECK (principal_amount <= amount).
RowsAllowed(rows) ==
    \A j \in DOMAIN rows :
        rows[j].amount > 0 /\ rows[j].principal \in 0 .. rows[j].amount

\* Mutant: one insert for each installment, and the last is not waited for.
InsertAllButLast(c) ==
    LET r == origin[c] IN
    /\ r.pc = "SCHEDULE"
    /\ schedule' = [schedule EXCEPT ![r.id] =
          SubSeq(InstallmentRows(r.terms), 1, r.terms.count - 1)]
    /\ Goto(c, "DONE")
    /\ UNCHANGED <<accountVars, chainOfLoans, loan, sent, faults>>

\* All installments in one statement, and the answer to the client.
InsertSchedule(c) ==
    LET r == origin[c]
        rows == InstallmentRows(r.terms) IN
    /\ r.pc = "SCHEDULE"
    /\ \/ /\ RowsAllowed(rows)
          /\ schedule' = [schedule EXCEPT ![r.id] = rows]
          /\ \/ Goto(c, "DONE") /\ UNCHANGED faults
             \/ Goto(c, "FAILED") /\ Fault
       \/ /\ ~ RowsAllowed(rows)
          /\ Goto(c, "FAILED")
          /\ UNCHANGED <<schedule, faults>>
    /\ UNCHANGED <<accountVars, chainOfLoans, loan, sent>>

\* A call throws, or the process ends.  A transaction that was sent stays.
RequestFails(c) ==
    /\ \/ origin[c].pc \in {"CHECK", "REGISTER"} /\ Refuse(c)
       \/ origin[c].pc \in {"WAIT", "INSERT", "SCHEDULE"} /\ Goto(c, "FAILED")
    /\ Fault
    /\ UNCHANGED <<accountVars, chainOfLoans, loan, schedule, sent>>

OriginStep ==
    \E c \in Request :
        \/ \E a \in AuthUser, b \in Uuid, w \in Address, t \in Terms :
              Submit(c, a, b, w, t)
        \/ CheckParties(c)
        \/ SendRegistration(c)
        \/ MineRegistration(c)
        \/ DropRegistration(c)
        \/ WaitRegistration(c)
        \/ InsertLoan(c)
        \/ InsertSchedule(c)
        \/ RequestFails(c)

-----------------------------------------------------------------------------

\* A request that answered with success left a whole loan, whatever failed,
\* ran at the same time or was repeated: the contract has it with the number
\* of installments promised, `loans' has its row, and `installments' has one
\* row for each installment, no more and no less.
AcknowledgedLoanIsWhole ==
    \A c \in Request :
        LET r == origin[c] IN
        r.pc = "DONE" =>
            /\ hskLoans[r.id].registered
            /\ hskLoans[r.id].totalInstallments = r.terms.count
            /\ loan[r.id] = LoanRow(r)
            /\ schedule[r.id] = InstallmentRows(r.terms)

\* The tables never speak of a loan that HSK does not know, or knows with
\* other parties: the row's borrower is a borrower and the one whose wallet
\* the contract names, its lender another user's profile, and the backend's
\* account is the one that may confirm its payments.
RowIsRegistered ==
    \A l \in LoanId :
        /\ loan[l] # Null =>
              /\ hskLoans[l].registered
              /\ hskLoans[l].lender = Operator
              /\ hskLoans[l].totalInstallments = loan[l].count
              /\ \E b, d \in profiles :
                    /\ b.id = loan[l].borrower /\ b.role = "BORROWER"
                    /\ b.wallet = hskLoans[l].borrower
                    /\ d.id = loan[l].lender /\ d.role = "LENDER"
                    /\ d.auth # b.auth
        /\ schedule[l] # <<>> => loan[l] # Null

SumOf(cents) ==
    LET upTo[j \in 0 .. Len(cents)] ==
          IF j = 0 THEN 0 ELSE upTo[j - 1] + cents[j]
    IN  upTo[Len(cents)]

\* A stored schedule is the one agreed on: its principals add up to the
\* capital and, with a rate, its amounts to capital and interest, to the cent;
\* the dates follow each other, and a monthly one is in its own month, on the
\* day of the first or the last of the month.
ScheduleIsRight ==
    \A c \in Request :
        LET t == origin[c].terms
            rows == schedule[origin[c].id]
            amounts == [j \in DOMAIN rows |-> rows[j].amount]
            principals == [j \in DOMAIN rows |-> rows[j].principal]
        IN  origin[c].id # Null /\ rows # <<>> =>
              /\ SumOf(principals) = t.capital
              /\ SumOf(amounts) >= t.capital
              /\ t.rate # NoRate => SumOf(amounts) = TotalOf(t)
              /\ \A j \in 2 .. Len(rows) : rows[j - 1].due < rows[j].due
              /\ t.frequency = "MONTHLY" => \A j \in DOMAIN rows :
                    LET first == FirstOf(MonthAfter(t.start, j - 1))
                        next == FirstOf(MonthAfter(t.start, j))
                    IN  /\ rows[j].due \in first .. next - 1
                        /\ \/ rows[j].due - first = t.start.day - 1
                           \/ rows[j].due = next - 1 /\ next - first < t.start.day
=============================================================================
