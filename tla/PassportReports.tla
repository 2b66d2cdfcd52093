-------------------------- MODULE PassportReports --------------------------
(***************************************************************************)
(* Everybody who reads a libreta while it is paid: the public summary of a *)
(* passport, the borrower's and the lender's own views, the audit dossier  *)
(* behind the membership of Unlock, and the list of loans with evidence    *)
(* from HSK.  A report is put together from several reads, with payments   *)
(* between any two, and the evidence is kept for a while.                  *)
(*                                                                         *)
(* The tables and the chain are those of PaymentFlow.  An evidence call is *)
(* modelled for one loan of a list, all of which are registered.           *)
(***************************************************************************)
EXTENDS PaymentFlow, UnlockVerifier, ReliabilityIndex, FiniteSetsExt

CONSTANTS
    Newest,         \* the loans in the order they are read
    Report,         \* requests for a report
    List,           \* requests to GET /api/pollar/settlements
    Amount,         \* of an installment
    Capital,        \* of a loan
    Late,           \* <<loan, number>> of the installments that are paid late
    EvidenceTtl,    \* 30 s
    ErrorTtl,       \* 5 s
    MaxFaults       \* bound on the reads that fail

ASSUME ReportAssumption ==
    /\ Report \subseteq Access
    /\ EvidenceTtl \in Nat
    /\ ErrorTtl \in 1 .. EvidenceTtl
    /\ Newest \in Seq(Loan) \ {<<>>}
    /\ \A l \in Loan : \E j \in 1 .. Len(Newest) : Newest[j] = l
    /\ Amount \in [Loan -> Nat]
    /\ Capital \in [Loan -> Nat]
    /\ MaxFaults \in Nat

VARIABLES
    published,      \* profiles.passport_enabled of the borrower
    report,         \* where each report is, and what it has read
    evidence,       \* evidenceCache, for each loan
    list,           \* where each list is, and what it has read
    buriedAt,       \* when each proof had its second confirmation
    faults

reportVars == <<published, report, evidence, list, buriedAt, faults>>
dossierVars == <<flowVars, now, unlockVars, reportVars>>

NewReport == [pc |-> "NEW", kind |-> "OWN", todo |-> <<>>, completed |-> {},
              seen |-> <<>>, paid |-> {}, verified |-> {}, whole |-> TRUE]

NewList == [pc |-> "NEW", loan |-> Newest[1], rows |-> <<>>,
            status |-> "UNAVAILABLE", receipts |-> <<>>, at |-> 0]

NoEvidence == [until |-> 0, status |-> "UNAVAILABLE", receipts |-> <<>>]

ReportsInit ==
    /\ published \in BOOLEAN
    /\ report = [q \in Report |-> NewReport]
    /\ evidence = [l \in Loan |-> NoEvidence]
    /\ list = [q \in List |-> NewList]
    /\ buriedAt = [l \in Loan |-> <<>>]
    /\ faults = 0

Fault == faults < MaxFaults /\ faults' = faults + 1

\* Mutant: the number is enough.
HskNumbered(r, seen, n) == n \in DOMAIN seen

\* A receipt in the tables is confirmed by the proof with its number.  A row
\* that is not paid has no receipt.
HskVerified(r, seen, n) == n \in DOMAIN seen /\ seen[n].receipt = r.receipt

PaidIn(rows) == {n \in DOMAIN rows : rows[n].paid}

-----------------------------------------------------------------------------
(* Reports. *)

\* What a report leaves alone.
ReadOnly == UNCHANGED <<flowVars, now, unlockVars, published, evidence, list, buriedAt>>

Become(q, next) == report' = [report EXCEPT ![q] = next]

To(q, pc) == Become(q, [report[q] EXCEPT !.pc = pc])

\* updatePassport: the borrower publishes the passport, or suspends it.
UpdatePassport ==
    /\ published' = ~ published
    /\ UNCHANGED <<flowVars, now, unlockVars, report, evidence, list, buriedAt, faults>>

\* The profile is read.  The borrower and the lender always see their own.
StartReport(q, kind) ==
    /\ report[q].pc = "NEW"
    /\ Become(q, [NewReport EXCEPT !.kind = kind, !.pc =
          IF kind # "OWN" /\ ~ published THEN "NOT FOUND"
          ELSE IF kind = "DOSSIER" THEN "VERIFY" ELSE "LOANS"])
    /\ ReadOnly /\ UNCHANGED faults

\* The dossier waits for verifyKey.
AfterVerification(q) ==
    /\ report[q].pc = "VERIFY"
    /\ access[q].pc # "NEW" /\ ~ Verifying(q)
    /\ To(q, IF access[q].pc = "GRANTED" THEN "LOANS" ELSE "REFUSED")
    /\ ReadOnly /\ UNCHANGED faults

\* findByBorrowerId, findByLenderId: an error is an empty answer.
ReadLoans(q) ==
    /\ report[q].pc = "LOANS"
    /\ \/ /\ Become(q, [report[q] EXCEPT !.pc = "NEXT", !.todo = Newest,
                                         !.completed = closed])
          /\ UNCHANGED faults
       \/ Become(q, [report[q] EXCEPT !.pc = "NEXT", !.whole = FALSE]) /\ Fault
    /\ ReadOnly

\* getLoanProofs, before the rows of the same loan, at the head of the chain.
\* Without an answer there is no dossier.
ReadProofs(q) ==
    LET r == report[q] IN
    /\ r.pc = "NEXT" /\ r.kind = "DOSSIER" /\ r.todo # <<>>
    /\ \/ /\ Become(q, [r EXCEPT !.pc = "ROWS", !.seen = proofs[Head(r.todo)]])
          /\ UNCHANGED faults
       \/ To(q, "FAILED") /\ Fault
    /\ ReadOnly

\* findByLoanId: again, an error is an empty answer.
ReadRows(q) ==
    LET r == report[q]
        l == Head(r.todo)
        With(rows) ==
          [r EXCEPT !.pc = "NEXT", !.todo = Tail(@), !.seen = <<>>,
                    !.paid = @ \cup {<<l, n>> : n \in PaidIn(rows)},
                    !.verified = @ \cup {<<l, n>> : n \in
                       {m \in PaidIn(rows) : HskVerified(rows[m], r.seen, m)}}]
    IN
    /\ \/ r.pc = "NEXT" /\ r.kind # "DOSSIER" /\ r.todo # <<>>
       \/ r.pc = "ROWS"
    /\ \/ Become(q, With(row[l])) /\ UNCHANGED faults
       \/ Become(q, [With(<<>>) EXCEPT !.whole = FALSE]) /\ Fault
    /\ ReadOnly

\* Mutant: the loans are counted when their installments have been.
FinishCounting(q) ==
    /\ report[q].pc = "NEXT" /\ report[q].todo = <<>>
    /\ Become(q, [report[q] EXCEPT !.pc = "DONE", !.completed = closed])
    /\ ReadOnly /\ UNCHANGED faults

\* The index is calculated and the report answered.
Finish(q) ==
    /\ report[q].pc = "NEXT" /\ report[q].todo = <<>>
    /\ Become(q, [report[q] EXCEPT !.pc = "DONE"])
    /\ ReadOnly /\ UNCHANGED faults

\* What calculate is given; everything paid counts as capital paid back.
ScoreOf(r) ==
    LriScore(Cardinality(r.paid \ Late), Cardinality(r.paid), Cardinality(r.completed),
             MapThenSumSet(LAMBDA d : Amount[d[1]], r.paid),
             MapThenSumSet(LAMBDA l : Capital[l], Loan))

ReportStep ==
    \/ UpdatePassport
    \/ \E q \in Report :
          \/ \E kind \in {"SUMMARY", "OWN", "DOSSIER"} : StartReport(q, kind)
          \/ AfterVerification(q) \/ ReadLoans(q) \/ ReadProofs(q) \/ ReadRows(q)
          \/ Finish(q)

-----------------------------------------------------------------------------
(* The list of SettlementService, with evidence. *)

\* What a list leaves alone, besides what it caches.
ListOnly == UNCHANGED <<flowVars, now, unlockVars, published, report, buriedAt>>

\* The loan is read with its installments in one statement.
StartList(q, l) ==
    /\ list[q].pc = "NEW"
    /\ list' = [list EXCEPT ![q] =
          [NewList EXCEPT !.pc = "LOOK", !.loan = l, !.rows = row[l]]]
    /\ ListOnly /\ UNCHANGED <<evidence, faults>>

\* Mutant: an entry is good for ever.
FreshForEver(l) == evidence[l].until > 0

Fresh(l) == evidence[l].until > now

\* evidence looks in its cache ...
LookEvidence(q) ==
    LET e == evidence[list[q].loan] IN
    /\ list[q].pc = "LOOK"
    /\ list' = [list EXCEPT ![q] =
          IF Fresh(list[q].loan)
          THEN [@ EXCEPT !.pc = "DONE", !.status = e.status,
                         !.receipts = e.receipts, !.at = now]
          ELSE [@ EXCEPT !.pc = "FETCH"]]
    /\ ListOnly /\ UNCHANGED <<evidence, faults>>

\* ... asks the chain for the proofs one block below the head ...
FetchEvidence(q) ==
    LET l == list[q].loan IN
    /\ list[q].pc = "FETCH"
    /\ \/ /\ list' = [list EXCEPT ![q] = [@ EXCEPT !.pc = "STORE", !.at = now,
                !.status = "VERIFIED", !.receipts = SubSeq(proofs[l], 1, buried[l])]]
          /\ UNCHANGED faults
       \/ /\ list' = [list EXCEPT ![q] = [@ EXCEPT !.pc = "STORE", !.at = now]]
          /\ Fault
    /\ ListOnly /\ UNCHANGED evidence

\* ... and keeps what it heard, even over something newer.
StoreEvidence(q) ==
    LET r == list[q] IN
    /\ r.pc = "STORE"
    /\ evidence' = [evidence EXCEPT ![r.loan] =
          [until |-> now + (IF r.status = "VERIFIED" THEN EvidenceTtl ELSE ErrorTtl),
           status |-> r.status, receipts |-> r.receipts]]
    /\ list' = [list EXCEPT ![q] = [@ EXCEPT !.pc = "DONE", !.at = now]]
    /\ ListOnly /\ UNCHANGED faults

\* The cache has 500 entries, or the process is another one.
ForgetEvidence ==
    /\ evidence' = [l \in Loan |-> NoEvidence]
    /\ ListOnly /\ UNCHANGED <<list, faults>>

ListStep ==
    \/ \E q \in List :
          \/ \E l \in Loan : StartList(q, l)
          \/ LookEvidence(q) \/ FetchEvidence(q) \/ StoreEvidence(q)
    \/ ForgetEvidence

\* hsk_verified of the installments of a list.
ShownVerified(q) ==
    {n \in DOMAIN list[q].rows :
        list[q].status = "VERIFIED" /\ HskVerified(list[q].rows[n], list[q].receipts, n)}

-----------------------------------------------------------------------------

\* A tick passes; no call takes longer than CallTime.
Tick ==
    /\ now < MaxTime
    /\ \A q \in Access : Verifying(q) => now - access[q].at < CallTime
    /\ \A q \in List : list[q].pc = "STORE" => now - list[q].at < CallTime
    /\ now' = now + 1
    /\ UNCHANGED <<flowVars, unlockVars, reportVars>>

\* A payment proceeds.
PaymentStep ==
    /\ FlowNext
    /\ buriedAt' = [l \in Loan |->
          IF buried'[l] > buried[l] THEN Append(buriedAt[l], now) ELSE buriedAt[l]]
    /\ UNCHANGED <<now, unlockVars, published, report, evidence, list, faults>>

\* A call of verifyKey is made by a dossier, or by itself.
AccessStep ==
    /\ \/ \E q \in Access :
             /\ q \in Report => report[q].pc = "VERIFY"
             /\ UnlockStep(q)
       \/ \E v \in Viewer : MembershipChanges(v)
    /\ UNCHANGED <<flowVars, reportVars>>

DossierInit == FlowInit /\ UnlockInit /\ ReportsInit

DossierNext == PaymentStep \/ AccessStep \/ ReportStep \/ ListStep \/ Tick

DossierSpec == DossierInit /\ [][DossierNext]_dossierVars

-----------------------------------------------------------------------------

\* The readers' state has its type, and the index is a number of tenths
\* between 0 and 100 points, although interest counts as capital paid back.
ReportTypeOK ==
    /\ FlowTypeOK
    /\ UnlockTypeOK
    /\ \A q \in Report :
          LET r == report[q] IN
          /\ r.pc \in {"NEW", "NOT FOUND", "VERIFY", "REFUSED", "LOANS", "NEXT",
                       "ROWS", "FAILED", "DONE"}
          /\ r.verified \subseteq r.paid
          /\ ScoreOf(r) \in 0 .. 1000
          /\ ConfidenceGrade(ScoreOf(r)) = "EXCELLENT" => r.completed # {}
    /\ \A q \in List : list[q].pc \in {"NEW", "LOOK", "FETCH", "STORE", "DONE"}
    /\ faults \in 0 .. MaxFaults

\* A report that counts a loan as completed lists all its installments as
\* paid, though it reads them one query later, one loan after the other, and
\* payments go on; unless a read failed, of which the report does not tell.
CompletedLoansAreWhole ==
    \A q \in Report :
        LET r == report[q] IN
        r.pc = "DONE" /\ r.whole =>
            \A l \in r.completed : {<<l, n>> : n \in Numbers(l)} \subseteq r.paid

\* What is shown as verified is: the installment is paid, and the contract
\* has its proof with the receipt of the tables, in a dossier and in a list
\* with evidence from a cache, whatever was read before, between and after.
VerifiedIsProved ==
    LET Holds(l, n) ==
          /\ row[l][n].paid
          /\ n \in DOMAIN proofs[l] /\ proofs[l][n].receipt = row[l][n].receipt
    IN  /\ \A q \in Report : \A d \in report[q].verified : Holds(d[1], d[2])
        /\ \A q \in List : list[q].pc = "DONE" =>
              \A n \in ShownVerified(q) : Holds(list[q].loan, n)

\* Evidence that is shown is no older than a cache entry and the call that
\* made it: it has every proof that was confirmed before that, although an
\* older answer may come later and replace a newer one.
EvidenceIsFresh ==
    \A q \in List :
        list[q].pc = "DONE" /\ list[q].status = "VERIFIED" =>
            LET l == list[q].loan IN
            \A n \in DOMAIN buriedAt[l] :
                buriedAt[l][n] <= list[q].at - EvidenceTtl - CallTime =>
                    n \in DOMAIN list[q].receipts

\* Nobody is let in on a membership that ended longer ago than a cache entry
\* and the calls that made it last, and nobody who bought one is kept out for
\* longer than that.
AccessIsRecent ==
    [][\A q \in Access :
          LET pc == access'[q].pc IN
          pc # access[q].pc /\ pc \in {"GRANTED", "DENIED"} =>
             WasAt(ViewerOf[q], pc, MembershipTtl + CallTime - 1)]_dossierVars
=============================================================================
