----------------------- MODULE PassportReportsProofs -----------------------
(***************************************************************************)
(* Theorems about the order in which payments show, the readers of a       *)
(* libreta and the lock that admits them, for any loans, readers, clocks   *)
(* and numbers of failures.                                                *)
(***************************************************************************)
EXTENDS PassportReports, NumberFacts

-----------------------------------------------------------------------------
(* The order in which payments show. *)

\* A payment, and nothing else, has a receipt, and the proof of a payment
\* with Stellar is made after the payment is settled: an installment that is
\* proved and not yet booked is one in cash.
PaidHasReceipt ==
    \A l \in Loan : \A n \in Numbers(l) :
        /\ row[l][n].paid => row[l][n].receipt \in Receipt
        /\ ~ row[l][n].paid =>
              /\ row[l][n].receipt = NoReceipt
              /\ n < NextNumber(l) => ~ proofs[l][n].digital

\* The maps of the four variables are functions on Loan.
FlowDomains ==
    /\ DOMAIN row = Loan /\ DOMAIN proofs = Loan /\ DOMAIN buried = Loan
    /\ row = [l \in Loan |-> row[l]]
    /\ proofs = [l \in Loan |-> proofs[l]]
    /\ buried = [l \in Loan |-> buried[l]]

FlowInv ==
    /\ FlowTypeOK
    /\ FlowDomains
    /\ RowsAgreeWithChain
    /\ PaidHasReceipt
    /\ ClosedIsPaid

\* The initial state satisfies the invariant.
LEMMA FlowInitInv == FlowInit => FlowInv
<1> SUFFICES ASSUME FlowInit PROVE FlowInv
  OBVIOUS
<1> USE FlowAssumption DEF FlowInit, Numbers, Unpaid, NextNumber
<1>1. FlowTypeOK
  BY DEF FlowTypeOK, Row
<1>2. FlowDomains
  BY DEF FlowDomains
<1>3. RowsAgreeWithChain /\ PaidHasReceipt /\ ClosedIsPaid
  BY DEF RowsAgreeWithChain, PaidHasReceipt, ClosedIsPaid
<1> QED
  BY <1>1, <1>2, <1>3 DEF FlowInv

\* What one loan must satisfy; the invariant is that every loan does.
LoanOK(rows, prf, bur, count, isClosed) ==
    /\ rows \in [1 .. count -> Row]
    /\ prf \in Seq([receipt : Receipt, digital : BOOLEAN])
    /\ Len(prf) <= count
    /\ bur \in 0 .. Len(prf)
    /\ \A n \in 1 .. count : rows[n].paid =>
          /\ rows[n].receipt \in Receipt
          /\ \/ n = Len(prf) + 1 /\ rows[n].digital /\ ~ rows[n].synced
             \/ n < Len(prf) + 1 /\ prf[n] =
                   [receipt |-> rows[n].receipt, digital |-> rows[n].digital]
    /\ \A n \in 1 .. count : ~ rows[n].paid =>
          /\ rows[n].receipt = NoReceipt
          /\ n < Len(prf) + 1 => ~ prf[n].digital
    /\ isClosed => AllRowsPaid(rows)

LEMMA FlowInvByLoan ==
    FlowInv <=> /\ FlowDomains
                /\ closed \subseteq Loan
                /\ \A l \in Loan :
                      LoanOK(row[l], proofs[l], buried[l], Count[l], l \in closed)
  BY DEF FlowInv, FlowTypeOK, RowsAgreeWithChain, PaidHasReceipt, ClosedIsPaid,
         LoanOK, Numbers, NextNumber, AllRowsPaid

\* The same of the next state.
LEMMA FlowInvNext ==
    (/\ FlowDomains'
     /\ closed' \subseteq Loan
     /\ \A l \in Loan :
           LoanOK(row'[l], proofs'[l], buried'[l], Count[l], l \in closed'))
    => FlowInv'
  BY DEF FlowInv, FlowTypeOK, RowsAgreeWithChain, PaidHasReceipt, ClosedIsPaid,
         LoanOK, Numbers, NextNumber, AllRowsPaid

\* A step that gives one loan new rows, proofs and confirmations, and may
\* close it, keeps the invariant if the new ones agree.
LEMMA OneLoanInv ==
  ASSUME FlowInv, NEW l \in Loan, NEW rows, NEW prf, NEW bur,
         row' = [row EXCEPT ![l] = rows],
         proofs' = [proofs EXCEPT ![l] = prf],
         buried' = [buried EXCEPT ![l] = bur],
         closed' = closed \/ closed' = closed \cup {l},
         LoanOK(rows, prf, bur, Count[l], l \in closed')
  PROVE  FlowInv'
<1>1. /\ FlowDomains /\ closed \subseteq Loan
      /\ \A m \in Loan : LoanOK(row[m], proofs[m], buried[m], Count[m], m \in closed)
  BY FlowInvByLoan
<1>2. FlowDomains' /\ closed' \subseteq Loan
  BY <1>1 DEF FlowDomains
<1>3. row'[l] = rows /\ proofs'[l] = prf /\ buried'[l] = bur
  BY <1>1 DEF FlowDomains
<1>4. \A m \in Loan \ {l} :
        /\ row'[m] = row[m] /\ proofs'[m] = proofs[m] /\ buried'[m] = buried[m]
        /\ m \in closed' <=> m \in closed
  BY <1>1 DEF FlowDomains
<1>5. \A m \in Loan : LoanOK(row'[m], proofs'[m], buried'[m], Count[m], m \in closed')
  BY <1>1, <1>3, <1>4
<1> QED
  BY <1>2, <1>5, FlowInvNext

\* What is true of a loan before a step, and of the maps it leaves alone.
LEMMA BeforeStep ==
  ASSUME FlowInv, NEW l \in Loan
  PROVE  /\ LoanOK(row[l], proofs[l], buried[l], Count[l], l \in closed)
         /\ row = [row EXCEPT ![l] = row[l]]
         /\ proofs = [proofs EXCEPT ![l] = proofs[l]]
         /\ buried = [buried EXCEPT ![l] = buried[l]]
         /\ Count[l] \in Nat
  BY FlowInvByLoan, FlowAssumption DEF FlowDomains

\* One more element.
LEMMA Appended ==
  ASSUME NEW S, NEW s \in Seq(S), NEW e \in S
  PROVE  /\ Append(s, e) \in Seq(S)
         /\ Len(s) \in Nat /\ Len(Append(s, e)) = Len(s) + 1
         /\ \A j \in 1 .. Len(s) : Append(s, e)[j] = s[j]
         /\ Append(s, e)[Len(s) + 1] = e
  OBVIOUS

LEMMA ElementOf ==
  ASSUME NEW S, NEW s \in Seq(S), NEW n \in 1 .. Len(s)
  PROVE  s[n] \in S
  OBVIOUS

\* Cash is proved: one more proof, of a row that is not paid.
LEMMA ProveCashInv ==
  ASSUME FlowInv, NEW l \in Loan, NEW r \in Receipt, ProveCash(l, r)
  PROVE  FlowInv'
<1> DEFINE n == Len(proofs[l]) + 1
           p == [receipt |-> r, digital |-> FALSE]
           new == Append(proofs[l], p)
<1>1. LoanOK(row[l], proofs[l], buried[l], Count[l], l \in closed) /\ Count[l] \in Nat
  BY BeforeStep
<1>2. n \in 1 .. Count[l] /\ ~ row[l][n].paid
  BY DEF ProveCash, Numbers, NextNumber
<1>3. /\ new \in Seq([receipt : Receipt, digital : BOOLEAN])
      /\ Len(proofs[l]) \in Nat /\ Len(new) = n
      /\ \A j \in 1 .. Len(proofs[l]) : new[j] = proofs[l][j]
      /\ new[n] = p
  BY <1>1, Appended DEF LoanOK
<1>4. LoanOK(row[l], new, buried[l], Count[l], l \in closed)
  BY <1>1, <1>2, <1>3 DEF LoanOK
<1>5. /\ row' = [row EXCEPT ![l] = row[l]] /\ closed' = closed
      /\ proofs' = [proofs EXCEPT ![l] = new] /\ buried' = [buried EXCEPT ![l] = buried[l]]
  BY BeforeStep DEF ProveCash
<1> QED
  BY <1>4, <1>5, OneLoanInv

\* Cash is booked: the row takes what the proof of its number says.
LEMMA BookCashInv ==
  ASSUME FlowInv, NEW l \in Loan, NEW n \in Numbers(l), BookCash(l, n)
  PROVE  FlowInv'
<1> DEFINE paid == [paid |-> TRUE, receipt |-> proofs[l][n].receipt,
                    digital |-> FALSE, synced |-> TRUE]
           new == [row[l] EXCEPT ![n] = paid]
<1>1. LoanOK(row[l], proofs[l], buried[l], Count[l], l \in closed) /\ Count[l] \in Nat
  BY BeforeStep
<1>2. n \in 1 .. Count[l] /\ n < Len(proofs[l]) + 1 /\ ~ row[l][n].paid
  BY DEF BookCash, Numbers, NextNumber
<1>3. /\ proofs[l][n] \in [receipt : Receipt, digital : BOOLEAN]
      /\ proofs[l][n].digital = FALSE
  <2>1. n \in 1 .. Len(proofs[l])
    BY <1>1, <1>2 DEF LoanOK
  <2>2. proofs[l][n] \in [receipt : Receipt, digital : BOOLEAN]
    <3>1. proofs[l] \in Seq([receipt : Receipt, digital : BOOLEAN])
      BY <1>1 DEF LoanOK
    <3> QED
      BY <2>1, <3>1, ElementOf
  <2>3. ~ proofs[l][n].digital
    BY <1>1, <1>2 DEF LoanOK
  <2> QED
    BY <2>2, <2>3
<1>4. paid \in Row /\ new \in [1 .. Count[l] -> Row]
  BY <1>1, <1>3 DEF LoanOK, Row
<1>5. LoanOK(new, proofs[l], buried[l], Count[l], l \in closed)
  BY <1>1, <1>2, <1>3, <1>4 DEF LoanOK, AllRowsPaid
<1>6. /\ row' = [row EXCEPT ![l] = new] /\ closed' = closed
      /\ proofs' = [proofs EXCEPT ![l] = proofs[l]] /\ buried' = [buried EXCEPT ![l] = buried[l]]
  BY BeforeStep DEF BookCash
<1> QED
  BY <1>5, <1>6, OneLoanInv

\* A payment with Stellar is settled: its row is ahead of the chain by one.
LEMMA SettleInv ==
  ASSUME FlowInv, NEW l \in Loan, NEW r \in Receipt, Settle(l, r)
  PROVE  FlowInv'
<1> DEFINE n == Len(proofs[l]) + 1
           paid == [paid |-> TRUE, receipt |-> r, digital |-> TRUE, synced |-> FALSE]
           new == [row[l] EXCEPT ![n] = paid]
<1>1. LoanOK(row[l], proofs[l], buried[l], Count[l], l \in closed) /\ Count[l] \in Nat
  BY BeforeStep
<1>2. /\ n \in 1 .. Count[l] /\ ~ row[l][n].paid
      /\ row' = [row EXCEPT ![l] = new]
  BY BeforeStep DEF Settle, Numbers, NextNumber
<1>3. row'[l] = new
  BY <1>2 DEF FlowInv, FlowDomains
<1>4. paid \in Row /\ new \in [1 .. Count[l] -> Row]
  BY <1>1 DEF LoanOK, Row
<1>5. l \in closed' => AllRowsPaid(new)
  BY <1>1, <1>2, <1>3 DEF Settle, LoanOK, AllRowsPaid
<1>6. LoanOK(new, proofs[l], buried[l], Count[l], l \in closed')
  BY <1>1, <1>2, <1>4, <1>5 DEF LoanOK
<1>7. /\ closed' = closed \/ closed' = closed \cup {l}
      /\ proofs' = [proofs EXCEPT ![l] = proofs[l]] /\ buried' = [buried EXCEPT ![l] = buried[l]]
  BY BeforeStep DEF Settle
<1> QED
  BY <1>2, <1>6, <1>7, OneLoanInv

\* It is proved: the proof has the receipt of the row.
LEMMA AnchorInv ==
  ASSUME FlowInv, NEW l \in Loan, Anchor(l)
  PROVE  FlowInv'
<1> DEFINE n == Len(proofs[l]) + 1
           p == [receipt |-> row[l][n].receipt, digital |-> TRUE]
           new == Append(proofs[l], p)
<1>1. LoanOK(row[l], proofs[l], buried[l], Count[l], l \in closed) /\ Count[l] \in Nat
  BY BeforeStep
<1>2. n \in 1 .. Count[l] /\ row[l][n].paid
  BY DEF Anchor, Numbers, NextNumber
<1>3. p \in [receipt : Receipt, digital : BOOLEAN]
  BY <1>1, <1>2 DEF LoanOK, Row
<1>4. /\ new \in Seq([receipt : Receipt, digital : BOOLEAN])
      /\ Len(proofs[l]) \in Nat /\ Len(new) = n
      /\ \A j \in 1 .. Len(proofs[l]) : new[j] = proofs[l][j]
      /\ new[n] = p
  BY <1>1, <1>3, Appended DEF LoanOK
<1>5. row[l][n].digital = TRUE
  <2>1. row[l][n].digital
    <3>1. ~ (n < Len(proofs[l]) + 1)
      BY <1>4
    <3> QED
      BY <1>1, <1>2, <3>1, Zenon DEF LoanOK
  <2>2. row[l][n] \in Row
    BY <1>1, <1>2 DEF LoanOK
  <2> QED
    BY <2>1, <2>2 DEF Row
<1>6. LoanOK(row[l], new, buried[l], Count[l], l \in closed)
  <2>1. /\ new \in Seq([receipt : Receipt, digital : BOOLEAN])
        /\ Len(new) <= Count[l] /\ buried[l] \in 0 .. Len(new)
    BY <1>1, <1>2, <1>4 DEF LoanOK
  <2>2. ASSUME NEW m \in 1 .. Count[l], row[l][m].paid
        PROVE  m < Len(new) + 1 /\ new[m] =
                 [receipt |-> row[l][m].receipt, digital |-> row[l][m].digital]
    <3>1. CASE m = n
      <4>1. m < Len(new) + 1
        BY <1>4, <3>1
      <4>2. new[m] = [receipt |-> row[l][m].receipt, digital |-> TRUE]
        BY <1>4, <3>1, Zenon
      <4>3. row[l][m].digital = TRUE
        BY <1>5, <3>1, Zenon
      <4> QED
        BY <4>1, <4>2, <4>3, Zenon
    <3>2. CASE m # n
      <4>1. m < n
        BY <1>1, <1>2, <1>4, <2>2, <3>2 DEF LoanOK
      <4>2. proofs[l][m] = [receipt |-> row[l][m].receipt, digital |-> row[l][m].digital]
        BY <1>1, <2>2, <3>2, Zenon DEF LoanOK
      <4>3. m < Len(new) + 1 /\ new[m] = proofs[l][m]
        BY <1>1, <1>4, <4>1
      <4> QED
        BY <4>2, <4>3
    <3> QED
      BY <3>1, <3>2
  <2>3. ASSUME NEW m \in 1 .. Count[l], ~ row[l][m].paid, m < Len(new) + 1
        PROVE  ~ new[m].digital
    BY <1>1, <1>2, <1>4, <2>3 DEF LoanOK
  <2> QED
    BY <1>1, <2>1, <2>2, <2>3 DEF LoanOK
<1>7. /\ row' = [row EXCEPT ![l] = row[l]] /\ closed' = closed
      /\ proofs' = [proofs EXCEPT ![l] = new] /\ buried' = [buried EXCEPT ![l] = buried[l]]
  BY BeforeStep DEF Anchor, NextNumber
<1> QED
  BY <1>6, <1>7, OneLoanInv

\* Attesting a row, burying a proof and closing a loan change nothing else.
LEMMA SyncInv ==
  ASSUME FlowInv, NEW l \in Loan, NEW n \in Numbers(l), Sync(l, n)
  PROVE  FlowInv'
<1> DEFINE new == [row[l] EXCEPT ![n].synced = TRUE]
<1>1. LoanOK(row[l], proofs[l], buried[l], Count[l], l \in closed) /\ Count[l] \in Nat
  BY BeforeStep
<1>2. n \in 1 .. Count[l] /\ row[l][n].paid /\ n <= buried[l]
  BY DEF Sync, Numbers
<1>3. n < Len(proofs[l]) + 1 /\ Len(proofs[l]) \in Nat
  BY <1>1, <1>2 DEF LoanOK
<1>4. /\ new \in [1 .. Count[l] -> Row]
      /\ \A m \in 1 .. Count[l] :
            /\ new[m].paid = row[l][m].paid /\ new[m].receipt = row[l][m].receipt
            /\ new[m].digital = row[l][m].digital
            /\ m # n => new[m] = row[l][m]
  BY <1>1, <1>2 DEF LoanOK, Row
<1>5. AllRowsPaid(row[l]) => AllRowsPaid(new)
  BY <1>1, <1>4 DEF LoanOK, AllRowsPaid
<1>6. LoanOK(new, proofs[l], buried[l], Count[l], l \in closed)
  BY <1>1, <1>2, <1>3, <1>4, <1>5 DEF LoanOK
<1>7. /\ row' = [row EXCEPT ![l] = new] /\ closed' = closed
      /\ proofs' = [proofs EXCEPT ![l] = proofs[l]] /\ buried' = [buried EXCEPT ![l] = buried[l]]
  BY BeforeStep DEF Sync
<1> QED
  BY <1>6, <1>7, OneLoanInv

LEMMA BuryInv ==
  ASSUME FlowInv, NEW l \in Loan, BuryProof(l)
  PROVE  FlowInv'
<1>1. LoanOK(row[l], proofs[l], buried[l], Count[l], l \in closed)
  BY BeforeStep
<1>2. LoanOK(row[l], proofs[l], buried[l] + 1, Count[l], l \in closed)
  BY <1>1 DEF LoanOK, BuryProof
<1>3. /\ row' = [row EXCEPT ![l] = row[l]] /\ closed' = closed
      /\ proofs' = [proofs EXCEPT ![l] = proofs[l]]
      /\ buried' = [buried EXCEPT ![l] = buried[l] + 1]
  BY BeforeStep DEF BuryProof
<1> QED
  BY <1>2, <1>3, OneLoanInv

LEMMA CloseInv ==
  ASSUME FlowInv, NEW l \in Loan, Close(l)
  PROVE  FlowInv'
<1>1. LoanOK(row[l], proofs[l], buried[l], Count[l], l \in closed')
  BY BeforeStep DEF LoanOK, Close
<1>2. /\ row' = [row EXCEPT ![l] = row[l]] /\ closed' = closed \cup {l}
      /\ proofs' = [proofs EXCEPT ![l] = proofs[l]]
      /\ buried' = [buried EXCEPT ![l] = buried[l]]
  BY BeforeStep DEF Close
<1> QED
  BY <1>1, <1>2, OneLoanInv

\* Every step preserves the invariant.
LEMMA FlowNextInv == FlowInv /\ [FlowNext]_flowVars => FlowInv'
<1> SUFFICES ASSUME FlowInv, [FlowNext]_flowVars PROVE FlowInv'
  OBVIOUS
<1>1. CASE FlowNext
  BY <1>1, ProveCashInv, BookCashInv, SettleInv, AnchorInv, SyncInv, BuryInv, CloseInv
     DEF FlowNext, FlowStep
<1>2. CASE UNCHANGED flowVars
  BY <1>2 DEF flowVars, FlowInv, FlowTypeOK, FlowDomains, RowsAgreeWithChain,
              PaidHasReceipt, ClosedIsPaid, NextNumber
<1> QED
  BY <1>1, <1>2

\* The inductive invariant of PaymentFlow.
THEOREM FlowInvariant == FlowSpec => []FlowInv
  BY FlowInitInv, FlowNextInv, PTL DEF FlowSpec

\* What the readers see has its type.
THEOREM FlowTypes == FlowSpec => []FlowTypeOK
  BY FlowInvariant, PTL DEF FlowInv

\* A row that is paid and the proof of its number have the same receipt and
\* the same rail, and only the installment whose turn it is can be paid and
\* not proved.
THEOREM RowsAgree == FlowSpec => []RowsAgreeWithChain
  BY FlowInvariant, PTL DEF FlowInv

\* A loan is completed only when all of its installments are paid.
THEOREM ClosedLoansArePaid == FlowSpec => []ClosedIsPaid
  BY FlowInvariant, PTL DEF FlowInv

\* What was paid stays paid with its receipt, what was proved stays proved,
\* and what was completed stays completed.
Grows ==
    /\ \A l \in Loan : \A n \in Numbers(l) :
          row[l][n].paid => row'[l][n].paid /\ row'[l][n].receipt = row[l][n].receipt
    /\ \A l \in Loan : \A n \in DOMAIN proofs[l] :
          n \in DOMAIN proofs'[l] /\ proofs'[l][n] = proofs[l][n]
    /\ closed \subseteq closed'

LEMMA FlowGrows == FlowInv /\ [FlowNext]_flowVars => Grows
<1> SUFFICES ASSUME FlowInv, [FlowNext]_flowVars PROVE Grows
  OBVIOUS
<1> USE DEF FlowInv, FlowTypeOK, FlowDomains
<1>1. ASSUME NEW l \in Loan, NEW r \in Receipt, ProveCash(l, r) PROVE Grows
  BY <1>1, Appended DEF ProveCash, Grows
<1>2. ASSUME NEW l \in Loan, NEW n \in Numbers(l), BookCash(l, n) PROVE Grows
  BY <1>2 DEF BookCash, Grows
<1>3. ASSUME NEW l \in Loan, NEW r \in Receipt, Settle(l, r) PROVE Grows
  BY <1>3 DEF Settle, Grows
<1>4. ASSUME NEW l \in Loan, Anchor(l) PROVE Grows
  BY <1>4, Appended DEF Anchor, Grows
<1>5. ASSUME NEW l \in Loan, NEW n \in Numbers(l), Sync(l, n) PROVE Grows
  BY <1>5 DEF Sync, Grows, Row
<1>6. ASSUME NEW l \in Loan, BuryProof(l) \/ Close(l) PROVE Grows
  BY <1>6 DEF BuryProof, Close, Grows
<1>7. CASE UNCHANGED flowVars
  BY <1>7 DEF flowVars, Grows
<1> QED
  BY <1>1, <1>2, <1>3, <1>4, <1>5, <1>6, <1>7 DEF FlowNext, FlowStep

-----------------------------------------------------------------------------
(* What the cache of memberships and the calls in progress know of the     *)
(* lock, for any viewers, times and numbers of calls.                      *)

AccessPc == {"NEW", "ASK", "KEEP", "GRANTED", "DENIED", "UNAVAILABLE", "BAD SIGNATURE"}

Answers == {"GRANTED", "DENIED"}

CallRecord == [pc : AccessPc, at : Int, answer : Answers]

EntryRecord == [until : Int, answer : Answers]

\* The lock gave this answer at some moment from the given one on.
AnsweredSince(v, answer, from) == LockAnswer(v) = answer \/ since[v] >= from

CacheOK(v) ==
    /\ membership[v] \in EntryRecord
    /\ membership[v].until <= now + MembershipTtl
    /\ since[v] \in Int
    /\ AnsweredSince(v, membership[v].answer,
                     membership[v].until - MembershipTtl - CallTime)

CallOK(q) ==
    access[q].pc = "KEEP" =>
        /\ now - access[q].at <= CallTime
        /\ AnsweredSince(ViewerOf[q], access[q].answer, access[q].at)

AccessInv ==
    /\ now \in Nat
    /\ DOMAIN since = Viewer /\ DOMAIN membership = Viewer
    /\ access \in [Access -> CallRecord]
    /\ \A v \in Viewer : CacheOK(v)
    /\ \A q \in Access : access[q].at <= now /\ CallOK(q)

LEMMA AccessInit == UnlockInit => AccessInv
<1> SUFFICES ASSUME UnlockInit PROVE AccessInv
  OBVIOUS
<1>1. /\ now = 0 /\ DOMAIN since = Viewer /\ DOMAIN membership = Viewer
      /\ MembershipTtl \in Nat /\ CallTime \in Nat
      /\ \A v \in Viewer : since[v] = - MembershipTtl - CallTime /\ membership[v] = Uncached
      /\ access = [q \in Access |-> Call("NEW", 0, "DENIED")]
  BY UnlockAssumption DEF UnlockInit
<1>2. /\ Uncached \in EntryRecord
      /\ Uncached.until = 0
  BY DEF Uncached, EntryRecord, Answers
<1>3. \A v \in Viewer : CacheOK(v)
  <2> SUFFICES ASSUME NEW v \in Viewer PROVE CacheOK(v)
    OBVIOUS
  <2>1. membership[v] \in EntryRecord /\ membership[v].until = 0
    BY <1>1, <1>2
  <2>2. since[v] \in Int /\ since[v] >= 0 - MembershipTtl - CallTime
    BY <1>1
  <2> QED
    BY <1>1, <2>1, <2>2 DEF CacheOK, AnsweredSince
<1>4. /\ Call("NEW", 0, "DENIED") \in CallRecord
      /\ Call("NEW", 0, "DENIED").pc = "NEW" /\ Call("NEW", 0, "DENIED").at = 0
  BY DEF Call, CallRecord, AccessPc, Answers
<1> QED
  BY <1>1, <1>3, <1>4 DEF AccessInv, CallOK

\* The lock changes: what is known of it was true until now.
LEMMA MembershipChangesInv ==
  ASSUME AccessInv, NEW v \in Viewer, MembershipChanges(v)
  PROVE  AccessInv'
<1>1. /\ now' = now /\ membership' = membership /\ access' = access
      /\ since' = [since EXCEPT ![v] = now]
      /\ \A w \in Viewer : w # v => (w \in member' <=> w \in member)
      /\ now \in Nat /\ MembershipTtl \in Nat /\ CallTime \in Nat
  BY UnlockAssumption DEF MembershipChanges, AccessInv
<1>2. DOMAIN since' = Viewer /\ since'[v] = now
      /\ \A w \in Viewer : w # v => since'[w] = since[w] /\ LockAnswer(w)' = LockAnswer(w)
  BY <1>1 DEF AccessInv, LockAnswer
<1>3. ASSUME NEW w \in Viewer PROVE CacheOK(w)'
  <2>1. CacheOK(w) /\ membership[w].until \in Int
    BY DEF AccessInv, CacheOK, EntryRecord
  <2>2. CASE w = v
    BY <1>1, <1>2, <2>1, <2>2 DEF CacheOK, AnsweredSince
  <2>3. CASE w # v
    BY <1>1, <1>2, <2>1, <2>3 DEF CacheOK, AnsweredSince
  <2> QED
    BY <2>2, <2>3
<1>4. ASSUME NEW q \in Access PROVE CallOK(q)'
  <2>1. CallOK(q) /\ access[q].at <= now /\ ViewerOf[q] \in Viewer
    BY UnlockAssumption DEF AccessInv
  <2>2. CASE ViewerOf[q] = v
    BY <1>1, <1>2, <2>1, <2>2 DEF CallOK, AnsweredSince
  <2>3. CASE ViewerOf[q] # v
    BY <1>1, <1>2, <2>1, <2>3 DEF CallOK, AnsweredSince
  <2> QED
    BY <2>2, <2>3
<1> QED
  BY <1>1, <1>2, <1>3, <1>4 DEF AccessInv

\* A call goes on, and perhaps has an answer that is at most CallTime old.
LEMMA CallProceeds ==
  ASSUME AccessInv, NEW q \in Access,
         NEW pc \in AccessPc, NEW at \in Int, NEW answer \in Answers,
         Proceed(q, Call(pc, at, answer)),
         UNCHANGED <<now, member, since>>,
         at <= now,
         pc = "KEEP" => now - at <= CallTime /\ AnsweredSince(ViewerOf[q], answer, at),
         DOMAIN membership' = Viewer,
         \A v \in Viewer : CacheOK(v)'
  PROVE  AccessInv' /\ access'[q].pc = pc
<1> DEFINE next == Call(pc, at, answer)
<1>1. /\ next \in CallRecord
      /\ next.pc = pc /\ next.at = at /\ next.answer = answer
  BY DEF Call, CallRecord
<1>2. /\ access' \in [Access -> CallRecord] /\ access'[q] = next
      /\ \A s \in Access : s # q => access'[s] = access[s]
  BY <1>1 DEF AccessInv, Proceed
<1>3. ASSUME NEW s \in Access PROVE access'[s].at <= now' /\ CallOK(s)'
  <2> HIDE DEF next
  <2>1. CASE s = q
    BY <1>1, <1>2, <2>1 DEF CallOK, AnsweredSince, LockAnswer
  <2>2. CASE s # q
    BY <1>2, <2>2 DEF AccessInv, CallOK, AnsweredSince, LockAnswer
  <2> QED
    BY <2>1, <2>2
<1> QED
  BY <1>1, <1>2, <1>3 DEF AccessInv

LEMMA AnswersEndCalls ==
  ASSUME NEW answer \in Answers
  PROVE  answer \in AccessPc /\ answer # "KEEP"
  BY DEF AccessPc, Answers

\* The cache is as good as before when nothing happens to it.
LEMMA CacheStays ==
  ASSUME AccessInv, NEW v \in Viewer, UNCHANGED <<now, member, since>>,
         membership'[v] = membership[v]
  PROVE  CacheOK(v)'
  BY DEF AccessInv, CacheOK, AnsweredSince, LockAnswer

\* What a call answers from the cache or from the lock, was true at some
\* moment of the time an entry and a call last.
Recent(q, pc) ==
    pc \in Answers => WasAt(ViewerOf[q], pc, MembershipTtl + CallTime - 1)

LEMMA CheckSignatureInv ==
  ASSUME AccessInv, NEW q \in Access, NEW signed, NEW stamp,
         CheckSignature(q, signed, stamp)
  PROVE  AccessInv' /\ Recent(q, access'[q].pc)
<1> DEFINE v == ViewerOf[q]
<1>1. /\ v \in Viewer /\ CacheOK(v) /\ now \in Nat
      /\ MembershipTtl \in Nat /\ CallTime \in Nat
      /\ UNCHANGED <<now, member, since, membership>>
  BY UnlockAssumption DEF AccessInv, CheckSignature
<1>2. DOMAIN membership' = Viewer /\ \A w \in Viewer : CacheOK(w)'
  BY <1>1, CacheStays DEF AccessInv
<1>3. CASE Proceed(q, Call("BAD SIGNATURE", 0, "DENIED"))
  <2>1. "BAD SIGNATURE" \in AccessPc /\ 0 \in Int /\ 0 <= now /\ "DENIED" \in Answers
        /\ "BAD SIGNATURE" # "KEEP" /\ "BAD SIGNATURE" \notin Answers
    BY <1>1 DEF AccessPc, Answers
  <2>2. AccessInv' /\ access'[q].pc = "BAD SIGNATURE"
    BY <1>1, <1>2, <1>3, <2>1, CallProceeds, Zenon
  <2> QED
    BY <2>1, <2>2 DEF Recent
<1>4. CASE Cached(v) /\ Proceed(q, Call(membership[v].answer, 0, "DENIED"))
  <2>1. /\ membership[v].answer \in Answers /\ membership[v].until \in Int
        /\ membership[v].until > now /\ since[v] \in Int
        /\ AnsweredSince(v, membership[v].answer,
                         membership[v].until - MembershipTtl - CallTime)
    BY <1>1, <1>4 DEF CacheOK, EntryRecord, Cached
  <2>2. WasAt(v, membership[v].answer, MembershipTtl + CallTime - 1)
    BY <1>1, <2>1 DEF AnsweredSince, WasAt
  <2>3. AccessInv' /\ access'[q].pc = membership[v].answer
    <3>1. membership[v].answer \in AccessPc /\ membership[v].answer # "KEEP"
      BY <2>1, AnswersEndCalls, Zenon
    <3>2. "DENIED" \in Answers /\ 0 \in Int /\ 0 <= now
      BY <1>1 DEF Answers
    <3> QED
      BY <1>1, <1>2, <1>4, <3>1, <3>2, CallProceeds, Zenon
  <2> QED
    BY <2>2, <2>3 DEF Recent
<1>5. CASE Proceed(q, Call("ASK", now, "DENIED"))
  <2>1. /\ "ASK" \in AccessPc /\ now \in Int /\ now <= now /\ "DENIED" \in Answers
        /\ "ASK" # "KEEP" /\ "ASK" \notin Answers
    BY <1>1 DEF AccessPc, Answers
  <2>2. AccessInv' /\ access'[q].pc = "ASK"
    BY <1>1, <1>2, <1>5, <2>1, CallProceeds, Zenon
  <2> QED
    BY <2>1, <2>2 DEF Recent
<1> QED
  BY <1>3, <1>4, <1>5 DEF CheckSignature

LEMMA AskLockInv ==
  ASSUME AccessInv, NEW q \in Access, AskLock(q)
  PROVE  AccessInv' /\ Recent(q, access'[q].pc)
<1> DEFINE answer == LockAnswer(ViewerOf[q])
<1>1. /\ Proceed(q, Call("KEEP", now, answer))
      /\ UNCHANGED <<now, member, since, membership>>
      /\ now \in Nat /\ CallTime \in Nat
      /\ now - now <= CallTime
  BY UnlockAssumption DEF AskLock, AccessInv
<1>2. DOMAIN membership' = Viewer /\ \A w \in Viewer : CacheOK(w)'
  BY <1>1, CacheStays DEF AccessInv
<1>3. answer \in Answers /\ AnsweredSince(ViewerOf[q], answer, now)
  BY DEF LockAnswer, Answers, AnsweredSince
<1> HIDE DEF answer
<1>4. "KEEP" \in AccessPc /\ "KEEP" \notin Answers /\ now \in Int /\ now <= now
  BY <1>1 DEF AccessPc, Answers
<1>5. AccessInv' /\ access'[q].pc = "KEEP"
  BY <1>1, <1>2, <1>3, <1>4, CallProceeds, Zenon
<1> QED
  BY <1>4, <1>5 DEF Recent

LEMMA KeepAnswerInv ==
  ASSUME AccessInv, NEW q \in Access, KeepAnswer(q)
  PROVE  AccessInv' /\ Recent(q, access'[q].pc)
<1> DEFINE v == ViewerOf[q]
           answer == access[q].answer
           entry == [until |-> now + MembershipTtl, answer |-> answer]
<1>1. /\ v \in Viewer /\ now \in Nat
      /\ MembershipTtl \in Nat /\ MembershipTtl >= 1 /\ CallTime \in Nat
      /\ UNCHANGED <<now, member, since>>
      /\ membership' = [membership EXCEPT ![v] = entry]
      /\ Proceed(q, Call(answer, 0, answer))
      /\ access[q].pc = "KEEP" /\ CallOK(q) /\ CacheOK(v)
  BY UnlockAssumption DEF AccessInv, KeepAnswer
<1>2. answer \in Answers /\ access[q].at \in Int
  BY DEF AccessInv, CallRecord
<1>3. since[v] \in Int /\ (LockAnswer(v) = answer \/ since[v] >= now - CallTime)
  BY <1>1, <1>2 DEF CallOK, CacheOK, AnsweredSince
<1>4. /\ entry \in EntryRecord
      /\ entry.until = now + MembershipTtl /\ entry.answer = answer
  BY <1>1, <1>2 DEF EntryRecord
<1> HIDE DEF entry, answer
<1>5. /\ DOMAIN membership' = Viewer /\ membership'[v] = entry
      /\ \A w \in Viewer : w # v => membership'[w] = membership[w]
  BY <1>1 DEF AccessInv
<1>6. CacheOK(v)'
  BY <1>1, <1>3, <1>4, <1>5 DEF CacheOK, AnsweredSince, LockAnswer
<1>7. \A w \in Viewer : CacheOK(w)'
  BY <1>1, <1>5, <1>6, CacheStays
<1>8. AccessInv' /\ access'[q].pc = answer
  <2>1. answer \in AccessPc /\ answer # "KEEP"
    BY <1>2, AnswersEndCalls, Zenon
  <2>2. 0 \in Int /\ 0 <= now
    BY <1>1
  <2> QED
    BY <1>1, <1>2, <1>5, <1>7, <2>1, <2>2, CallProceeds, Zenon
<1>9. WasAt(v, answer, MembershipTtl + CallTime - 1)
  BY <1>1, <1>3 DEF WasAt
<1> QED
  BY <1>8, <1>9 DEF Recent

LEMMA LockUnavailableInv ==
  ASSUME AccessInv, NEW q \in Access, LockUnavailable(q)
  PROVE  AccessInv' /\ Recent(q, access'[q].pc)
<1>1. /\ UNCHANGED <<now, member, since, membership>>
      /\ Proceed(q, Call("UNAVAILABLE", 0, "DENIED"))
      /\ now \in Nat
  BY DEF LockUnavailable, AccessInv
<1>2. DOMAIN membership' = Viewer /\ \A w \in Viewer : CacheOK(w)'
  BY <1>1, CacheStays DEF AccessInv
<1>3. "UNAVAILABLE" \in AccessPc /\ 0 \in Int /\ 0 <= now /\ "DENIED" \in Answers
      /\ "UNAVAILABLE" # "KEEP" /\ "UNAVAILABLE" \notin Answers
  BY <1>1 DEF AccessPc, Answers
<1>4. AccessInv' /\ access'[q].pc = "UNAVAILABLE"
  BY <1>1, <1>2, <1>3, CallProceeds, Zenon
<1> QED
  BY <1>3, <1>4 DEF Recent

\* A step of a call leaves it with an answer that is recent.
LEMMA UnlockStepInv ==
  ASSUME AccessInv, NEW q \in Access, UnlockStep(q)
  PROVE  /\ AccessInv' /\ Recent(q, access'[q].pc)
         /\ \A s \in Access : s # q => access'[s] = access[s]
<1>1. AccessInv' /\ Recent(q, access'[q].pc)
  BY CheckSignatureInv, AskLockInv, KeepAnswerInv, LockUnavailableInv DEF UnlockStep
<1>2. \A s \in Access : s # q => access'[s] = access[s]
  BY DEF UnlockStep, CheckSignature, AskLock, KeepAnswer, LockUnavailable, Proceed,
         AccessInv
<1> QED
  BY <1>1, <1>2

\* The clock waits for no call longer than CallTime.
LEMMA ClockInv ==
  ASSUME AccessInv, now' = now + 1, UNCHANGED unlockVars,
         \A q \in Access : Verifying(q) => now - access[q].at < CallTime
  PROVE  AccessInv'
<1>1. /\ member' = member /\ since' = since /\ membership' = membership
      /\ access' = access /\ now \in Nat
      /\ MembershipTtl \in Nat /\ CallTime \in Nat
  BY UnlockAssumption DEF unlockVars, AccessInv
<1>2. ASSUME NEW w \in Viewer PROVE CacheOK(w)'
  <2>1. CacheOK(w) /\ membership[w].until \in Int
    BY DEF AccessInv, CacheOK, EntryRecord
  <2> QED
    BY <1>1, <2>1 DEF CacheOK, AnsweredSince, LockAnswer
<1>3. ASSUME NEW q \in Access PROVE access'[q].at <= now' /\ CallOK(q)'
  <2>1. access[q].at \in Int /\ CallOK(q) /\ access[q].at <= now
    BY DEF AccessInv, CallRecord
  <2> QED
    BY <1>1, <2>1 DEF CallOK, AnsweredSince, Verifying, LockAnswer
<1> QED
  BY <1>1, <1>2, <1>3 DEF AccessInv

-----------------------------------------------------------------------------
(* The readers and the payments they read. *)

\* Whatever the readers do, tables and chain follow PaymentFlow.
LEMMA DossierFlow == DossierNext => [FlowNext]_flowVars
  BY DEF DossierNext, PaymentStep, AccessStep, ReportStep, ListStep, Tick,
         UpdatePassport, StartReport, AfterVerification, ReadLoans, ReadProofs,
         ReadRows, Finish, ReadOnly, StartList, LookEvidence, FetchEvidence,
         StoreEvidence, ForgetEvidence, ListOnly

\* Readers change nothing of what they read: with reports, lists and dossiers
\* under way, tables and chain behave as PaymentFlow.
THEOREM PaymentsUndisturbed == DossierSpec => FlowSpec
<1>1. DossierInit => FlowInit
  BY DEF DossierInit
<1>2. [DossierNext]_dossierVars => [FlowNext]_flowVars
  BY DossierFlow DEF dossierVars, flowVars
<1> QED
  BY <1>1, <1>2, PTL DEF DossierSpec, FlowSpec

-----------------------------------------------------------------------------
(* Reports. *)

Proof == [receipt : Receipt, digital : BOOLEAN]

ReportPc == {"NEW", "NOT FOUND", "VERIFY", "REFUSED", "LOANS", "NEXT", "ROWS",
             "FAILED", "DONE"}

ReportRecord ==
    [pc : ReportPc, kind : {"SUMMARY", "OWN", "DOSSIER"}, todo : Seq(Loan), completed : SUBSET Loan,
     seen : Seq(Proof), paid : SUBSET (Loan \X Nat),
     verified : SUBSET (Loan \X Nat), whole : BOOLEAN]

\* The row is paid and proved with its receipt.
Holds(l, n) ==
    /\ n \in Numbers(l)
    /\ row[l][n].paid
    /\ n \in DOMAIN proofs[l]
    /\ proofs[l][n].receipt = row[l][n].receipt

\* What was read of the proofs of a loan, at any time before.
ReadBefore(seen, l) ==
    \A n \in DOMAIN seen : n \in DOMAIN proofs[l] /\ proofs[l][n] = seen[n]

Listed(r, l) == \A n \in Numbers(l) : <<l, n>> \in r.paid

\* A loan that is counted as completed is one that was completed, and its
\* installments have been read or will be.
ReportOK(r) ==
    /\ r.completed \subseteq closed
    /\ r.whole => \A l \in r.completed :
          Listed(r, l) \/ \E j \in 1 .. Len(r.todo) : r.todo[j] = l
    /\ \A l \in Loan, n \in Nat : <<l, n>> \in r.verified => Holds(l, n)
    /\ r.pc = "ROWS" => r.todo # <<>> /\ ReadBefore(r.seen, Head(r.todo))
    /\ r.pc # "ROWS" => r.seen = <<>>
    /\ r.pc = "DONE" => r.todo = <<>>

ReportInv ==
    /\ report \in [Report -> ReportRecord]
    /\ \A q \in Report : ReportOK(report[q])

LEMMA NewReportTyped == NewReport \in ReportRecord
<1>1. <<>> \in Seq(Loan) /\ <<>> \in Seq(Proof)
  OBVIOUS
<1>2. {} \in SUBSET Loan /\ {} \in SUBSET (Loan \X Nat)
  OBVIOUS
<1> QED
  BY <1>1, <1>2 DEF NewReport, ReportRecord, ReportPc

LEMMA ReportInit == DossierInit => ReportInv
<1> SUFFICES ASSUME DossierInit PROVE ReportInv
  OBVIOUS
<1>1. NewReport \in ReportRecord
  BY NewReportTyped
<1>2. ReportOK(NewReport)
  BY DEF NewReport, ReportOK
<1> QED
  BY <1>1, <1>2 DEF DossierInit, ReportsInit, ReportInv

\* The invariant survives what others do to tables and chain.
LEMMA ReportGrows ==
  ASSUME FlowInv, ReportInv, Grows, report' = report
  PROVE  ReportInv'
<1> SUFFICES ASSUME NEW q \in Report PROVE ReportOK(report[q])'
  BY DEF ReportInv
<1>1. ReportOK(report[q]) /\ report[q] \in ReportRecord
  BY DEF ReportInv
<1>2. \A l \in Loan, n \in Nat : Holds(l, n) => Holds(l, n)'
  BY DEF Holds, Grows
<1>3. \A l \in Loan : ReadBefore(report[q].seen, l) => ReadBefore(report[q].seen, l)'
  BY DEF ReadBefore, Grows
<1>4. closed \subseteq closed'
  BY DEF Grows
<1>5. report[q].todo # <<>> => Head(report[q].todo) \in Loan
  BY <1>1 DEF ReportRecord
<1> QED
  BY <1>1, <1>2, <1>3, <1>4, <1>5 DEF ReportOK, Listed, Numbers

\* And what a report reads.
LEMMA ReportBecomes ==
  ASSUME ReportInv, UNCHANGED flowVars, NEW q \in Report, NEW next,
         Become(q, next), next \in ReportRecord, ReportOK(next)
  PROVE  ReportInv'
<1>1. report' = [report EXCEPT ![q] = next] /\ report \in [Report -> ReportRecord]
  BY DEF Become, ReportInv
<1>2. row' = row /\ proofs' = proofs /\ closed' = closed
  BY DEF flowVars
<1>3. ASSUME NEW s \in Report PROVE ReportOK(report[s])'
  <2>1. ReportOK(report'[s])
    BY <1>1 DEF ReportInv
  <2> QED
    BY <2>1, <1>2 DEF ReportOK, Holds, ReadBefore, Listed, Numbers
<1> QED
  BY <1>1, <1>3 DEF ReportInv
LEMMA StartReportInv ==
  ASSUME FlowInv, ReportInv, NEW q \in Report, NEW kind \in {"SUMMARY", "OWN", "DOSSIER"},
         StartReport(q, kind)
  PROVE  ReportInv'
<1>1. PICK pc \in {"NOT FOUND", "VERIFY", "LOANS"} :
        Become(q, [NewReport EXCEPT !.kind = kind, !.pc = pc])
  BY DEF StartReport
<1> DEFINE next == [NewReport EXCEPT !.kind = kind, !.pc = pc]
<1>2. next \in ReportRecord
  BY NewReportTyped DEF ReportRecord, ReportPc
<1>3. ReportOK(next)
  BY DEF ReportOK, NewReport
<1>4. UNCHANGED flowVars
  BY DEF StartReport, ReadOnly
<1> QED
  BY <1>1, <1>2, <1>3, <1>4, ReportBecomes

LEMMA AfterVerificationInv ==
  ASSUME FlowInv, ReportInv, NEW q \in Report, AfterVerification(q)
  PROVE  ReportInv'
<1>1. PICK pc \in {"LOANS", "REFUSED"} : Become(q, [report[q] EXCEPT !.pc = pc])
  BY DEF AfterVerification, To
<1>2. report[q] \in ReportRecord /\ ReportOK(report[q]) /\ report[q].pc = "VERIFY"
  BY DEF ReportInv, AfterVerification
<1> DEFINE next == [report[q] EXCEPT !.pc = pc]
<1>3. next \in ReportRecord
  BY <1>2 DEF ReportRecord, ReportPc
<1>4. ReportOK(next)
  BY <1>2 DEF ReportOK, ReportRecord, Listed
<1>5. UNCHANGED flowVars
  BY DEF AfterVerification, ReadOnly
<1> QED
  BY <1>1, <1>3, <1>4, <1>5, ReportBecomes
\* The completed loans are those closed now, and every one is still to read.
LEMMA ReadLoansInv ==
  ASSUME FlowInv, ReportInv, NEW q \in Report, ReadLoans(q)
  PROVE  ReportInv'
<1>1. report[q] \in ReportRecord /\ ReportOK(report[q]) /\ report[q].pc = "LOANS"
  BY DEF ReportInv, ReadLoans
<1>2. UNCHANGED flowVars
  BY DEF ReadLoans, ReadOnly
<1>3. closed \subseteq Loan
  BY DEF FlowInv, FlowTypeOK
<1>4. CASE Become(q, [report[q] EXCEPT !.pc = "NEXT", !.todo = Newest,
                                       !.completed = closed])
  <2> DEFINE next == [report[q] EXCEPT !.pc = "NEXT", !.todo = Newest,
                                       !.completed = closed]
  <2>1. Newest \in Seq(Loan)
    BY ReportAssumption
  <2>2. next \in ReportRecord
    BY <1>1, <1>3, <2>1 DEF ReportRecord, ReportPc
  <2>3. /\ next.todo = Newest /\ next.completed = closed /\ next.pc = "NEXT"
        /\ next.verified = report[q].verified /\ next.seen = report[q].seen
    BY <1>1 DEF ReportRecord
  <2>4. ReportOK(next)
    BY <1>1, <1>3, <2>3, ReportAssumption DEF ReportOK
  <2> QED
    BY <1>2, <1>4, <2>2, <2>4, ReportBecomes
<1>5. CASE Become(q, [report[q] EXCEPT !.pc = "NEXT", !.whole = FALSE])
  <2> DEFINE next == [report[q] EXCEPT !.pc = "NEXT", !.whole = FALSE]
  <2>1. next \in ReportRecord
    BY <1>1 DEF ReportRecord, ReportPc
  <2>2. /\ next.completed = report[q].completed /\ next.pc = "NEXT" /\ next.whole = FALSE
        /\ next.verified = report[q].verified /\ next.seen = report[q].seen
    BY <1>1 DEF ReportRecord
  <2>3. ReportOK(next)
    BY <1>1, <2>2 DEF ReportOK
  <2> QED
    BY <1>2, <1>5, <2>1, <2>3, ReportBecomes
<1> QED
  BY <1>4, <1>5 DEF ReadLoans

\* The proofs are read before the rows.
LEMMA ReadProofsInv ==
  ASSUME FlowInv, ReportInv, NEW q \in Report, ReadProofs(q)
  PROVE  ReportInv'
<1> DEFINE r == report[q]
           l == Head(r.todo)
<1>1. r \in ReportRecord /\ ReportOK(r) /\ r.pc = "NEXT" /\ r.todo # <<>>
  BY DEF ReportInv, ReadProofs
<1>2. UNCHANGED flowVars
  BY DEF ReadProofs, ReadOnly
<1>3. l \in Loan
  BY <1>1 DEF ReportRecord
<1>4. CASE Become(q, [r EXCEPT !.pc = "ROWS", !.seen = proofs[l]])
  <2> DEFINE next == [r EXCEPT !.pc = "ROWS", !.seen = proofs[l]]
  <2>1. proofs[l] \in Seq(Proof)
    BY <1>3 DEF FlowInv, FlowTypeOK, Proof
  <2>2. next \in ReportRecord
    BY <1>1, <2>1 DEF ReportRecord, ReportPc
  <2>3. /\ next.completed = r.completed /\ next.pc = "ROWS" /\ next.whole = r.whole
        /\ next.verified = r.verified /\ next.seen = proofs[l] /\ next.todo = r.todo
        /\ next.paid = r.paid
    BY <1>1 DEF ReportRecord
  <2>4. ReadBefore(next.seen, Head(next.todo))
    BY <2>3 DEF ReadBefore
  <2>5. ReportOK(next)
    BY <1>1, <2>3, <2>4 DEF ReportOK, Listed
  <2> QED
    BY <1>2, <1>4, <2>2, <2>5, ReportBecomes
<1>5. CASE To(q, "FAILED")
  <2> DEFINE next == [r EXCEPT !.pc = "FAILED"]
  <2>1. next \in ReportRecord
    BY <1>1 DEF ReportRecord, ReportPc
  <2>2. ReportOK(next)
    BY <1>1 DEF ReportOK, ReportRecord, Listed
  <2> QED
    BY <1>2, <1>5, <2>1, <2>2, ReportBecomes DEF To
<1> QED
  BY <1>4, <1>5 DEF ReadProofs

\* The rows are read: of a completed loan all are paid, and what is paid with
\* the receipt of a proof read before is proved with it.
LEMMA ReadRowsInv ==
  ASSUME FlowInv, ReportInv, NEW q \in Report, ReadRows(q)
  PROVE  ReportInv'
<1> DEFINE r == report[q]
           l == Head(r.todo)
           Found(rows) == {<<l, n>> : n \in PaidIn(rows)}
           Good(rows) == {<<l, n>> : n \in {m \in PaidIn(rows) : HskVerified(rows[m], r.seen, m)}}
           With(rows) == [r EXCEPT !.pc = "NEXT", !.todo = Tail(@), !.seen = <<>>,
                                   !.paid = @ \cup Found(rows),
                                   !.verified = @ \cup Good(rows)]
<1>1. /\ r \in ReportRecord /\ ReportOK(r) /\ r.todo # <<>>
      /\ r.pc = "ROWS" \/ r.pc = "NEXT"
  BY DEF ReportInv, ReadRows, ReportOK
<1>2. UNCHANGED flowVars
  BY DEF ReadRows, ReadOnly
<1>3. /\ l \in Loan /\ Tail(r.todo) \in Seq(Loan) /\ Len(r.todo) \in Nat
      /\ Len(Tail(r.todo)) = Len(r.todo) - 1
      /\ \A j \in 1 .. Len(r.todo) : j # 1 => Tail(r.todo)[j - 1] = r.todo[j]
      /\ r.todo[1] = l
  <2>1. r.todo \in Seq(Loan)
    BY <1>1 DEF ReportRecord
  <2> QED
    BY <1>1, <2>1
<1>4. \A rows : (DOMAIN rows \subseteq Nat) =>
        /\ With(rows) \in ReportRecord
        /\ With(rows).pc = "NEXT" /\ With(rows).todo = Tail(r.todo)
        /\ With(rows).seen = <<>> /\ With(rows).completed = r.completed
        /\ With(rows).whole = r.whole
        /\ With(rows).paid = r.paid \cup Found(rows)
        /\ With(rows).verified = r.verified \cup Good(rows)
  <2> SUFFICES ASSUME NEW rows, DOMAIN rows \subseteq Nat
               PROVE  /\ With(rows) \in ReportRecord
                      /\ With(rows).pc = "NEXT" /\ With(rows).todo = Tail(r.todo)
                      /\ With(rows).seen = <<>> /\ With(rows).completed = r.completed
                      /\ With(rows).whole = r.whole
                      /\ With(rows).paid = r.paid \cup Found(rows)
                      /\ With(rows).verified = r.verified \cup Good(rows)
    OBVIOUS
  <2>1. Found(rows) \subseteq Loan \X Nat /\ Good(rows) \subseteq Loan \X Nat
    BY <1>3 DEF PaidIn
  <2>2. <<>> \in Seq(Proof)
    OBVIOUS
  <2> HIDE DEF Found, Good
  <2> QED
    BY <1>1, <1>3, <2>1, <2>2 DEF ReportRecord, ReportPc
<1>5. CASE Become(q, With(row[l]))
  <2> DEFINE next == With(row[l])
  <2>1. DOMAIN row[l] = Numbers(l) /\ Numbers(l) \subseteq Nat
    BY <1>3, FlowAssumption DEF FlowInv, FlowTypeOK, Numbers
  <2>2. /\ next \in ReportRecord
        /\ next.pc = "NEXT" /\ next.todo = Tail(r.todo) /\ next.seen = <<>>
        /\ next.completed = r.completed /\ next.whole = r.whole
        /\ next.paid = r.paid \cup Found(row[l])
        /\ next.verified = r.verified \cup Good(row[l])
    BY <1>4, <2>1
  <2>3. l \in closed => Listed(next, l)
    BY <2>1, <2>2 DEF FlowInv, ClosedIsPaid, AllRowsPaid, Listed, PaidIn
  <2>4. \A m \in r.completed : r.whole =>
           Listed(next, m) \/ \E j \in 1 .. Len(next.todo) : next.todo[j] = m
    <3> SUFFICES ASSUME NEW m \in r.completed, r.whole
                 PROVE  Listed(next, m) \/ \E j \in 1 .. Len(next.todo) : next.todo[j] = m
      OBVIOUS
    <3>1. CASE Listed(r, m)
      BY <2>2, <3>1 DEF Listed
    <3>2. CASE m = l
      BY <1>1, <2>3, <3>2 DEF ReportOK
    <3>3. ASSUME NEW j \in 1 .. Len(r.todo), r.todo[j] = m, m # l
          PROVE  \E i \in 1 .. Len(next.todo) : next.todo[i] = m
      <4>1. j # 1 /\ j - 1 \in 1 .. Len(next.todo) /\ next.todo[j - 1] = m
        BY <1>3, <2>2, <3>3
      <4> QED
        BY <4>1
    <3> QED
      BY <1>1, <3>1, <3>2, <3>3 DEF ReportOK
  <2>5. \A n \in Nat : <<l, n>> \in Good(row[l]) => Holds(l, n)
    <3> SUFFICES ASSUME NEW n \in Nat, <<l, n>> \in Good(row[l]) PROVE Holds(l, n)
      OBVIOUS
    <3>1. n \in PaidIn(row[l]) /\ HskVerified(row[l][n], r.seen, n)
      OBVIOUS
    <3>2. ReadBefore(r.seen, l)
      BY <1>1 DEF ReportOK, ReadBefore
    <3> QED
      BY <2>1, <3>1, <3>2 DEF Holds, PaidIn, HskVerified, ReadBefore
  <2>6. \A m \in Loan, n \in Nat : <<m, n>> \in next.verified => Holds(m, n)
    <3> SUFFICES ASSUME NEW m \in Loan, NEW n \in Nat, <<m, n>> \in next.verified
                 PROVE  Holds(m, n)
      OBVIOUS
    <3>1. CASE <<m, n>> \in r.verified
      BY <1>1, <3>1 DEF ReportOK
    <3>2. CASE <<m, n>> \in Good(row[l])
      BY <2>5, <3>2
    <3> QED
      BY <2>2, <3>1, <3>2
  <2>7. ReportOK(next)
    <3> HIDE DEF next
    <3> QED
      BY <1>1, <2>2, <2>4, <2>6 DEF ReportOK
  <2> QED
    BY <1>2, <1>5, <2>2, <2>7, ReportBecomes
<1>6. CASE Become(q, [With(<<>>) EXCEPT !.whole = FALSE])
  <2> DEFINE next == [With(<<>>) EXCEPT !.whole = FALSE]
  <2>1. Found(<<>>) = {} /\ Good(<<>>) = {}
    <3>1. DOMAIN <<>> = {}
      OBVIOUS
    <3>2. PaidIn(<<>>) = {}
      BY <3>1, Zenon DEF PaidIn
    <3> QED
      BY <3>2, Zenon
  <2>2. /\ With(<<>>) \in ReportRecord
        /\ With(<<>>).pc = "NEXT" /\ With(<<>>).seen = <<>>
        /\ With(<<>>).completed = r.completed /\ With(<<>>).verified = r.verified
    <3>1. DOMAIN <<>> \subseteq Nat
      OBVIOUS
    <3> QED
      BY <1>4, <2>1, <3>1
  <2> HIDE DEF With
  <2>3. next \in ReportRecord
    BY <2>2 DEF ReportRecord
  <2>4. /\ next.pc = "NEXT" /\ next.seen = <<>> /\ next.whole = FALSE
        /\ next.completed = r.completed /\ next.verified = r.verified
    BY <2>2 DEF ReportRecord
  <2>5. ReportOK(next)
    <3> HIDE DEF next
    <3> QED
      BY <1>1, <2>4 DEF ReportOK
  <2> QED
    BY <1>2, <1>6, <2>3, <2>5, ReportBecomes
<1> QED
  BY <1>5, <1>6 DEF ReadRows

LEMMA FinishInv ==
  ASSUME FlowInv, ReportInv, NEW q \in Report, Finish(q)
  PROVE  ReportInv'
<1> DEFINE next == [report[q] EXCEPT !.pc = "DONE"]
<1>1. /\ report[q] \in ReportRecord /\ ReportOK(report[q])
      /\ report[q].pc = "NEXT" /\ report[q].todo = <<>>
  BY DEF ReportInv, Finish
<1>2. next \in ReportRecord
  BY <1>1 DEF ReportRecord, ReportPc
<1>3. ReportOK(next)
  BY <1>1 DEF ReportOK, ReportRecord, Listed
<1>4. UNCHANGED flowVars
  BY DEF Finish, ReadOnly
<1> QED
  BY <1>2, <1>3, <1>4, ReportBecomes DEF Finish

\* Every step preserves it.
LEMMA ReportNext == FlowInv /\ ReportInv /\ [DossierNext]_dossierVars => ReportInv'
<1> SUFFICES ASSUME FlowInv, ReportInv, [DossierNext]_dossierVars PROVE ReportInv'
  OBVIOUS
<1>1. CASE ReportStep /\ report' # report
  <2>1. PICK q \in Report :
          \/ \E kind \in {"SUMMARY", "OWN", "DOSSIER"} : StartReport(q, kind)
          \/ AfterVerification(q) \/ ReadLoans(q) \/ ReadProofs(q) \/ ReadRows(q)
          \/ Finish(q)
    BY <1>1 DEF ReportStep, UpdatePassport
  <2> QED
    BY <2>1, StartReportInv, AfterVerificationInv, ReadLoansInv, ReadProofsInv,
       ReadRowsInv, FinishInv
<1>2. CASE ~ (ReportStep /\ report' # report)
  <2>1. report' = report
    BY <1>2 DEF DossierNext, PaymentStep, AccessStep, ListStep, Tick, StartList,
                LookEvidence, FetchEvidence, StoreEvidence, ForgetEvidence, ListOnly,
                reportVars, dossierVars
  <2>2. [FlowNext]_flowVars
    BY DossierFlow DEF dossierVars, flowVars
  <2>3. Grows
    BY <2>2, FlowGrows
  <2> QED
    BY <2>1, <2>3, ReportGrows
<1> QED
  BY <1>1, <1>2

LEMMA ReportsAlways == DossierSpec => []FlowInv /\ []ReportInv
  BY PaymentsUndisturbed, FlowInvariant, ReportInit, ReportNext, PTL DEF DossierSpec

\* A finished report of which no read failed lists every installment of every
\* loan it counts as completed, although payments went on between its reads.
THEOREM CompletedAreWhole == DossierSpec => []CompletedLoansAreWhole
<1>1. ReportInv => CompletedLoansAreWhole
  <2> SUFFICES ASSUME ReportInv, NEW q \in Report,
                      report[q].pc = "DONE", report[q].whole,
                      NEW l \in report[q].completed, NEW n \in Numbers(l)
               PROVE  <<l, n>> \in report[q].paid
    BY DEF CompletedLoansAreWhole
  <2>1. ReportOK(report[q])
    BY DEF ReportInv
  <2>2. Len(report[q].todo) = 0
    BY <2>1 DEF ReportOK
  <2>3. Listed(report[q], l)
    BY <2>1, <2>2 DEF ReportOK
  <2> QED
    BY <2>3 DEF Listed
<1> QED
  BY <1>1, ReportsAlways, PTL

-----------------------------------------------------------------------------
(* Lists and their evidence. *)

\* When each proof was buried, in the past.
BuriedAtOK(l) ==
    /\ buriedAt[l] \in Seq(Nat)
    /\ Len(buriedAt[l]) = buried[l]
    /\ \A n \in 1 .. buried[l] : buriedAt[l][n] <= now

\* An answer of the chain about a loan that knows all that was buried before
\* a moment.
AnswerOK(receipts, l, before) ==
    /\ ReadBefore(receipts, l)
    /\ \A n \in 1 .. buried[l] : buriedAt[l][n] < before => n \in DOMAIN receipts

EvidenceOK(e, l) ==
    /\ e = [until |-> e.until, status |-> e.status, receipts |-> e.receipts]
    /\ e.until \in Nat /\ e.until <= now + EvidenceTtl
    /\ e.status = "VERIFIED" =>
          AnswerOK(e.receipts, l, e.until - EvidenceTtl - CallTime)

\* What was read of the rows of a loan.
RowsBefore(rows, l) ==
    \A n \in DOMAIN rows :
        /\ n \in Numbers(l)
        /\ rows[n].paid => row[l][n].paid /\ row[l][n].receipt = rows[n].receipt
        /\ ~ rows[n].paid => rows[n].receipt = NoReceipt

ListOK(r) ==
    /\ DOMAIN r = {"pc", "loan", "rows", "status", "receipts", "at"}
    /\ r.loan \in Loan
    /\ r.at \in Nat /\ r.at <= now
    /\ RowsBefore(r.rows, r.loan)
    /\ r.pc \in {"LOOK", "FETCH"} => r.status = "UNAVAILABLE"
    /\ r.pc = "STORE" =>
          /\ now - r.at <= CallTime
          /\ r.status = "VERIFIED" => AnswerOK(r.receipts, r.loan, r.at)
    /\ r.pc = "DONE" /\ r.status = "VERIFIED" =>
          AnswerOK(r.receipts, r.loan, r.at + 1 - EvidenceTtl - CallTime)

ListInv ==
    /\ now \in Nat
    /\ DOMAIN list = List /\ DOMAIN evidence = Loan
    /\ \A l \in Loan : BuriedAtOK(l) /\ EvidenceOK(evidence[l], l)
    /\ \A q \in List : ListOK(list[q])

LEMMA ListInit == DossierInit => ListInv
<1> SUFFICES ASSUME DossierInit PROVE ListInv
  OBVIOUS
<1>1. Newest[1] \in Loan
  BY ReportAssumption
<1>2. now = 0 /\ EvidenceTtl \in Nat
  BY ReportAssumption DEF DossierInit, UnlockInit
<1>3. \A l \in Loan : BuriedAtOK(l)
  <2>1. \A l \in Loan : buriedAt[l] = <<>> /\ buried[l] = 0
    BY DEF DossierInit, FlowInit, ReportsInit
  <2> SUFFICES ASSUME NEW l \in Loan PROVE BuriedAtOK(l)
    OBVIOUS
  <2>2. <<>> \in Seq(Nat) /\ Len(<<>>) = 0 /\ 1 .. 0 = {}
    OBVIOUS
  <2>3. buriedAt[l] \in Seq(Nat) /\ Len(buriedAt[l]) = 0 /\ buried[l] = 0
    BY <2>1, <2>2
  <2> QED
    BY <2>2, <2>3 DEF BuriedAtOK
<1>4. \A l \in Loan : EvidenceOK(evidence[l], l)
  <2>1. \A l \in Loan : evidence[l] = [until |-> 0, status |-> "UNAVAILABLE", receipts |-> <<>>]
    BY DEF DossierInit, ReportsInit, NoEvidence
  <2> SUFFICES ASSUME NEW l \in Loan PROVE EvidenceOK(evidence[l], l)
    OBVIOUS
  <2>2. /\ evidence[l].until = 0 /\ evidence[l].status = "UNAVAILABLE"
        /\ evidence[l].receipts = <<>>
    BY <2>1
  <2> QED
    BY <1>2, <2>1, <2>2 DEF EvidenceOK
<1>5. \A q \in List : list[q] = NewList
  BY DEF DossierInit, ReportsInit
<1>6. ListOK(NewList)
  BY <1>1, <1>2 DEF NewList, ListOK, RowsBefore
<1> QED
  BY <1>2, <1>3, <1>4, <1>5, <1>6 DEF ListInv, DossierInit, ReportsInit
\* A payment buries at most one more proof of a loan.
LEMMA FlowBuries ==
  ASSUME FlowInv, [FlowNext]_flowVars, NEW l \in Loan
  PROVE  /\ buried[l] \in Nat
         /\ buried'[l] = buried[l] \/ buried'[l] = buried[l] + 1
<1> USE DEF FlowInv, FlowDomains, FlowTypeOK
<1>1. buried[l] \in Nat
  BY DEF FlowInv
<1>2. CASE FlowNext
  <2>1. PICK m \in Loan : BuryProof(m) \/ buried' = buried
    BY <1>2 DEF FlowNext, FlowStep, ProveCash, BookCash, Settle, Anchor, Sync, Close
  <2> QED
    BY <1>1, <2>1 DEF BuryProof
<1>3. CASE UNCHANGED flowVars
  BY <1>3 DEF flowVars
<1> QED
  BY <1>1, <1>2, <1>3

\* A payment proceeds: what was read stays true, and a proof that is buried
\* now is not one that an earlier answer had to have.
LEMMA ListPayment ==
  ASSUME FlowInv, ListInv, PaymentStep
  PROVE  ListInv'
<1>1. /\ Grows
      /\ now' = now /\ evidence' = evidence /\ list' = list
      /\ buriedAt' = [l \in Loan |-> IF buried'[l] > buried[l]
                                     THEN Append(buriedAt[l], now) ELSE buriedAt[l]]
      /\ now \in Nat /\ CallTime \in Nat \ {0} /\ EvidenceTtl \in Nat \ {0}
  BY FlowGrows, UnlockAssumption, ReportAssumption DEF PaymentStep, ListInv
<1>2. ASSUME NEW l \in Loan
      PROVE  /\ BuriedAtOK(l)'
             /\ \A n \in 1 .. buried'[l] : buriedAt'[l][n] # now =>
                   n \in 1 .. buried[l] /\ buriedAt'[l][n] = buriedAt[l][n]
  <2>1. /\ buried[l] \in Nat
        /\ buried'[l] = buried[l] \/ buried'[l] = buried[l] + 1
    BY FlowBuries DEF PaymentStep
  <2>2. BuriedAtOK(l)
    BY DEF ListInv
  <2>3. CASE buried'[l] = buried[l]
    <3>1. buriedAt'[l] = buriedAt[l]
      BY <1>1, <2>1, <2>3
    <3> QED
      BY <1>1, <2>1, <2>2, <2>3, <3>1 DEF BuriedAtOK
  <2>4. CASE buried'[l] = buried[l] + 1
    <3>1. buriedAt'[l] = Append(buriedAt[l], now)
      BY <1>1, <2>1, <2>4
    <3>2. /\ Append(buriedAt[l], now) \in Seq(Nat)
          /\ Len(Append(buriedAt[l], now)) = buried[l] + 1
          /\ \A n \in 1 .. buried[l] : Append(buriedAt[l], now)[n] = buriedAt[l][n]
          /\ Append(buriedAt[l], now)[buried[l] + 1] = now
      BY <1>1, <2>1, <2>2, Appended DEF BuriedAtOK
    <3> QED
      BY <1>1, <2>1, <2>2, <2>4, <3>1, <3>2 DEF BuriedAtOK
  <2> QED
    BY <2>1, <2>3, <2>4
<1>3. ASSUME NEW l \in Loan, NEW receipts, NEW before \in Int, before <= now,
             AnswerOK(receipts, l, before)
      PROVE  AnswerOK(receipts, l, before)'
  <2>1. ReadBefore(receipts, l)'
    <3>1. ReadBefore(receipts, l)
      BY <1>3 DEF AnswerOK
    <3> QED
      BY <1>1, <3>1 DEF ReadBefore, Grows
  <2>2. ASSUME NEW n \in 1 .. buried'[l], buriedAt'[l][n] < before
        PROVE  n \in DOMAIN receipts
    <3>1. buriedAt'[l][n] # now
      <4>1. now \in Int /\ before \in Int /\ before <= now
        BY <1>1, <1>3
      <4>2. ~ (now < before)
        BY <4>1
      <4> QED
        BY <2>2, <4>2, Zenon
    <3>2. n \in 1 .. buried[l] /\ buriedAt[l][n] < before
      BY <1>2, <2>2, <3>1
    <3> QED
      BY <1>3, <3>2 DEF AnswerOK
  <2> QED
    BY <2>1, <2>2 DEF AnswerOK
<1>4. ASSUME NEW l \in Loan PROVE EvidenceOK(evidence[l], l)'
  <2>1. EvidenceOK(evidence[l], l) /\ evidence'[l] = evidence[l]
    BY <1>1 DEF ListInv
  <2> DEFINE before == evidence[l].until - EvidenceTtl - CallTime
  <2>2. before \in Int /\ before <= now
    BY <1>1, <2>1 DEF EvidenceOK
  <2>3. evidence[l].status = "VERIFIED" => AnswerOK(evidence[l].receipts, l, before)'
    BY <1>1, <1>3, <2>1, <2>2 DEF EvidenceOK
  <2> QED
    BY <1>1, <2>1, <2>3 DEF EvidenceOK
<1>5. ASSUME NEW q \in List PROVE ListOK(list[q])'
  <2> DEFINE r == list[q]
             before == r.at + 1 - EvidenceTtl - CallTime
  <2>1. ListOK(r) /\ list' = list
    BY <1>1 DEF ListInv
  <2>2. r.loan \in Loan /\ r.at \in Int /\ r.at <= now /\ before \in Int /\ before <= now
    BY <1>1, <2>1 DEF ListOK
  <2>3. RowsBefore(r.rows, r.loan)'
    BY <1>1, <2>1, <2>2 DEF ListOK, RowsBefore, Grows, Numbers
  <2>4. r.pc = "STORE" /\ r.status = "VERIFIED" => AnswerOK(r.receipts, r.loan, r.at)'
    BY <1>1, <1>3, <2>1, <2>2 DEF ListOK
  <2>5. r.pc = "DONE" /\ r.status = "VERIFIED" => AnswerOK(r.receipts, r.loan, before)'
    BY <1>1, <1>3, <2>1, <2>2 DEF ListOK
  <2> QED
    BY <1>1, <2>1, <2>3, <2>4, <2>5 DEF ListOK
<1> QED
  BY <1>1, <1>2, <1>4, <1>5 DEF ListInv
\* A step of a list leaves tables, chain and clock alone.
LEMMA ListBecomes ==
  ASSUME ListInv, ListOnly, NEW q \in List, NEW next,
         list' = [list EXCEPT ![q] = next], ListOK(next),
         DOMAIN evidence' = Loan, \A l \in Loan : EvidenceOK(evidence'[l], l)
  PROVE  ListInv'
<1>1. /\ row' = row /\ proofs' = proofs /\ buried' = buried /\ now' = now
      /\ buriedAt' = buriedAt
  BY DEF ListOnly, flowVars
<1>2. \A s \in List : ListOK(list'[s])
  BY DEF ListInv
<1>3. \A s \in List : ListOK(list[s])'
  BY <1>1, <1>2 DEF ListOK, AnswerOK, ReadBefore, RowsBefore, Numbers
<1>4. \A l \in Loan : BuriedAtOK(l)' /\ EvidenceOK(evidence[l], l)'
  BY <1>1 DEF ListInv, BuriedAtOK, EvidenceOK, AnswerOK, ReadBefore
<1> QED
  BY <1>1, <1>3, <1>4 DEF ListInv

LEMMA StartListInv ==
  ASSUME FlowInv, ListInv, NEW q \in List, NEW l \in Loan, StartList(q, l)
  PROVE  ListInv'
<1> DEFINE next == [NewList EXCEPT !.pc = "LOOK", !.loan = l, !.rows = row[l]]
<1>1. /\ DOMAIN next = {"pc", "loan", "rows", "status", "receipts", "at"}
      /\ next.pc = "LOOK" /\ next.loan = l /\ next.rows = row[l]
      /\ next.status = "UNAVAILABLE" /\ next.at = 0
  BY DEF NewList
<1>2. RowsBefore(row[l], l)
  BY DEF RowsBefore, FlowInv, FlowTypeOK, PaidHasReceipt
<1>3. ListOK(next)
  <2>1. now \in Nat
    BY DEF ListInv
  <2> HIDE DEF next
  <2> QED
    BY <1>1, <1>2, <2>1 DEF ListOK
<1> QED
  BY <1>3, ListBecomes DEF StartList, ListInv

\* An entry that is still good is used: it is from after now minus the time
\* an entry lasts and the call that made it.
LEMMA LookEvidenceInv ==
  ASSUME FlowInv, ListInv, NEW q \in List, LookEvidence(q)
  PROVE  ListInv'
<1> DEFINE r == list[q]
           e == evidence[r.loan]
<1>1. /\ ListOK(r) /\ r.pc = "LOOK" /\ r.loan \in Loan /\ EvidenceOK(e, r.loan)
      /\ now \in Nat /\ EvidenceTtl \in Nat /\ CallTime \in Nat
  BY ReportAssumption, UnlockAssumption DEF ListInv, LookEvidence, ListOK
<1>2. evidence' = evidence /\ ListOnly
  BY DEF LookEvidence
<1>3. CASE Fresh(r.loan)
  <2> DEFINE next == [r EXCEPT !.pc = "DONE", !.status = e.status,
                               !.receipts = e.receipts, !.at = now]
  <2>1. list' = [list EXCEPT ![q] = next]
    BY <1>3 DEF LookEvidence
  <2>2. /\ DOMAIN next = {"pc", "loan", "rows", "status", "receipts", "at"}
        /\ next.pc = "DONE" /\ next.loan = r.loan /\ next.rows = r.rows
        /\ next.status = e.status /\ next.receipts = e.receipts /\ next.at = now
    BY <1>1 DEF ListOK
  <2>3. e.status = "VERIFIED" =>
           AnswerOK(e.receipts, r.loan, now + 1 - EvidenceTtl - CallTime)
    <3> SUFFICES ASSUME e.status = "VERIFIED", NEW n \in 1 .. buried[r.loan],
                        buriedAt[r.loan][n] < now + 1 - EvidenceTtl - CallTime
                 PROVE  n \in DOMAIN e.receipts
      BY <1>1 DEF EvidenceOK, AnswerOK
    <3>1. buriedAt[r.loan][n] \in Nat
      BY <1>1, ElementOf DEF ListInv, BuriedAtOK
    <3>2. e.until \in Nat /\ e.until > now
      BY <1>1, <1>3 DEF EvidenceOK, Fresh
    <3>3. buriedAt[r.loan][n] < e.until - EvidenceTtl - CallTime
      BY <1>1, <3>1, <3>2
    <3> QED
      BY <1>1, <3>3 DEF EvidenceOK, AnswerOK
  <2>4. ListOK(next)
    <3> HIDE DEF next
    <3> QED
      BY <1>1, <2>2, <2>3 DEF ListOK
  <2> QED
    BY <1>2, <2>1, <2>4, ListBecomes DEF ListInv
<1>4. CASE ~ Fresh(r.loan)
  <2> DEFINE next == [r EXCEPT !.pc = "FETCH"]
  <2>1. list' = [list EXCEPT ![q] = next]
    BY <1>4 DEF LookEvidence
  <2>2. /\ DOMAIN next = {"pc", "loan", "rows", "status", "receipts", "at"}
        /\ next.pc = "FETCH" /\ next.loan = r.loan /\ next.rows = r.rows
        /\ next.status = r.status /\ next.receipts = r.receipts /\ next.at = r.at
    BY <1>1 DEF ListOK
  <2>3. ListOK(next)
    <3> HIDE DEF next
    <3> QED
      BY <1>1, <2>2 DEF ListOK
  <2> QED
    BY <1>2, <2>1, <2>3, ListBecomes DEF ListInv
<1> QED
  BY <1>3, <1>4

\* The chain is asked one block below the head: it knows all that is buried.
LEMMA FetchEvidenceInv ==
  ASSUME FlowInv, ListInv, NEW q \in List, FetchEvidence(q)
  PROVE  ListInv'
<1> DEFINE r == list[q]
           l == r.loan
           seen == SubSeq(proofs[l], 1, buried[l])
<1>1. /\ ListOK(r) /\ r.pc = "FETCH" /\ l \in Loan
      /\ now \in Nat /\ CallTime \in Nat
  BY UnlockAssumption DEF ListInv, FetchEvidence, ListOK
<1>2. evidence' = evidence /\ ListOnly
  BY DEF FetchEvidence
<1>3. AnswerOK(seen, l, now)
  <2>1. proofs[l] \in Seq(Proof) /\ buried[l] \in 0 .. Len(proofs[l])
    BY <1>1 DEF FlowInv, FlowTypeOK, Proof
  <2>2. /\ DOMAIN seen = 1 .. buried[l]
        /\ \A n \in 1 .. buried[l] : seen[n] = proofs[l][n] /\ n \in DOMAIN proofs[l]
    BY <2>1
  <2> QED
    BY <2>2 DEF AnswerOK, ReadBefore
<1>4. CASE list' = [list EXCEPT ![q] = [@ EXCEPT !.pc = "STORE", !.at = now,
                                          !.status = "VERIFIED", !.receipts = seen]]
  <2> DEFINE next == [r EXCEPT !.pc = "STORE", !.at = now, !.status = "VERIFIED",
                               !.receipts = seen]
  <2>1. list' = [list EXCEPT ![q] = next]
    BY <1>4
  <2>2. /\ DOMAIN next = {"pc", "loan", "rows", "status", "receipts", "at"}
        /\ next.pc = "STORE" /\ next.loan = l /\ next.rows = r.rows
        /\ next.status = "VERIFIED" /\ next.receipts = seen /\ next.at = now
    BY <1>1 DEF ListOK
  <2>3. ListOK(next)
    <3> HIDE DEF next, seen
    <3> QED
      BY <1>1, <1>3, <2>2 DEF ListOK
  <2> QED
    BY <1>2, <2>1, <2>3, ListBecomes DEF ListInv
<1>5. CASE list' = [list EXCEPT ![q] = [@ EXCEPT !.pc = "STORE", !.at = now]]
  <2> DEFINE next == [r EXCEPT !.pc = "STORE", !.at = now]
  <2>1. list' = [list EXCEPT ![q] = next]
    BY <1>5
  <2>2. /\ DOMAIN next = {"pc", "loan", "rows", "status", "receipts", "at"}
        /\ next.pc = "STORE" /\ next.loan = l /\ next.rows = r.rows
        /\ next.status = r.status /\ next.receipts = r.receipts /\ next.at = now
    BY <1>1 DEF ListOK
  <2>3. ListOK(next)
    <3> HIDE DEF next
    <3> QED
      BY <1>1, <2>2 DEF ListOK
  <2> QED
    BY <1>2, <2>1, <2>3, ListBecomes DEF ListInv
<1> QED
  BY <1>4, <1>5 DEF FetchEvidence

\* An answer that knows what was buried before a moment, knows what was
\* buried before an earlier one.
LEMMA AnswerKeeps ==
  ASSUME ListInv, NEW l \in Loan, NEW receipts, NEW before \in Int,
         NEW earlier \in Int, earlier <= before, AnswerOK(receipts, l, before)
  PROVE  AnswerOK(receipts, l, earlier)
<1>1. ASSUME NEW n \in 1 .. buried[l], buriedAt[l][n] < earlier
      PROVE  n \in DOMAIN receipts
  <2>1. buriedAt[l][n] \in Nat
    BY ElementOf DEF ListInv, BuriedAtOK
  <2>2. buriedAt[l][n] < before
    BY <1>1, <2>1
  <2> QED
    BY <2>2 DEF AnswerOK
<1> QED
  BY <1>1 DEF AnswerOK

\* The answer is kept, and shown, as long as the call lasted after it was
\* given.
LEMMA StoreEvidenceInv ==
  ASSUME FlowInv, ListInv, NEW q \in List, StoreEvidence(q)
  PROVE  ListInv'
<1> DEFINE r == list[q]
           l == r.loan
           entry == [until |-> now + (IF r.status = "VERIFIED" THEN EvidenceTtl
                                                               ELSE ErrorTtl),
                     status |-> r.status, receipts |-> r.receipts]
           next == [r EXCEPT !.pc = "DONE", !.at = now]
<1>1. /\ ListOK(r) /\ r.pc = "STORE" /\ l \in Loan
      /\ now \in Nat /\ r.at \in Nat /\ now - r.at <= CallTime
      /\ CallTime \in Nat /\ EvidenceTtl \in Nat /\ ErrorTtl \in Nat
      /\ 1 <= EvidenceTtl /\ ErrorTtl <= EvidenceTtl
  <2>1. EvidenceTtl \in Nat /\ ErrorTtl \in 1 .. EvidenceTtl
    BY ReportAssumption
  <2> QED
    BY <2>1, UnlockAssumption DEF ListInv, StoreEvidence, ListOK
<1>2. /\ evidence' = [evidence EXCEPT ![l] = entry]
      /\ list' = [list EXCEPT ![q] = next]
      /\ ListOnly
  BY DEF StoreEvidence
<1>3. ASSUME r.status = "VERIFIED"
      PROVE  /\ AnswerOK(r.receipts, l, now - CallTime)
             /\ AnswerOK(r.receipts, l, now + 1 - EvidenceTtl - CallTime)
  <2>1. AnswerOK(r.receipts, l, r.at)
    BY <1>1, <1>3 DEF ListOK
  <2>2. /\ now - CallTime \in Int /\ now - CallTime <= r.at
        /\ now + 1 - EvidenceTtl - CallTime \in Int
        /\ now + 1 - EvidenceTtl - CallTime <= r.at
        /\ r.at \in Int
    BY <1>1
  <2> HIDE DEF l, r
  <2> QED
    BY <1>1, <2>1, <2>2, AnswerKeeps
<1>4. EvidenceOK(entry, l)
  <2>1. entry.status = r.status /\ entry.receipts = r.receipts
    OBVIOUS
  <2>2. entry.until \in Nat /\ entry.until <= now + EvidenceTtl
    BY <1>1
  <2>3. r.status = "VERIFIED" => entry.until - EvidenceTtl - CallTime = now - CallTime
    BY <1>1
  <2>4. entry = [until |-> entry.until, status |-> entry.status,
                 receipts |-> entry.receipts]
    OBVIOUS
  <2> HIDE DEF entry
  <2> QED
    BY <1>3, <2>1, <2>2, <2>3, <2>4 DEF EvidenceOK
<1>5. DOMAIN evidence' = Loan /\ \A m \in Loan : EvidenceOK(evidence'[m], m)
  <2> HIDE DEF entry
  <2> QED
    BY <1>1, <1>2, <1>4 DEF ListInv
<1>6. ListOK(next)
  <2>1. /\ DOMAIN next = {"pc", "loan", "rows", "status", "receipts", "at"}
        /\ next.pc = "DONE" /\ next.loan = l /\ next.rows = r.rows
        /\ next.status = r.status /\ next.receipts = r.receipts /\ next.at = now
    BY <1>1 DEF ListOK
  <2> HIDE DEF next
  <2> QED
    BY <1>1, <1>3, <2>1 DEF ListOK
<1> QED
  BY <1>2, <1>5, <1>6, ListBecomes

LEMMA ForgetEvidenceInv ==
  ASSUME FlowInv, ListInv, ForgetEvidence
  PROVE  ListInv'
<1>1. /\ row' = row /\ proofs' = proofs /\ buried' = buried /\ now' = now
      /\ buriedAt' = buriedAt /\ list' = list
      /\ evidence' = [l \in Loan |-> NoEvidence]
  BY DEF ForgetEvidence, ListOnly, flowVars
<1>2. now \in Nat /\ EvidenceTtl \in Nat
  BY ReportAssumption DEF ListInv
<1>3. \A l \in Loan : EvidenceOK(NoEvidence, l)'
  BY <1>1, <1>2 DEF EvidenceOK, NoEvidence
<1>4. \A q \in List : ListOK(list[q])'
  BY <1>1 DEF ListInv, ListOK, AnswerOK, ReadBefore, RowsBefore, Numbers
<1>5. \A l \in Loan : BuriedAtOK(l)'
  BY <1>1 DEF ListInv, BuriedAtOK
<1> QED
  BY <1>1, <1>2, <1>3, <1>4, <1>5 DEF ListInv

\* Time passes; a call in progress has not yet lasted its time.
LEMMA TickInv ==
  ASSUME FlowInv, ListInv, Tick
  PROVE  ListInv'
<1>1. /\ row' = row /\ proofs' = proofs /\ buried' = buried
      /\ buriedAt' = buriedAt /\ list' = list /\ evidence' = evidence
      /\ now' = now + 1 /\ now \in Nat
      /\ CallTime \in Nat /\ EvidenceTtl \in Nat
      /\ \A q \in List : list[q].pc = "STORE" => now - list[q].at < CallTime
  BY UnlockAssumption, ReportAssumption DEF Tick, flowVars, reportVars, ListInv
<1>2. \A l \in Loan : BuriedAtOK(l)'
  <2> SUFFICES ASSUME NEW l \in Loan PROVE BuriedAtOK(l)'
    OBVIOUS
  <2>1. BuriedAtOK(l) /\ \A n \in 1 .. buried[l] : buriedAt[l][n] \in Nat
    BY ElementOf DEF ListInv, BuriedAtOK
  <2> QED
    BY <1>1, <2>1 DEF BuriedAtOK
<1>3. \A l \in Loan : EvidenceOK(evidence[l], l)'
  BY <1>1 DEF ListInv, EvidenceOK, AnswerOK, ReadBefore
<1>4. \A q \in List : ListOK(list[q])'
  <2> SUFFICES ASSUME NEW q \in List PROVE ListOK(list[q])'
    OBVIOUS
  <2>1. ListOK(list[q]) /\ list[q].at \in Nat
    BY DEF ListInv, ListOK
  <2>2. \A receipts, l, before : AnswerOK(receipts, l, before) =>
           AnswerOK(receipts, l, before)'
    BY <1>1 DEF AnswerOK, ReadBefore
  <2>3. RowsBefore(list[q].rows, list[q].loan)'
    BY <1>1, <2>1 DEF ListOK, RowsBefore, Numbers
  <2> QED
    BY <1>1, <2>1, <2>2, <2>3 DEF ListOK
<1> QED
  BY <1>1, <1>2, <1>3, <1>4 DEF ListInv

\* Steps that leave lists, evidence, tables, chain and clock alone.
LEMMA ListUntouched ==
  ASSUME ListInv,
         UNCHANGED <<row, proofs, buried, buriedAt, now, list, evidence>>
  PROVE  ListInv'
<1>1. \A q \in List : ListOK(list[q])'
  BY DEF ListInv, ListOK, AnswerOK, ReadBefore, RowsBefore, Numbers
<1>2. \A l \in Loan : BuriedAtOK(l)' /\ EvidenceOK(evidence[l], l)'
  BY DEF ListInv, BuriedAtOK, EvidenceOK, AnswerOK, ReadBefore
<1> QED
  BY <1>1, <1>2 DEF ListInv

LEMMA ListNext == FlowInv /\ ListInv /\ [DossierNext]_dossierVars => ListInv'
<1> SUFFICES ASSUME FlowInv, ListInv, [DossierNext]_dossierVars PROVE ListInv'
  OBVIOUS
<1>1. CASE PaymentStep
  BY <1>1, ListPayment
<1>2. CASE AccessStep
  <2>1. UNCHANGED <<row, proofs, buried, buriedAt, now, list, evidence>>
    BY <1>2 DEF AccessStep, flowVars, reportVars, UnlockStep, CheckSignature, AskLock,
                KeepAnswer, LockUnavailable, MembershipChanges
  <2> QED
    BY <2>1, ListUntouched
<1>3. CASE ReportStep
  <2>1. UNCHANGED <<row, proofs, buried, buriedAt, now, list, evidence>>
    BY <1>3 DEF ReportStep, UpdatePassport, StartReport, AfterVerification, ReadLoans,
                ReadProofs, ReadRows, Finish, ReadOnly, flowVars
  <2> QED
    BY <2>1, ListUntouched
<1>4. CASE ListStep
  BY <1>4, StartListInv, LookEvidenceInv, FetchEvidenceInv, StoreEvidenceInv,
     ForgetEvidenceInv DEF ListStep
<1>5. CASE Tick
  BY <1>5, TickInv
<1>6. CASE UNCHANGED dossierVars
  BY <1>6, ListUntouched DEF dossierVars, flowVars, reportVars
<1> QED
  BY <1>1, <1>2, <1>3, <1>4, <1>5, <1>6 DEF DossierNext

LEMMA ListsAlways == DossierSpec => []FlowInv /\ []ListInv
  BY PaymentsUndisturbed, FlowInvariant, ListInit, ListNext, PTL DEF DossierSpec

\* What a report or a list shows as verified is paid, and the contract has its
\* proof with the receipt of the tables.
THEOREM ShownIsProved == DossierSpec => []VerifiedIsProved
<1>1. ASSUME ReportInv, NEW q \in Report, NEW d \in report[q].verified
      PROVE  Holds(d[1], d[2])
  <2>1. report[q].verified \in SUBSET (Loan \X Nat) /\ ReportOK(report[q])
    BY <1>1 DEF ReportInv, ReportRecord
  <2>2. d[1] \in Loan /\ d[2] \in Nat /\ d = <<d[1], d[2]>>
    BY <1>1, <2>1
  <2> QED
    BY <1>1, <2>1, <2>2 DEF ReportOK
<1>2. ASSUME FlowInv, ListInv, NEW q \in List, list[q].pc = "DONE",
             NEW n \in ShownVerified(q)
      PROVE  Holds(list[q].loan, n)
  <2> DEFINE r == list[q]
             l == r.loan
  <2>1. /\ ListOK(r) /\ r.status = "VERIFIED"
        /\ n \in DOMAIN r.rows /\ n \in DOMAIN r.receipts
        /\ r.receipts[n].receipt = r.rows[n].receipt
    BY <1>2 DEF ListInv, ShownVerified, HskVerified
  <2>2. /\ l \in Loan /\ RowsBefore(r.rows, l) /\ ReadBefore(r.receipts, l)
    BY <1>2, <2>1 DEF ListOK, AnswerOK
  <2>3. n \in DOMAIN proofs[l] /\ proofs[l][n] = r.receipts[n]
    BY <2>1, <2>2 DEF ReadBefore
  <2>4. proofs[l][n].receipt \in Receipt
    <3>1. proofs[l] \in Seq(Proof)
      BY <1>2, <2>2 DEF FlowInv, FlowTypeOK, Proof
    <3>2. proofs[l][n] \in Proof
      BY <2>3, <3>1
    <3> QED
      BY <3>2 DEF Proof
  <2>5. r.rows[n].paid
    BY <2>1, <2>2, <2>3, <2>4, FlowAssumption DEF RowsBefore
  <2> QED
    BY <2>1, <2>2, <2>3, <2>5 DEF RowsBefore, Holds
<1>3. FlowInv /\ ReportInv /\ ListInv => VerifiedIsProved
  BY <1>1, <1>2 DEF VerifiedIsProved, Holds
<1> QED
  BY <1>3, ReportsAlways, ListsAlways, PTL

\* Evidence that is shown has every proof that was confirmed longer ago than
\* an entry and the call that made it last.
THEOREM ShownIsFresh == DossierSpec => []EvidenceIsFresh
<1>1. FlowInv /\ ListInv => EvidenceIsFresh
  <2> SUFFICES ASSUME ListInv, NEW q \in List, list[q].pc = "DONE",
                      list[q].status = "VERIFIED",
                      NEW n \in DOMAIN buriedAt[list[q].loan],
                      buriedAt[list[q].loan][n] <= list[q].at - EvidenceTtl - CallTime
               PROVE  n \in DOMAIN list[q].receipts
    BY DEF EvidenceIsFresh
  <2> DEFINE r == list[q]
             l == r.loan
  <2>1. ListOK(r)
    BY DEF ListInv
  <2>2. l \in Loan /\ BuriedAtOK(l) /\ r.at \in Nat
    BY <2>1 DEF ListInv, ListOK
  <2>3. n \in 1 .. buried[l] /\ buriedAt[l][n] \in Nat
    BY <2>2, ElementOf DEF BuriedAtOK
  <2>4. EvidenceTtl \in Nat /\ CallTime \in Nat
    BY ReportAssumption, UnlockAssumption
  <2>5. buriedAt[l][n] < r.at + 1 - EvidenceTtl - CallTime
    BY <2>2, <2>3, <2>4
  <2> QED
    BY <2>1, <2>3, <2>5 DEF ListOK, AnswerOK
<1> QED
  BY <1>1, ListsAlways, PTL

-----------------------------------------------------------------------------
(* Access to dossiers. *)

LEMMA AccessNext == AccessInv /\ [DossierNext]_dossierVars => AccessInv'
<1> SUFFICES ASSUME AccessInv, [DossierNext]_dossierVars PROVE AccessInv'
  OBVIOUS
<1>1. CASE AccessStep
  BY <1>1, UnlockStepInv, MembershipChangesInv DEF AccessStep
<1>2. CASE Tick
  BY <1>2, ClockInv DEF Tick
<1>3. CASE UNCHANGED <<now, member, since, membership, access>>
  BY <1>3 DEF AccessInv, CacheOK, CallOK, AnsweredSince, LockAnswer
<1>4. ~ AccessStep /\ ~ Tick => UNCHANGED <<now, member, since, membership, access>>
  BY DEF DossierNext, PaymentStep, ReportStep, UpdatePassport, StartReport,
         AfterVerification, ReadLoans, ReadProofs, ReadRows, Finish, ReadOnly,
         ListStep, StartList, LookEvidence, FetchEvidence, StoreEvidence,
         ForgetEvidence, ListOnly, unlockVars, dossierVars
<1> QED
  BY <1>1, <1>2, <1>3, <1>4

\* Nobody is let in, or kept out, for a state of the lock that ended longer ago
\* than an entry of the cache and the call that made it last.
THEOREM AnswersAreRecent == DossierSpec => AccessIsRecent
<1> DEFINE Step == \A q \in Access :
             LET pc == access'[q].pc IN
             pc # access[q].pc /\ pc \in {"GRANTED", "DENIED"} =>
                WasAt(ViewerOf[q], pc, MembershipTtl + CallTime - 1)
<1>1. ASSUME AccessInv, [DossierNext]_dossierVars PROVE [Step]_dossierVars
  <2>1. CASE access' = access
    BY <2>1
  <2>2. CASE access' # access
    <3>1. AccessStep
      BY <1>1, <2>2 DEF DossierNext, PaymentStep, ReportStep, UpdatePassport, StartReport,
         AfterVerification, ReadLoans, ReadProofs, ReadRows, Finish, ReadOnly,
         ListStep, StartList, LookEvidence, FetchEvidence, StoreEvidence,
         ForgetEvidence, ListOnly, Tick, unlockVars, dossierVars
    <3>2. PICK q \in Access : UnlockStep(q)
      BY <2>2, <3>1 DEF AccessStep, MembershipChanges
    <3>3. /\ Recent(q, access'[q].pc)
          /\ \A s \in Access : s # q => access'[s] = access[s]
      BY <1>1, <3>2, UnlockStepInv
    <3>4. Step
      BY <3>3 DEF Recent, Answers
    <3> QED
      BY <3>4
  <2> QED
    BY <2>1, <2>2
<1>2. DossierInit => AccessInv
  BY AccessInit DEF DossierInit
<1> QED
  BY <1>1, <1>2, AccessNext, PTL DEF DossierSpec, AccessIsRecent

-----------------------------------------------------------------------------
(* Types, and the index. *)

\* A factor that is bounded keeps a product bounded.
LEMMA ProductBelow ==
    ASSUME NEW a \in Nat, NEW b \in Nat, a <= b, NEW c \in Nat
    PROVE  a * c \in Nat /\ a * c <= b * c
<1>1. b - a \in Nat
  OBVIOUS
<1>2. (b - a) * c \in Nat /\ (b - a) * c = b * c - a * c
  BY <1>1
<1>3. a * c \in Nat /\ b * c \in Nat
  OBVIOUS
<1> QED
  BY <1>2, <1>3

LEMMA BoundedIn ==
    ASSUME NEW n \in Nat, NEW d \in Nat
    PROVE  Bounded(n, d) \in 0 .. d
  BY DEF Bounded

\* The index is between 0 and 100 points whatever it is calculated from, and a
\* borrower who has completed no loan does not reach the best grade.
THEOREM IndexIsBounded ==
    ASSUME NEW onTime \in Nat, NEW paid \in Nat, NEW completed \in Nat,
           NEW repaid \in Nat, NEW disbursed \in Nat
    PROVE  /\ LriScore(onTime, paid, completed, repaid, disbursed) \in Nat
           /\ LriScore(onTime, paid, completed, repaid, disbursed) <= 1000
           /\ completed = 0 =>
                 LriScore(onTime, paid, completed, repaid, disbursed) <= 700
<1> DEFINE p == AtLeastOne(paid)
           d == AtLeastOne(disbursed)
           P == Bounded(onTime, paid)
           C == Bounded(completed, 3)
           D == Bounded(repaid, disbursed)
           num == 500 * P * d + 100 * C * p * d + 200 * D * p
           score == LriScore(onTime, paid, completed, repaid, disbursed)
<1>1. /\ p \in Nat \ {0} /\ paid <= p /\ d \in Nat \ {0} /\ disbursed <= d
  BY DEF AtLeastOne
<1>2. P \in 0 .. p
  <2>1. P \in 0 .. paid
    BY BoundedIn
  <2> HIDE DEF P, p
  <2> QED
    BY <1>1, <2>1
<1>3. D \in 0 .. d
  <2>1. D \in 0 .. disbursed
    BY BoundedIn
  <2> HIDE DEF D, d
  <2> QED
    BY <1>1, <2>1
<1>4. C \in 0 .. 3 /\ (completed = 0 => C = 0)
  BY DEF Bounded
<1>5. score = (2 * num + p * d) \div (2 * p * d)
  BY DEF LriScore
<1> HIDE DEF p, d, P, C, D, score
<1> DEFINE m == p * d
<1>6. m \in Nat \ {0} /\ 2 * p * d = 2 * m
  BY <1>1
<1>7. P * d \in Nat /\ P * d <= m
  BY <1>1, <1>2, ProductBelow
<1>8. D * p \in Nat /\ D * p <= m
  <2>1. D * p \in Nat /\ D * p <= d * p
    BY <1>1, <1>3, ProductBelow
  <2>2. d * p = p * d
    BY <1>1
  <2> QED
    BY <2>1, <2>2
<1>9. C * m \in Nat /\ C * m <= 3 * m /\ (completed = 0 => C * m = 0)
  <2>1. C \in Nat /\ C <= 3
    BY <1>4
  <2>2. C * m \in Nat /\ C * m <= 3 * m
    <3> HIDE DEF m
    <3> QED
      BY <1>6, <2>1, ProductBelow
  <2>3. 0 * m = 0
    BY <1>6
  <2> QED
    BY <1>4, <2>2, <2>3
<1>10. num = 500 * (P * d) + 100 * (C * m) + 200 * (D * p)
  <2>1. 500 * P * d = 500 * (P * d)
    BY <1>1, <1>2
  <2>2. 100 * C * p * d = 100 * (C * m)
    BY <1>1, <1>4
  <2>3. 200 * D * p = 200 * (D * p)
    BY <1>1, <1>3
  <2> QED
    BY <2>1, <2>2, <2>3
<1> DEFINE x == P * d
           y == C * m
           z == D * p
<1> HIDE DEF m, num, x, y, z
<1>11. /\ m \in Nat \ {0} /\ x \in Nat /\ y \in Nat /\ z \in Nat
       /\ x <= m /\ y <= 3 * m /\ z <= m
       /\ num = 500 * x + 100 * y + 200 * z
       /\ completed = 0 => y = 0
       /\ score = (2 * num + m) \div (2 * m)
  BY <1>5, <1>6, <1>7, <1>8, <1>9, <1>10 DEF m, x, y, z
<1>12. /\ 2 * num + m \in Nat /\ 2 * m \in Nat \ {0}
       /\ 2 * num + m < (2 * m) * 1001
       /\ completed = 0 => 2 * num + m < (2 * m) * 701
  BY <1>11
<1>13. score \in Nat /\ score < 1001
  BY <1>11, <1>12, QuotientBelow
<1>14. completed = 0 => score < 701
  BY <1>11, <1>12, QuotientBelow
<1>15. score \in Nat /\ score <= 1000 /\ (completed = 0 => score <= 700)
  BY <1>13, <1>14
<1> QED
  BY <1>15 DEF score

\* The sums the index is calculated from are numbers.
LEMMA CapitalIsNatural ==
    ASSUME IsFiniteSet(Loan)
    PROVE  MapThenSumSet(LAMBDA l : Capital[l], Loan) \in Nat
<1> DEFINE G(h) == SumsOver(Loan, Capital, h)
<1>1. MapThenSumSet(LAMBDA l : Capital[l], Loan) = (CHOOSE h : G(h))[Loan]
  BY DEF MapThenSumSet, MapThenFoldSet, SumsOver
<1>2. Capital \in [Loan -> Nat]
  BY ReportAssumption
<1>3. PICK g \in [SUBSET Loan -> Nat] : G(g)
  BY <1>2, FiniteSums
<1>4. ASSUME NEW h, G(h) PROVE h[Loan] \in Nat
  BY <1>2, <1>4, SumsAreNatural
<1> HIDE DEF G
<1>5. G(CHOOSE h : G(h))
  BY <1>3
<1> QED
  BY <1>1, <1>4, <1>5

LEMMA RepaidIsNatural ==
    ASSUME NEW paid, IsFiniteSet(paid), paid \subseteq Loan \X Nat
    PROVE  MapThenSumSet(LAMBDA d : Amount[d[1]], paid) \in Nat
<1>1. PICK of \in [paid -> Nat] : \A d \in paid : of[d] = Amount[d[1]]
  <2> DEFINE of == [d \in paid |-> Amount[d[1]]]
  <2>1. of \in [paid -> Nat] /\ \A d \in paid : of[d] = Amount[d[1]]
    BY ReportAssumption
  <2> HIDE DEF of
  <2> QED
    BY <2>1
<1> DEFINE G(h) == h = [s \in SUBSET paid |-> IF s = {} THEN 0
                         ELSE LET x == CHOOSE x \in s : TRUE IN Amount[x[1]] + h[s \ {x}]]
<1>2. MapThenSumSet(LAMBDA d : Amount[d[1]], paid) = (CHOOSE h : G(h))[paid]
  BY DEF MapThenSumSet, MapThenFoldSet
<1>3. ASSUME NEW h PROVE G(h) <=> SumsOver(paid, of, h)
  <2> DEFINE First(s) == CHOOSE x \in s : TRUE
  <2>1. G(h) <=> h = [s \in SUBSET paid |->
                        IF s = {} THEN 0 ELSE Amount[First(s)[1]] + h[s \ {First(s)}]]
    OBVIOUS
  <2>2. SumsOver(paid, of, h) <=> h = [s \in SUBSET paid |->
                        IF s = {} THEN 0 ELSE of[First(s)] + h[s \ {First(s)}]]
    BY DEF SumsOver
  <2>3. \A s \in SUBSET paid : s # {} => First(s) \in s
    OBVIOUS
  <2> HIDE DEF First, G
  <2>4. \A s \in SUBSET paid : s # {} => of[First(s)] = Amount[First(s)[1]]
    BY <1>1, <2>3
  <2> QED
    BY <2>1, <2>2, <2>4
<1>4. PICK g \in [SUBSET paid -> Nat] : SumsOver(paid, of, g)
  BY FiniteSums
<1>5. ASSUME NEW h, SumsOver(paid, of, h) PROVE h[paid] \in Nat
  BY <1>5, SumsAreNatural
<1> HIDE DEF G
<1>6. G(CHOOSE h : G(h))
  BY <1>3, <1>4
<1> QED
  BY <1>2, <1>3, <1>5, <1>6

\* The loans that are read are a sequence.
LEMMA LoansAreFinite == IsFiniteSet(Loan)
<1>1. /\ Newest \in Seq(Loan)
      /\ \A l \in Loan : \E j \in 1 .. Len(Newest) : Newest[j] = l
  BY ReportAssumption
<1>2. Len(Newest) \in Nat /\ DOMAIN Newest = 1 .. Len(Newest)
  BY <1>1
<1>3. IsFiniteSet(1 .. Len(Newest))
  BY <1>2, FS_Interval
<1>4. IsFiniteSet({Newest[x] : x \in 1 .. Len(Newest)})
  BY <1>2, <1>3, FiniteImage
<1>5. Loan = {Newest[x] : x \in 1 .. Len(Newest)}
  BY <1>1
<1> QED
  BY <1>4, <1>5

\* What a report has listed is finite, and only that is verified.
PaidOK(r) == IsFiniteSet(r.paid) /\ r.verified \subseteq r.paid

ReportsTyped ==
    /\ \A q \in Report : PaidOK(report[q])
    /\ faults \in 0 .. MaxFaults

LEMMA ReportFault ==
  ASSUME faults \in 0 .. MaxFaults, Fault
  PROVE  faults' \in 0 .. MaxFaults
  BY ReportAssumption DEF Fault

LEMMA PaidBecomes ==
  ASSUME ReportInv, ReportsTyped, NEW q \in Report, NEW next, Become(q, next),
         PaidOK(next), Fault \/ UNCHANGED faults
  PROVE  ReportsTyped'
<1>1. /\ report'[q] = next
      /\ \A s \in Report : s # q => report'[s] = report[s]
  BY DEF Become, ReportInv
<1>2. faults' \in 0 .. MaxFaults
  BY ReportFault DEF ReportsTyped
<1> QED
  BY <1>1, <1>2 DEF ReportsTyped, PaidOK

LEMMA PaidGoesOn ==
  ASSUME ReportInv, ReportsTyped, NEW q \in Report, NEW pc, To(q, pc),
         Fault \/ UNCHANGED faults
  PROVE  ReportsTyped'
<1> DEFINE next == [report[q] EXCEPT !.pc = pc]
<1>1. report[q] \in ReportRecord /\ PaidOK(report[q])
  BY DEF ReportInv, ReportsTyped
<1>2. next.paid = report[q].paid /\ next.verified = report[q].verified
  BY <1>1 DEF ReportRecord
<1>3. Become(q, next) /\ PaidOK(next)
  BY <1>1, <1>2 DEF To, PaidOK
<1> HIDE DEF next
<1> QED
  BY <1>3, PaidBecomes

LEMMA PaidStart ==
  ASSUME ReportInv, ReportsTyped, NEW q \in Report, NEW kind, StartReport(q, kind)
  PROVE  ReportsTyped'
<1>1. PICK pc : Become(q, [NewReport EXCEPT !.kind = kind, !.pc = pc])
  BY DEF StartReport
<1> DEFINE next == [NewReport EXCEPT !.kind = kind, !.pc = pc]
<1>2. next.paid = {} /\ next.verified = {}
  BY DEF NewReport
<1>3. PaidOK(next) /\ Become(q, next)
  BY <1>1, <1>2, FS_EmptySet DEF PaidOK
<1> HIDE DEF next
<1> QED
  BY <1>3, PaidBecomes DEF StartReport

LEMMA PaidLoans ==
  ASSUME ReportInv, ReportsTyped, NEW q \in Report, ReadLoans(q)
  PROVE  ReportsTyped'
<1>1. report[q] \in ReportRecord /\ PaidOK(report[q])
  BY DEF ReportInv, ReportsTyped
<1>2. CASE Become(q, [report[q] EXCEPT !.pc = "NEXT", !.todo = Newest, !.completed = closed])
  <2> DEFINE next == [report[q] EXCEPT !.pc = "NEXT", !.todo = Newest, !.completed = closed]
  <2>1. next.paid = report[q].paid /\ next.verified = report[q].verified
    BY <1>1 DEF ReportRecord
  <2>2. PaidOK(next) /\ Become(q, next)
    BY <1>1, <1>2, <2>1 DEF PaidOK
  <2> HIDE DEF next
  <2> QED
    BY <2>2, PaidBecomes DEF ReadLoans
<1>3. CASE Become(q, [report[q] EXCEPT !.pc = "NEXT", !.whole = FALSE])
  <2> DEFINE next == [report[q] EXCEPT !.pc = "NEXT", !.whole = FALSE]
  <2>1. next.paid = report[q].paid /\ next.verified = report[q].verified
    BY <1>1 DEF ReportRecord
  <2>2. PaidOK(next) /\ Become(q, next)
    BY <1>1, <1>3, <2>1 DEF PaidOK
  <2> HIDE DEF next
  <2> QED
    BY <2>2, PaidBecomes DEF ReadLoans
<1> QED
  BY <1>2, <1>3 DEF ReadLoans

LEMMA PaidProofs ==
  ASSUME ReportInv, ReportsTyped, NEW q \in Report, ReadProofs(q)
  PROVE  ReportsTyped'
<1> DEFINE r == report[q]
           next == [r EXCEPT !.pc = "ROWS", !.seen = proofs[Head(r.todo)]]
<1>1. r \in ReportRecord /\ PaidOK(r)
  BY DEF ReportInv, ReportsTyped
<1>2. next.paid = r.paid /\ next.verified = r.verified
  BY <1>1 DEF ReportRecord
<1>3. PaidOK(next)
  BY <1>1, <1>2 DEF PaidOK
<1>4. \/ Become(q, next) \/ To(q, "FAILED")
      \/ FALSE
  BY DEF ReadProofs
<1> HIDE DEF next
<1> QED
  BY <1>3, <1>4, PaidBecomes, PaidGoesOn DEF ReadProofs

\* The rows of a loan are finitely many.
LEMMA PaidRows ==
  ASSUME FlowInv, ReportInv, ReportsTyped, NEW q \in Report, ReadRows(q)
  PROVE  ReportsTyped'
<1> DEFINE r == report[q]
           l == Head(r.todo)
           Found(rows) == {<<l, n>> : n \in PaidIn(rows)}
           Good(rows) == {<<l, n>> : n \in {m \in PaidIn(rows) : HskVerified(rows[m], r.seen, m)}}
           With(rows) == [r EXCEPT !.pc = "NEXT", !.todo = Tail(@), !.seen = <<>>,
                                   !.paid = @ \cup Found(rows),
                                   !.verified = @ \cup Good(rows)]
<1>1. /\ r \in ReportRecord /\ PaidOK(r) /\ ReportOK(r) /\ r.todo # <<>>
  BY DEF ReportInv, ReportsTyped, ReadRows, ReportOK
<1>2. l \in Loan
  <2>1. r.todo \in Seq(Loan)
    BY <1>1 DEF ReportRecord
  <2> QED
    BY <1>1, <2>1
<1>3. \A rows : With(rows).paid = r.paid \cup Found(rows)
                /\ With(rows).verified = r.verified \cup Good(rows)
  <2> HIDE DEF Found, Good
  <2> QED
    BY <1>1 DEF ReportRecord
<1>4. ASSUME NEW rows, IsFiniteSet(DOMAIN rows) PROVE PaidOK(With(rows))
  <2>1. IsFiniteSet(PaidIn(rows))
    BY <1>4, FS_Subset DEF PaidIn
  <2> DEFINE g == [n \in PaidIn(rows) |-> <<l, n>>]
  <2>2. IsFiniteSet({g[n] : n \in PaidIn(rows)})
    <3>1. DOMAIN g = PaidIn(rows)
      OBVIOUS
    <3> HIDE DEF g
    <3> QED
      BY <2>1, <3>1, FiniteImage
  <2>3. Found(rows) = {g[n] : n \in PaidIn(rows)}
    OBVIOUS
  <2>4. IsFiniteSet(Found(rows)) /\ Good(rows) \subseteq Found(rows)
    BY <2>2, <2>3
  <2>5. IsFiniteSet(r.paid \cup Found(rows))
    BY <1>1, <2>4, FS_Union DEF PaidOK
  <2> HIDE DEF With, Found, Good
  <2> QED
    BY <1>1, <1>3, <2>4, <2>5 DEF PaidOK
<1>5. IsFiniteSet(DOMAIN row[l]) /\ IsFiniteSet(DOMAIN <<>>)
  <2>1. DOMAIN row[l] = 1 .. Count[l] /\ Count[l] \in Nat
    BY <1>2, FlowAssumption DEF FlowInv, FlowTypeOK, Numbers
  <2>2. DOMAIN <<>> = {}
    OBVIOUS
  <2>3. IsFiniteSet(1 .. Count[l])
    BY <2>1, FS_Interval
  <2>4. IsFiniteSet({})
    BY FS_EmptySet
  <2> QED
    BY <2>1, <2>2, <2>3, <2>4
<1>6. CASE Become(q, With(row[l])) /\ UNCHANGED faults
  <2>1. PaidOK(With(row[l]))
    BY <1>4, <1>5
  <2> HIDE DEF With
  <2> QED
    BY <1>6, <2>1, PaidBecomes
<1>7. CASE Become(q, [With(<<>>) EXCEPT !.whole = FALSE]) /\ Fault
  <2> DEFINE next == [With(<<>>) EXCEPT !.whole = FALSE]
  <2>1. PaidOK(With(<<>>))
    BY <1>4, <1>5
  <2>2. next.paid = With(<<>>).paid /\ next.verified = With(<<>>).verified
    <3> HIDE DEF Found, Good
    <3> QED
      BY <1>1 DEF ReportRecord
  <2> HIDE DEF With
  <2>3. PaidOK(next)
    BY <2>1, <2>2 DEF PaidOK
  <2> HIDE DEF next
  <2> QED
    BY <1>7, <2>3, PaidBecomes DEF next
<1> QED
  BY <1>6, <1>7 DEF ReadRows

LEMMA PaidInit == DossierInit => ReportsTyped
<1> SUFFICES ASSUME DossierInit PROVE ReportsTyped
  OBVIOUS
<1>1. faults = 0 /\ \A q \in Report : report[q] = NewReport
  BY DEF DossierInit, ReportsInit
<1>2. NewReport.paid = {} /\ NewReport.verified = {}
  BY DEF NewReport
<1>3. PaidOK(NewReport)
  BY <1>2, FS_EmptySet DEF PaidOK
<1> QED
  BY <1>1, <1>3, ReportAssumption DEF ReportsTyped

LEMMA PaidNext ==
  FlowInv /\ ReportInv /\ ReportsTyped /\ [DossierNext]_dossierVars => ReportsTyped'
<1> SUFFICES ASSUME FlowInv, ReportInv, ReportsTyped, [DossierNext]_dossierVars
             PROVE  ReportsTyped'
  OBVIOUS
<1>1. CASE ReportStep /\ report' # report
  <2>1. PICK q \in Report :
          \/ \E kind \in {"SUMMARY", "OWN", "DOSSIER"} : StartReport(q, kind)
          \/ AfterVerification(q) \/ ReadLoans(q) \/ ReadProofs(q) \/ ReadRows(q)
          \/ Finish(q)
    BY <1>1 DEF ReportStep, UpdatePassport
  <2>2. CASE AfterVerification(q)
    <3>1. PICK pc : To(q, pc)
      BY <2>2 DEF AfterVerification
    <3> QED
      BY <2>2, <3>1, PaidGoesOn DEF AfterVerification
  <2>3. CASE Finish(q)
    <3>1. To(q, "DONE")
      BY <2>3 DEF Finish, To
    <3> QED
      BY <2>3, <3>1, PaidGoesOn DEF Finish
  <2> QED
    BY <2>1, <2>2, <2>3, PaidStart, PaidLoans, PaidProofs, PaidRows
<1>2. CASE ~ (ReportStep /\ report' # report)
  <2>1. report' = report
    BY <1>2 DEF DossierNext, PaymentStep, AccessStep, ListStep, Tick, StartList,
                LookEvidence, FetchEvidence, StoreEvidence, ForgetEvidence, ListOnly,
                reportVars, dossierVars
  <2>2. Fault \/ faults' = faults
    BY DEF DossierNext, PaymentStep, AccessStep, ListStep, Tick, StartList,
           LookEvidence, FetchEvidence, StoreEvidence, ForgetEvidence, ReportStep,
           UpdatePassport, StartReport, AfterVerification, ReadLoans, ReadProofs,
           ReadRows, Finish, reportVars, dossierVars
  <2>3. faults' \in 0 .. MaxFaults
    BY <2>2, ReportFault DEF ReportsTyped
  <2> QED
    BY <2>1, <2>3 DEF ReportsTyped
<1> QED
  BY <1>1, <1>2

\* Where a list is.
ListPc == {"NEW", "LOOK", "FETCH", "STORE", "DONE"}

ListsTyped == \A q \in List : list[q].pc \in ListPc

LEMMA ListsTypedNext ==
  ListInv /\ ListsTyped /\ [DossierNext]_dossierVars => ListsTyped'
<1> SUFFICES ASSUME ListInv, ListsTyped, [DossierNext]_dossierVars, list' # list
             PROVE  ListsTyped'
  BY DEF ListsTyped
<1>1. ListStep
  BY DEF DossierNext, PaymentStep, AccessStep, Tick, ReportStep, UpdatePassport,
         StartReport, AfterVerification, ReadLoans, ReadProofs, ReadRows, Finish,
         ReadOnly, reportVars, dossierVars
<1>2. PICK q \in List : \/ \E l \in Loan : StartList(q, l)
                        \/ LookEvidence(q) \/ FetchEvidence(q) \/ StoreEvidence(q)
  BY <1>1 DEF ListStep, ForgetEvidence
<1>3. DOMAIN list = List /\ DOMAIN list[q] = {"pc", "loan", "rows", "status", "receipts", "at"}
  BY DEF ListInv, ListOK
<1>4. \A s \in List : s # q => list'[s] = list[s]
  BY <1>2, <1>3 DEF StartList, LookEvidence, FetchEvidence, StoreEvidence
<1>5. list'[q].pc \in ListPc
  <2>1. CASE \E l \in Loan : StartList(q, l)
    BY <1>3, <2>1 DEF StartList, NewList, ListPc
  <2>2. CASE LookEvidence(q)
    <3>1. list'[q].pc \in {"DONE", "FETCH"}
      BY <1>3, <2>2 DEF LookEvidence
    <3> QED
      BY <3>1 DEF ListPc
  <2>3. CASE FetchEvidence(q)
    <3>1. list'[q].pc = "STORE"
      BY <1>3, <2>3 DEF FetchEvidence
    <3> QED
      BY <3>1 DEF ListPc
  <2>4. CASE StoreEvidence(q)
    <3>1. list'[q].pc = "DONE"
      BY <1>3, <2>4 DEF StoreEvidence
    <3> QED
      BY <3>1 DEF ListPc
  <2> QED
    BY <1>2, <2>1, <2>2, <2>3, <2>4
<1> QED
  BY <1>4, <1>5 DEF ListsTyped

LEMMA ListsTypedInit == DossierInit => ListsTyped
  BY DEF DossierInit, ReportsInit, NewList, ListsTyped, ListPc

\* The types of the verifier; AccessInv says what its maps range over.
MembershipEntry == [until : 0 .. MaxTime + MembershipTtl, answer : {"GRANTED", "DENIED"}]

AccessCall ==
    [pc : {"NEW", "ASK", "KEEP", "GRANTED", "DENIED", "UNAVAILABLE", "BAD SIGNATURE"},
     at : 0 .. MaxTime, answer : {"GRANTED", "DENIED"}]

LEMMA AccessCallTyped ==
  ASSUME NEW pc \in {"NEW", "ASK", "KEEP", "GRANTED", "DENIED", "UNAVAILABLE", "BAD SIGNATURE"},
         NEW at \in 0 .. MaxTime, NEW answer \in {"GRANTED", "DENIED"}
  PROVE  Call(pc, at, answer) \in AccessCall
  BY DEF Call, AccessCall

LEMMA UnlockTypeInit == UnlockInit => UnlockTypeOK
<1> SUFFICES ASSUME UnlockInit PROVE UnlockTypeOK
  OBVIOUS
<1>1. MembershipTtl \in Nat /\ CallTime \in Nat /\ MaxTime \in Nat
  BY UnlockAssumption
<1>2. now \in 0 .. MaxTime /\ member \subseteq Viewer
  BY <1>1 DEF UnlockInit
<1>3. \A v \in Viewer : since[v] \in Int /\ since[v] <= now
  BY <1>1 DEF UnlockInit
<1>4. Uncached \in MembershipEntry
  BY <1>1 DEF Uncached, MembershipEntry
<1>5. Call("NEW", 0, "DENIED") \in AccessCall
  <2>1. 0 \in 0 .. MaxTime
    BY <1>1
  <2> QED
    BY <2>1, AccessCallTyped
<1> QED
  BY <1>2, <1>3, <1>4, <1>5 DEF UnlockInit, UnlockTypeOK, MembershipEntry, AccessCall

LEMMA UnlockTypeStep ==
  ASSUME AccessInv, UnlockTypeOK, NEW q \in Access, UnlockStep(q)
  PROVE  UnlockTypeOK'
<1>1. /\ now \in 0 .. MaxTime /\ MembershipTtl \in Nat /\ MaxTime \in Nat
      /\ member \subseteq Viewer
      /\ \A v \in Viewer : since[v] \in Int /\ since[v] <= now
      /\ membership \in [Viewer -> MembershipEntry]
      /\ access \in [Access -> AccessCall]
      /\ ViewerOf[q] \in Viewer
  BY UnlockAssumption DEF UnlockTypeOK, MembershipEntry, AccessCall
<1>2. now' = now /\ member' = member /\ since' = since
  BY DEF UnlockStep, CheckSignature, AskLock, KeepAnswer, LockUnavailable
<1>3. 0 \in 0 .. MaxTime
  BY <1>1
<1>4. ASSUME NEW call \in AccessCall, Proceed(q, call)
      PROVE  access' \in [Access -> AccessCall]
  BY <1>1, <1>4 DEF Proceed
<1>5. membership[ViewerOf[q]].answer \in {"GRANTED", "DENIED"}
  BY <1>1 DEF MembershipEntry
<1>6. access[q].answer \in {"GRANTED", "DENIED"}
  BY <1>1 DEF AccessCall
<1>7. access' \in [Access -> AccessCall]
  <2>1. CASE \E signed, stamp : CheckSignature(q, signed, stamp)
    <3>1. /\ Call("BAD SIGNATURE", 0, "DENIED") \in AccessCall
          /\ Call("ASK", now, "DENIED") \in AccessCall
      BY <1>1, <1>3, AccessCallTyped
    <3>2. Call(membership[ViewerOf[q]].answer, 0, "DENIED") \in AccessCall
      BY <1>3, <1>5, AccessCallTyped
    <3>3. \/ Proceed(q, Call("BAD SIGNATURE", 0, "DENIED"))
          \/ Proceed(q, Call("ASK", now, "DENIED"))
          \/ Proceed(q, Call(membership[ViewerOf[q]].answer, 0, "DENIED"))
      BY <2>1 DEF CheckSignature
    <3> QED
      BY <1>4, <3>1, <3>2, <3>3
  <2>2. CASE AskLock(q)
    <3>1. LockAnswer(ViewerOf[q]) \in {"GRANTED", "DENIED"}
      BY DEF LockAnswer
    <3>2. Call("KEEP", now, LockAnswer(ViewerOf[q])) \in AccessCall
      BY <1>1, <3>1, AccessCallTyped
    <3> QED
      BY <1>4, <2>2, <3>2 DEF AskLock
  <2>3. CASE KeepAnswer(q)
    <3>1. Call(access[q].answer, 0, access[q].answer) \in AccessCall
      BY <1>3, <1>6, AccessCallTyped
    <3> QED
      BY <1>4, <2>3, <3>1 DEF KeepAnswer
  <2>4. CASE LockUnavailable(q)
    <3>1. Call("UNAVAILABLE", 0, "DENIED") \in AccessCall
      BY <1>3, AccessCallTyped
    <3> QED
      BY <1>4, <2>4, <3>1 DEF LockUnavailable
  <2> QED
    BY <2>1, <2>2, <2>3, <2>4 DEF UnlockStep
<1>8. membership' \in [Viewer -> MembershipEntry]
  <2>1. CASE KeepAnswer(q)
    <3> DEFINE entry == [until |-> now + MembershipTtl, answer |-> access[q].answer]
    <3>1. entry \in MembershipEntry
      BY <1>1, <1>6 DEF MembershipEntry
    <3>2. membership' = [membership EXCEPT ![ViewerOf[q]] = entry]
      BY <2>1 DEF KeepAnswer
    <3> HIDE DEF entry
    <3> QED
      BY <1>1, <3>1, <3>2
  <2>2. CASE ~ KeepAnswer(q)
    BY <1>1, <2>2 DEF UnlockStep, CheckSignature, AskLock, LockUnavailable
  <2> QED
    BY <2>1, <2>2
<1> QED
  BY <1>1, <1>2, <1>7, <1>8 DEF UnlockTypeOK, MembershipEntry, AccessCall

LEMMA UnlockTypeNext ==
  AccessInv /\ UnlockTypeOK /\ [DossierNext]_dossierVars => UnlockTypeOK'
<1> SUFFICES ASSUME AccessInv, UnlockTypeOK, [DossierNext]_dossierVars
             PROVE  UnlockTypeOK'
  OBVIOUS
<1>1. CASE \E q \in Access : UnlockStep(q)
  BY <1>1, UnlockTypeStep
<1>2. CASE \E v \in Viewer : MembershipChanges(v)
  <2>1. PICK v \in Viewer : MembershipChanges(v)
    BY <1>2
  <2>2. now \in Int /\ DOMAIN since = Viewer
    BY DEF AccessInv
  <2>3. \A w \in Viewer : since'[w] \in Int /\ since'[w] <= now'
    <3>1. \A w \in Viewer : since[w] \in Int /\ since[w] <= now
      BY DEF UnlockTypeOK
    <3>2. now' = now /\ since' = [since EXCEPT ![v] = now]
      BY <2>1 DEF MembershipChanges
    <3>3. \A w \in Viewer : since'[w] = IF w = v THEN now ELSE since[w]
      BY <2>2, <3>2
    <3> QED
      BY <2>2, <3>1, <3>2, <3>3
  <2>4. member' \subseteq Viewer
    BY <2>1 DEF MembershipChanges, UnlockTypeOK
  <2>5. now' = now /\ membership' = membership /\ access' = access
    BY <2>1 DEF MembershipChanges
  <2> QED
    BY <2>3, <2>4, <2>5 DEF UnlockTypeOK
<1>3. CASE Tick
  <2>1. now < MaxTime /\ now' = now + 1 /\ UNCHANGED unlockVars
    BY <1>3 DEF Tick
  <2>2. now \in 0 .. MaxTime /\ MaxTime \in Nat
    BY UnlockAssumption DEF UnlockTypeOK
  <2>3. now' \in 0 .. MaxTime /\ now < now'
    BY <2>1, <2>2
  <2>4. \A v \in Viewer : since'[v] \in Int /\ since'[v] <= now'
    <3>1. \A v \in Viewer : since[v] \in Int /\ since[v] <= now
      BY DEF UnlockTypeOK
    <3>2. since' = since
      BY <2>1 DEF unlockVars
    <3> QED
      BY <2>1, <2>2, <3>1, <3>2
  <2> QED
    BY <2>1, <2>3, <2>4 DEF UnlockTypeOK, unlockVars
<1>4. CASE UNCHANGED <<now, member, since, membership, access>>
  BY <1>4 DEF UnlockTypeOK
<1>5. ~ AccessStep /\ ~ Tick => UNCHANGED <<now, member, since, membership, access>>
  BY DEF DossierNext, PaymentStep, ReportStep, UpdatePassport, StartReport,
         AfterVerification, ReadLoans, ReadProofs, ReadRows, Finish, ReadOnly,
         ListStep, StartList, LookEvidence, FetchEvidence, StoreEvidence,
         ForgetEvidence, ListOnly, unlockVars, dossierVars
<1>6. AccessStep => \/ \E q \in Access : UnlockStep(q)
                    \/ \E v \in Viewer : MembershipChanges(v)
  BY DEF AccessStep
<1> QED
  BY <1>1, <1>2, <1>3, <1>4, <1>5, <1>6

\* What is listed of a report gives an index, whatever it has read so far.
LEMMA ScoreInRange ==
  ASSUME FlowInv, NEW r \in ReportRecord, ReportOK(r), PaidOK(r)
  PROVE  /\ ScoreOf(r) \in 0 .. 1000
         /\ ConfidenceGrade(ScoreOf(r)) = "EXCELLENT" => r.completed # {}
<1> DEFINE onTime == Cardinality(r.paid \ Late)
           paid == Cardinality(r.paid)
           completed == Cardinality(r.completed)
           repaid == MapThenSumSet(LAMBDA d : Amount[d[1]], r.paid)
           disbursed == MapThenSumSet(LAMBDA l : Capital[l], Loan)
<1>1. IsFiniteSet(r.paid) /\ IsFiniteSet(r.paid \ Late) /\ IsFiniteSet(r.completed)
  <2>1. r.completed \subseteq Loan
    BY DEF ReportRecord
  <2>2. IsFiniteSet(r.paid)
    BY DEF PaidOK
  <2>3. r.paid \ Late \subseteq r.paid
    OBVIOUS
  <2> QED
    BY <2>1, <2>2, <2>3, LoansAreFinite, FS_Subset
<1>2. onTime \in Nat /\ paid \in Nat /\ completed \in Nat
  BY <1>1, FS_CardinalityType
<1>3. repaid \in Nat
  <2>1. r.paid \subseteq Loan \X Nat
    BY DEF ReportRecord
  <2> QED
    BY <1>1, <2>1, RepaidIsNatural
<1>4. disbursed \in Nat
  BY LoansAreFinite, CapitalIsNatural
<1>5. r.completed = {} => completed = 0
  BY FS_EmptySet
<1>6. ScoreOf(r) = LriScore(onTime, paid, completed, repaid, disbursed)
  BY DEF ScoreOf
<1> HIDE DEF onTime, paid, completed, repaid, disbursed
<1>7. ScoreOf(r) \in Nat /\ ScoreOf(r) <= 1000 /\ (completed = 0 => ScoreOf(r) <= 700)
  BY <1>2, <1>3, <1>4, <1>6, IndexIsBounded
<1> DEFINE score == ScoreOf(r)
<1> HIDE DEF score
<1>8. score \in 0 .. 1000
  BY <1>7 DEF score
<1>9. score <= 700 => ConfidenceGrade(score) # "EXCELLENT"
  <2>1. score <= 700 => ~ (score >= 900)
    BY <1>7 DEF score
  <2> QED
    BY <2>1 DEF ConfidenceGrade
<1> QED
  BY <1>5, <1>7, <1>8, <1>9 DEF score

\* The readers' state has its type in every behaviour, and the index of every
\* report, finished or not, is between 0 and 100 points.
THEOREM ReportTypesCorrect == DossierSpec => []ReportTypeOK
<1>1. FlowInv /\ ReportInv /\ ReportsTyped /\ ListsTyped /\ UnlockTypeOK => ReportTypeOK
  <2> SUFFICES ASSUME FlowInv, ReportInv, ReportsTyped, ListsTyped, UnlockTypeOK
               PROVE  ReportTypeOK
    OBVIOUS
  <2>1. ASSUME NEW q \in Report
        PROVE  /\ report[q].pc \in ReportPc
               /\ report[q].verified \subseteq report[q].paid
               /\ ScoreOf(report[q]) \in 0 .. 1000
               /\ ConfidenceGrade(ScoreOf(report[q])) = "EXCELLENT" =>
                     report[q].completed # {}
    <3>1. report[q] \in ReportRecord /\ ReportOK(report[q]) /\ PaidOK(report[q])
      BY DEF ReportInv, ReportsTyped
    <3>2. report[q].pc \in ReportPc /\ report[q].verified \subseteq report[q].paid
      BY <3>1 DEF ReportRecord, PaidOK
    <3> QED
      BY <3>1, <3>2, ScoreInRange
  <2>2. FlowTypeOK /\ faults \in 0 .. MaxFaults
    BY DEF FlowInv, ReportsTyped
  <2> QED
    BY <2>1, <2>2 DEF ReportTypeOK, ListsTyped, ListPc, ReportPc
<1>2. DossierInit => AccessInv /\ UnlockTypeOK
  BY AccessInit, UnlockTypeInit DEF DossierInit
<1> QED
  BY <1>1, <1>2, ReportsAlways, ListsAlways, PaidInit, PaidNext, ListsTypedInit,
     ListsTypedNext, AccessNext, UnlockTypeNext, PTL DEF DossierSpec
=============================================================================
