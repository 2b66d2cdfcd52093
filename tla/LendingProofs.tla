--------------------------- MODULE LendingProofs ---------------------------
(***************************************************************************)
(* Theorems about the terms of a loan, and about users, loans and routes   *)
(* as they come to be, for any users, requests, terms and numbers of       *)
(* failures.                                                               *)
(***************************************************************************)
EXTENDS CollectionRoutes, NumberFacts

-----------------------------------------------------------------------------
(* What holds of the schedule of every loan the arithmetic accepts. *)

\* The bigger the total, the bigger every share of it.
LEMMA QuotientMonotonic ==
    ASSUME NEW q \in Nat, NEW p \in Nat, NEW n \in Nat \ {0},
           NEW r \in 0 .. n - 1, NEW s \in 0 .. n - 1,
           n * q + r <= n * p + s
    PROVE  q < p \/ (q = p /\ r <= s)
<1>1. CASE q > p
  <2>1. q >= p + 1
    BY <1>1
  <2>2. n * q >= n * (p + 1)
    BY <2>1
  <2>3. n * (p + 1) = n * p + n
    OBVIOUS
  <2> QED
    BY <2>2, <2>3
<1>2. CASE q = p
  BY <1>2
<1>3. CASE q < p
  BY <1>3
<1> QED
  BY <1>1, <1>2, <1>3

\* No installment of a loan is larger than another by more than a cent, and
\* the larger ones come first: calculateLoan spreads what does not divide.
THEOREM SharesAreEven ==
    ASSUME NEW total \in Nat, NEW count \in Nat \ {0},
           NEW i \in Indices(count), NEW j \in Indices(count), i <= j
    PROVE  /\ Share(total, count, j) <= Share(total, count, i)
           /\ Share(total, count, i) <= Share(total, count, j) + 1
<1>1. /\ total \div count \in Nat
      /\ total % count \in 0 .. count - 1
  BY DivisionFacts
<1>2. (j < total % count) => (i < total % count)
  BY <1>1 DEF Indices
<1> QED
  BY <1>1, <1>2 DEF Share

LEMMA ShareMonotonic ==
    ASSUME NEW t \in Nat, NEW u \in Nat, t <= u,
           NEW n \in Nat \ {0}, NEW i \in Indices(n)
    PROVE  Share(t, n, i) <= Share(u, n, i)
<1> DEFINE q == t \div n
           r == t % n
           p == u \div n
           s == u % n
<1>1. q \in Nat /\ r \in 0 .. n - 1 /\ t = n * q + r
  BY DivisionFacts
<1>2. p \in Nat /\ s \in 0 .. n - 1 /\ u = n * p + s
  BY DivisionFacts
<1> HIDE DEF q, r, p, s
<1>3. n * q + r <= n * p + s
  BY <1>1, <1>2
<1>4. q < p \/ (q = p /\ r <= s)
  BY <1>1, <1>2, <1>3, QuotientMonotonic
<1>5. q + (IF i < r THEN 1 ELSE 0) <= p + (IF i < s THEN 1 ELSE 0)
  <2>1. CASE q < p
    BY <2>1, <1>1, <1>2
  <2>2. CASE q = p /\ r <= s
    BY <2>2, <1>1, <1>2 DEF Indices
  <2> QED
    BY <1>4, <2>1, <2>2
<1> QED
  BY <1>5 DEF Share, q, r, p, s

LEMMA InterestNatural ==
    ASSUME NEW cents \in Nat, NEW rate \in Nat
    PROVE  InterestOf(cents, rate) \in Nat
<1>1. cents * rate + 5000 \in Nat
  OBVIOUS
<1> QED
  BY <1>1, DivisionFacts DEF InterestOf

LEMMA AcceptableTypes ==
    ASSUME NEW terms, Acceptable(terms)
    PROVE  /\ terms.capital \in Nat \ {0}
           /\ terms.count \in Nat \ {0}
           /\ terms.capital >= terms.count
           /\ RateOf(terms) \in Nat
           /\ TotalOf(terms) \in Nat
           /\ terms.capital <= TotalOf(terms)
<1>1. /\ terms.capital \in Nat \ {0}
      /\ terms.count \in Nat \ {0}
      /\ terms.capital >= terms.count
      /\ RateOf(terms) \in Nat
  BY LoanTermsAssumption DEF Acceptable, Calculable
<1>2. InterestOf(terms.capital, RateOf(terms)) \in Nat
  BY <1>1, InterestNatural
<1> QED
  BY <1>1, <1>2 DEF TotalOf

\* No installment is worth nothing, or less than the capital it repays: the
\* CHECKs of the table `installments' (Supabase.sql:87-88) accept every row of
\* every schedule that createLoan computes, so the insert that follows the
\* registration on HSK Chain is never refused for its amounts.
THEOREM ScheduleMeetsTheChecks ==
    ASSUME NEW terms, Acceptable(terms), NEW i \in Indices(terms.count)
    PROVE  /\ AmountOf(terms, i) \in Nat \ {0}
           /\ PrincipalOf(terms, i) \in 0 .. AmountOf(terms, i)
<1> DEFINE c == terms.capital
           n == terms.count
<1>0. /\ c \in Nat \ {0} /\ n \in Nat \ {0} /\ c >= n
      /\ TotalOf(terms) \in Nat /\ c <= TotalOf(terms)
  BY AcceptableTypes
<1>1. i \in 0 .. n - 1
  BY DEF Indices
<1> DEFINE q == c \div n
           r == c % n
<1>2. q \in Nat /\ r \in 0 .. n - 1 /\ c = n * q + r
  BY <1>0, DivisionFacts
<1>3. q >= 1
  <2>1. CASE q = 0
    <3>1. c = r
      BY <2>1, <1>0, <1>2
    <3> QED
      BY <3>1, <1>0, <1>2
  <2> QED
    BY <2>1, <1>2
<1>4. PrincipalOf(terms, i) = q + (IF i < r THEN 1 ELSE 0)
  BY DEF PrincipalOf, Share
<1>5. CASE terms.rate # NoRate
  <2>1. AmountOf(terms, i) = Share(TotalOf(terms), n, i)
    BY <1>5 DEF AmountOf
  <2>2. PrincipalOf(terms, i) <= AmountOf(terms, i)
    BY <2>1, <1>0, ShareMonotonic DEF PrincipalOf
  <2>3. AmountOf(terms, i) \in Nat
    <3> DEFINE t == TotalOf(terms)
    <3>1. t \div n \in Nat
      BY <1>0, DivisionFacts
    <3> HIDE DEF t
    <3> QED
      BY <2>1, <3>1 DEF Share, t
  <2> QED
    BY <2>2, <2>3, <1>1, <1>2, <1>3, <1>4
<1>6. CASE terms.rate = NoRate
  <2> DEFINE a == terms.installment
  <2>1. a \in Nat \ {0} /\ a * n >= c
    BY <1>6, LoanTermsAssumption DEF Acceptable, Covered
  <2>2. AmountOf(terms, i) = a
    BY <1>6 DEF AmountOf
  <2> HIDE DEF a, c, n, q, r
  <2>3. n * a + 0 >= n * q + r
    BY <2>1, <1>2, <1>0
  <2>4. q < a \/ (q = a /\ r <= 0)
    BY <2>1, <1>0, <1>2, <2>3, QuotientMonotonic
  <2>5. q + (IF i < r THEN 1 ELSE 0) <= a
    BY <2>1, <2>4, <1>1, <1>2
  <2> QED
    BY <2>1, <2>2, <2>5, <1>2, <1>4
<1> QED
  BY <1>5, <1>6

-----------------------------------------------------------------------------
(* One profile for each user. *)

CallInv(s) ==
    /\ DOMAIN call[s] = {"pc", "auth", "role", "wallet", "id"}
    /\ call[s].pc = "INSERT" =>
          call[s].auth \in AuthUser /\ call[s].role \in Role /\ call[s].wallet \in Address

CallsInv == DOMAIN call = ProfileCall /\ \A s \in ProfileCall : CallInv(s)

ProfilesInv ==
    /\ profiles \subseteq ProfileRow
    /\ OneProfilePerUser

LEMMA ProfileAdded ==
  ASSUME ProfilesInv, NEW p \in ProfileRow, Insertable(p),
         profiles' = profiles \cup {p},
         \A s \in ProfileCall :
            call'[s].pc = "DONE" =>
               \/ call[s].pc = "DONE" /\ call'[s] = call[s]
               \/ call'[s].id = p.id /\ call'[s].auth = p.auth
  PROVE  ProfilesInv'
<1>1. ASSUME NEW a \in profiles', NEW b \in profiles', a.auth = b.auth \/ a.wallet = b.wallet
      PROVE  a = b
  BY <1>1 DEF ProfilesInv, OneProfilePerUser, Insertable
<1>2. ASSUME NEW s \in ProfileCall, call'[s].pc = "DONE"
      PROVE  \E a \in profiles' : a.id = call'[s].id /\ a.auth = call'[s].auth
  <2>1. CASE call[s].pc = "DONE" /\ call'[s] = call[s]
    BY <1>2, <2>1 DEF ProfilesInv, OneProfilePerUser
  <2>2. CASE call'[s].id = p.id /\ call'[s].auth = p.auth
    BY <2>2
  <2> QED
    BY <1>2, <2>1, <2>2
<1>3. profiles' \subseteq ProfileRow
  BY DEF ProfilesInv
<1> QED
  BY <1>1, <1>2, <1>3 DEF ProfilesInv, OneProfilePerUser

LEMMA AccountsStepInv ==
  ASSUME ProfilesInv, CallsInv, AccountsStep
  PROVE  /\ ProfilesInv' /\ CallsInv'
         /\ profiles \subseteq profiles' /\ users \subseteq users'
<1>1. ASSUME NEW a \in AuthUser, SignUp(a)
      PROVE  /\ ProfilesInv' /\ CallsInv'
             /\ profiles \subseteq profiles' /\ users \subseteq users'
  BY <1>1 DEF SignUp, ProfilesInv, OneProfilePerUser, CallsInv, CallInv
<1>2. ASSUME NEW a \in AuthUser, NEW role \in Role, NEW w \in Address, Register(a, role, w)
      PROVE  /\ ProfilesInv' /\ CallsInv'
             /\ profiles \subseteq profiles' /\ users \subseteq users'
  <2>1. PICK id \in Uuid :
           LET p == [id |-> id, auth |-> a, role |-> role, wallet |-> w] IN
           Insertable(p) /\ profiles' = profiles \cup {p}
    BY <1>2 DEF Register
  <2> DEFINE p == [id |-> id, auth |-> a, role |-> role, wallet |-> w]
  <2>2. p \in ProfileRow
    BY DEF ProfileRow
  <2>3. call' = call /\ users \subseteq users' /\ CallsInv'
    BY <1>2 DEF Register, CallsInv, CallInv
  <2> HIDE DEF p
  <2>4. Insertable(p) /\ profiles' = profiles \cup {p}
    BY <2>1 DEF p
  <2> QED
    BY <2>2, <2>3, <2>4, ProfileAdded
<1>3. ASSUME NEW s \in ProfileCall, NEW a \in AuthUser, NEW role \in Role, NEW w \in Address,
             FindProfile(s, a, role, w)
      PROVE  /\ ProfilesInv' /\ CallsInv'
             /\ profiles \subseteq profiles' /\ users \subseteq users'
  <2>1. profiles' = profiles /\ users' = users /\ CallsInv'
    BY <1>3 DEF FindProfile, CallsInv, CallInv
  <2>2. ASSUME NEW t \in ProfileCall, call'[t].pc = "DONE"
        PROVE  \E p \in profiles : p.id = call'[t].id /\ p.auth = call'[t].auth
    <3>1. CASE t # s
      BY <1>3, <2>2, <3>1 DEF FindProfile, ProfilesInv, OneProfilePerUser, CallsInv
    <3>2. CASE t = s /\ ProfileOf(a) = {}
      BY <1>3, <2>2, <3>2 DEF FindProfile, CallsInv
    <3>3. CASE t = s /\ ProfileOf(a) # {}
      <4> DEFINE p == CHOOSE q \in ProfileOf(a) : TRUE
      <4>1. p \in profiles /\ p.auth = a
        BY <3>3 DEF ProfileOf
      <4>2. call'[t].id = p.id /\ call'[t].auth = a
        BY <1>3, <3>3 DEF FindProfile, CallsInv
      <4> QED
        BY <4>1, <4>2
    <3> QED
      BY <3>1, <3>2, <3>3
  <2> QED
    BY <2>1, <2>2 DEF ProfilesInv, OneProfilePerUser
<1>4. ASSUME NEW s \in ProfileCall, CreateProfile(s)
      PROVE  /\ ProfilesInv' /\ CallsInv'
             /\ profiles \subseteq profiles' /\ users \subseteq users'
  <2>1. CASE \E id \in Uuid \ AuthUser :
               LET p == [id |-> id, auth |-> call[s].auth, role |-> call[s].role,
                         wallet |-> call[s].wallet] IN
               /\ Insertable(p)
               /\ profiles' = profiles \cup {p}
               /\ call' = [call EXCEPT ![s] = [@ EXCEPT !.pc = "DONE", !.id = id]]
    <3>1. PICK id \in Uuid \ AuthUser :
               LET p == [id |-> id, auth |-> call[s].auth, role |-> call[s].role,
                         wallet |-> call[s].wallet] IN
               /\ Insertable(p)
               /\ profiles' = profiles \cup {p}
               /\ call' = [call EXCEPT ![s] = [@ EXCEPT !.pc = "DONE", !.id = id]]
      BY <2>1
    <3> DEFINE p == [id |-> id, auth |-> call[s].auth, role |-> call[s].role,
                     wallet |-> call[s].wallet]
    <3>2. p \in ProfileRow /\ p.id = id /\ p.auth = call[s].auth
      BY <1>4 DEF CreateProfile, CallsInv, CallInv, ProfileRow
    <3>3. Insertable(p) /\ profiles' = profiles \cup {p}
      BY <3>1
    <3>4. /\ DOMAIN call' = ProfileCall
          /\ \A t \in ProfileCall : t # s => call'[t] = call[t]
          /\ DOMAIN call'[s] = {"pc", "auth", "role", "wallet", "id"}
          /\ call'[s].pc = "DONE" /\ call'[s].id = id /\ call'[s].auth = call[s].auth
      BY <3>1 DEF CallsInv, CallInv
    <3>5. CallsInv'
      BY <3>4 DEF CallsInv, CallInv
    <3> HIDE DEF p
    <3> QED
      BY <1>4, <3>2, <3>3, <3>4, <3>5, ProfileAdded DEF CreateProfile
  <2>2. CASE call' = [call EXCEPT ![s].pc = "REFUSED"] /\ UNCHANGED profiles
    BY <1>4, <2>2 DEF CreateProfile, CallsInv, CallInv, ProfilesInv, OneProfilePerUser
  <2> QED
    BY <1>4, <2>1, <2>2 DEF CreateProfile
<1> QED
  BY <1>1, <1>2, <1>3, <1>4 DEF AccountsStep

LEMMA ProfilesInit == LendingInit => ProfilesInv /\ CallsInv
  BY DEF LendingInit, AccountsInit, ProfilesInv, CallsInv, CallInv, OneProfilePerUser

LEMMA ProfilesStay ==
    ProfilesInv /\ CallsInv /\ UNCHANGED accountVars => ProfilesInv' /\ CallsInv'
  BY DEF ProfilesInv, CallsInv, CallInv, OneProfilePerUser, accountVars

\* Loans and routes leave the users alone.
LEMMA OthersLeaveUsers ==
    LendingNext => AccountsStep \/ UNCHANGED accountVars
  BY DEF LendingNext, OriginStep, Submit, CheckParties, SendRegistration, MineRegistration,
         DropRegistration, WaitRegistration, InsertLoan, InsertSchedule, RequestFails,
         RoutesStep, UpsertRoute, UpsertStops

LEMMA ProfilesNext ==
    ProfilesInv /\ CallsInv /\ [LendingNext]_lendingVars =>
        ProfilesInv' /\ CallsInv' /\ profiles \subseteq profiles'
<1> SUFFICES ASSUME ProfilesInv, CallsInv, [LendingNext]_lendingVars
             PROVE  ProfilesInv' /\ CallsInv' /\ profiles \subseteq profiles'
  OBVIOUS
<1>1. CASE AccountsStep
  BY <1>1, AccountsStepInv
<1>2. CASE UNCHANGED accountVars
  BY <1>2, ProfilesStay DEF accountVars
<1> QED
  BY <1>1, <1>2, OthersLeaveUsers DEF lendingVars

LEMMA ProfilesAlways == LendingSpec => []ProfilesInv /\ []CallsInv
  BY ProfilesInit, ProfilesNext, PTL DEF LendingSpec

\* A user has one profile, and a profile one user and one wallet.
THEOREM UsersAreOne == LendingSpec => []OneProfilePerUser
  BY ProfilesAlways, PTL DEF ProfilesInv

-----------------------------------------------------------------------------
(* Loans. *)

Fields == {"pc", "lender", "borrower", "wallet", "terms", "id"}

Before == {"NEW", "CHECK", "REGISTER", "REFUSED"}
After == {"WAIT", "INSERT", "SCHEDULE", "DONE", "FAILED"}

\* Two profiles are those of a request.
PartiesOf(r) ==
    \E b, d \in profiles :
        /\ b.id = r.borrower /\ b.role = "BORROWER" /\ b.wallet = r.wallet
        /\ d.id = r.lender /\ d.role = "LENDER"
        /\ d.id # b.id

\* The contract has what the request registered.
OnChain(r) ==
    LET k == hskLoans[r.id] IN
    /\ k.registered
    /\ k.lender = Operator /\ k.borrower = r.wallet /\ k.totalInstallments = r.terms.count

RequestOK(c) ==
    LET r == origin[c] IN
    /\ DOMAIN r = Fields
    /\ r.pc \in Before \cup After
    /\ r.pc \in Before => r.id = Null
    /\ r.pc \in After => r.id \in LoanId
    /\ c \in sent => r.pc \in After
    /\ r.pc \in After \cup {"CHECK", "REGISTER"} =>
          /\ r.lender \in Uuid /\ r.borrower \in Uuid /\ r.terms \in Terms
          /\ \E d \in profiles : d.id = r.lender /\ d.role = "LENDER"
    /\ r.pc \in After \cup {"REGISTER"} => PartiesOf(r)
    /\ r.pc \in {"INSERT", "SCHEDULE", "DONE"} => OnChain(r)
    /\ r.pc \in {"SCHEDULE", "DONE"} => loan[r.id] = LoanRow(r)
    /\ r.pc = "DONE" => schedule[r.id] = InstallmentRows(r.terms)

\* What the contract and the tables have is of a request.
LoanOK(l) ==
    /\ hskLoans[l].registered => \E c \in Request : origin[c].id = l /\ OnChain(origin[c])
    /\ loan[l] # Null => \E c \in Request :
          /\ origin[c].id = l /\ loan[l] = LoanRow(origin[c])
          /\ OnChain(origin[c]) /\ PartiesOf(origin[c])
    /\ schedule[l] # <<>> => loan[l] # Null

OriginInv ==
    /\ DOMAIN origin = Request /\ DOMAIN hskLoans = LoanId
    /\ DOMAIN loan = LoanId /\ DOMAIN schedule = LoanId
    /\ \A c \in Request : RequestOK(c)
    /\ \A c, d \in Request : origin[c].id = origin[d].id => c = d \/ origin[c].id = Null
    /\ \A l \in LoanId : LoanOK(l)

LEMMA OriginStarts == LendingInit => OriginInv
<1> SUFFICES ASSUME LendingInit PROVE OriginInv
  OBVIOUS
<1>1. /\ DOMAIN origin = Request /\ DOMAIN hskLoans = LoanId
      /\ DOMAIN loan = LoanId /\ DOMAIN schedule = LoanId
      /\ \A c \in Request : origin[c] = Unsubmitted
      /\ sent = {}
      /\ \A l \in LoanId : hskLoans[l].registered = FALSE /\ loan[l] = Null /\ schedule[l] = <<>>
  BY DEF LendingInit, OriginInit, Chain!Init, Chain!EmptyLoan
<1>2. DOMAIN Unsubmitted = Fields /\ Unsubmitted.pc = "NEW" /\ Unsubmitted.id = Null
  BY DEF Unsubmitted, Fields
<1>3. \A c \in Request : RequestOK(c)
  BY <1>1, <1>2 DEF RequestOK, Before, After
<1>4. \A l \in LoanId : LoanOK(l)
  BY <1>1 DEF LoanOK
<1> QED
  BY <1>1, <1>2, <1>3, <1>4 DEF OriginInv

\* A request keeps its terms, its parties and its loan.
SameRequest(c) ==
    /\ DOMAIN origin'[c] = DOMAIN origin[c]
    /\ origin'[c].id = origin[c].id /\ origin'[c].wallet = origin[c].wallet
    /\ origin'[c].terms = origin[c].terms /\ origin'[c].lender = origin[c].lender
    /\ origin'[c].borrower = origin[c].borrower

\* Nothing happens to a loan.
SameLoan(l) ==
    hskLoans'[l] = hskLoans[l] /\ loan'[l] = loan[l] /\ schedule'[l] = schedule[l]

LEMMA Moves ==
  ASSUME OriginInv, NEW c \in Request, NEW pc, Goto(c, pc)
  PROVE  /\ DOMAIN origin' = Request
         /\ origin'[c].pc = pc /\ SameRequest(c)
         /\ \A d \in Request : d # c => origin'[d] = origin[d]
         /\ \A d \in Request : SameRequest(d)
<1>1. DOMAIN origin = Request /\ DOMAIN origin[c] = Fields
  BY DEF OriginInv, RequestOK
<1>2. /\ DOMAIN origin' = Request
      /\ origin'[c].pc = pc /\ SameRequest(c)
      /\ \A d \in Request : d # c => origin'[d] = origin[d]
  BY <1>1 DEF Goto, SameRequest, Fields
<1>3. ASSUME NEW d \in Request PROVE SameRequest(d)
  <2>1. CASE d = c
    BY <1>2, <2>1
  <2>2. CASE d # c
    BY <1>2, <2>2 DEF SameRequest
  <2> QED
    BY <2>1, <2>2
<1> QED
  BY <1>2, <1>3

\* What the row of a loan says does not depend on where its request is.
LEMMA SameRow ==
  ASSUME NEW c, SameRequest(c)
  PROVE  LoanRow(origin'[c]) = LoanRow(origin[c])
  BY DEF SameRequest, LoanRow

\* A loan that nothing happens to.
LEMMA LoanStays ==
  ASSUME OriginInv, NEW l \in LoanId,
         \A c \in Request : origin[c].id = l => SameRequest(c),
         profiles \subseteq profiles',
         SameLoan(l)
  PROVE  LoanOK(l)'
<1>1. LoanOK(l)
  BY DEF OriginInv
<1>2. ASSUME NEW c \in Request, origin[c].id = l, OnChain(origin[c])
      PROVE  origin'[c].id = l /\ OnChain(origin[c])'
  BY <1>2 DEF OnChain, SameRequest, SameLoan
<1>3. ASSUME NEW c \in Request, origin[c].id = l, PartiesOf(origin[c])
      PROVE  PartiesOf(origin[c])'
  BY <1>3 DEF PartiesOf, SameRequest
<1>4. ASSUME NEW c \in Request, origin[c].id = l
      PROVE  LoanRow(origin'[c]) = LoanRow(origin[c])
  BY <1>4, SameRow
<1>5. hskLoans'[l].registered => \E c \in Request : origin'[c].id = l /\ OnChain(origin[c])'
  BY <1>1, <1>2 DEF LoanOK, SameLoan
<1>6. loan'[l] # Null => \E c \in Request :
         /\ origin'[c].id = l /\ loan'[l] = LoanRow(origin'[c])
         /\ OnChain(origin[c])' /\ PartiesOf(origin[c])'
  BY <1>1, <1>2, <1>3, <1>4 DEF LoanOK, SameLoan
<1> QED
  BY <1>1, <1>5, <1>6 DEF LoanOK, SameLoan

\* A request that nothing happens to, while its loan keeps what is known.
LEMMA RequestStays ==
  ASSUME OriginInv, NEW c \in Request, origin'[c] = origin[c],
         profiles \subseteq profiles', c \in sent' => c \in sent,
         origin[c].id \in LoanId => SameLoan(origin[c].id)
  PROVE  RequestOK(c)'
<1> DEFINE r == origin[c]
<1>1. RequestOK(c)
  BY DEF OriginInv
<1>2. PartiesOf(r) => PartiesOf(r)'
  BY DEF PartiesOf
<1>3. r.pc \in {"INSERT", "SCHEDULE", "DONE"} => OnChain(r)'
  BY <1>1 DEF RequestOK, OnChain, SameLoan, After
<1>4. r.pc \in {"SCHEDULE", "DONE"} => loan'[r.id] = LoanRow(r)
  BY <1>1 DEF RequestOK, SameLoan, After
<1>5. r.pc = "DONE" => schedule'[r.id] = InstallmentRows(r.terms)
  BY <1>1 DEF RequestOK, SameLoan, After
<1> QED
  BY <1>1, <1>2, <1>3, <1>4, <1>5 DEF RequestOK

\* One request moves, and perhaps something happens to its loan.
LEMMA OneMoves ==
  ASSUME OriginInv, NEW c \in Request, NEW pc, Goto(c, pc),
         profiles \subseteq profiles', sent' \subseteq sent \cup {c},
         DOMAIN hskLoans' = LoanId, DOMAIN loan' = LoanId, DOMAIN schedule' = LoanId,
         \A l \in LoanId : l # origin[c].id => SameLoan(l),
         RequestOK(c)',
         \A l \in LoanId : l = origin[c].id => LoanOK(l)'
  PROVE  OriginInv'
<1>1. /\ DOMAIN origin' = Request
      /\ \A d \in Request : d # c => origin'[d] = origin[d]
      /\ \A d \in Request : SameRequest(d)
  BY Moves
<1>2. ASSUME NEW d \in Request PROVE RequestOK(d)'
  <2>1. CASE d = c
    BY <2>1
  <2>2. CASE d # c
    <3>1. origin[d].id \in LoanId => SameLoan(origin[d].id)
      BY <2>2, OriginAssumption DEF OriginInv
    <3>2. d \in sent' => d \in sent
      BY <2>2
    <3> QED
      BY <1>1, <2>2, <3>1, <3>2, RequestStays
  <2> QED
    BY <2>1, <2>2
<1>3. ASSUME NEW l \in LoanId PROVE LoanOK(l)'
  <2>1. CASE l = origin[c].id
    BY <2>1
  <2>2. CASE l # origin[c].id
    BY <1>1, <2>2, LoanStays
  <2> QED
    BY <2>1, <2>2
<1>4. \A d, e \in Request : origin'[d].id = origin'[e].id => d = e \/ origin'[d].id = Null
  BY <1>1 DEF SameRequest, OriginInv
<1> QED
  BY <1>1, <1>2, <1>3, <1>4 DEF OriginInv

\* A request without a loan moves, and nothing else happens.
LEMMA EarlyMoves ==
  ASSUME OriginInv, NEW c \in Request, NEW next,
         origin' = [origin EXCEPT ![c] = next], origin[c].id = Null,
         UNCHANGED <<profiles, hskLoans, loan, schedule>>, sent' \subseteq sent \cup {c},
         \A d \in Request : next.id = origin[d].id => d = c \/ next.id = Null,
         RequestOK(c)'
  PROVE  OriginInv'
<1>1. /\ DOMAIN origin' = Request /\ origin'[c] = next
      /\ \A d \in Request : d # c => origin'[d] = origin[d]
  BY DEF OriginInv
<1>2. ASSUME NEW d \in Request PROVE RequestOK(d)'
  <2>1. CASE d = c
    BY <2>1
  <2>2. CASE d # c
    BY <1>1, <2>2, RequestStays DEF SameLoan
  <2> QED
    BY <2>1, <2>2
<1>3. ASSUME NEW l \in LoanId PROVE LoanOK(l)'
  <2>1. \A d \in Request : origin[d].id = l => SameRequest(d)
    BY <1>1, OriginAssumption DEF SameRequest
  <2> QED
    BY <2>1, LoanStays DEF SameLoan
<1>4. \A d, e \in Request : origin'[d].id = origin'[e].id => d = e \/ origin'[d].id = Null
  BY <1>1 DEF OriginInv
<1> QED
  BY <1>1, <1>2, <1>3, <1>4 DEF OriginInv

LEMMA SubmitInv ==
  ASSUME ProfilesInv, OriginInv, NEW c \in Request, NEW a \in AuthUser, NEW borrower \in Uuid,
         NEW wallet \in Address, NEW terms \in Terms, Submit(c, a, borrower, wallet, terms)
  PROVE  OriginInv'
<1>1. /\ UNCHANGED <<profiles, hskLoans, loan, schedule>> /\ sent' = sent
      /\ origin[c].pc = "NEW"
  BY DEF Submit, accountVars, chainOfLoans
<1>2. origin[c].id = Null /\ c \notin sent
  BY <1>1 DEF OriginInv, RequestOK, Before, After
<1>3. CASE \E p \in ProfileOf(a) :
              /\ p.role = "LENDER"
              /\ origin' = [origin EXCEPT ![c] =
                    [pc |-> "CHECK", lender |-> p.id, borrower |-> borrower,
                     wallet |-> wallet, terms |-> terms, id |-> Null]]
  <2>1. PICK p \in ProfileOf(a) :
              /\ p.role = "LENDER"
              /\ origin' = [origin EXCEPT ![c] =
                    [pc |-> "CHECK", lender |-> p.id, borrower |-> borrower,
                     wallet |-> wallet, terms |-> terms, id |-> Null]]
    BY <1>3
  <2> DEFINE next == [pc |-> "CHECK", lender |-> p.id, borrower |-> borrower,
                      wallet |-> wallet, terms |-> terms, id |-> Null]
  <2>2. p \in profiles /\ p.id \in Uuid
    BY DEF ProfileOf, ProfilesInv, ProfileRow
  <2>3. /\ DOMAIN next = Fields
        /\ next.pc = "CHECK" /\ next.id = Null /\ next.lender = p.id
        /\ next.borrower = borrower /\ next.terms = terms
    BY DEF Fields
  <2>4. origin' = [origin EXCEPT ![c] = next] /\ origin'[c] = next
    BY <2>1 DEF OriginInv
  <2>5. RequestOK(c)'
    <3> HIDE DEF next
    <3> QED
      BY <1>1, <1>2, <2>1, <2>2, <2>3, <2>4 DEF RequestOK, Before, After
  <2> HIDE DEF next
  <2> QED
    BY <1>1, <1>2, <2>3, <2>4, <2>5, EarlyMoves
<1>4. CASE Refuse(c)
  <2> DEFINE next == [Unsubmitted EXCEPT !.pc = "REFUSED"]
  <2>1. DOMAIN next = Fields /\ next.pc = "REFUSED" /\ next.id = Null
    BY DEF Unsubmitted, Fields
  <2>2. origin' = [origin EXCEPT ![c] = next] /\ origin'[c] = next
    BY <1>4 DEF Refuse, OriginInv
  <2> HIDE DEF next
  <2>3. RequestOK(c)'
    BY <1>1, <1>2, <2>1, <2>2 DEF RequestOK, Before, After
  <2> QED
    BY <1>1, <1>2, <2>1, <2>2, <2>3, EarlyMoves
<1> QED
  BY <1>3, <1>4 DEF Submit

LEMMA RefuseInv ==
  ASSUME OriginInv, NEW c \in Request, Refuse(c), origin[c].pc \in {"CHECK", "REGISTER"},
         UNCHANGED <<profiles, hskLoans, loan, schedule, sent>>
  PROVE  OriginInv'
<1> DEFINE next == [Unsubmitted EXCEPT !.pc = "REFUSED"]
<1>1. DOMAIN next = Fields /\ next.pc = "REFUSED" /\ next.id = Null
  BY DEF Unsubmitted, Fields
<1>2. origin' = [origin EXCEPT ![c] = next] /\ origin'[c] = next
  BY DEF Refuse, OriginInv
<1>3. origin[c].id = Null /\ c \notin sent
  BY DEF OriginInv, RequestOK, Before, After
<1> HIDE DEF next
<1>4. RequestOK(c)'
  BY <1>1, <1>2, <1>3 DEF RequestOK, Before, After
<1> QED
  BY <1>1, <1>2, <1>3, <1>4, EarlyMoves

\* The profiles read are those of the request.
LEMMA CheckPartiesInv ==
  ASSUME OriginInv, NEW c \in Request, CheckParties(c)
  PROVE  OriginInv'
<1>1. /\ UNCHANGED <<profiles, hskLoans, loan, schedule>> /\ sent' = sent
      /\ origin[c].pc = "CHECK"
  BY DEF CheckParties, accountVars, chainOfLoans
<1>2. RequestOK(c)
  BY DEF OriginInv
<1>3. CASE Goto(c, "REGISTER") /\ \E p \in profiles : Matches(origin[c], p)
  <2>1. /\ origin'[c].pc = "REGISTER" /\ SameRequest(c)
        /\ \A d \in Request : SameRequest(d)
    BY <1>3, Moves
  <2>2. PartiesOf(origin[c])
    BY <1>1, <1>2, <1>3 DEF RequestOK, PartiesOf, Matches
  <2>3. PartiesOf(origin[c])'
    BY <1>1, <2>1, <2>2 DEF PartiesOf, SameRequest
  <2>4. RequestOK(c)'
    BY <1>1, <1>2, <2>1, <2>3 DEF RequestOK, SameRequest, Before, After
  <2>5. origin[c].id = Null
    BY <1>1, <1>2 DEF RequestOK, Before
  <2>6. /\ DOMAIN hskLoans' = LoanId /\ DOMAIN loan' = LoanId /\ DOMAIN schedule' = LoanId
        /\ \A l \in LoanId : SameLoan(l)
        /\ \A l \in LoanId : l # origin[c].id
    BY <1>1, <2>5, OriginAssumption DEF OriginInv, SameLoan
  <2> QED
    BY <1>1, <1>3, <2>4, <2>6, OneMoves
<1>4. CASE Refuse(c)
  BY <1>1, <1>4, RefuseInv
<1> QED
  BY <1>3, <1>4 DEF CheckParties

\* An id is drawn that no other request has.
LEMMA SendRegistrationInv ==
  ASSUME OriginInv, NEW c \in Request, SendRegistration(c)
  PROVE  OriginInv'
<1>1. /\ UNCHANGED <<profiles, hskLoans, loan, schedule>> /\ sent' = sent \cup {c}
      /\ origin[c].pc = "REGISTER"
  BY DEF SendRegistration, accountVars, chainOfLoans
<1>2. PICK l \in LoanId :
         /\ \A d \in Request : origin[d].id # l
         /\ origin' = [origin EXCEPT ![c] = [@ EXCEPT !.pc = "WAIT", !.id = l]]
  BY DEF SendRegistration
<1> DEFINE next == [origin[c] EXCEPT !.pc = "WAIT", !.id = l]
<1>3. RequestOK(c)
  BY DEF OriginInv
<1>4. /\ DOMAIN next = Fields /\ next.pc = "WAIT" /\ next.id = l
      /\ next.lender = origin[c].lender /\ next.borrower = origin[c].borrower
      /\ next.wallet = origin[c].wallet /\ next.terms = origin[c].terms
  BY <1>3 DEF RequestOK, Fields
<1>5. origin' = [origin EXCEPT ![c] = next] /\ origin'[c] = next
  BY <1>2 DEF OriginInv
<1>6. origin[c].id = Null
  BY <1>1, <1>3 DEF RequestOK, Before
<1> HIDE DEF next
<1>7. PartiesOf(origin[c])'
  BY <1>1, <1>3, <1>4, <1>5 DEF RequestOK, PartiesOf
<1>8. RequestOK(c)'
  BY <1>1, <1>3, <1>4, <1>5, <1>7 DEF RequestOK, Before, After
<1>9. \A d \in Request : next.id = origin[d].id => d = c \/ next.id = Null
  BY <1>2, <1>4
<1>10. sent' \subseteq sent \cup {c} /\ UNCHANGED <<profiles, hskLoans, loan, schedule>>
  BY <1>1
<1> QED
  BY <1>5, <1>6, <1>8, <1>9, <1>10, EarlyMoves, Zenon

\* The chain registers the loan of one request, whatever became of it.
LEMMA MineRegistrationInv ==
  ASSUME OriginInv, NEW c \in Request, MineRegistration(c)
  PROVE  OriginInv'
<1> DEFINE r == origin[c]
           k == [lender |-> Operator, borrower |-> r.wallet,
                 totalInstallments |-> r.terms.count, paidInstallments |-> 0,
                 registered |-> TRUE, status |-> "ACTIVE"]
<1>1. /\ hskLoans' = [hskLoans EXCEPT ![r.id] = k]
      /\ ~ hskLoans[r.id].registered
      /\ UNCHANGED <<profiles, loan, schedule, origin>>
      /\ c \in sent /\ sent' = sent \ {c}
  BY DEF MineRegistration, Chain!RegisterLoan, Chain!CanRegister, accountVars
<1>2. RequestOK(c) /\ r.id \in LoanId
  BY <1>1 DEF OriginInv, RequestOK
<1>3. /\ DOMAIN hskLoans' = LoanId
      /\ hskLoans'[r.id] = k
      /\ k.registered /\ k.lender = Operator /\ k.borrower = r.wallet
      /\ k.totalInstallments = r.terms.count
      /\ \A l \in LoanId : l # r.id => SameLoan(l)
  BY <1>1, <1>2 DEF OriginInv, SameLoan
<1> HIDE DEF k
<1>4. ASSUME NEW d \in Request PROVE RequestOK(d)'
  <2>1. CASE d = c
    <3>1. origin'[c] = r
      BY <1>1
    <3>2. r.pc \notin {"INSERT", "SCHEDULE", "DONE"}
      BY <1>1, <1>2 DEF RequestOK, OnChain
    <3>3. PartiesOf(r)'
      BY <1>1, <1>2 DEF RequestOK, PartiesOf
    <3> QED
      BY <1>1, <1>2, <2>1, <3>1, <3>2, <3>3 DEF RequestOK, PartiesOf
  <2>2. CASE d # c
    <3>1. origin[d].id \in LoanId => SameLoan(origin[d].id)
      BY <1>2, <1>3, <2>2, OriginAssumption DEF OriginInv
    <3> QED
      BY <1>1, <3>1, RequestStays
  <2> QED
    BY <2>1, <2>2
<1>5. ASSUME NEW l \in LoanId PROVE LoanOK(l)'
  <2>1. CASE l = r.id
    <3>1. OnChain(r)'
      BY <1>1, <1>3 DEF OnChain
    <3>2. loan[l] = Null /\ schedule[l] = <<>>
      <4>1. LoanOK(l)
        BY DEF OriginInv
      <4>2. loan[l] = Null
        BY <1>1, <2>1, <4>1 DEF LoanOK, OnChain
      <4> QED
        BY <4>1, <4>2 DEF LoanOK
    <3> QED
      BY <1>1, <2>1, <3>1, <3>2 DEF LoanOK
  <2>2. CASE l # r.id
    <3>1. \A d \in Request : SameRequest(d)
      BY <1>1 DEF SameRequest
    <3> QED
      BY <1>1, <1>3, <2>2, <3>1, LoanStays
  <2> QED
    BY <2>1, <2>2
<1>6. \A d, e \in Request : origin'[d].id = origin'[e].id => d = e \/ origin'[d].id = Null
  BY <1>1 DEF OriginInv
<1> QED
  BY <1>1, <1>3, <1>4, <1>5, <1>6 DEF OriginInv

\* Nothing happens to requests and loans.
LEMMA OriginStays ==
  ASSUME OriginInv, UNCHANGED <<hskLoans, loan, schedule, origin>>,
         profiles \subseteq profiles', sent' \subseteq sent
  PROVE  OriginInv'
<1>1. \A c \in Request : RequestOK(c)'
  BY RequestStays DEF SameLoan
<1>2. \A l \in LoanId : LoanOK(l)'
  BY LoanStays DEF SameLoan, SameRequest
<1> QED
  BY <1>1, <1>2 DEF OriginInv

\* What the contract has is what the request sent, for nobody else drew the id.
LEMMA WaitRegistrationInv ==
  ASSUME OriginInv, NEW c \in Request, WaitRegistration(c)
  PROVE  OriginInv'
<1> DEFINE r == origin[c]
<1>1. /\ UNCHANGED <<profiles, hskLoans, loan, schedule>> /\ sent' = sent
      /\ r.pc = "WAIT" /\ hskLoans[r.id].registered /\ Goto(c, "INSERT")
  BY DEF WaitRegistration, accountVars, chainOfLoans, Registered
<1>2. RequestOK(c) /\ r.id \in LoanId /\ r.id # Null
  BY <1>1, OriginAssumption DEF OriginInv, RequestOK, After
<1>3. OnChain(r)
  <2>1. PICK d \in Request : origin[d].id = r.id /\ OnChain(origin[d])
    BY <1>1, <1>2 DEF OriginInv, LoanOK
  <2>2. d = c
    BY <1>2, <2>1 DEF OriginInv
  <2> QED
    BY <2>1, <2>2
<1>4. /\ origin'[c].pc = "INSERT" /\ SameRequest(c)
      /\ \A d \in Request : SameRequest(d)
  BY <1>1, Moves
<1>5. OnChain(origin[c])' /\ PartiesOf(origin[c])'
  BY <1>1, <1>2, <1>3, <1>4 DEF RequestOK, After, OnChain, PartiesOf, SameRequest
<1>6. RequestOK(c)'
  BY <1>1, <1>2, <1>4, <1>5 DEF RequestOK, SameRequest, Before, After
<1>7. \A l \in LoanId : SameLoan(l) /\ LoanOK(l)'
  BY <1>1, <1>4, LoanStays DEF SameLoan
<1>8. DOMAIN hskLoans' = LoanId /\ DOMAIN loan' = LoanId /\ DOMAIN schedule' = LoanId
  BY <1>1 DEF OriginInv
<1> QED
  BY <1>1, <1>6, <1>7, <1>8, OneMoves

LEMMA InsertLoanInv ==
  ASSUME OriginInv, NEW c \in Request, InsertLoan(c)
  PROVE  OriginInv'
<1> DEFINE r == origin[c]
<1>1. /\ UNCHANGED <<profiles, hskLoans, schedule>> /\ sent' = sent
      /\ r.pc = "INSERT" /\ loan[r.id] = Null
      /\ loan' = [loan EXCEPT ![r.id] = LoanRow(r)]
  BY DEF InsertLoan, accountVars, chainOfLoans
<1>2. PICK pc \in {"SCHEDULE", "FAILED"} : Goto(c, pc)
  BY DEF InsertLoan
<1>3. RequestOK(c) /\ r.id \in LoanId
  BY <1>1 DEF OriginInv, RequestOK, After
<1>4. /\ origin'[c].pc = pc /\ SameRequest(c)
      /\ \A d \in Request : SameRequest(d)
      /\ LoanRow(origin'[c]) = LoanRow(r)
  BY <1>2, Moves, SameRow
<1>5. /\ DOMAIN loan' = LoanId /\ loan'[r.id] = LoanRow(r)
      /\ \A l \in LoanId : l # r.id => SameLoan(l)
  BY <1>1, <1>3 DEF OriginInv, SameLoan
<1>6. /\ PartiesOf(origin[c])' /\ OnChain(origin[c])'
  BY <1>1, <1>3, <1>4 DEF RequestOK, After, OnChain, PartiesOf, SameRequest
<1>7. RequestOK(c)'
  BY <1>1, <1>2, <1>3, <1>4, <1>5, <1>6 DEF RequestOK, SameRequest, Before, After
<1>8. ASSUME NEW l \in LoanId, l = r.id PROVE LoanOK(l)'
  <2>1. schedule[l] = <<>>
    BY <1>1, <1>8 DEF OriginInv, LoanOK
  <2>2. origin'[c].id = l
    BY <1>4, <1>8 DEF SameRequest
  <2> QED
    BY <1>1, <1>4, <1>5, <1>6, <1>8, <2>1, <2>2 DEF LoanOK
<1>9. DOMAIN hskLoans' = LoanId /\ DOMAIN schedule' = LoanId
  BY <1>1 DEF OriginInv
<1> QED
  BY <1>1, <1>2, <1>5, <1>7, <1>8, <1>9, OneMoves

LEMMA InsertScheduleInv ==
  ASSUME OriginInv, NEW c \in Request, InsertSchedule(c)
  PROVE  OriginInv'
<1> DEFINE r == origin[c]
           rows == InstallmentRows(r.terms)
<1>1. /\ UNCHANGED <<profiles, hskLoans, loan>> /\ sent' = sent
      /\ r.pc = "SCHEDULE"
  BY DEF InsertSchedule, accountVars, chainOfLoans
<1>2. PICK pc \in {"DONE", "FAILED"} :
         /\ Goto(c, pc)
         /\ \/ schedule' = [schedule EXCEPT ![r.id] = rows]
            \/ pc = "FAILED" /\ schedule' = schedule
  BY DEF InsertSchedule
<1>3. RequestOK(c) /\ r.id \in LoanId
  BY <1>1 DEF OriginInv, RequestOK, After
<1>4. /\ origin'[c].pc = pc /\ SameRequest(c)
      /\ \A d \in Request : SameRequest(d)
      /\ LoanRow(origin'[c]) = LoanRow(r)
  BY <1>2, Moves, SameRow
<1>5. /\ DOMAIN schedule' = LoanId
      /\ pc = "DONE" => schedule'[r.id] = rows
      /\ \A l \in LoanId : l # r.id => SameLoan(l)
  BY <1>1, <1>2, <1>3 DEF OriginInv, SameLoan
<1> HIDE DEF rows
<1>6. /\ PartiesOf(origin[c])' /\ OnChain(origin[c])'
  BY <1>1, <1>3, <1>4 DEF RequestOK, After, OnChain, PartiesOf, SameRequest
<1>7. RequestOK(c)'
  <2>1. InstallmentRows(origin'[c].terms) = rows
    BY <1>4 DEF rows, SameRequest
  <2> QED
    BY <1>1, <1>2, <1>3, <1>4, <1>5, <1>6, <2>1 DEF RequestOK, SameRequest, Before, After
<1>8. ASSUME NEW l \in LoanId, l = r.id PROVE LoanOK(l)'
  <2>1. loan[l] = LoanRow(r) /\ r.lender \in Uuid /\ r.borrower \in Uuid /\ r.terms \in Terms
    BY <1>1, <1>3, <1>8 DEF RequestOK, After
  <2>2. loan[l] # Null
    BY <2>1, RowAssumption DEF LoanRow
  <2>3. origin'[c].id = l
    BY <1>4, <1>8 DEF SameRequest
  <2> QED
    BY <1>1, <1>4, <1>6, <2>1, <2>2, <2>3 DEF LoanOK
<1>9. DOMAIN hskLoans' = LoanId /\ DOMAIN loan' = LoanId
  BY <1>1 DEF OriginInv
<1> QED
  BY <1>1, <1>2, <1>5, <1>7, <1>8, <1>9, OneMoves

LEMMA RequestFailsInv ==
  ASSUME OriginInv, NEW c \in Request, RequestFails(c)
  PROVE  OriginInv'
<1> DEFINE r == origin[c]
<1>1. UNCHANGED <<profiles, hskLoans, loan, schedule, sent>>
  BY DEF RequestFails, accountVars, chainOfLoans
<1>2. CASE r.pc \in {"CHECK", "REGISTER"} /\ Refuse(c)
  BY <1>1, <1>2, RefuseInv
<1>3. CASE r.pc \in {"WAIT", "INSERT", "SCHEDULE"} /\ Goto(c, "FAILED")
  <2>1. RequestOK(c)
    BY DEF OriginInv
  <2>2. /\ origin'[c].pc = "FAILED" /\ SameRequest(c)
        /\ \A d \in Request : SameRequest(d)
    BY <1>3, Moves
  <2>3. PartiesOf(origin[c])'
    BY <1>1, <1>3, <2>1, <2>2 DEF RequestOK, After, PartiesOf, SameRequest
  <2>4. RequestOK(c)'
    BY <1>1, <1>3, <2>1, <2>2, <2>3 DEF RequestOK, SameRequest, Before, After
  <2>5. \A l \in LoanId : SameLoan(l) /\ LoanOK(l)'
    BY <1>1, <2>2, LoanStays DEF SameLoan
  <2>6. DOMAIN hskLoans' = LoanId /\ DOMAIN loan' = LoanId /\ DOMAIN schedule' = LoanId
    BY <1>1 DEF OriginInv
  <2> QED
    BY <1>1, <1>3, <2>4, <2>5, <2>6, OneMoves
<1> QED
  BY <1>2, <1>3 DEF RequestFails

LEMMA OriginNext ==
    ProfilesInv /\ CallsInv /\ OriginInv /\ [LendingNext]_lendingVars => OriginInv'
<1> SUFFICES ASSUME ProfilesInv, CallsInv, OriginInv, [LendingNext]_lendingVars
             PROVE  OriginInv'
  OBVIOUS
<1>1. CASE OriginStep
  <2>1. ASSUME NEW c \in Request, DropRegistration(c) PROVE OriginInv'
    BY <2>1, OriginStays DEF DropRegistration, accountVars, chainOfLoans
  <2> QED
    BY <1>1, <2>1, SubmitInv, CheckPartiesInv, SendRegistrationInv, MineRegistrationInv,
       WaitRegistrationInv, InsertLoanInv, InsertScheduleInv, RequestFailsInv DEF OriginStep
<1>2. CASE AccountsStep /\ UNCHANGED originVars
  BY <1>2, AccountsStepInv, OriginStays DEF originVars, chainOfLoans
<1>3. CASE RoutesStep \/ UNCHANGED lendingVars
  <2>1. UNCHANGED <<hskLoans, loan, schedule, origin, sent, profiles>>
    BY <1>3 DEF RoutesStep, UpsertRoute, UpsertStops, lendingVars, accountVars, originVars,
                chainOfLoans
  <2> QED
    BY <2>1, OriginStays
<1> QED
  BY <1>1, <1>2, <1>3 DEF LendingNext

LEMMA OriginAlways == LendingSpec => []OriginInv
  BY ProfilesAlways, OriginStarts, OriginNext, PTL DEF LendingSpec

\* A request that was answered left a whole loan, on the chain and in the
\* tables.
THEOREM AnsweredLoansAreWhole == LendingSpec => []AcknowledgedLoanIsWhole
<1>1. OriginInv => AcknowledgedLoanIsWhole
  BY DEF OriginInv, RequestOK, OnChain, AcknowledgedLoanIsWhole
<1> QED
  BY <1>1, OriginAlways, PTL

\* The tables speak only of loans that HSK knows, with the same parties.
THEOREM RowsAreRegistered == LendingSpec => []RowIsRegistered
<1>1. ASSUME ProfilesInv, OriginInv, NEW l \in LoanId, loan[l] # Null
      PROVE  /\ hskLoans[l].registered
             /\ hskLoans[l].lender = Operator
             /\ hskLoans[l].totalInstallments = loan[l].count
             /\ \E b, d \in profiles :
                    /\ b.id = loan[l].borrower /\ b.role = "BORROWER"
                    /\ b.wallet = hskLoans[l].borrower
                    /\ d.id = loan[l].lender /\ d.role = "LENDER"
                    /\ d.auth # b.auth
  <2>1. PICK c \in Request :
           /\ origin[c].id = l /\ loan[l] = LoanRow(origin[c])
           /\ OnChain(origin[c]) /\ PartiesOf(origin[c])
    BY <1>1 DEF OriginInv, LoanOK
  <2>2. /\ loan[l].count = origin[c].terms.count
        /\ loan[l].borrower = origin[c].borrower /\ loan[l].lender = origin[c].lender
    BY <2>1 DEF LoanRow
  <2>3. PICK b \in profiles, d \in profiles :
           /\ b.id = origin[c].borrower /\ b.role = "BORROWER" /\ b.wallet = origin[c].wallet
           /\ d.id = origin[c].lender /\ d.role = "LENDER"
           /\ d.id # b.id
    BY <2>1 DEF PartiesOf
  <2>4. d.auth # b.auth
    BY <1>1, <2>3 DEF ProfilesInv, OneProfilePerUser
  <2> QED
    BY <2>1, <2>2, <2>3, <2>4 DEF OnChain
<1>2. ProfilesInv /\ OriginInv => RowIsRegistered
  BY <1>1 DEF RowIsRegistered, OriginInv, LoanOK
<1> QED
  BY <1>2, ProfilesAlways, OriginAlways, PTL

-----------------------------------------------------------------------------
(* Routes. *)

AssignmentOK(q) ==
    LET r == assignment[q] IN
    /\ DOMAIN r = {"pc", "collector", "loans"}
    /\ r.pc \in {"ITEMS", "DONE"} => r.collector \in Uuid /\ routeLender[r.collector] # Null
    /\ r.pc = "DONE" => \A j \in DOMAIN r.loans :
          \E s \in stops[r.collector] : s.loan = r.loans[j]

RoutesInv ==
    /\ DOMAIN assignment = Assignment /\ DOMAIN routeLender = Uuid /\ DOMAIN stops = Uuid
    /\ \A q \in Assignment : AssignmentOK(q)

LEMMA RoutesStart == LendingInit => RoutesInv
  BY DEF LendingInit, RoutesInit, RoutesInv, AssignmentOK

\* A route is taken over, never taken away.
LEMMA UpsertRouteInv ==
  ASSUME RoutesInv, NEW q \in Assignment, NEW a \in AuthUser, NEW collector \in Uuid,
         NEW loans, UpsertRoute(q, a, collector, loans)
  PROVE  RoutesInv'
<1>1. stops' = stops /\ a \in Uuid /\ a # Null
  BY AccountsAssumption DEF UpsertRoute
<1>2. CASE assignment' = [assignment EXCEPT ![q].pc = "FAILED"] /\ UNCHANGED routeLender
  BY <1>1, <1>2 DEF RoutesInv, AssignmentOK
<1>3. CASE /\ routeLender' = [routeLender EXCEPT ![collector] = a]
           /\ assignment' = [assignment EXCEPT ![q] =
                  [pc |-> IF loans = <<>> THEN "DONE" ELSE "ITEMS",
                   collector |-> collector, loans |-> loans]]
  <2> DEFINE next == [pc |-> IF loans = <<>> THEN "DONE" ELSE "ITEMS",
                      collector |-> collector, loans |-> loans]
  <2>1. /\ DOMAIN next = {"pc", "collector", "loans"}
        /\ next.collector = collector /\ next.loans = loans
        /\ next.pc = "DONE" => DOMAIN next.loans = {}
    <3>1. DOMAIN <<>> = {}
      OBVIOUS
    <3> QED
      BY <3>1
  <2> HIDE DEF next
  <2>2. /\ DOMAIN assignment' = Assignment /\ assignment'[q] = next
        /\ \A t \in Assignment : t # q => assignment'[t] = assignment[t]
    BY <1>3 DEF RoutesInv, next
  <2>3. /\ DOMAIN routeLender' = Uuid
        /\ routeLender'[collector] # Null
        /\ \A u \in Uuid : routeLender[u] # Null => routeLender'[u] # Null
    BY <1>1, <1>3 DEF RoutesInv
  <2>4. AssignmentOK(q)'
    BY <1>1, <2>1, <2>2, <2>3 DEF AssignmentOK
  <2>5. ASSUME NEW t \in Assignment, t # q PROVE AssignmentOK(t)'
    BY <1>1, <2>2, <2>3, <2>5 DEF RoutesInv, AssignmentOK
  <2> QED
    BY <1>1, <2>2, <2>3, <2>4, <2>5 DEF RoutesInv
<1> QED
  BY <1>2, <1>3 DEF UpsertRoute

\* Stops are moved, never taken away.
LEMMA UpsertStopsInv ==
  ASSUME RoutesInv, NEW q \in Assignment, UpsertStops(q)
  PROVE  RoutesInv'
<1> DEFINE r == assignment[q]
<1>1. routeLender' = routeLender /\ r.pc = "ITEMS" /\ AssignmentOK(q)
  BY DEF UpsertStops, RoutesInv
<1>2. CASE /\ stops' = [stops EXCEPT ![r.collector] = UpsertedStops(@, r.loans)]
           /\ assignment' = [assignment EXCEPT ![q].pc = "DONE"]
  <2>1. r.collector \in Uuid /\ routeLender[r.collector] # Null
    BY <1>1 DEF AssignmentOK
  <2>2. /\ DOMAIN stops' = Uuid
        /\ stops'[r.collector] = UpsertedStops(stops[r.collector], r.loans)
        /\ \A u \in Uuid : u # r.collector => stops'[u] = stops[u]
    BY <1>2, <2>1 DEF RoutesInv
  <2>3. \A j \in DOMAIN r.loans : \E s \in stops'[r.collector] : s.loan = r.loans[j]
    <3> SUFFICES ASSUME NEW j \in DOMAIN r.loans
                 PROVE  \E s \in stops'[r.collector] : s.loan = r.loans[j]
      OBVIOUS
    <3>1. [loan |-> r.loans[j], order |-> j] \in stops'[r.collector]
      BY <2>2 DEF UpsertedStops
    <3> QED
      BY <3>1
  <2>4. ASSUME NEW u \in Uuid, NEW s \in stops[u] PROVE \E t \in stops'[u] : t.loan = s.loan
    <3>1. CASE u # r.collector
      BY <2>2, <3>1
    <3>2. CASE u = r.collector
      BY <2>2, <2>3, <3>2 DEF UpsertedStops
    <3> QED
      BY <3>1, <3>2
  <2>5. /\ DOMAIN assignment' = Assignment
        /\ \A t \in Assignment : t # q => assignment'[t] = assignment[t]
        /\ DOMAIN assignment'[q] = {"pc", "collector", "loans"}
        /\ assignment'[q].collector = r.collector /\ assignment'[q].loans = r.loans
    BY <1>1, <1>2 DEF RoutesInv, AssignmentOK
  <2>6. AssignmentOK(q)'
    BY <1>1, <2>1, <2>3, <2>5 DEF AssignmentOK
  <2>7. ASSUME NEW t \in Assignment, t # q PROVE AssignmentOK(t)'
    BY <1>1, <2>4, <2>5, <2>7 DEF RoutesInv, AssignmentOK
  <2> QED
    BY <1>1, <2>2, <2>5, <2>6, <2>7 DEF RoutesInv
<1>3. CASE assignment' = [assignment EXCEPT ![q].pc = "DONE WITHOUT STOPS"] /\ UNCHANGED stops
  <2>1. /\ DOMAIN assignment' = Assignment
        /\ \A t \in Assignment : t # q => assignment'[t] = assignment[t]
        /\ DOMAIN assignment'[q] = {"pc", "collector", "loans"}
        /\ assignment'[q].pc = "DONE WITHOUT STOPS"
    BY <1>1, <1>3 DEF RoutesInv, AssignmentOK
  <2>2. AssignmentOK(q)'
    BY <2>1 DEF AssignmentOK
  <2>3. ASSUME NEW t \in Assignment, t # q PROVE AssignmentOK(t)'
    <3>1. /\ assignment'[t] = assignment[t] /\ AssignmentOK(t)
          /\ stops' = stops /\ routeLender' = routeLender
      BY <1>1, <1>3, <2>1, <2>3 DEF RoutesInv
    <3> QED
      BY <3>1 DEF AssignmentOK
  <2> QED
    BY <1>1, <1>3, <2>1, <2>2, <2>3 DEF RoutesInv
<1> QED
  BY <1>2, <1>3 DEF UpsertStops

LEMMA RoutesNext == RoutesInv /\ [LendingNext]_lendingVars => RoutesInv'
<1> SUFFICES ASSUME RoutesInv, [LendingNext]_lendingVars PROVE RoutesInv'
  OBVIOUS
<1>1. CASE RoutesStep
  BY <1>1, UpsertRouteInv, UpsertStopsInv DEF RoutesStep
<1>2. CASE UNCHANGED routeVars
  BY <1>2 DEF routeVars, RoutesInv, AssignmentOK
<1> QED
  BY <1>1, <1>2 DEF LendingNext, lendingVars

\* The loans of an assignment that was carried out stay on the sheet of a
\* collector whose profile has the id of its user.
THEOREM StopsStay == LendingSpec => []AssignedStopsStay
<1>1. RoutesInv => AssignedStopsStay
  <2> SUFFICES ASSUME RoutesInv, NEW q \in Assignment, NEW p \in profiles,
                      assignment[q].pc = "DONE",
                      p.id = assignment[q].collector, p.auth = p.id,
                      NEW unread \in SUBSET LoanId,
                      NEW j \in DOMAIN assignment[q].loans
               PROVE  \E s \in TodayRoute(p.auth, TRUE, unread) :
                         s.loan = assignment[q].loans[j]
    BY DEF AssignedStopsStay
  <2> DEFINE u == p.auth
  <2>1. routeLender[u] # Null
    BY DEF RoutesInv, AssignmentOK
  <2>2. PICK s \in stops[u] : s.loan = assignment[q].loans[j]
    BY DEF RoutesInv, AssignmentOK
  <2>3. [loan |-> s.loan, order |-> s.order, number |-> 1,
         found |-> schedule[s.loan] # <<>> /\ s.loan \notin unread]
           \in TodayRoute(u, TRUE, unread)
    BY <2>1 DEF TodayRoute
  <2> QED
    BY <2>2, <2>3
<1> QED
  BY <1>1, RoutesStart, RoutesNext, PTL DEF LendingSpec

-----------------------------------------------------------------------------
(* What the amounts of a schedule add up to. *)

\* A sum is the last of its running totals, whoever gives them.
LEMMA SumIsLastTotal ==
    ASSUME NEW n \in Nat, NEW c \in [1 .. n -> Int], NEW t \in [0 .. n -> Int],
           t[0] = 0, \A j \in 1 .. n : t[j] = t[j - 1] + c[j]
    PROVE  SumOf(c) = t[n]
<1> DEFINE Totals(f) == f = [j \in 0 .. n |-> IF j = 0 THEN 0 ELSE f[j - 1] + c[j]]
           f == CHOOSE f : Totals(f)
           S == {j \in 0 .. n : f[j] = t[j]}
<1>1. Len(c) = n
  OBVIOUS
<1>2. SumOf(c) = f[n]
  BY <1>1 DEF SumOf
<1>3. \E g : Totals(g)
  <2>1. PICK g \in [0 .. n -> Int] :
           g = [j \in 0 .. n |-> IF j = 0 THEN 0 ELSE g[j - 1] + c[j]]
    BY RunningTotals
  <2>2. Totals(g)
    BY <2>1
  <2> HIDE DEF Totals
  <2> QED
    BY <2>2
<1> HIDE DEF Totals
<1>4. Totals(f)
  BY <1>3
<1> HIDE DEF f
<1>5. \A j \in 0 .. n : f[j] = IF j = 0 THEN 0 ELSE f[j - 1] + c[j]
  BY <1>4 DEF Totals
<1>6. 0 \in S
  BY <1>5
<1>7. \A j \in 1 .. n : j - 1 \in S => j \in S
  BY <1>5
<1> HIDE DEF S
<1>8. 0 .. n \subseteq S
  BY <1>6, <1>7, IntervalByStep
<1>9. n \in 0 .. n
  OBVIOUS
<1>10. n \in S
  BY <1>8, <1>9
<1> QED
  BY <1>2, <1>10 DEF S

\* A product, one more time.
LEMMA OneMore ==
    ASSUME NEW q \in Int, NEW j \in Int
    PROVE  j * q = (j - 1) * q + q
OBVIOUS

\* calculateLoan spreads a total over the installments and loses no cent of it.
THEOREM SharesAddUp ==
    ASSUME NEW total \in Nat, NEW count \in Nat \ {0}
    PROVE  SumOf([j \in 1 .. count |-> Share(total, count, j - 1)]) = total
<1> DEFINE q == total \div count
           r == total % count
           c == [j \in 1 .. count |-> Share(total, count, j - 1)]
           t == [j \in 0 .. count |-> j * q + (IF j < r THEN j ELSE r)]
<1>1. q \in Nat /\ r \in 0 .. count - 1 /\ total = count * q + r
  BY DivisionFacts
<1>2. \A j \in 1 .. count : c[j] = q + (IF j - 1 < r THEN 1 ELSE 0)
  BY DEF Share
<1> HIDE DEF q, r, c
<1>3. DOMAIN c = 1 .. count /\ c \in [1 .. count -> Int]
  <2>1. c = [j \in 1 .. count |-> Share(total, count, j - 1)]
    BY DEF c
  <2>2. \A j \in 1 .. count : c[j] \in Int
    BY <1>1, <1>2
  <2> QED
    BY <2>1, <2>2
<1>4. t \in [0 .. count -> Int]
  BY <1>1
<1>5. t[0] = 0
  <2>1. 0 * q = 0
    BY <1>1
  <2> QED
    BY <1>1, <2>1
<1>6. ASSUME NEW j \in 1 .. count PROVE t[j] = t[j - 1] + c[j]
  <2>1. j * q = (j - 1) * q + q
    BY <1>1, OneMore
  <2>2. t[j] = j * q + (IF j < r THEN j ELSE r)
        /\ t[j - 1] = (j - 1) * q + (IF j - 1 < r THEN j - 1 ELSE r)
    OBVIOUS
  <2>3. PICK x \in Int, y \in Int : x = j * q /\ y = (j - 1) * q
    BY <1>1
  <2>4. (IF j < r THEN j ELSE r) = (IF j - 1 < r THEN j - 1 ELSE r) + (IF j - 1 < r THEN 1 ELSE 0)
    BY <1>1
  <2> HIDE DEF t
  <2>5. t[j] = x + (IF j < r THEN j ELSE r)
        /\ t[j - 1] = y + (IF j - 1 < r THEN j - 1 ELSE r)
        /\ c[j] = q + (IF j - 1 < r THEN 1 ELSE 0) /\ x = y + q
    BY <1>2, <2>1, <2>2, <2>3
  <2> QED
    BY <1>1, <2>3, <2>4, <2>5
<1>7. t[count] = total
  BY <1>1
<1> HIDE DEF t
<1>8. SumOf(c) = t[count]
  BY <1>3, <1>4, <1>5, <1>6, SumIsLastTotal
<1> QED
  BY <1>7, <1>8 DEF c

\* Equal amounts.
LEMMA EqualAmountsAddUp ==
    ASSUME NEW a \in Nat, NEW count \in Nat \ {0}
    PROVE  SumOf([j \in 1 .. count |-> a]) = count * a
<1> DEFINE c == [j \in 1 .. count |-> a]
           t == [j \in 0 .. count |-> j * a]
<1>1. t[0] = 0
  OBVIOUS
<1>2. ASSUME NEW j \in 1 .. count PROVE t[j] = t[j - 1] + c[j]
  <2>1. j * a = (j - 1) * a + a
    BY OneMore
  <2> QED
    BY <2>1
<1>3. c \in [1 .. count -> Int] /\ t \in [0 .. count -> Int] /\ t[count] = count * a
  OBVIOUS
<1> HIDE DEF c, t
<1>4. SumOf(c) = t[count]
  BY <1>1, <1>2, <1>3, SumIsLastTotal
<1> QED
  BY <1>3, <1>4 DEF c

\* The schedule that createLoan computes for terms it accepts: the principals
\* add up to the capital, the amounts cover it, and with a rate they add up to
\* capital and interest, to the cent.
THEOREM SchedulesAddUp ==
    ASSUME NEW terms, Acceptable(terms)
    PROVE  LET rows == InstallmentRows(terms)
               amounts == [j \in DOMAIN rows |-> rows[j].amount]
               principals == [j \in DOMAIN rows |-> rows[j].principal]
           IN  /\ SumOf(principals) = terms.capital
               /\ SumOf(amounts) >= terms.capital
               /\ terms.rate # NoRate => SumOf(amounts) = TotalOf(terms)
<1> DEFINE n == terms.count
           rows == InstallmentRows(terms)
           amounts == [j \in DOMAIN rows |-> rows[j].amount]
           principals == [j \in DOMAIN rows |-> rows[j].principal]
<1>1. /\ terms.capital \in Nat /\ n \in Nat \ {0}
      /\ TotalOf(terms) \in Nat /\ terms.capital <= TotalOf(terms)
  BY AcceptableTypes
<1>2. /\ amounts = [j \in 1 .. n |-> AmountOf(terms, j - 1)]
      /\ principals = [j \in 1 .. n |-> Share(terms.capital, n, j - 1)]
  BY DEF InstallmentRows, PrincipalOf
<1> HIDE DEF amounts, principals, n
<1>3. SumOf(principals) = terms.capital
  BY <1>1, <1>2, SharesAddUp
<1>4. CASE terms.rate # NoRate
  <2>1. amounts = [j \in 1 .. n |-> Share(TotalOf(terms), n, j - 1)]
    BY <1>2, <1>4 DEF AmountOf, n
  <2>2. SumOf(amounts) = TotalOf(terms)
    BY <1>1, <2>1, SharesAddUp
  <2> QED
    BY <1>1, <1>3, <2>2 DEF amounts, principals
<1>5. CASE terms.rate = NoRate
  <2>1. amounts = [j \in 1 .. n |-> terms.installment]
    BY <1>2, <1>5 DEF AmountOf
  <2>2. /\ terms.installment \in Nat
        /\ terms.installment * n >= terms.capital
    BY <1>5, LoanTermsAssumption DEF Acceptable, Covered, n
  <2>3. SumOf(amounts) = n * terms.installment
    BY <1>1, <2>1, <2>2, EqualAmountsAddUp
  <2>4. SumOf(amounts) >= terms.capital
    BY <1>1, <2>2, <2>3
  <2> QED
    BY <1>3, <1>5, <2>4 DEF amounts, principals
<1> QED
  BY <1>4, <1>5

-----------------------------------------------------------------------------
(* The calendar. *)

LEMMA MonthLengths ==
    ASSUME NEW year, NEW month
    PROVE  DaysIn(year, month) \in 28 .. 31
  BY DEF DaysIn

\* The months of a year follow each other.
LEMMA MonthsOfYear ==
    ASSUME NEW year
    PROVE  /\ DaysBefore(year, 1) = 0
           /\ \A m \in 1 .. 12 : DaysBefore(year, m) \in Nat
           /\ \A m \in 1 .. 11 :
                 DaysBefore(year, m + 1) = DaysBefore(year, m) + DaysIn(year, m)
<1> DEFINE Days(f) == f = [m \in 1 .. 12 |->
                             IF m = 1 THEN 0 ELSE f[m - 1] + DaysIn(year, m - 1)]
           f == CHOOSE f : Days(f)
<1>1. \A m : DaysBefore(year, m) = f[m]
  BY DEF DaysBefore
<1>2. \E g : Days(g)
  <2> DEFINE c == [m \in 1 .. 11 |-> DaysIn(year, m)]
  <2>1. c \in [1 .. 11 -> Int]
    BY MonthLengths
  <2>2. 11 \in Nat
    OBVIOUS
  <2> HIDE DEF c
  <2>3. PICK t \in [0 .. 11 -> Int] :
           t = [j \in 0 .. 11 |-> IF j = 0 THEN 0 ELSE t[j - 1] + c[j]]
    BY <2>1, <2>2, RunningTotals, Zenon
  <2> DEFINE g == [m \in 1 .. 12 |-> t[m - 1]]
  <2>4. \A j \in 0 .. 11 : t[j] = IF j = 0 THEN 0 ELSE t[j - 1] + c[j]
    BY <2>3
  <2>5. ASSUME NEW m \in 1 .. 12
        PROVE  g[m] = IF m = 1 THEN 0 ELSE g[m - 1] + DaysIn(year, m - 1)
    <3>1. CASE m = 1
      BY <2>4, <3>1
    <3>2. CASE m # 1
      <4>1. m - 1 \in 1 .. 11 /\ g[m] = t[m - 1] /\ g[m - 1] = t[m - 1 - 1]
        BY <3>2
      <4>2. t[m - 1] = t[m - 1 - 1] + c[m - 1] /\ c[m - 1] = DaysIn(year, m - 1)
        BY <2>4, <4>1 DEF c
      <4> QED
        BY <3>2, <4>1, <4>2
    <3> QED
      BY <3>1, <3>2
  <2>6. Days(g)
    <3>1. DOMAIN g = 1 .. 12 /\ g = [m \in 1 .. 12 |-> g[m]]
      OBVIOUS
    <3> HIDE DEF g
    <3> QED
      BY <2>5, <3>1
  <2> HIDE DEF Days, g
  <2> QED
    BY <2>6
<1> HIDE DEF Days
<1>3. Days(f)
  BY <1>2
<1> HIDE DEF f
<1>4. f[1] = 0 /\ \A m \in 2 .. 12 : f[m] = f[m - 1] + DaysIn(year, m - 1)
  BY <1>3 DEF Days
<1>5. \A m \in 1 .. 11 : f[m + 1] = f[m] + DaysIn(year, m)
  <2> SUFFICES ASSUME NEW m \in 1 .. 11 PROVE f[m + 1] = f[m] + DaysIn(year, m)
    OBVIOUS
  <2>1. m + 1 \in 2 .. 12 /\ (m + 1) - 1 = m
    OBVIOUS
  <2> QED
    BY <1>4, <2>1
<1>6. \A m \in 1 .. 12 : f[m] \in Nat
  <2> DEFINE S == {j \in 0 .. 11 : f[j + 1] \in Nat}
  <2>1. 0 \in S
    BY <1>4
  <2>2. ASSUME NEW j \in 1 .. 11, j - 1 \in S PROVE j \in S
    <3>1. f[j] \in Nat
      BY <2>2
    <3>2. f[j + 1] = f[j] + DaysIn(year, j) /\ DaysIn(year, j) \in Nat
      BY <1>5, MonthLengths
    <3> QED
      BY <3>1, <3>2
  <2> HIDE DEF S
  <2>3. 0 .. 11 \subseteq S
    BY <2>1, <2>2, IntervalByStep
  <2>4. ASSUME NEW m \in 1 .. 12 PROVE f[m] \in Nat
    <3>1. m - 1 \in S /\ (m - 1) + 1 = m
      BY <2>3
    <3> QED
      BY <3>1 DEF S
  <2> QED
    BY <2>4
<1> QED
  BY <1>1, <1>4, <1>5, <1>6

\* The days of a year, month by month: 366 when the year is a leap one.
LEMMA DaysOfYear ==
    ASSUME NEW year
    PROVE  DaysBefore(year, 12) = IF Leap(year) THEN 335 ELSE 334
<1> DEFINE D(m) == DaysBefore(year, m)
           L(m) == DaysIn(year, m)
<1>1. /\ D(1) = 0
      /\ D(2) = D(1) + L(1) /\ D(3) = D(2) + L(2) /\ D(4) = D(3) + L(3)
      /\ D(5) = D(4) + L(4) /\ D(6) = D(5) + L(5) /\ D(7) = D(6) + L(6)
      /\ D(8) = D(7) + L(7) /\ D(9) = D(8) + L(8) /\ D(10) = D(9) + L(9)
      /\ D(11) = D(10) + L(10) /\ D(12) = D(11) + L(11)
  <2>1. \A m \in 1 .. 11 : D(m + 1) = D(m) + L(m)
    BY MonthsOfYear
  <2> HIDE DEF D, L
  <2>2. D(1 + 1) = D(1) + L(1) /\ D(2 + 1) = D(2) + L(2) /\ D(3 + 1) = D(3) + L(3)
        /\ D(4 + 1) = D(4) + L(4) /\ D(5 + 1) = D(5) + L(5) /\ D(6 + 1) = D(6) + L(6)
        /\ D(7 + 1) = D(7) + L(7) /\ D(8 + 1) = D(8) + L(8) /\ D(9 + 1) = D(9) + L(9)
        /\ D(10 + 1) = D(10) + L(10) /\ D(11 + 1) = D(11) + L(11)
    BY <2>1
  <2>3. D(1) = 0
    BY MonthsOfYear DEF D
  <2> QED
    BY <2>2, <2>3
<1>2. /\ L(1) = 31 /\ L(2) = (IF Leap(year) THEN 29 ELSE 28) /\ L(3) = 31 /\ L(4) = 30
      /\ L(5) = 31 /\ L(6) = 30 /\ L(7) = 31 /\ L(8) = 31 /\ L(9) = 30 /\ L(10) = 31
      /\ L(11) = 30
  BY DEF DaysIn
<1> HIDE DEF L, D
<1>3. D(12) = IF Leap(year) THEN 335 ELSE 334
  BY <1>1, <1>2
<1> QED
  BY <1>3 DEF D

\* A year has a day more when it is a leap year.
LEMMA LeapDays ==
    ASSUME NEW y \in Nat
    PROVE  y \div 4 - y \div 100 + y \div 400
             = (y - 1) \div 4 - (y - 1) \div 100 + (y - 1) \div 400
                 + (IF Leap(y) THEN 1 ELSE 0)
<1>1. y \div 4 = (y - 1) \div 4 + (IF y % 4 = 0 THEN 1 ELSE 0)
  OBVIOUS
<1>2. y \div 100 = (y - 1) \div 100 + (IF y % 100 = 0 THEN 1 ELSE 0)
  OBVIOUS
<1>3. y \div 400 = (y - 1) \div 400 + (IF y % 400 = 0 THEN 1 ELSE 0)
  OBVIOUS
<1>4. (y % 400 = 0 => y % 100 = 0) /\ (y % 100 = 0 => y % 4 = 0)
  OBVIOUS
<1> QED
  BY <1>1, <1>2, <1>3, <1>4 DEF Leap

\* The months after a date, as dates of the calendar.
LEMMA MonthsAfter ==
    ASSUME NEW date, date.year \in Nat, date.month \in 1 .. 12, NEW i \in Nat
    PROVE  LET m == MonthAfter(date, i)
               n == MonthAfter(date, i + 1)
           IN  /\ m.year \in Nat /\ m.month \in 1 .. 12
               /\ IF m.month = 12 THEN n.month = 1 /\ n.year = m.year + 1
                                  ELSE n.month = m.month + 1 /\ n.year = m.year
<1> DEFINE k == date.month - 1 + i
<1>1. k \in Nat /\ date.month - 1 + (i + 1) = k + 1
  OBVIOUS
<1>2. /\ MonthAfter(date, i).year = date.year + k \div 12
      /\ MonthAfter(date, i).month = (k % 12) + 1
      /\ MonthAfter(date, i + 1).year = date.year + (k + 1) \div 12
      /\ MonthAfter(date, i + 1).month = ((k + 1) % 12) + 1
  BY <1>1 DEF MonthAfter
<1> HIDE DEF k
<1>3. /\ k \div 12 \in Nat /\ k % 12 \in 0 .. 11
      /\ IF k % 12 = 11 THEN (k + 1) % 12 = 0 /\ (k + 1) \div 12 = (k \div 12) + 1
                        ELSE (k + 1) % 12 = (k % 12) + 1 /\ (k + 1) \div 12 = k \div 12
  BY <1>1
<1> QED
  BY <1>2, <1>3

\* A month ends where the next one begins.
LEMMA NextMonth ==
    ASSUME NEW date, date.year \in Nat, date.month \in 1 .. 12, NEW i \in Nat
    PROVE  LET m == MonthAfter(date, i)
           IN  /\ FirstOf(m) \in Int
               /\ FirstOf(MonthAfter(date, i + 1)) = FirstOf(m) + DaysIn(m.year, m.month)
<1> DEFINE m == MonthAfter(date, i)
           n == MonthAfter(date, i + 1)
           Before1(y) == 365 * (y - 1) + (y - 1) \div 4 - (y - 1) \div 100 + (y - 1) \div 400
<1>1. /\ m.year \in Nat /\ m.month \in 1 .. 12
      /\ IF m.month = 12 THEN n.month = 1 /\ n.year = m.year + 1
                         ELSE n.month = m.month + 1 /\ n.year = m.year
  BY MonthsAfter
<1>2. /\ FirstOf(m) = Before1(m.year) + DaysBefore(m.year, m.month) + 1
      /\ FirstOf(n) = Before1(n.year) + DaysBefore(n.year, n.month) + 1
  BY DEF FirstOf, DayNumber
<1> HIDE DEF m, n
<1>3. Before1(m.year) \in Int
  BY <1>1
<1>4. FirstOf(m) \in Int
  <2>1. DaysBefore(m.year, m.month) \in Nat
    BY <1>1, MonthsOfYear
  <2> QED
    BY <1>2, <1>3, <2>1
<1>5. CASE m.month # 12
  <2>1. m.month \in 1 .. 11
    BY <1>1, <1>5
  <2>2. DaysBefore(m.year, m.month + 1) = DaysBefore(m.year, m.month) + DaysIn(m.year, m.month)
    BY <2>1, MonthsOfYear
  <2>3. DaysBefore(m.year, m.month) \in Nat /\ DaysIn(m.year, m.month) \in Nat
    BY <1>1, MonthsOfYear, MonthLengths
  <2>4. FirstOf(n) = Before1(m.year) + DaysBefore(m.year, m.month + 1) + 1
    BY <1>1, <1>2, <1>5
  <2> HIDE DEF Before1
  <2> QED
    BY <1>2, <1>3, <2>2, <2>3, <2>4 DEF m, n
<1>6. CASE m.month = 12
  <2> DEFINE y == m.year
  <2>1. FirstOf(n) = Before1(y + 1) + 0 + 1
    BY <1>1, <1>2, <1>6, MonthsOfYear
  <2>2. FirstOf(m) = Before1(y) + (IF Leap(y) THEN 335 ELSE 334) + 1
    BY <1>2, <1>6, DaysOfYear
  <2>3. DaysIn(y, 12) = 31
    BY DEF DaysIn
  <2>4. Before1(y + 1) = Before1(y) + (IF Leap(y) THEN 366 ELSE 365)
    <3>1. y \in Nat /\ y + 1 - 1 = y
      BY <1>1
    <3>2. y \div 4 - y \div 100 + y \div 400
             = (y - 1) \div 4 - (y - 1) \div 100 + (y - 1) \div 400
                 + (IF Leap(y) THEN 1 ELSE 0)
      BY <3>1, LeapDays
    <3> HIDE DEF y
    <3>3. Before1(y + 1) = 365 * y + y \div 4 - y \div 100 + y \div 400
      BY <3>1
    <3> QED
      BY <3>1, <3>2, <3>3
  <2> HIDE DEF Before1
  <2> QED
    BY <1>3, <1>6, <2>1, <2>2, <2>3, <2>4 DEF m, n
<1> QED
  BY <1>4, <1>5, <1>6 DEF m, n

\* An installment of a monthly loan is due in its own month, on the day of the
\* first one or, where the month is too short, on its last.
LEMMA MonthlyDate ==
    ASSUME NEW start, ValidDate(start), NEW i \in Nat
    PROVE  LET due == InstallmentDate(start, "MONTHLY", i)
               first == FirstOf(MonthAfter(start, i))
               next == FirstOf(MonthAfter(start, i + 1))
           IN  /\ due \in Int /\ first \in Int /\ next \in Int
               /\ due \in first .. next - 1
               /\ \/ due - first = start.day - 1
                  \/ due = next - 1 /\ next - first < start.day
<1> DEFINE m == MonthAfter(start, i)
           length == DaysIn(m.year, m.month)
           first == FirstOf(m)
           next == FirstOf(MonthAfter(start, i + 1))
           due == InstallmentDate(start, "MONTHLY", i)
<1>1. /\ start.year \in Nat /\ start.month \in 1 .. 12
      /\ start.day \in Nat /\ 1 <= start.day
  BY MonthLengths DEF ValidDate
<1>2. first \in Int /\ next = first + length
  BY <1>1, NextMonth
<1>3. length \in 28 .. 31
  BY MonthLengths
<1>4. due = first - 1 + (IF start.day > length THEN length ELSE start.day)
  BY DEF InstallmentDate, DayInMonth
<1> HIDE DEF first, next, due, length
<1>5. /\ due \in Int /\ first \in Int /\ next \in Int
      /\ due \in first .. next - 1
      /\ \/ due - first = start.day - 1
         \/ due = next - 1 /\ next - first < start.day
  BY <1>1, <1>2, <1>3, <1>4
<1> QED
  BY <1>5 DEF first, next, due

\* The other frequencies count days.
LEMMA PeriodicDate ==
    ASSUME NEW start, ValidDate(start), NEW frequency \in Frequency \ {"MONTHLY"}, NEW i \in Nat
    PROVE  /\ InstallmentDate(start, frequency, i) \in Int
           /\ InstallmentDate(start, frequency, i) < InstallmentDate(start, frequency, i + 1)
<1>1. /\ start.year \in Nat /\ start.month \in 1 .. 12 /\ start.day \in Int
  BY MonthLengths DEF ValidDate
<1>2. DayNumber(start) \in Int
  <2>1. DaysBefore(start.year, start.month) \in Nat
    BY <1>1, MonthsOfYear
  <2> QED
    BY <1>1, <2>1 DEF DayNumber
<1>3. PICK d \in {1, 7, 14} : d = DaysOf(frequency)
  BY DEF Frequency, DaysOf
<1>4. /\ InstallmentDate(start, frequency, i) = DayNumber(start) + d * i
      /\ InstallmentDate(start, frequency, i + 1) = DayNumber(start) + d * (i + 1)
  BY <1>3 DEF InstallmentDate
<1>5. d * i \in Int /\ d * (i + 1) = d * i + d
  OBVIOUS
<1> QED
  BY <1>2, <1>4, <1>5

\* The dates of a schedule: they follow each other, and monthly ones are where
\* MonthlyDate says.
THEOREM SchedulesFollowTheCalendar ==
    ASSUME NEW terms \in Terms, terms.count \in Nat
    PROVE  LET rows == InstallmentRows(terms)
           IN  /\ \A j \in 2 .. Len(rows) : rows[j - 1].due < rows[j].due
               /\ terms.frequency = "MONTHLY" => \A j \in DOMAIN rows :
                     LET first == FirstOf(MonthAfter(terms.start, j - 1))
                         next == FirstOf(MonthAfter(terms.start, j))
                     IN  /\ rows[j].due \in first .. next - 1
                         /\ \/ rows[j].due - first = terms.start.day - 1
                            \/ rows[j].due = next - 1 /\ next - first < terms.start.day
<1> DEFINE rows == InstallmentRows(terms)
           Due(i) == InstallmentDate(terms.start, terms.frequency, i)
           First(i) == FirstOf(MonthAfter(terms.start, i))
<1>1. /\ DOMAIN rows = 1 .. terms.count /\ Len(rows) = terms.count
      /\ \A j \in 1 .. terms.count : rows[j].due = Due(j - 1)
  BY DEF InstallmentRows
<1>2. terms.frequency \in Frequency /\ ValidDate(terms.start)
  BY TermsAssumption
<1>3. ASSUME NEW i \in Nat, terms.frequency = "MONTHLY"
      PROVE  /\ Due(i) \in Int /\ First(i) \in Int /\ First(i + 1) \in Int
             /\ Due(i) \in First(i) .. First(i + 1) - 1
             /\ \/ Due(i) - First(i) = terms.start.day - 1
                \/ Due(i) = First(i + 1) - 1 /\ First(i + 1) - First(i) < terms.start.day
  BY <1>2, <1>3, MonthlyDate
<1> HIDE DEF rows, Due, First
<1>4. ASSUME NEW i \in Nat PROVE Due(i) < Due(i + 1)
  <2>1. CASE terms.frequency = "MONTHLY"
    <3>1. /\ Due(i) \in Int /\ First(i + 1) \in Int
          /\ Due(i) \in First(i) .. First(i + 1) - 1 /\ First(i) \in Int
      BY <1>3, <2>1
    <3>2. /\ Due(i + 1) \in Int /\ First(i + 1 + 1) \in Int
          /\ Due(i + 1) \in First(i + 1) .. First(i + 1 + 1) - 1
      <4>1. i + 1 \in Nat
        OBVIOUS
      <4> QED
        BY <1>3, <2>1, <4>1
    <3> QED
      BY <3>1, <3>2
  <2>2. CASE terms.frequency # "MONTHLY"
    BY <1>2, <2>2, PeriodicDate DEF Due
  <2> QED
    BY <2>1, <2>2
<1>5. ASSUME NEW j \in 2 .. Len(rows) PROVE rows[j - 1].due < rows[j].due
  <2>1. j \in 1 .. terms.count /\ j - 1 \in 1 .. terms.count /\ j - 2 \in Nat
        /\ j - 1 - 1 = j - 2 /\ (j - 2) + 1 = j - 1
    BY <1>1
  <2>2. Due(j - 2) < Due((j - 2) + 1)
    BY <1>4, <2>1
  <2> QED
    BY <1>1, <2>1, <2>2
<1>6. ASSUME terms.frequency = "MONTHLY", NEW j \in DOMAIN rows
      PROVE  /\ rows[j].due \in First(j - 1) .. First(j) - 1
             /\ \/ rows[j].due - First(j - 1) = terms.start.day - 1
                \/ rows[j].due = First(j) - 1 /\ First(j) - First(j - 1) < terms.start.day
  <2>1. j \in 1 .. terms.count /\ j - 1 \in Nat /\ (j - 1) + 1 = j
    BY <1>1
  <2> QED
    BY <1>1, <1>3, <1>6, <2>1
<1> QED
  BY <1>5, <1>6 DEF rows, First

-----------------------------------------------------------------------------
(* Every schedule that is stored. *)

\* A request that was submitted was acceptable, and what is stored under its id
\* is what was computed for it.
ScheduleOK(c) ==
    LET r == origin[c] IN
    /\ r.pc \in After \cup {"CHECK", "REGISTER"} => Acceptable(r.terms)
    /\ r.id # Null => schedule[r.id] \in {<<>>, InstallmentRows(r.terms)}

ScheduleInv == \A c \in Request : ScheduleOK(c)

LEMMA SchedulesStart == LendingInit => ScheduleInv
  BY DEF LendingInit, OriginInit, ScheduleInv, ScheduleOK, Unsubmitted, After

\* A request that moves on keeps what it agreed on.
LEMMA ScheduleMoves ==
  ASSUME OriginInv, ScheduleInv, NEW c \in Request, NEW pc, Goto(c, pc),
         origin[c].pc \in After \cup {"CHECK", "REGISTER"}, schedule' = schedule
  PROVE  ScheduleInv'
<1>1. /\ origin'[c].pc = pc
      /\ \A d \in Request : SameRequest(d)
      /\ \A d \in Request : d # c => origin'[d] = origin[d]
  BY Moves DEF OriginInv, Goto
<1> SUFFICES ASSUME NEW d \in Request PROVE ScheduleOK(d)'
  BY DEF ScheduleInv
<1>2. ScheduleOK(d) /\ SameRequest(d) /\ (d # c => origin'[d] = origin[d])
  BY <1>1 DEF ScheduleInv
<1> QED
  BY <1>2 DEF ScheduleOK, SameRequest

\* Only one request, and perhaps the schedule of its loan, changes.
LEMMA ScheduleOfOne ==
  ASSUME OriginInv, ScheduleInv, NEW c \in Request, ScheduleOK(c)',
         \A d \in Request : d # c => origin'[d] = origin[d],
         \A l \in LoanId : l # origin[c].id => schedule'[l] = schedule[l]
  PROVE  ScheduleInv'
<1> SUFFICES ASSUME NEW d \in Request, d # c PROVE ScheduleOK(d)'
  BY DEF ScheduleInv
<1>1. ScheduleOK(d) /\ origin'[d] = origin[d] /\ RequestOK(d)
  BY DEF ScheduleInv, OriginInv
<1>2. origin[d].id # Null => origin[d].id \in LoanId /\ origin[d].id # origin[c].id
  BY <1>1 DEF RequestOK, OriginInv
<1> QED
  BY <1>1, <1>2 DEF ScheduleOK

LEMMA ScheduleRefused ==
  ASSUME OriginInv, ScheduleInv, NEW c \in Request, Refuse(c), schedule' = schedule
  PROVE  ScheduleInv'
<1>1. /\ origin'[c] = [Unsubmitted EXCEPT !.pc = "REFUSED"]
      /\ \A d \in Request : d # c => origin'[d] = origin[d]
  BY DEF Refuse, OriginInv
<1>2. origin'[c].pc = "REFUSED" /\ origin'[c].id = Null
  BY <1>1 DEF Unsubmitted
<1>3. ScheduleOK(c)'
  BY <1>2 DEF ScheduleOK, After
<1> QED
  BY <1>1, <1>3, ScheduleOfOne

\* Only what was found acceptable goes on.
LEMMA ScheduleSubmit ==
  ASSUME OriginInv, ScheduleInv, NEW c \in Request, NEW a, NEW borrower, NEW wallet,
         NEW terms, Submit(c, a, borrower, wallet, terms)
  PROVE  ScheduleInv'
<1>1. schedule' = schedule
  BY DEF Submit
<1>2. CASE /\ Acceptable(terms)
           /\ \E p \in ProfileOf(a) :
                 /\ p.role = "LENDER"
                 /\ origin' = [origin EXCEPT ![c] =
                       [pc |-> "CHECK", lender |-> p.id, borrower |-> borrower,
                        wallet |-> wallet, terms |-> terms, id |-> Null]]
  <2>1. /\ origin'[c].terms = terms /\ origin'[c].id = Null
        /\ \A d \in Request : d # c => origin'[d] = origin[d]
    BY <1>2 DEF OriginInv
  <2>2. ScheduleOK(c)'
    BY <1>2, <2>1 DEF ScheduleOK
  <2> QED
    BY <1>1, <2>1, <2>2, ScheduleOfOne
<1>3. CASE Refuse(c)
  BY <1>1, <1>3, ScheduleRefused
<1> QED
  BY <1>2, <1>3 DEF Submit

\* Under an id that nobody has drawn nothing is stored.
LEMMA ScheduleSend ==
  ASSUME OriginInv, ScheduleInv, NEW c \in Request, SendRegistration(c)
  PROVE  ScheduleInv'
<1>1. schedule' = schedule /\ origin[c].pc = "REGISTER" /\ ScheduleOK(c) /\ RequestOK(c)
  BY DEF SendRegistration, ScheduleInv, OriginInv
<1>2. PICK l \in LoanId :
         /\ \A d \in Request : origin[d].id # l
         /\ origin' = [origin EXCEPT ![c] = [@ EXCEPT !.pc = "WAIT", !.id = l]]
  BY DEF SendRegistration
<1>3. /\ origin'[c].id = l /\ origin'[c].terms = origin[c].terms
      /\ \A d \in Request : d # c => origin'[d] = origin[d]
  BY <1>1, <1>2 DEF OriginInv, RequestOK, Fields
<1>4. schedule[l] = <<>>
  BY <1>2 DEF OriginInv, LoanOK
<1>5. ScheduleOK(c)'
  BY <1>1, <1>3, <1>4 DEF ScheduleOK
<1> QED
  BY <1>1, <1>3, <1>5, ScheduleOfOne

LEMMA ScheduleInsert ==
  ASSUME OriginInv, ScheduleInv, NEW c \in Request, InsertSchedule(c)
  PROVE  ScheduleInv'
<1> DEFINE r == origin[c]
           rows == InstallmentRows(r.terms)
<1>1. r.pc = "SCHEDULE" /\ ScheduleOK(c) /\ RequestOK(c)
  BY DEF InsertSchedule, ScheduleInv, OriginInv
<1>2. PICK pc \in {"DONE", "FAILED"} :
         /\ Goto(c, pc)
         /\ schedule' = [schedule EXCEPT ![r.id] = rows] \/ schedule' = schedule
  BY DEF InsertSchedule
<1>3. /\ SameRequest(c)
      /\ \A d \in Request : d # c => origin'[d] = origin[d]
  BY <1>2, Moves
<1>4. /\ r.id \in LoanId
      /\ \A l \in LoanId : l # r.id => schedule'[l] = schedule[l]
      /\ schedule'[r.id] \in {schedule[r.id], rows}
  BY <1>1, <1>2 DEF OriginInv, RequestOK, After
<1>5. rows = InstallmentRows(origin'[c].terms) /\ origin'[c].id = r.id
  BY <1>3 DEF SameRequest
<1> HIDE DEF rows
<1>6. schedule[r.id] \in {<<>>, rows}
  BY <1>1, <1>4, OriginAssumption DEF ScheduleOK, rows
<1>7. ScheduleOK(c)'
  BY <1>1, <1>3, <1>4, <1>5, <1>6 DEF ScheduleOK, SameRequest, After
<1> QED
  BY <1>3, <1>4, <1>7, ScheduleOfOne

LEMMA ScheduleNext ==
    OriginInv /\ ScheduleInv /\ [LendingNext]_lendingVars => ScheduleInv'
<1> SUFFICES ASSUME OriginInv, ScheduleInv, [LendingNext]_lendingVars PROVE ScheduleInv'
  OBVIOUS
<1>1. CASE UNCHANGED <<schedule, origin>>
  BY <1>1 DEF ScheduleInv, ScheduleOK
<1>2. CASE OriginStep
  <2>1. ASSUME NEW c \in Request, CheckParties(c) PROVE ScheduleInv'
    BY <2>1, ScheduleMoves, ScheduleRefused DEF CheckParties
  <2>2. ASSUME NEW c \in Request, MineRegistration(c) \/ DropRegistration(c)
        PROVE  ScheduleInv'
    BY <1>1, <2>2 DEF MineRegistration, DropRegistration
  <2>3. ASSUME NEW c \in Request, WaitRegistration(c) PROVE ScheduleInv'
    BY <2>3, ScheduleMoves DEF WaitRegistration, After
  <2>4. ASSUME NEW c \in Request, InsertLoan(c) PROVE ScheduleInv'
    BY <2>4, ScheduleMoves DEF InsertLoan, After
  <2>5. ASSUME NEW c \in Request, RequestFails(c) PROVE ScheduleInv'
    BY <2>5, ScheduleMoves, ScheduleRefused DEF RequestFails, After
  <2> QED
    BY <1>2, <2>1, <2>2, <2>3, <2>4, <2>5, ScheduleSubmit, ScheduleSend, ScheduleInsert
    DEF OriginStep
<1>3. CASE UNCHANGED originVars \/ RoutesStep
  <2>1. UNCHANGED <<schedule, origin>>
    BY <1>3 DEF originVars, RoutesStep, UpsertRoute, UpsertStops
  <2> QED
    BY <1>1, <2>1
<1> QED
  BY <1>2, <1>3 DEF LendingNext, lendingVars

\* Every schedule in the table is the one agreed on: its principals add up to
\* the capital, its amounts to capital and interest, to the cent, and its dates
\* follow the calendar, for any terms, requests and failures.
THEOREM SchedulesAreRight == LendingSpec => []ScheduleIsRight
<1>1. ASSUME OriginInv, ScheduleInv PROVE ScheduleIsRight
  <2> SUFFICES ASSUME NEW c \in Request, origin[c].id # Null,
                      schedule[origin[c].id] # <<>>
               PROVE  LET t == origin[c].terms
                          rows == schedule[origin[c].id]
                          amounts == [j \in DOMAIN rows |-> rows[j].amount]
                          principals == [j \in DOMAIN rows |-> rows[j].principal]
                      IN  /\ SumOf(principals) = t.capital
                          /\ SumOf(amounts) >= t.capital
                          /\ t.rate # NoRate => SumOf(amounts) = TotalOf(t)
                          /\ \A j \in 2 .. Len(rows) : rows[j - 1].due < rows[j].due
                          /\ t.frequency = "MONTHLY" => \A j \in DOMAIN rows :
                                LET first == FirstOf(MonthAfter(t.start, j - 1))
                                    next == FirstOf(MonthAfter(t.start, j))
                                IN  /\ rows[j].due \in first .. next - 1
                                    /\ \/ rows[j].due - first = t.start.day - 1
                                       \/ rows[j].due = next - 1 /\ next - first < t.start.day
    BY DEF ScheduleIsRight
  <2> DEFINE t == origin[c].terms
  <2>1. RequestOK(c) /\ ScheduleOK(c)
    BY <1>1 DEF OriginInv, ScheduleInv
  <2>2. origin[c].pc \in After
    BY <2>1 DEF RequestOK
  <2>3. Acceptable(t) /\ t \in Terms
    BY <2>1, <2>2 DEF RequestOK, ScheduleOK
  <2>4. schedule[origin[c].id] = InstallmentRows(t)
    BY <2>1 DEF ScheduleOK
  <2>5. t.count \in Nat
    BY <2>3, AcceptableTypes
  <2> HIDE DEF t
  <2> QED
    BY <2>3, <2>4, <2>5, SchedulesAddUp, SchedulesFollowTheCalendar DEF t
<1> QED
  BY <1>1, OriginAlways, SchedulesStart, ScheduleNext, PTL DEF LendingSpec

-----------------------------------------------------------------------------
(* Types. *)

CallRow == [pc : {"NEW", "INSERT", "DONE", "REFUSED"}, auth : AuthUser \cup {Null},
            role : Role \cup {Null}, wallet : Address \cup {Null},
            id : Uuid \cup {Null}]

UsersTyped == users \subseteq AuthUser /\ call \in [ProfileCall -> CallRow]

\* The fields of a call that moves on, one at a time.
LEMMA CallMoves ==
    ASSUME NEW r \in CallRow, NEW id \in Uuid
    PROVE  [r EXCEPT !.pc = "DONE", !.id = id] \in CallRow
  BY DEF CallRow

LEMMA CallRefused ==
    ASSUME NEW r \in CallRow
    PROVE  [r EXCEPT !.pc = "REFUSED"] \in CallRow
  BY DEF CallRow

LEMMA UsersStart == LendingInit => UsersTyped
<1> SUFFICES ASSUME LendingInit PROVE UsersTyped
  OBVIOUS
<1>1. [pc |-> "NEW", auth |-> Null, role |-> Null, wallet |-> Null, id |-> Null] \in CallRow
  BY DEF CallRow
<1> QED
  BY <1>1 DEF LendingInit, AccountsInit, UsersTyped

LEMMA UsersNext ==
    ProfilesInv /\ UsersTyped /\ [LendingNext]_lendingVars => UsersTyped'
<1> SUFFICES ASSUME ProfilesInv, UsersTyped, [LendingNext]_lendingVars PROVE UsersTyped'
  OBVIOUS
<1>1. CASE UNCHANGED accountVars
  BY <1>1 DEF accountVars, UsersTyped
<1>2. ASSUME NEW a \in AuthUser, SignUp(a) PROVE UsersTyped'
  BY <1>2 DEF SignUp, UsersTyped
<1>3. ASSUME NEW a \in AuthUser, NEW role, NEW w, Register(a, role, w) PROVE UsersTyped'
  BY <1>3 DEF Register, UsersTyped
<1>4. ASSUME NEW s \in ProfileCall, NEW a \in AuthUser, NEW role \in Role, NEW w \in Address,
             FindProfile(s, a, role, w)
      PROVE  UsersTyped'
  <2> DEFINE p == CHOOSE q \in ProfileOf(a) : TRUE
             next == IF ProfileOf(a) = {}
                     THEN [pc |-> "INSERT", auth |-> a, role |-> role, wallet |-> w,
                           id |-> Null]
                     ELSE [pc |-> "DONE", auth |-> a, role |-> role, wallet |-> w,
                           id |-> p.id]
  <2>1. ProfileOf(a) # {} => p.id \in Uuid
    <3>1. ProfileOf(a) # {} => p \in ProfileOf(a)
      OBVIOUS
    <3> HIDE DEF p
    <3> QED
      BY <3>1 DEF ProfileOf, ProfilesInv, ProfileRow
  <2>2. call' = [call EXCEPT ![s] = next] /\ users' = users
    BY <1>4 DEF FindProfile
  <2> HIDE DEF p
  <2>3. next \in CallRow
    BY <2>1 DEF CallRow
  <2> HIDE DEF next
  <2> QED
    BY <2>2, <2>3 DEF UsersTyped
<1>5. ASSUME NEW s \in ProfileCall, CreateProfile(s) PROVE UsersTyped'
  <2>1. call[s] \in CallRow /\ users' = users
    BY <1>5 DEF CreateProfile, UsersTyped
  <2>2. \/ \E id \in Uuid : call' = [call EXCEPT ![s] = [@ EXCEPT !.pc = "DONE", !.id = id]]
        \/ call' = [call EXCEPT ![s] = [@ EXCEPT !.pc = "REFUSED"]]
    BY <1>5 DEF CreateProfile
  <2>3. CASE \E id \in Uuid : call' = [call EXCEPT ![s] = [@ EXCEPT !.pc = "DONE", !.id = id]]
    <3>1. PICK id \in Uuid : call' = [call EXCEPT ![s] = [@ EXCEPT !.pc = "DONE", !.id = id]]
      BY <2>3
    <3> DEFINE next == [call[s] EXCEPT !.pc = "DONE", !.id = id]
    <3>2. next \in CallRow /\ call' = [call EXCEPT ![s] = next]
      BY <2>1, <3>1, CallMoves
    <3> HIDE DEF next
    <3> QED
      BY <2>1, <3>2 DEF UsersTyped
  <2>4. CASE call' = [call EXCEPT ![s] = [@ EXCEPT !.pc = "REFUSED"]]
    <3> DEFINE next == [call[s] EXCEPT !.pc = "REFUSED"]
    <3>2. next \in CallRow /\ call' = [call EXCEPT ![s] = next]
      BY <2>1, <2>4, CallRefused
    <3> HIDE DEF next
    <3> QED
      BY <2>1, <3>2 DEF UsersTyped
  <2> QED
    BY <2>2, <2>3, <2>4
<1> QED
  BY <1>1, <1>2, <1>3, <1>4, <1>5, OthersLeaveUsers DEF AccountsStep, lendingVars

\* What the chain has of loans, and what requests for them hold.
LoansTyped ==
    /\ \A c \in Request :
          origin[c].pc \in After \cup {"CHECK", "REGISTER"} => origin[c].wallet \in Address
    /\ hskLoans \in [LoanId -> Chain!LoanStruct]
    /\ hskIndex \in [Address \cup {Operator} -> Seq(LoanId)]
    /\ sent \subseteq Request
    /\ faults \in 0 .. MaxFaults

LEMMA NoneFits == 0 \in Chain!Uint16
<1>1. LargestUint16 \in Nat
  BY DEF LargestUint16
<1> QED
  BY <1>1 DEF Chain!Uint16

LEMMA LoansStart == LendingInit => LoansTyped
<1> SUFFICES ASSUME LendingInit PROVE LoansTyped
  OBVIOUS
<1>1. Chain!EmptyLoan \in Chain!LoanStruct
  BY NoneFits DEF Chain!EmptyLoan, Chain!LoanStruct, Chain!LoanStatus
<1>2. /\ hskLoans \in [LoanId -> Chain!LoanStruct]
      /\ hskIndex \in [Address \cup {Operator} -> Seq(LoanId)]
  BY <1>1 DEF LendingInit, OriginInit, Chain!Init
<1>3. /\ \A c \in Request : origin[c].pc = "NEW"
      /\ sent \subseteq Request
      /\ faults \in 0 .. MaxFaults
  BY OriginAssumption DEF LendingInit, OriginInit, Unsubmitted
<1> QED
  BY <1>2, <1>3 DEF LoansTyped, After

LEMMA FaultTyped ==
  ASSUME faults \in 0 .. MaxFaults, Fault
  PROVE  faults' \in 0 .. MaxFaults
  BY OriginAssumption DEF Fault

\* A request moves on, and at most a fault is counted.
LEMMA LoansMove ==
  ASSUME OriginInv, LoansTyped, NEW c \in Request,
         \/ \E pc : Goto(c, pc) /\ origin[c].pc \in After \cup {"CHECK", "REGISTER"}
         \/ Refuse(c),
         UNCHANGED chainOfLoans, sent' = sent, Fault \/ UNCHANGED faults
  PROVE  LoansTyped'
<1>1. faults' \in 0 .. MaxFaults
  BY FaultTyped DEF LoansTyped
<1>2. ASSUME NEW d \in Request, origin'[d].pc \in After \cup {"CHECK", "REGISTER"}
      PROVE  origin'[d].wallet \in Address
  <2>1. CASE \E pc : Goto(c, pc) /\ origin[c].pc \in After \cup {"CHECK", "REGISTER"}
    <3>1. PICK pc : Goto(c, pc)
      BY <2>1
    <3>2. SameRequest(d) /\ (d # c => origin'[d] = origin[d])
      BY <3>1, Moves
    <3> QED
      BY <1>2, <2>1, <3>2 DEF LoansTyped, SameRequest
  <2>2. CASE Refuse(c)
    <3>1. origin'[c].pc = "REFUSED" /\ (d # c => origin'[d] = origin[d])
      BY <2>2 DEF Refuse, OriginInv, Unsubmitted
    <3> QED
      BY <1>2, <3>1 DEF LoansTyped, After
  <2> QED
    BY <2>1, <2>2
<1> QED
  BY <1>1, <1>2 DEF LoansTyped, chainOfLoans

LEMMA LoansSubmit ==
  ASSUME OriginInv, LoansTyped, NEW c \in Request, NEW a, NEW borrower,
         NEW wallet \in Address, NEW terms, Submit(c, a, borrower, wallet, terms)
  PROVE  LoansTyped'
<1>1. UNCHANGED <<hskLoans, hskIndex, sent, faults>>
  BY DEF Submit, chainOfLoans
<1>2. CASE Refuse(c)
  BY <1>2, LoansMove DEF Submit
<1>3. CASE \E p \in ProfileOf(a) :
              origin' = [origin EXCEPT ![c] =
                    [pc |-> "CHECK", lender |-> p.id, borrower |-> borrower,
                     wallet |-> wallet, terms |-> terms, id |-> Null]]
  <2>1. /\ origin'[c].wallet = wallet
        /\ \A d \in Request : d # c => origin'[d] = origin[d]
    BY <1>3 DEF OriginInv
  <2> QED
    BY <1>1, <2>1 DEF LoansTyped
<1> QED
  BY <1>2, <1>3 DEF Submit

LEMMA LoansSend ==
  ASSUME OriginInv, LoansTyped, NEW c \in Request, SendRegistration(c)
  PROVE  LoansTyped'
<1>1. /\ UNCHANGED <<hskLoans, hskIndex, faults>> /\ sent' = sent \cup {c}
      /\ origin[c].pc = "REGISTER" /\ RequestOK(c)
  BY DEF SendRegistration, chainOfLoans, OriginInv
<1>2. /\ origin'[c].wallet = origin[c].wallet
      /\ \A d \in Request : d # c => origin'[d] = origin[d]
  BY <1>1 DEF SendRegistration, OriginInv, RequestOK, Fields
<1> QED
  BY <1>1, <1>2 DEF LoansTyped

LEMMA CountFits ==
    ASSUME NEW count \in 1 .. MaxCount
    PROVE  count \in Chain!Uint16
<1>1. LargestUint16 \in Nat /\ MaxCount \in Nat /\ MaxCount <= LargestUint16
  BY OriginAssumption, LoanTermsAssumption DEF LargestUint16
<1> QED
  BY <1>1 DEF Chain!Uint16

LEMMA RegisteredLoan ==
    ASSUME NEW wallet \in Address, NEW count \in Chain!Uint16
    PROVE  [lender |-> Operator, borrower |-> wallet, totalInstallments |-> count,
            paidInstallments |-> 0, registered |-> TRUE, status |-> "ACTIVE"]
              \in Chain!LoanStruct
<1>1. "ACTIVE" \in Chain!LoanStatus
  BY DEF Chain!LoanStatus
<1>2. 0 \in Chain!Uint16
  BY NoneFits
<1> QED
  BY <1>1, <1>2 DEF Chain!LoanStruct

\* The number of installments fits the contract's counter.
LEMMA LoansMine ==
  ASSUME OriginInv, ScheduleInv, LoansTyped, NEW c \in Request, MineRegistration(c)
  PROVE  LoansTyped'
<1> DEFINE r == origin[c]
           k == [lender |-> Operator, borrower |-> r.wallet,
                 totalInstallments |-> r.terms.count, paidInstallments |-> 0,
                 registered |-> TRUE, status |-> "ACTIVE"]
<1>1. /\ hskLoans' = [hskLoans EXCEPT ![r.id] = k]
      /\ hskIndex' = [hskIndex EXCEPT ![r.wallet] = Append(@, r.id)]
      /\ UNCHANGED <<origin, faults>>
      /\ c \in sent /\ sent' = sent \ {c}
  BY DEF MineRegistration, Chain!RegisterLoan
<1>2. RequestOK(c) /\ ScheduleOK(c) /\ r.pc \in After
  BY <1>1 DEF OriginInv, ScheduleInv, RequestOK
<1>3. /\ r.id \in LoanId /\ r.wallet \in Address /\ Acceptable(r.terms)
  BY <1>2 DEF RequestOK, ScheduleOK, LoansTyped
<1>4. r.terms.count \in Chain!Uint16
  BY <1>3, CountFits, Zenon DEF Acceptable, Calculable
<1>5. k \in Chain!LoanStruct
  BY <1>3, <1>4, RegisteredLoan, Zenon
<1> HIDE DEF k, r
<1>6. hskLoans' \in [LoanId -> Chain!LoanStruct]
  BY <1>1, <1>5 DEF LoansTyped
<1>7. hskIndex' \in [Address \cup {Operator} -> Seq(LoanId)]
  <2>1. Append(hskIndex[r.wallet], r.id) \in Seq(LoanId)
    BY <1>3 DEF LoansTyped
  <2> QED
    BY <1>1, <2>1 DEF LoansTyped
<1> QED
  BY <1>1, <1>6, <1>7 DEF LoansTyped

LEMMA LoansNext ==
    OriginInv /\ ScheduleInv /\ LoansTyped /\ [LendingNext]_lendingVars => LoansTyped'
<1> SUFFICES ASSUME OriginInv, ScheduleInv, LoansTyped, [LendingNext]_lendingVars
             PROVE  LoansTyped'
  OBVIOUS
<1>1. CASE OriginStep
  <2>1. ASSUME NEW c \in Request, CheckParties(c) PROVE LoansTyped'
    BY <2>1, LoansMove DEF CheckParties
  <2>2. ASSUME NEW c \in Request, DropRegistration(c) PROVE LoansTyped'
    BY <2>2, FaultTyped DEF DropRegistration, LoansTyped, chainOfLoans
  <2>3. ASSUME NEW c \in Request, WaitRegistration(c) PROVE LoansTyped'
    BY <2>3, LoansMove DEF WaitRegistration, After
  <2>4. ASSUME NEW c \in Request, InsertLoan(c) PROVE LoansTyped'
    BY <2>4, LoansMove DEF InsertLoan, After
  <2>5. ASSUME NEW c \in Request, InsertSchedule(c) PROVE LoansTyped'
    BY <2>5, LoansMove DEF InsertSchedule, After
  <2>6. ASSUME NEW c \in Request, RequestFails(c) PROVE LoansTyped'
    BY <2>6, LoansMove DEF RequestFails, After
  <2> QED
    BY <1>1, <2>1, <2>2, <2>3, <2>4, <2>5, <2>6, LoansSubmit, LoansSend, LoansMine
    DEF OriginStep
<1>2. CASE UNCHANGED originVars
  BY <1>2 DEF originVars, chainOfLoans, LoansTyped
<1>3. CASE RoutesStep
  <2>1. UNCHANGED <<hskLoans, hskIndex, origin, sent>> /\ (Fault \/ UNCHANGED faults)
    BY <1>3 DEF RoutesStep, UpsertRoute, UpsertStops, originVars, chainOfLoans
  <2> QED
    BY <2>1, FaultTyped DEF LoansTyped
<1> QED
  BY <1>1, <1>2, <1>3 DEF LendingNext, lendingVars

\* Routes name users, and their items loans.
RoutesTyped ==
    /\ routeLender \in [Uuid -> Uuid \cup {Null}]
    /\ \A u \in Uuid : \A s \in stops[u] : s.loan \in LoanId /\ s.order \in Nat
    /\ \A q \in Assignment :
          /\ assignment[q].pc \in {"NEW", "ITEMS", "DONE", "DONE WITHOUT STOPS", "FAILED"}
          /\ \A j \in DOMAIN assignment[q].loans : j \in Nat /\ assignment[q].loans[j] \in LoanId

LEMMA RoutesTypedStart == LendingInit => RoutesTyped
<1> SUFFICES ASSUME LendingInit PROVE RoutesTyped
  OBVIOUS
<1>1. /\ routeLender \in [Uuid -> Uuid \cup {Null}]
      /\ \A u \in Uuid : stops[u] = {}
  BY DEF LendingInit, RoutesInit
<1>2. \A q \in Assignment : assignment[q].pc = "NEW" /\ assignment[q].loans = <<>>
  BY DEF LendingInit, RoutesInit
<1>3. \A q \in Assignment : DOMAIN assignment[q].loans = {}
  BY <1>2
<1> QED
  BY <1>1, <1>2, <1>3 DEF RoutesTyped

LEMMA UpsertRouteTyped ==
  ASSUME RoutesInv, RoutesTyped, NEW q \in Assignment, NEW a \in AuthUser,
         NEW collector \in Uuid, NEW loans, UpsertRoute(q, a, collector, loans),
         \A j \in DOMAIN loans : j \in Nat /\ loans[j] \in LoanId
  PROVE  RoutesTyped'
<1>1. stops' = stops /\ a \in Uuid
  BY AccountsAssumption DEF UpsertRoute
<1>2. CASE assignment' = [assignment EXCEPT ![q].pc = "FAILED"] /\ UNCHANGED routeLender
  <2>1. /\ assignment'[q].pc = "FAILED" /\ assignment'[q].loans = assignment[q].loans
        /\ \A t \in Assignment : t # q => assignment'[t] = assignment[t]
    BY <1>2 DEF RoutesInv, AssignmentOK
  <2> QED
    BY <1>1, <1>2, <2>1 DEF RoutesTyped
<1>3. CASE /\ routeLender' = [routeLender EXCEPT ![collector] = a]
           /\ assignment' = [assignment EXCEPT ![q] =
                  [pc |-> IF loans = <<>> THEN "DONE" ELSE "ITEMS",
                   collector |-> collector, loans |-> loans]]
  <2>1. /\ assignment'[q].pc \in {"DONE", "ITEMS"} /\ assignment'[q].loans = loans
        /\ \A t \in Assignment : t # q => assignment'[t] = assignment[t]
    BY <1>3 DEF RoutesInv
  <2> QED
    BY <1>1, <1>3, <2>1 DEF RoutesTyped
<1> QED
  BY <1>2, <1>3 DEF UpsertRoute

LEMMA UpsertStopsTyped ==
  ASSUME RoutesInv, RoutesTyped, NEW q \in Assignment, UpsertStops(q)
  PROVE  RoutesTyped'
<1> DEFINE r == assignment[q]
<1>1. /\ routeLender' = routeLender /\ r.pc = "ITEMS" /\ AssignmentOK(q)
      /\ \A j \in DOMAIN r.loans : j \in Nat /\ r.loans[j] \in LoanId
  BY DEF UpsertStops, RoutesInv, RoutesTyped
<1>2. PICK pc \in {"DONE", "DONE WITHOUT STOPS"} :
         assignment' = [assignment EXCEPT ![q].pc = pc]
  BY DEF UpsertStops
<1>3. /\ assignment'[q].pc = pc /\ assignment'[q].loans = r.loans
      /\ \A t \in Assignment : t # q => assignment'[t] = assignment[t]
  BY <1>1, <1>2 DEF RoutesInv, AssignmentOK
<1>4. ASSUME NEW u \in Uuid, NEW s \in stops'[u] PROVE s.loan \in LoanId /\ s.order \in Nat
  <2>1. s \in stops[u] \/ s \in UpsertedStops(stops[u], r.loans)
    BY DEF UpsertStops, RoutesInv
  <2>2. CASE s \in stops[u]
    BY <2>2 DEF RoutesTyped
  <2>3. CASE \E j \in DOMAIN r.loans : s = [loan |-> r.loans[j], order |-> j]
    <3>1. PICK j \in DOMAIN r.loans : s = [loan |-> r.loans[j], order |-> j]
      BY <2>3
    <3>2. s.loan = r.loans[j] /\ s.order = j
      BY <3>1
    <3> QED
      BY <1>1, <3>2
  <2> QED
    BY <2>1, <2>2, <2>3 DEF UpsertedStops
<1> QED
  BY <1>1, <1>3, <1>4 DEF RoutesTyped

LEMMA RoutesTypedNext ==
    RoutesInv /\ RoutesTyped /\ [LendingNext]_lendingVars => RoutesTyped'
<1> SUFFICES ASSUME RoutesInv, RoutesTyped, [LendingNext]_lendingVars PROVE RoutesTyped'
  OBVIOUS
<1>1. ASSUME NEW q \in Assignment, NEW a \in AuthUser, NEW collector \in Uuid,
             NEW loans \in {<<>>} \cup {<<l>> : l \in LoanId} \cup LoanId \X LoanId,
             UpsertRoute(q, a, collector, loans)
      PROVE  RoutesTyped'
  <2>1. \A j \in DOMAIN loans : j \in Nat /\ loans[j] \in LoanId
    OBVIOUS
  <2> QED
    BY <1>1, <2>1, UpsertRouteTyped
<1>2. CASE UNCHANGED routeVars
  BY <1>2 DEF routeVars, RoutesTyped
<1> QED
  BY <1>1, <1>2, UpsertStopsTyped DEF LendingNext, lendingVars, RoutesStep

\* Whatever happens to users, loans and routes, what is stored has the types
\* the tables and the contract declare.
THEOREM LendingTypesCorrect == LendingSpec => []LendingTypeOK
<1>1. ASSUME ProfilesInv, OriginInv, UsersTyped, LoansTyped, RoutesTyped
      PROVE  LendingTypeOK
  <2>1. AccountsTypeOK
    BY <1>1 DEF ProfilesInv, UsersTyped, AccountsTypeOK, CallRow
  <2>2. \A l \in LoanId : loan[l] # Null => loan[l].status = "ACTIVE"
    BY <1>1 DEF OriginInv, LoanOK, LoanRow
  <2>3. \A c \in Request :
          /\ origin[c].pc \in {"NEW", "CHECK", "REGISTER", "WAIT", "INSERT", "SCHEDULE",
                               "DONE", "REFUSED", "FAILED"}
          /\ origin[c].id \in LoanId \cup {Null}
    BY <1>1 DEF OriginInv, RequestOK, Before, After
  <2> QED
    BY <1>1, <2>1, <2>2, <2>3 DEF LoansTyped, RoutesTyped, LendingTypeOK
<1>2. LendingSpec => []OriginInv /\ []ScheduleInv /\ []ProfilesInv
  BY OriginAlways, ProfilesAlways, SchedulesStart, ScheduleNext, PTL DEF LendingSpec
<1>3. LendingSpec => []UsersTyped
  BY <1>2, UsersStart, UsersNext, PTL DEF LendingSpec
<1>4. LendingSpec => []LoansTyped
  BY <1>2, LoansStart, LoansNext, PTL DEF LendingSpec
<1>5. LendingSpec => []RoutesTyped
  BY RoutesStart, RoutesNext, RoutesTypedStart, RoutesTypedNext, PTL DEF LendingSpec
<1> QED
  BY <1>1, <1>2, <1>3, <1>4, <1>5, PTL
=============================================================================
