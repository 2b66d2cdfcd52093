----------------------------- MODULE LoanTerms -----------------------------
(***************************************************************************)
(* The arithmetic of a loan: loan-calculation.ts and the limits of         *)
(* CreateLoanDto.  Money is in cents, the rate in hundredths of a per cent,*)
(* as in the BigInt arithmetic of the code; an installment has its index   *)
(* 0 .. count - 1.  A date is [year, month, day], and a due date a number  *)
(* of days, so that dates can be compared.                                 *)
(***************************************************************************)
EXTENDS Integers

CONSTANTS
    MaxCents,       \* 99999999999: the largest amount of money accepted
    MaxRate,        \* 100000: 1000 %
    MaxCount,       \* 52 installments
    NoRate          \* interestRate is null: the installment is given

ASSUME LoanTermsAssumption ==
    /\ MaxCents \in Nat \ {0}
    /\ MaxRate \in Nat
    /\ MaxCount \in Nat \ {0}
    /\ NoRate \notin Nat

Frequency == {"DAILY", "WEEKLY", "BIWEEKLY", "MONTHLY"}

Indices(count) == 0 .. count - 1

-----------------------------------------------------------------------------
(* Money. *)

\* A one-time percentage of the capital, rounded half up to a cent.
InterestOf(cents, rate) == (cents * rate + 5000) \div 10000

\* The part of a total that installment i bears: the first ones take the
\* cents that are left over.
Share(total, count, i) ==
    total \div count + (IF i < total % count THEN 1 ELSE 0)

RateOf(terms) == IF terms.rate = NoRate THEN 0 ELSE terms.rate

TotalOf(terms) == terms.capital + InterestOf(terms.capital, RateOf(terms))

\* What CreateLoanDto and calculateLoan accept.
Calculable(terms) ==
    /\ terms.capital \in 1 .. MaxCents
    /\ RateOf(terms) \in 0 .. MaxRate
    /\ terms.count \in 1 .. MaxCount
    /\ terms.capital >= terms.count
    /\ Share(TotalOf(terms), terms.count, 0) <= MaxCents

\* Without a rate the client gives the installment, and the installments must
\* cover the capital.
Covered(terms) ==
    terms.rate = NoRate =>
        /\ terms.installment \in 1 .. MaxCents
        /\ terms.installment * terms.count >= terms.capital

Acceptable(terms) == Calculable(terms) /\ Covered(terms)

AmountOf(terms, i) ==
    IF terms.rate = NoRate THEN terms.installment
    ELSE Share(TotalOf(terms), terms.count, i)

PrincipalOf(terms, i) == Share(terms.capital, terms.count, i)

-----------------------------------------------------------------------------
(* Dates. *)

Leap(year) == year % 4 = 0 /\ (year % 100 # 0 \/ year % 400 = 0)

DaysIn(year, month) ==
    IF month = 2 THEN IF Leap(year) THEN 29 ELSE 28
    ELSE IF month \in {4, 6, 9, 11} THEN 30 ELSE 31

\* The days of the year before a month.
DaysBefore(year, month) ==
    LET upTo[m \in 1 .. 12] ==
          IF m = 1 THEN 0 ELSE upTo[m - 1] + DaysIn(year, m - 1)
    IN  upTo[month]

DayNumber(date) ==
    LET y == date.year - 1
    IN  365 * y + y \div 4 - y \div 100 + y \div 400
          + DaysBefore(date.year, date.month) + date.day

\* A date of the calendar.
ValidDate(date) ==
    /\ date.year \in Nat /\ date.month \in 1 .. 12
    /\ date.day \in 1 .. DaysIn(date.year, date.month)

\* The first day of a month.
FirstOf(m) == DayNumber([year |-> m.year, month |-> m.month, day |-> 1])

\* The month that is `index` months after the one of a date.
MonthAfter(date, index) ==
    LET m == date.month - 1 + index
    IN  [year |-> date.year + m \div 12, month |-> (m % 12) + 1]

\* Mutant: what setUTCMonth does on its own to a 31st.
DayKept(day, year, month) == day

\* The original day, or the last one of a month that is too short.
DayInMonth(day, year, month) ==
    IF day > DaysIn(year, month) THEN DaysIn(year, month) ELSE day

DaysOf(frequency) ==
    CASE frequency = "DAILY" -> 1
      [] frequency = "WEEKLY" -> 7
      [] frequency = "BIWEEKLY" -> 14

\* installmentDate, as a day number.
InstallmentDate(start, frequency, index) ==
    IF frequency = "MONTHLY"
    THEN LET to == MonthAfter(start, index)
         IN  FirstOf(to) - 1 + DayInMonth(start.day, to.year, to.month)
    ELSE DayNumber(start) + DaysOf(frequency) * index
=============================================================================
