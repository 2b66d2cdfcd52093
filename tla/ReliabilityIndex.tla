-------------------------- MODULE ReliabilityIndex --------------------------
(***************************************************************************)
(* LriCalculatorService: the Libreta Reliability Index, half of it for     *)
(* payments on time, three tenths for loans completed, up to three, and two*)
(* tenths for the capital paid back.  The index is in tenths of a point,   *)
(* and exact where the code computes in floating point, so the two may     *)
(* differ where a half is rounded.                                         *)
(***************************************************************************)
EXTENDS Integers

\* Mutant: what is paid back includes the interest, so it passes the capital.
Unbounded(n, d) == IF d <= 0 \/ n <= 0 THEN 0 ELSE n

\* Math.min(1, Math.max(0, n / d)), as the numerator over d; 0 if d is 0.
Bounded(n, d) ==
    IF d <= 0 \/ n <= 0 THEN 0 ELSE IF n < d THEN n ELSE d

AtLeastOne(d) == IF d > 0 THEN d ELSE 1

\* 1000 * (0.5 P + 0.3 C + 0.2 D), rounded half up.
LriScore(onTime, paid, completed, repaid, disbursed) ==
    LET p == AtLeastOne(paid)
        d == AtLeastOne(disbursed)
        num == 500 * Bounded(onTime, paid) * d
                 + 100 * Bounded(completed, 3) * p * d
                 + 200 * Bounded(repaid, disbursed) * p
    IN  (2 * num + p * d) \div (2 * p * d)

ConfidenceGrade(score) ==
    CASE score >= 900 -> "EXCELLENT"
      [] score \in 750 .. 899 -> "VERY_GOOD"
      [] score \in 600 .. 749 -> "GOOD"
      [] score \in 400 .. 599 -> "FAIR"
      [] OTHER -> "INSUFFICIENT"
=============================================================================
