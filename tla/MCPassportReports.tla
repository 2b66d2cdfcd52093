------------------------- MODULE MCPassportReports -------------------------
(***************************************************************************)
(* A loan of two installments and one of one, which is paid late, two      *)
(* receipts, and one viewer.  So that the size of the run is a sum and not *)
(* a product, there are three kinds of initial states: one report and      *)
(* payments of both loans, with the clock at its end; two lists, the last  *)
(* payment of a loan and the clock; a dossier, another call of verifyKey   *)
(* and the clock, with no payment left to make.  The other readers have    *)
(* answered, and so has verifyKey in the first two.                        *)
(***************************************************************************)
EXTENDS PassportReports, TLC

CONSTANTS l1, l2, r1, r2, v1, q1, q3, e1, e2

MCLoan == {l1, l2}
MCNewest == <<l2, l1>>
MCCount == [l \in MCLoan |-> IF l = l1 THEN 2 ELSE 1]
MCAmount == [l \in MCLoan |-> IF l = l1 THEN 55 ELSE 110]
MCCapital == [l \in MCLoan |-> 40]
MCLate == {<<l2, 1>>}
MCReport == {q1}
MCAccess == {q1, q3}
MCViewerOf == [q \in MCAccess |-> v1]
MCList == {e1, e2}

PaidRow == [paid |-> TRUE, receipt |-> r1, digital |-> TRUE, synced |-> TRUE]

\* The first paid[l] installments of a loan l are paid, `acting' are the
\* readers, the clock shows `t'.
From(paid, acting, t) ==
    /\ row = [l \in Loan |-> [n \in Numbers(l) |->
                IF n <= paid[l] THEN PaidRow ELSE Unpaid]]
    /\ proofs = [l \in Loan |-> [n \in 1 .. paid[l] |->
                   [receipt |-> r1, digital |-> TRUE]]]
    /\ buried = paid
    /\ buriedAt = [l \in Loan |-> [n \in 1 .. paid[l] |-> 0]]
    /\ closed = {l \in Loan : paid[l] = Count[l]}
    /\ now = t
    /\ member = {}
    /\ since = [v \in Viewer |-> - MembershipTtl - CallTime]
    /\ membership = [v \in Viewer |-> Uncached]
    /\ access = [q \in Access |-> Call(
                   IF q \notin acting THEN "BAD SIGNATURE"
                   ELSE IF paid = Count THEN "NEW" ELSE "GRANTED", 0, "DENIED")]
    /\ published = TRUE
    /\ report = [q \in Report |-> [NewReport EXCEPT !.pc =
                   IF q \in acting THEN "NEW" ELSE "NOT FOUND"]]
    /\ evidence = [l \in Loan |-> NoEvidence]
    /\ list = [q \in List |-> [NewList EXCEPT !.pc =
                 IF q \in acting THEN "NEW" ELSE "DONE"]]
    /\ faults = 0

MCInit ==
    \/ From([l \in Loan |-> 0], {q1}, MaxTime)
    \/ From([l \in Loan |-> 1], {e1, e2}, 0)
    \/ From(Count, {q1, q3}, 0)

ReportsLeft == \E q \in Report :
    report[q].pc \notin {"DONE", "FAILED", "REFUSED", "NOT FOUND"}

ListsLeft == \E q \in List : list[q].pc # "DONE"

CallsLeft == \E q \in Access : access[q].pc \in {"NEW", "ASK", "KEEP"}

\* Nothing that only readers see happens when no reader is left to see it.
MCNext ==
    /\ DossierNext
    /\ member' # member => CallsLeft
    /\ published' # published => \E q \in Report : report[q].pc = "NEW"
    /\ flowVars' # flowVars => ReportsLeft \/ ListsLeft
    /\ evidence' # evidence => ListsLeft

MCSpec == MCInit /\ [][MCNext]_dossierVars

MCSymmetry == Permutations({r1, r2})
=============================================================================
