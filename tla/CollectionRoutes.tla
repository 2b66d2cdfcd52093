-------------------------- MODULE CollectionRoutes --------------------------
(***************************************************************************)
(* The sheet of a collector for a day: RoutesService and                   *)
(* SupabaseRouteRepository.  A lender assigns loans to a collector in two  *)
(* statements, of which the second may fail unnoticed.  The controllers    *)
(* pass the id of the user in Supabase Auth where the tables refer to      *)
(* profiles, so a route can be assigned, and seen, only by users whose     *)
(* profile has that very id.                                               *)
(*                                                                         *)
(* One day is modelled, so a route is named by its collector.  `visited'   *)
(* is never set: markItemVisited has no caller.                            *)
(***************************************************************************)
EXTENDS LoanOrigination

CONSTANT
    Assignment      \* requests to POST /api/lender/routes/assign

VARIABLES
    routeLender,    \* the lender_id of each collector's route, or Null
    stops,          \* the items of each route: loan and order_index
    assignment      \* where each request is

routeVars == <<routeLender, stops, assignment>>

RoutesInit ==
    /\ routeLender = [u \in Uuid |-> Null]
    /\ stops = [u \in Uuid |-> {}]
    /\ assignment = [q \in Assignment |->
                       [pc |-> "NEW", collector |-> Null, loans |-> <<>>]]

\* The route is inserted, or taken over if the collector has one.  Lender and
\* collector must be profiles.
UpsertRoute(q, a, collector, loans) ==
    /\ assignment[q].pc = "NEW"
    /\ a \in users
    /\ IF ProfileWithId(a) # {} /\ ProfileWithId(collector) # {}
       THEN /\ routeLender' = [routeLender EXCEPT ![collector] = a]
            /\ assignment' = [assignment EXCEPT ![q] =
                  [pc |-> IF loans = <<>> THEN "DONE" ELSE "ITEMS",
                   collector |-> collector, loans |-> loans]]
       ELSE /\ assignment' = [assignment EXCEPT ![q].pc = "FAILED"]
            /\ UNCHANGED routeLender
    /\ UNCHANGED <<stops, accountVars, originVars>>

\* Mutant: the items of the route are replaced.
ReplacedStops(old, loans) ==
    {[loan |-> loans[j], order |-> j] : j \in DOMAIN loans}

\* Stops that are there already are moved; the others stay as they were.
UpsertedStops(old, loans) ==
    {s \in old : \A j \in DOMAIN loans : loans[j] # s.loan}
      \cup {[loan |-> loans[j], order |-> j] : j \in DOMAIN loans}

\* Every loan exists, and none is given twice, which an upsert refuses.
StopsAllowed(loans) ==
    /\ \A j \in DOMAIN loans : loan[loans[j]] # Null
    /\ \A j, k \in DOMAIN loans : loans[j] = loans[k] => j = k

\* An error of this statement is logged, and the answer is a success.
UpsertStops(q) ==
    LET r == assignment[q] IN
    /\ r.pc = "ITEMS"
    /\ \/ /\ StopsAllowed(r.loans)
          /\ stops' = [stops EXCEPT ![r.collector] = UpsertedStops(@, r.loans)]
          /\ assignment' = [assignment EXCEPT ![q].pc = "DONE"]
          /\ UNCHANGED faults
       \/ /\ IF StopsAllowed(r.loans) THEN Fault ELSE UNCHANGED faults
          /\ assignment' = [assignment EXCEPT ![q].pc = "DONE WITHOUT STOPS"]
          /\ UNCHANGED stops
    /\ UNCHANGED <<routeLender, accountVars, chainOfLoans, loan, schedule,
                   origin, sent>>

\* getTodayRoute: what the user a is answered, whose id in Supabase Auth the
\* controller gives for that of a collector.  If its route and the items of it
\* cannot both be read the sheet is empty; a stop without an installment that is
\* pending, or of a loan whose installments are unread, shows number 1.
TodayRoute(a, routeIsRead, unread) ==
    IF routeLender[a] = Null \/ ~routeIsRead THEN {}
    ELSE {[loan |-> s.loan, order |-> s.order, number |-> 1,
           found |-> schedule[s.loan] # <<>> /\ s.loan \notin unread] : s \in stops[a]}

RoutesStep ==
    \E q \in Assignment :
        \/ \E a \in AuthUser, collector \in Uuid,
              loans \in {<<>>} \cup {<<l>> : l \in LoanId} \cup LoanId \X LoanId :
              UpsertRoute(q, a, collector, loans)
        \/ UpsertStops(q)

-----------------------------------------------------------------------------

lendingVars == <<accountVars, originVars, routeVars>>

LendingInit == AccountsInit /\ OriginInit /\ RoutesInit

LendingNext ==
    \/ AccountsStep /\ UNCHANGED <<originVars, routeVars>>
    \/ OriginStep /\ UNCHANGED routeVars
    \/ RoutesStep

LendingSpec == LendingInit /\ [][LendingNext]_lendingVars

-----------------------------------------------------------------------------

LendingTypeOK ==
    /\ AccountsTypeOK
    /\ hskLoans \in [LoanId -> Chain!LoanStruct]
    /\ \A l \in LoanId : loan[l] # Null => loan[l].status = "ACTIVE"
    /\ \A c \in Request :
          /\ origin[c].pc \in {"NEW", "CHECK", "REGISTER", "WAIT", "INSERT", "SCHEDULE",
                               "DONE", "REFUSED", "FAILED"}
          /\ origin[c].id \in LoanId \cup {Null}
    /\ hskIndex \in [Address \cup {Operator} -> Seq(LoanId)]
    /\ sent \subseteq Request
    /\ faults \in 0 .. MaxFaults
    /\ routeLender \in [Uuid -> Uuid \cup {Null}]
    /\ \A u \in Uuid : \A s \in stops[u] : s.loan \in LoanId /\ s.order \in Nat
    /\ \A q \in Assignment :
          assignment[q].pc \in {"NEW", "ITEMS", "DONE", "DONE WITHOUT STOPS", "FAILED"}

\* A stop that was assigned is never lost: once an assignment was carried out,
\* its loans are on the sheet of that day for a collector whose profile has the
\* id of its user once the route is read, whichever installments are not, also
\* after the same or another lender has assigned other loans, at the same time
\* or later.
AssignedStopsStay ==
    \A q \in Assignment, p \in profiles :
        LET r == assignment[q] IN
        r.pc = "DONE" /\ p.id = r.collector /\ p.auth = p.id =>
            \A unread \in SUBSET LoanId, j \in DOMAIN r.loans :
                \E s \in TodayRoute(p.auth, TRUE, unread) : s.loan = r.loans[j]
=============================================================================
