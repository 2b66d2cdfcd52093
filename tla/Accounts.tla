------------------------------ MODULE Accounts ------------------------------
(***************************************************************************)
(* Who the users are: AuthService, PollarSessionController and the table   *)
(* `profiles'.  A token names a user of Supabase Auth; everything else     *)
(* refers to the row of `profiles' whose auth_user_id is that user, found  *)
(* anew by every request.  The passport columns are in module              *)
(* PassportReports.  register_libreta_user is a function of the database   *)
(* whose text the repository does not hold: all that is used of it is that *)
(* it creates the user and its profile, or neither.                        *)
(***************************************************************************)
EXTENDS Integers

CONSTANTS
    AuthUser,       \* ids of Supabase Auth
    Uuid,           \* ids of profiles; some may be ids of Supabase Auth too
    Address,        \* wallets on HSK Chain
    ProfileCall,    \* requests to POST /api/pollar/session/profile
    Null

ASSUME AccountsAssumption ==
    /\ AuthUser \subseteq Uuid
    /\ Null \notin Uuid \cup Address

VARIABLES
    users,          \* the users of Supabase Auth
    profiles,       \* the rows of `profiles'
    call            \* where each request for a profile is

accountVars == <<users, profiles, call>>

Role == {"BORROWER", "LENDER"}

ProfileRow == [id : Uuid, auth : AuthUser, role : Role, wallet : Address]

AccountsInit ==
    /\ users = {}
    /\ profiles = {}
    /\ call = [s \in ProfileCall |->
                 [pc |-> "NEW", auth |-> Null, role |-> Null,
                  wallet |-> Null, id |-> Null]]

\* findByAuthUserId, and the profileId of the controllers.
ProfileOf(a) == {p \in profiles : p.auth = a}

\* findById.
ProfileWithId(id) == {p \in profiles : p.id = id}

\* Mutant: only the earlier read of profile() looks for the user.
WalletIsFree(row) == \A p \in profiles : p.id # row.id /\ p.wallet # row.wallet

\* The primary key and the UNIQUE columns.
Insertable(row) ==
    \A p \in profiles :
        p.id # row.id /\ p.auth # row.auth /\ p.wallet # row.wallet

-----------------------------------------------------------------------------

\* AuthService.register: the stored procedure creates user and profile.  The
\* sign-in and the read that follow change nothing, and a failure of theirs is
\* not an error of the registration.
Register(a, role, w) ==
    /\ a \notin users
    /\ \E id \in Uuid :
          LET row == [id |-> id, auth |-> a, role |-> role, wallet |-> w] IN
          /\ Insertable(row)
          /\ profiles' = profiles \cup {row}
    /\ users' = users \cup {a}
    /\ UNCHANGED call

\* PollarSessionController.register: a user without a profile.
SignUp(a) ==
    /\ a \notin users
    /\ users' = users \cup {a}
    /\ UNCHANGED <<profiles, call>>

\* profile: the guard accepts the token, and the profile is looked for ...
FindProfile(s, a, role, w) ==
    /\ call[s].pc = "NEW"
    /\ a \in users
    /\ call' = [call EXCEPT ![s] =
          IF ProfileOf(a) = {}
          THEN [pc |-> "INSERT", auth |-> a, role |-> role, wallet |-> w, id |-> Null]
          ELSE [pc |-> "DONE", auth |-> a, role |-> role, wallet |-> w,
                id |-> (CHOOSE p \in ProfileOf(a) : TRUE).id]]
    /\ UNCHANGED <<users, profiles>>

\* ... and created when there was none; another request may have done so.  The
\* database chooses an id of its own.
CreateProfile(s) ==
    /\ call[s].pc = "INSERT"
    /\ \/ \E id \in Uuid \ AuthUser :
             LET row == [id |-> id, auth |-> call[s].auth, role |-> call[s].role,
                         wallet |-> call[s].wallet] IN
             /\ Insertable(row)
             /\ profiles' = profiles \cup {row}
             /\ call' = [call EXCEPT ![s] = [@ EXCEPT !.pc = "DONE", !.id = id]]
       \/ /\ \E p \in profiles :
                p.auth = call[s].auth \/ p.wallet = call[s].wallet
          /\ call' = [call EXCEPT ![s].pc = "REFUSED"]
          /\ UNCHANGED profiles
    /\ UNCHANGED users

AccountsStep ==
    \/ \E a \in AuthUser :
          \/ SignUp(a)
          \/ \E role \in Role, w \in Address :
                \/ Register(a, role, w)
                \/ \E s \in ProfileCall : FindProfile(s, a, role, w)
    \/ \E s \in ProfileCall : CreateProfile(s)

-----------------------------------------------------------------------------

AccountsTypeOK ==
    /\ users \subseteq AuthUser
    /\ profiles \subseteq ProfileRow
    /\ call \in [ProfileCall ->
          [pc : {"NEW", "INSERT", "DONE", "REFUSED"}, auth : AuthUser \cup {Null},
           role : Role \cup {Null}, wallet : Address \cup {Null},
           id : Uuid \cup {Null}]]

\* A user is one person in the libreta: whatever requests of a user run at the
\* same time, all that succeed name one and the same profile, and nobody else
\* has its wallet.  Every lookup by auth_user_id takes one row for granted.
OneProfilePerUser ==
    /\ \A p, q \in profiles : p.auth = q.auth \/ p.wallet = q.wallet => p = q
    /\ \A s \in ProfileCall :
          call[s].pc = "DONE" =>
             \E p \in profiles : p.id = call[s].id /\ p.auth = call[s].auth
=============================================================================
