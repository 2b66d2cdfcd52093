--------------------------- MODULE UnlockVerifier ---------------------------
(***************************************************************************)
(* UnlockVerifierService.verifyKey: whether a wallet holds a membership of *)
(* the lock, an external contract in which memberships are bought and run  *)
(* out.  What it answers is kept for a while in the memory of the process, *)
(* valid or not; an RPC that fails is neither, and nothing is kept.        *)
(*                                                                         *)
(* Time is in ticks.  Between the answer of the lock and the moment it is  *)
(* kept lie three more calls, each with a timeout: CallTime bounds them.   *)
(***************************************************************************)
EXTENDS Integers

CONSTANTS
    Viewer,         \* wallets of auditors
    Access,         \* calls of verifyKey
    ViewerOf,       \* the wallet each of them names
    MembershipTtl,  \* UNLOCK_CACHE_TTL_MS
    CallTime,       \* bound on the calls of one verification
    Window,         \* a signature is good for 300 s ...
    Ahead,          \* ... and may be 30 s in the future
    MaxTime         \* bound on the clock

ASSUME UnlockAssumption ==
    /\ ViewerOf \in [Access -> Viewer]
    /\ MembershipTtl \in Nat \ {0}
    /\ CallTime \in Nat \ {0}
    /\ Window \in Nat
    /\ Ahead \in Nat
    /\ MaxTime \in Nat

VARIABLES
    now,
    member,         \* viewers with a valid key in the lock
    since,          \* when that last changed, for each viewer
    membership,     \* membershipCache: an answer, and until when it is good
    access          \* where each call is

unlockVars == <<member, since, membership, access>>

Uncached == [until |-> 0, answer |-> "DENIED"]

Call(pc, at, answer) == [pc |-> pc, at |-> at, answer |-> answer]

UnlockInit ==
    /\ now = 0
    /\ member \in SUBSET Viewer
    /\ since = [v \in Viewer |-> - MembershipTtl - CallTime]
    /\ membership = [v \in Viewer |-> Uncached]
    /\ access = [q \in Access |-> Call("NEW", 0, "DENIED")]

\* A key is bought, or runs out or is cancelled.
MembershipChanges(v) ==
    /\ member' = IF v \in member THEN member \ {v} ELSE member \cup {v}
    /\ since' = [since EXCEPT ![v] = now]
    /\ UNCHANGED <<now, membership, access>>

\* A signature of the viewer over a time stamp in the window.
SignatureHolds(signed, stamp) ==
    signed /\ stamp <= now + Ahead /\ now - stamp <= Window

\* Mutant: an entry is good for ever.
EverCached(v) == membership[v].until > 0

Cached(v) == membership[v].until > now

\* What the lock says of a viewer.
LockAnswer(v) == IF v \in member THEN "GRANTED" ELSE "DENIED"

Proceed(q, call) == access' = [access EXCEPT ![q] = call]

\* The signature and the cache are looked at before the lock is asked.
CheckSignature(q, signed, stamp) ==
    LET v == ViewerOf[q] IN
    /\ access[q].pc = "NEW"
    /\ \/ /\ ~ SignatureHolds(signed, stamp)
          /\ Proceed(q, Call("BAD SIGNATURE", 0, "DENIED"))
       \/ /\ SignatureHolds(signed, stamp) /\ Cached(v)
          /\ Proceed(q, Call(membership[v].answer, 0, "DENIED"))
       \/ /\ SignatureHolds(signed, stamp) /\ ~ Cached(v)
          /\ Proceed(q, Call("ASK", now, "DENIED"))
    /\ UNCHANGED <<now, member, since, membership>>

\* getHasValidKey.
AskLock(q) ==
    /\ access[q].pc = "ASK"
    /\ Proceed(q, Call("KEEP", now, LockAnswer(ViewerOf[q])))
    /\ UNCHANGED <<now, member, since, membership>>

\* The token and its expiration were read, or could not be: the answer is kept.
KeepAnswer(q) ==
    LET a == access[q] IN
    /\ a.pc = "KEEP"
    /\ membership' = [membership EXCEPT ![ViewerOf[q]] =
          [until |-> now + MembershipTtl, answer |-> a.answer]]
    /\ Proceed(q, Call(a.answer, 0, a.answer))
    /\ UNCHANGED <<now, member, since>>

\* The RPC fails or is of another network: 503, whatever was kept before.
LockUnavailable(q) ==
    /\ access[q].pc = "ASK"
    /\ Proceed(q, Call("UNAVAILABLE", 0, "DENIED"))
    /\ UNCHANGED <<now, member, since, membership>>

Verifying(q) == access[q].pc \in {"ASK", "KEEP"}

UnlockStep(q) ==
    \/ \E signed \in BOOLEAN, stamp \in 0 .. MaxTime + Ahead :
          CheckSignature(q, signed, stamp)
    \/ AskLock(q) \/ KeepAnswer(q) \/ LockUnavailable(q)

-----------------------------------------------------------------------------

UnlockTypeOK ==
    /\ now \in 0 .. MaxTime
    /\ member \subseteq Viewer
    /\ \A v \in Viewer : since[v] \in Int /\ since[v] <= now
    /\ membership \in [Viewer -> [until : 0 .. MaxTime + MembershipTtl,
                                   answer : {"GRANTED", "DENIED"}]]
    /\ access \in [Access ->
          [pc : {"NEW", "ASK", "KEEP", "GRANTED", "DENIED", "UNAVAILABLE",
                 "BAD SIGNATURE"},
           at : 0 .. MaxTime, answer : {"GRANTED", "DENIED"}]]

\* The lock said this of the viewer at some moment of the last ticks.
WasAt(v, answer, ticks) == LockAnswer(v) = answer \/ now - since[v] <= ticks
=============================================================================
