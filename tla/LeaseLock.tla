------------------------------ MODULE LeaseLock ------------------------------
(***************************************************************************)
(* The lock as its users see it: a key that holds the token of whoever      *)
(* entered last, and that a death may leave behind.  RedisLock implements   *)
(* it, with LeaseMayExpire exactly when its heartbeats may be late, and it  *)
(* is what ExecutionEngine's workers and recovery scans do to the key       *)
(* execution:{id}:lock.  Without lost leases it is a Mutex.                 *)
(***************************************************************************)
CONSTANTS
    Clients,         \* whoever may enter
    LeaseMayExpire,  \* may the key expire under a live holder?
    Nobody,          \* no token stored under the key
    Orphan           \* a token that nobody can present any more

VARIABLES
    token,   \* what the key holds
    inside   \* the clients between acquire and release

vars == <<token, inside>>

Init == token = Nobody /\ inside = {}

Enter(c) ==
    /\ c \notin inside /\ token = Nobody
    /\ token' = c
    /\ inside' = inside \cup {c}

\* By return, exception or death: one's own token is deleted or orphaned, a
\* foreign one stays.
Exit(c) ==
    /\ c \in inside
    /\ inside' = inside \ {c}
    /\ IF token = c THEN token' \in {Nobody, Orphan} ELSE token' = token

Expire ==
    /\ token = Orphan \/ (LeaseMayExpire /\ token # Nobody)
    /\ token' = Nobody
    /\ UNCHANGED inside

Next == Expire \/ \E c \in Clients : Enter(c) \/ Exit(c)

Spec == Init /\ [][Next]_vars

----------------------------------------------------------------------------
\* Unless a lease may be lost, whoever is inside holds the key.
InsideHoldsKey == ~LeaseMayExpire => \A c \in inside : token = c

Owner == IF inside = {} THEN Nobody ELSE CHOOSE c \in inside : TRUE

Abstract == INSTANCE Mutex WITH owner <- Owner
==============================================================================
