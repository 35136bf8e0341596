--------------------------- MODULE LeaseLock_proofs ---------------------------
(***************************************************************************)
(* A lease that cannot be lost by a live holder is a mutual exclusion lock. *)
(***************************************************************************)
EXTENDS LeaseLock, TLAPS

\* Tokens are told apart.
Distinct == Nobody \notin Clients /\ Orphan \notin Clients \cup {Nobody}

\* The members of inside are clients, and without lost leases hold the key.
LeaseInv == inside \subseteq Clients /\ InsideHoldsKey

\* Nobody enters while a client is inside, and only Orphan expires.
LEMMA LeaseStep ==
  ASSUME Distinct, LeaseInv, [Next]_vars PROVE LeaseInv'
<1> USE DEF LeaseInv, InsideHoldsKey, Distinct
<1>1. ASSUME NEW c \in Clients, Enter(c) PROVE LeaseInv'
  BY <1>1 DEF Enter
<1>2. ASSUME NEW c \in Clients, Exit(c) PROVE LeaseInv'
  BY <1>2 DEF Exit
<1>3. CASE Expire
  BY <1>3 DEF Expire
<1>4. CASE UNCHANGED vars
  BY <1>4 DEF vars
<1>5. QED
  BY <1>1, <1>2, <1>3, <1>4 DEF Next

\* A client that is inside still holds the key, for as long as leases last
\* (redis_lock.py:41-58).
THEOREM HolderKeepsKey ==
  ASSUME Distinct PROVE Spec => []InsideHoldsKey
<1>1. Init => LeaseInv
  BY DEF Init, LeaseInv, InsideHoldsKey
<1>2. LeaseInv /\ [Next]_vars => LeaseInv'
  BY LeaseStep
<1>3. LeaseInv => InsideHoldsKey
  BY DEF LeaseInv
<1>4. QED
  BY <1>1, <1>2, <1>3, PTL DEF Spec

\* The owner is the one client inside.
LEMMA OwnerIsInside ==
  ASSUME NEW c, inside = {c} PROVE Owner = c
  BY DEF Owner

\* Enter is Acquire, Exit is Leave, and the end of an orphan is a stutter.
LEMMA LeaseRefines ==
  ASSUME Distinct, ~LeaseMayExpire, LeaseInv, [Next]_vars
  PROVE  [Abstract!Next]_Owner
<1>1. ASSUME NEW c \in inside PROVE inside = {c} /\ token = c
  BY <1>1 DEF LeaseInv, InsideHoldsKey
<1>2. ASSUME NEW c \in Clients, Enter(c) PROVE Abstract!Acquire(c)
  <2>1. inside = {} /\ inside' = {c}
    BY <1>1, <1>2 DEF Enter, LeaseInv, Distinct
  <2>2. Owner = Nobody /\ Owner' = c
    BY <2>1 DEF Owner
  <2>3. QED  BY <2>2 DEF Abstract!Acquire
<1>3. ASSUME NEW c \in Clients, Exit(c) PROVE Abstract!Leave(c)
  <2>1. inside = {c} /\ inside' = {}
    BY <1>1, <1>3 DEF Exit
  <2>2. Owner = c /\ Owner' = Nobody
    BY <2>1 DEF Owner
  <2>3. QED  BY <2>2 DEF Abstract!Leave
<1>4. CASE inside' = inside
  BY <1>4 DEF Owner
<1>5. QED
  BY <1>2, <1>3, <1>4 DEF Next, Expire, vars, Abstract!Next

\* README "Split-brain prevention": as long as no live holder's lease runs out,
\* what the users of the key see is a mutual exclusion lock.
THEOREM LeaseIsMutex ==
  ASSUME Distinct, ~LeaseMayExpire PROVE Spec => Abstract!Spec
<1>1. Init => LeaseInv /\ Abstract!Init
  BY DEF Init, LeaseInv, InsideHoldsKey, Owner, Abstract!Init
<1>2. LeaseInv /\ [Next]_vars => LeaseInv' /\ [Abstract!Next]_Owner
  BY LeaseStep, LeaseRefines
<1>3. QED
  BY <1>1, <1>2, PTL DEF Spec, Abstract!Spec
===============================================================================
