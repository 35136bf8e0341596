--------------------------- MODULE RedisLock_proofs ---------------------------
(***************************************************************************)
(* Mutual exclusion of the Redis lock for every set of clients, every TTL  *)
(* and every scheduling lag that leaves the heartbeat its margin, and that  *)
(* the lock then implements the abstract one.                               *)
(***************************************************************************)
EXTENDS RedisLock, TLAPS

\* The heartbeat's period is a natural number (redis_lock.py:62).
LEMMA IntervalIsNat == Interval \in Nat
  BY LockConstants, Z3 DEF Interval

\* Every variable of the lock keeps its type (redis_lock.py:24-72), whatever
\* the lag and the Redis errors.
THEOREM TypeCorrect == Spec => []TypeOK
<1> USE LockConstants, IntervalIsNat
<1>1. Init => TypeOK
  BY DEF Init, TypeOK, HeartbeatState
<1>2. TypeOK /\ [Next]_vars => TypeOK'
  <2> SUFFICES ASSUME TypeOK, [Next]_vars PROVE TypeOK'
    OBVIOUS
  <2> USE DEF TypeOK, HeartbeatState
  <2>1. ASSUME NEW c \in Clients, Acquire(c) PROVE TypeOK'
    BY <2>1 DEF Acquire
  <2>2. ASSUME NEW c \in Clients, HeartbeatGet(c) PROVE TypeOK'
    BY <2>2 DEF HeartbeatGet
  <2>3. ASSUME NEW c \in Clients, HeartbeatExpire(c) PROVE TypeOK'
    BY <2>3 DEF HeartbeatExpire, RenewedTTL
  <2>4. ASSUME NEW c \in Clients, HeartbeatDies(c) PROVE TypeOK'
    BY <2>4 DEF HeartbeatDies
  <2>5. ASSUME NEW c \in Clients, Release(c) PROVE TypeOK'
    BY <2>5 DEF Release, CompareAndDelete
  <2>6. ASSUME NEW c \in Clients, Crash(c) PROVE TypeOK'
    BY <2>6 DEF Crash
  <2>7. CASE Tick
    BY <2>7 DEF Tick, Due
  <2>8. CASE UNCHANGED vars
    BY <2>8 DEF vars
  <2>9. QED
    BY <2>1, <2>2, <2>3, <2>4, <2>5, <2>6, <2>7, <2>8 DEF Next, Heartbeat
<1>3. QED
  BY <1>1, <1>2, PTL DEF Spec

-----------------------------------------------------------------------------
\* Mutual exclusion is what the margin leaves when it is forgotten.
LEMMA MarginExcludes == LeaseMargin => MutualExclusion
  BY DEF LeaseMargin, MutualExclusion

\* No step of a timely lock eats up the margin of a holder: the heartbeat
\* renews before the TTL runs out (redis_lock.py:60-72), and nobody else's
\* release deletes the key (redis_lock.py:10-17, 58).
LEMMA MarginStep ==
  ASSUME Timely, TypeOK, LeaseMargin, [Next]_vars
  PROVE  LeaseMargin'
<1> USE LockConstants, IntervalIsNat DEF TypeOK, LeaseMargin, HeartbeatState
<1>1. ASSUME NEW c \in Clients, Acquire(c) PROVE LeaseMargin'
  BY <1>1 DEF Acquire, KeyIsFree, Timely
<1>2. ASSUME NEW c \in Clients, HeartbeatGet(c) PROVE LeaseMargin'
  BY <1>2 DEF HeartbeatGet, StillMine
<1>3. ASSUME NEW c \in Clients, HeartbeatExpire(c) PROVE LeaseMargin'
  BY <1>3 DEF HeartbeatExpire, RenewedTTL, Timely
<1>4. ASSUME NEW c \in Clients, HeartbeatDies(c) PROVE LeaseMargin'
  BY <1>4 DEF HeartbeatDies, Timely
<1>5. ASSUME NEW c \in Clients, Release(c) PROVE LeaseMargin'
  BY <1>5 DEF Release, CompareAndDelete
<1>6. ASSUME NEW c \in Clients, Crash(c) PROVE LeaseMargin'
  BY <1>6 DEF Crash
<1>7. CASE Tick
  BY <1>7 DEF Tick, Due
<1>8. CASE UNCHANGED vars
  BY <1>8 DEF vars
<1>9. QED
  BY <1>1, <1>2, <1>3, <1>4, <1>5, <1>6, <1>7, <1>8 DEF Next, Heartbeat

\* With timely heartbeats the margin is an invariant of the lock.
THEOREM MarginHolds ==
  ASSUME Timely PROVE Spec => []LeaseMargin
<1>1. Init => LeaseMargin
  BY DEF Init, LeaseMargin
<1>2. TypeOK /\ LeaseMargin /\ [Next]_vars => LeaseMargin'
  BY MarginStep
<1>3. QED
  BY <1>1, <1>2, TypeCorrect, PTL DEF Spec

\* README "Split-brain prevention": with timely heartbeats two clients are
\* never inside the lock body at the same time.
THEOREM Exclusion ==
  ASSUME Timely PROVE Spec => []MutualExclusion
  BY MarginHolds, MarginExcludes, PTL

-----------------------------------------------------------------------------
\* The clients inside the body, as the lease's users see them.
Holders == {c \in Clients : cs[c]}

\* A token goes with its owner: nothing but a release that deletes it or a
\* death that orphans it ends the stay of its owner (redis_lock.py:51-58).
LEMMA TokenStep ==
  ASSUME TypeOK, TokenIsLive, [Next]_vars
  PROVE  TokenIsLive'
<1> USE LockConstants DEF TypeOK, TokenIsLive
<1>1. ASSUME NEW c \in Clients, Acquire(c) PROVE TokenIsLive'
  BY <1>1 DEF Acquire
<1>2. ASSUME NEW c \in Clients, Heartbeat(c) PROVE TokenIsLive'
  BY <1>2 DEF Heartbeat, HeartbeatGet, HeartbeatExpire, HeartbeatDies
<1>3. ASSUME NEW c \in Clients, Release(c) PROVE TokenIsLive'
  BY <1>3 DEF Release, CompareAndDelete
<1>4. ASSUME NEW c \in Clients, Crash(c) PROVE TokenIsLive'
  BY <1>4 DEF Crash
<1>5. CASE Tick
  BY <1>5 DEF Tick
<1>6. CASE UNCHANGED vars
  BY <1>6 DEF vars
<1>7. QED
  BY <1>1, <1>2, <1>3, <1>4, <1>5, <1>6 DEF Next

\* Entering and leaving the body are the lease's steps, a key that runs out is
\* its Expire, and heartbeats are stuttering (redis_lock.py:28-72).
LEMMA StepRefines ==
  ASSUME TypeOK, TokenIsLive, Timely => LeaseMargin /\ LeaseMargin', [Next]_vars
  PROVE  [Lease!Next]_(Lease!vars)
<1> USE LockConstants DEF TypeOK
<1>1. ASSUME NEW c \in Clients, Acquire(c) PROVE Lease!Enter(c)
  <2>1. c \notin Holders /\ token = Nobody /\ token' = c
    BY <1>1 DEF Acquire, KeyIsFree, Holders
  <2>2. Holders' = Holders \cup {c}
    BY <1>1 DEF Acquire, Holders
  <2>3. QED
    BY <2>1, <2>2 DEF Lease!Enter, Holders
<1>2. ASSUME NEW c \in Clients, Release(c) \/ Crash(c) PROVE Lease!Exit(c)
  <2>1. cs[c] /\ cs' = [cs EXCEPT ![c] = FALSE]
    BY <1>2 DEF Release, Crash
  <2>2. c \in Holders /\ Holders' = Holders \ {c}
    BY <2>1 DEF Holders
  <2>3. IF token = c THEN token' \in {Nobody, Orphan} ELSE token' = token
    BY <1>2 DEF Release, Crash, CompareAndDelete
  <2>4. QED
    BY <2>2, <2>3 DEF Lease!Exit, Holders
<1>3. CASE Tick
  <2>1. Holders' = Holders /\ (token' = token \/ token' = Nobody)
    BY <1>3 DEF Tick, Holders
  <2>2. CASE token' = token
    BY <2>1, <2>2 DEF Lease!vars, Holders
  <2>3. CASE token' # token
    <3>1. token # Nobody /\ token' = Nobody
      BY <2>1, <2>3
    <3>2. ASSUME Timely, token \in Clients PROVE FALSE
      <4>1. cs[token] /\ cs'[token]
        BY <1>3, <3>2 DEF TokenIsLive, Tick
      <4>2. token' = token
        BY <3>2, <4>1 DEF LeaseMargin
      <4>3. QED  BY <2>3, <4>2
    <3>3. QED
      BY <2>1, <3>1, <3>2 DEF Lease!Expire, Lease!Next, Holders
  <2>4. QED  BY <2>2, <2>3
<1>4. ASSUME UNCHANGED <<token, cs>> PROVE UNCHANGED Lease!vars
  BY <1>4 DEF Lease!vars
<1>5. QED
  BY <1>1, <1>2, <1>3, <1>4
  DEF Next, Heartbeat, HeartbeatGet, HeartbeatExpire, HeartbeatDies, Lease!Next, vars

\* What makes the refinement inductive: tokens belong to clients inside, and a
\* timely lock has its margin.
LeaseInv == TypeOK /\ TokenIsLive /\ (Timely => LeaseMargin)

\* Whatever the lag and the Redis errors, the Redis lock implements the lease;
\* with timely heartbeats one that a live holder cannot lose.
THEOREM Refinement == Spec => ImplementsLease
<1>1. Init => LeaseInv
  <2>1. Init => TokenIsLive /\ LeaseMargin
    BY LockConstants DEF Init, TokenIsLive, LeaseMargin
  <2>2. Init => TypeOK
    BY LockConstants, IntervalIsNat DEF Init, TypeOK, HeartbeatState
  <2>3. QED  BY <2>1, <2>2 DEF LeaseInv
<1>2. Init => Lease!Init
  BY DEF Init, Lease!Init
<1>3. TypeOK /\ TypeOK' /\ LeaseInv /\ [Next]_vars => LeaseInv'
  BY MarginStep, TokenStep DEF LeaseInv, Timely
<1>4. LeaseInv /\ LeaseInv' /\ [Next]_vars => [Lease!Next]_(Lease!vars)
  BY StepRefines DEF LeaseInv, Timely
<1>5. QED
  BY <1>1, <1>2, <1>3, <1>4, TypeCorrect, PTL DEF Spec, Lease!Spec, ImplementsLease

\* The proofs about the lease, for this lock.
LeaseProofs == INSTANCE LeaseLock_proofs WITH
    inside <- {c \in Clients : cs[c]},
    LeaseMayExpire <- ~Timely

\* README "Split-brain prevention": the timely Redis lock implements the
\* abstract mutual exclusion lock, since the lease that it implements does.
THEOREM MutexRefinement ==
  ASSUME Timely PROVE Spec => ImplementsMutex
<1>1. LeaseProofs!Distinct
  BY LockConstants DEF LeaseProofs!Distinct
<1>2. LeaseProofs!Spec => LeaseProofs!Abstract!Spec
  BY <1>1, LeaseProofs!LeaseIsMutex
<1>3. Lease!Spec => LeaseProofs!Spec
  <2>1. Lease!Init => LeaseProofs!Init
    BY DEF Lease!Init, LeaseProofs!Init
  <2>2. [Lease!Next]_(Lease!vars) => [LeaseProofs!Next]_(LeaseProofs!vars)
    BY DEF Lease!Next, LeaseProofs!Next, Lease!vars, LeaseProofs!vars,
           Lease!Enter, LeaseProofs!Enter, Lease!Exit, LeaseProofs!Exit,
           Lease!Expire, LeaseProofs!Expire
  <2>3. QED
    BY <2>1, <2>2, PTL DEF Lease!Spec, LeaseProofs!Spec
<1>4. LeaseProofs!Abstract!Spec => Lease!Abstract!Spec
  <2>1. LeaseProofs!Owner = Lease!Owner
    BY DEF LeaseProofs!Owner, Lease!Owner
  <2>2. LeaseProofs!Abstract!Init => Lease!Abstract!Init
    BY <2>1 DEF LeaseProofs!Abstract!Init, Lease!Abstract!Init
  <2>3. [LeaseProofs!Abstract!Next]_(LeaseProofs!Owner) => [Lease!Abstract!Next]_(Lease!Owner)
    BY DEF LeaseProofs!Owner, Lease!Owner, LeaseProofs!Abstract!Next, Lease!Abstract!Next,
           LeaseProofs!Abstract!Acquire, Lease!Abstract!Acquire,
           LeaseProofs!Abstract!Leave, Lease!Abstract!Leave
  <2>4. QED
    BY <2>2, <2>3, PTL DEF LeaseProofs!Abstract!Spec, Lease!Abstract!Spec
<1>5. QED
  BY <1>2, <1>3, <1>4, Refinement, PTL DEF ImplementsLease, ImplementsMutex

-----------------------------------------------------------------------------
\* Whatever the lag and the Redis errors: a live holder's key goes only with
\* the holder's own release (redis_lock.py:10-17, 58) or death, or at the end
\* of its TTL; nobody else's release or late EXPIRE takes it away.
THEOREM OnlyOwnerOrExpiry == Spec => OnlyOwnerOrExpiryFrees
<1> DEFINE Kept ==
      \A c \in Clients :
         (token = c /\ cs[c] /\ token' # c) => (~cs'[c] \/ ttl <= 1)
<1>1. TypeOK /\ [Next]_vars => Kept
  <2> SUFFICES ASSUME TypeOK, [Next]_vars, NEW c \in Clients,
                      token = c, cs[c], token' # c
               PROVE  ~cs'[c] \/ ttl <= 1
    OBVIOUS
  <2> USE LockConstants DEF TypeOK
  <2>1. ASSUME NEW d \in Clients, Acquire(d) PROVE FALSE
    BY <2>1 DEF Acquire, KeyIsFree
  <2>2. ASSUME NEW d \in Clients, Heartbeat(d) PROVE FALSE
    BY <2>2 DEF Heartbeat, HeartbeatGet, HeartbeatExpire, HeartbeatDies
  <2>3. ASSUME NEW d \in Clients, Release(d) PROVE ~cs'[c]
    BY <2>3 DEF Release, CompareAndDelete
  <2>4. ASSUME NEW d \in Clients, Crash(d) PROVE ~cs'[c]
    BY <2>4 DEF Crash
  <2>5. CASE Tick
    BY <2>5 DEF Tick
  <2>6. CASE UNCHANGED vars
    BY <2>6 DEF vars
  <2>7. QED
    BY <2>1, <2>2, <2>3, <2>4, <2>5, <2>6 DEF Next
<1>2. QED
  BY <1>1, TypeCorrect, PTL DEF Spec, OnlyOwnerOrExpiryFrees
==============================================================================
