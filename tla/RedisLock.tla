------------------------------ MODULE RedisLock ------------------------------
(***************************************************************************)
(* The distributed lock of sutram_core/locking/redis_lock.py for one key:  *)
(* SET NX EX with a fresh token, a heartbeat task that renews the TTL every *)
(* ttl/2 seconds with a GET followed by an EXPIRE, and a release that       *)
(* deletes the key only if it still holds the caller's token.               *)
(*                                                                          *)
(* A token is a fresh uuid4 per acquisition.  The model names a token by    *)
(* the client whose acquisition made it while that acquisition is live, and *)
(* Orphan once nobody can present it any more (its client died, or its      *)
(* release was skipped).                                                    *)
(*                                                                          *)
(* Time is discrete.  MaxLag bounds how many ticks the event loop may leave *)
(* a heartbeat step that is due without running it: asyncio gives no bound, *)
(* so the promises that need one say so.                                    *)
(***************************************************************************)
EXTENDS Naturals

CONSTANTS
    Clients,      \* processes that call acquire() on this key
    TTL,          \* ttl_seconds, in ticks
    MaxLag,       \* ticks a due heartbeat step may be delayed
    RedisErrors,  \* may a Redis call of the heartbeat raise?
    Nobody,       \* no token stored under the key
    Orphan        \* a token no live acquisition knows

ASSUME LockConstants ==
    /\ TTL \in Nat /\ TTL >= 2
    /\ MaxLag \in Nat
    /\ RedisErrors \in BOOLEAN
    /\ Nobody \notin Clients /\ Orphan \notin Clients /\ Nobody # Orphan

VARIABLES
    token,     \* value stored under the key
    ttl,       \* ticks until Redis deletes the key
    cs,        \* per client: inside the "async with" body?
    hb,        \* per client: what its heartbeat task is doing
    timer,     \* per client: ticks until the heartbeat's sleep ends
    lag        \* per client: ticks its due heartbeat step has waited

vars == <<token, ttl, cs, hb, timer, lag>>

\* Faulty variant: sleeping a whole TTL between renewals.
IntervalWholeTTL == TTL

\* interval = max(ttl_seconds / 2, 1)
Interval == IF TTL \div 2 >= 1 THEN TTL \div 2 ELSE 1

\* "sleep": in asyncio.sleep.  "renew": GET answered with its own token and
\* EXPIRE is next.  "gone": the loop broke out.  "dead": a Redis call raised.
HeartbeatState == {"off", "sleep", "renew", "gone", "dead"}

TypeOK ==
    /\ token \in Clients \cup {Nobody, Orphan}
    /\ ttl \in 0..TTL
    /\ cs \in [Clients -> BOOLEAN]
    /\ hb \in [Clients -> HeartbeatState]
    /\ timer \in [Clients -> 0..Interval]
    /\ lag \in [Clients -> 0..MaxLag]

Init ==
    /\ token = Nobody
    /\ ttl = 0
    /\ cs = [c \in Clients |-> FALSE]
    /\ hb = [c \in Clients |-> "off"]
    /\ timer = [c \in Clients |-> 0]
    /\ lag = [c \in Clients |-> 0]

\* The heartbeat of c has something to do now.
Due(c) == hb[c] = "renew" \/ (hb[c] = "sleep" /\ timer[c] = 0)

\* Faulty variant: SET without NX.
KeyIsFreeWithoutNX == TRUE

\* The NX condition.
KeyIsFree == token = Nobody

----------------------------------------------------------------------------
\* SET key token NX EX ttl answered OK; the heartbeat task starts sleeping.
\* A SET that finds the key raises LockAcquisitionError and changes nothing.
Acquire(c) ==
    /\ ~cs[c]
    /\ KeyIsFree
    /\ token' = c
    /\ ttl' = TTL
    /\ cs' = [cs EXCEPT ![c] = TRUE]
    /\ hb' = [hb EXCEPT ![c] = "sleep"]
    /\ timer' = [timer EXCEPT ![c] = Interval]
    /\ lag' = [lag EXCEPT ![c] = 0]

\* Faulty variant: renewing whatever token is there.
StillMineUnchecked(c) == token # Nobody

\* The answer to GET is this acquisition's own token.
StillMine(c) == token = c

\* The sleep is over: GET, then renew, or stop if the key is gone or foreign.
HeartbeatGet(c) ==
    /\ hb[c] = "sleep"
    /\ timer[c] = 0
    /\ hb' = [hb EXCEPT ![c] = IF StillMine(c) THEN "renew" ELSE "gone"]
    /\ UNCHANGED <<token, ttl, cs, timer, lag>>

\* Faulty variant: adding the TTL to what is left.
RenewedTTLAdds == IF token = Nobody THEN ttl ELSE ttl + TTL

\* What EXPIRE leaves behind.
RenewedTTL == IF token = Nobody THEN ttl ELSE TTL

\* EXPIRE key ttl: whatever token the key holds by now, nothing if no key.
HeartbeatExpire(c) ==
    /\ hb[c] = "renew"
    /\ ttl' = RenewedTTL
    /\ hb' = [hb EXCEPT ![c] = "sleep"]
    /\ timer' = [timer EXCEPT ![c] = Interval]
    /\ lag' = [lag EXCEPT ![c] = 0]
    /\ UNCHANGED <<token, cs>>

\* A Redis error ends the heartbeat task; nobody looks at it before release.
HeartbeatDies(c) ==
    /\ RedisErrors
    /\ Due(c)
    /\ hb' = [hb EXCEPT ![c] = "dead"]
    /\ UNCHANGED <<token, ttl, cs, timer, lag>>

\* Faulty variant: DEL without the comparison.
DeleteUnconditionally(c) == token' = Nobody /\ ttl' = 0

\* DEL only if the key still holds the caller's token (one Lua script).
CompareAndDelete(c) ==
    IF token = c
    THEN token' = Nobody /\ ttl' = 0
    ELSE UNCHANGED <<token, ttl>>

\* Leaving the body: cancel the heartbeat and await it.  Only a cancellation
\* is suppressed, so a heartbeat that died of a Redis error re-raises here and
\* the delete is skipped; the token is then known to nobody.
Release(c) ==
    /\ cs[c]
    /\ IF hb[c] = "dead"
       THEN /\ token' = IF token = c THEN Orphan ELSE token
            /\ UNCHANGED ttl
       ELSE CompareAndDelete(c)
    /\ cs' = [cs EXCEPT ![c] = FALSE]
    /\ hb' = [hb EXCEPT ![c] = "off"]
    /\ timer' = [timer EXCEPT ![c] = 0]
    /\ lag' = [lag EXCEPT ![c] = 0]

\* The process dies inside the body; its heartbeat dies with it.
Crash(c) ==
    /\ cs[c]
    /\ token' = IF token = c THEN Orphan ELSE token
    /\ cs' = [cs EXCEPT ![c] = FALSE]
    /\ hb' = [hb EXCEPT ![c] = "off"]
    /\ timer' = [timer EXCEPT ![c] = 0]
    /\ lag' = [lag EXCEPT ![c] = 0]
    /\ UNCHANGED ttl

\* One tick of the clock: sleeps and the key's TTL run down, Redis deletes the
\* key at zero.  The clock does not outrun MaxLag.
Tick ==
    /\ \A c \in Clients : Due(c) => lag[c] < MaxLag
    /\ ttl' = IF ttl > 0 THEN ttl - 1 ELSE 0
    /\ token' = IF ttl <= 1 THEN Nobody ELSE token
    /\ timer' = [c \in Clients |-> IF timer[c] > 0 THEN timer[c] - 1 ELSE 0]
    /\ lag' = [c \in Clients |-> IF Due(c) THEN lag[c] + 1 ELSE lag[c]]
    /\ UNCHANGED <<cs, hb>>

Heartbeat(c) == HeartbeatGet(c) \/ HeartbeatExpire(c) \/ HeartbeatDies(c)

Next ==
    \/ \E c \in Clients : Acquire(c) \/ Heartbeat(c) \/ Release(c) \/ Crash(c)
    \/ Tick

Spec == Init /\ [][Next]_vars

\* Time passes, and a heartbeat that is due runs.  Nothing forces a client to
\* take the lock, to leave its body or to die.
FairSpec ==
    Spec /\ WF_vars(Tick)
         /\ \A c \in Clients : WF_vars(HeartbeatGet(c) \/ HeartbeatExpire(c))

----------------------------------------------------------------------------
\* The renewal margin: a heartbeat scheduled within MaxLag ticks of its due
\* time reaches EXPIRE before the key runs out.
Timely == Interval + MaxLag < TTL /\ ~RedisErrors

\* README "Split-brain prevention" and redis_lock.py:29-58: two clients are
\* never inside the lock body at the same time.
MutualExclusion ==
    \A c, d \in Clients : cs[c] /\ cs[d] => c = d

\* A client inside the body still owns the key: the lease never ran out under
\* it (the heartbeat loop of redis_lock.py:60-72 keeps ahead of the TTL).
HolderOwnsKey == \A c \in Clients : cs[c] => token = c

\* The strengthening that makes HolderOwnsKey inductive: until its next EXPIRE
\* the holder's key outlives the rest of the sleep plus the lag still allowed.
LeaseMargin ==
    \A c \in Clients : cs[c] =>
        /\ token = c
        /\ hb[c] \in {"sleep", "renew"}
        /\ hb[c] = "renew" => timer[c] = 0
        /\ (timer[c] > 0) => lag[c] = 0
        /\ ttl > timer[c] + (MaxLag - lag[c])

\* A key that holds the token of a live holder disappears only by that
\* holder's own release or by its TTL: no release, crash or late EXPIRE of a
\* client that lost the lock takes it away (the Lua script, redis_lock.py:10-17).
OnlyOwnerOrExpiryFrees ==
    [][\A c \in Clients :
          (token = c /\ cs[c] /\ token' # c) => (~cs'[c] \/ ttl <= 1)]_vars

\* A key left behind by a dead client expires: a late EXPIRE of someone else's
\* heartbeat can postpone that, not prevent it.
OrphanExpires == (token = Orphan) ~> (token # Orphan)

----------------------------------------------------------------------------
\* The lock as its users see it.  A live holder may lose it only if the
\* heartbeat has no margin.
Lease == INSTANCE LeaseLock WITH
    inside <- {c \in Clients : cs[c]},
    LeaseMayExpire <- ~Timely

\* README "Split-brain prevention", redis_lock.py:28-72: a token is stored only
\* under a free key and taken away only by its owner, its owner's death and
\* its TTL, and with timely heartbeats the TTL spares live holders.
ImplementsLease == Lease!Spec

\* With timely heartbeats the Redis lock is a mutual exclusion lock.
ImplementsMutex == Lease!Abstract!Spec

\* A client's token does not outlive its stay in the body.
TokenIsLive == token \in Clients => cs[token]
==============================================================================
