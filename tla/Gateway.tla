------------------------------- MODULE Gateway -------------------------------
(***************************************************************************)
(* One tenant's requests through the API gateway (routes/proxy.py): token, *)
(* fixed-window rate limit, idempotency key, upstream call, and the key's  *)
(* deletion after a 5xx.  The upstream services are modelled by the order  *)
(* in which the two deduplicated endpoints commit and answer.              *)
(*                                                                         *)
(* Time is discrete and spans a few windows of the rate limiter: the 24    *)
(* hours of an idempotency key do not end within it.  A retry is another   *)
(* request with the same key.                                              *)
(***************************************************************************)
EXTENDS Naturals, FiniteSets

CONSTANTS
    Requests,    \* requests that clients may make
    Keys,        \* values of the Idempotency-Key header
    Nobody,      \* not a request
    Limit,       \* requests_per_minute
    Window,      \* _WINDOW_SECONDS, in ticks
    CounterTTL,  \* _TTL_SECONDS, in ticks
    MaxDelay,    \* ticks between time.time() and the INCR, at most
    MaxTime,     \* bound: ticks
    MaxFaults    \* bound: faults of any kind

ASSUME GatewayConstants ==
    /\ IsFiniteSet(Requests) /\ Nobody \notin Requests
    /\ Limit \in Nat /\ Window \in Nat \ {0} /\ CounterTTL \in Nat
    /\ MaxDelay \in Nat /\ MaxTime \in Nat /\ MaxFaults \in Nat

NoKey == "no key"
ASSUME NoKeyIsNoKey == NoKey \notin Keys

\* POST .../execute and POST /v1/memory/items with the header; anything else.
Calls == [endpoint : {"execute", "store"}, key : Keys]
            \cup {[endpoint |-> "other", key |-> NoKey]}

VARIABLES
    now,       \* time.time()
    rate,      \* per window: the counter rate:{tenant}:{window}
    until,     \* per window: when its counter expires
    owner,     \* per key: the request that stored idempotency:{tenant}:{key}
    pc,        \* per request: where its handler is
    call,      \* per request: its endpoint and key
    arrived,   \* per request: the time the rate limiter read
    status,    \* per request: the answer the client got
    admitted,  \* requests that passed the rate limiter
    upstream,  \* per request: its transaction in the upstream service
    reply,     \* per request: what the upstream service answered
    faults     \* failed calls and processes that died

rateVars == <<now, rate, until, admitted>>
handlerVars == <<pc, call, arrived, status>>
upstreamVars == <<upstream, reply>>
vars == <<rateVars, owner, handlerVars, upstreamVars, faults>>

Windows == 0 .. MaxTime \div Window
WindowOf(t) == t \div Window

HandlerPC == {"idle", "count", "key", "sent", "delete", "done"}
Answer == {"2xx", "4xx", "5xx"}
Refusal == {"401", "409", "429"}

\* running: not committed; created: committed, not answered; answered: the
\* opposite.
Transaction == {"none", "running", "created", "answered", "committed", "rolled back"}

TypeOK ==
    /\ now \in 0 .. MaxTime
    /\ rate \in [Windows -> Nat] /\ until \in [Windows -> Nat]
    /\ owner \in [Keys -> Requests \cup {Nobody}]
    /\ pc \in [Requests -> HandlerPC]
    /\ call \in [Requests -> Calls]
    /\ arrived \in [Requests -> 0 .. MaxTime]
    /\ status \in [Requests -> Answer \cup Refusal \cup {"none", "raised"}]
    /\ \A q \in Requests : status[q] = "none" <=> pc[q] # "done"
    /\ admitted \subseteq Requests
    /\ upstream \in [Requests -> Transaction]
    /\ reply \in [Requests -> Answer \cup {"none"}]
    /\ faults \in Nat

Init ==
    /\ now = 0
    /\ rate = [w \in Windows |-> 0] /\ until = [w \in Windows |-> 0]
    /\ owner = [k \in Keys |-> Nobody]
    /\ pc = [q \in Requests |-> "idle"]
    /\ call = [q \in Requests |-> [endpoint |-> "other", key |-> NoKey]]
    /\ arrived = [q \in Requests |-> 0]
    /\ status = [q \in Requests |-> "none"]
    /\ admitted = {}
    /\ upstream = [q \in Requests |-> "none"]
    /\ reply = [q \in Requests |-> "none"]
    /\ faults = 0

Strike == faults < MaxFaults /\ faults' = faults + 1

----------------------------------------------------------------------------
(* The handler *)

Goto(q, label) == pc' = [pc EXCEPT ![q] = label]

Finish(q, answer) ==
    /\ Goto(q, "done")
    /\ status' = [status EXCEPT ![q] = answer]

\* get_tenant_id: 401 without a valid token.  RateLimiter.check reads the clock
\* before anything else is awaited.
Arrive(q) ==
    /\ pc[q] = "idle"
    /\ arrived' = [arrived EXCEPT ![q] = now]
    /\ \E c \in Calls : call' = [call EXCEPT ![q] = c]
    /\ \/ Goto(q, "count") /\ UNCHANGED status
       \/ Finish(q, "401")
    /\ UNCHANGED <<rateVars, owner, upstreamVars, faults>>

HasKey(q) == call[q].endpoint # "other"

Forward(q) ==
    /\ Goto(q, "sent")
    /\ upstream' = [upstream EXCEPT ![q] = "running"]
    /\ UNCHANGED <<status, reply>>

\* Faulty variant: the TTL is one window.
ExpiryOneWindow == now + Window

Expiry == now + CounterTTL

\* _INCR_WITH_TTL_SCRIPT on the window of the time read before.
Incr(q) ==
    LET w == WindowOf(arrived[q]) IN
    /\ rate' = [rate EXCEPT ![w] = @ + 1]
    /\ until' = IF rate[w] = 0 THEN [until EXCEPT ![w] = Expiry] ELSE until

Exceeded(count) == count > Limit

Count(q) ==
    /\ pc[q] = "count"
    /\ Incr(q)
    /\ IF Exceeded(rate'[WindowOf(arrived[q])])
       THEN Finish(q, "429") /\ UNCHANGED <<admitted, upstreamVars>>
       ELSE /\ admitted' = admitted \cup {q}
            /\ \/ HasKey(q) /\ Goto(q, "key") /\ UNCHANGED <<status, upstreamVars>>
               \/ ~HasKey(q) /\ Forward(q)
    /\ UNCHANGED <<now, owner, call, arrived, faults>>

\* Faulty variant: SET without NX.
IsNewUnchecked(k) == TRUE

IsNew(k) == owner[k] = Nobody

\* SET NX EX on the key that only the tenant and the header determine.
TakeKey(q) ==
    /\ pc[q] = "key"
    /\ IF IsNew(call[q].key)
       THEN owner' = [owner EXCEPT ![call[q].key] = q] /\ Forward(q)
       ELSE Finish(q, "409") /\ UNCHANGED <<owner, upstreamVars>>
    /\ UNCHANGED <<rateVars, call, arrived, faults>>

\* Faulty variant: only codes above 500 count as failures.
FailedAbove500(answer) == FALSE

Failed(answer) == answer = "5xx"

\* Faulty variant: an answer before the upstream service has replied.
RepliedOrNot(q) == TRUE

Replied(q) == reply[q] # "none"

Receive(q) ==
    /\ pc[q] = "sent" /\ Replied(q)
    /\ \/ /\ HasKey(q) /\ Failed(reply[q])
          /\ Goto(q, "delete")
          /\ UNCHANGED status
       \/ ~(HasKey(q) /\ Failed(reply[q])) /\ Finish(q, reply[q])
    /\ UNCHANGED <<rateVars, owner, call, arrived, upstreamVars, faults>>

Deleted(q) == [owner EXCEPT ![call[q].key] = Nobody]

DeleteKey(q) ==
    /\ pc[q] = "delete"
    /\ owner' = Deleted(q)
    /\ Finish(q, reply[q])
    /\ UNCHANGED <<rateVars, call, arrived, upstreamVars, faults>>

\* Faulty variant: the key is deleted when the upstream call raises, too.
KeyAfterRaiseDeleted(q) == IF HasKey(q) THEN Deleted(q) ELSE owner

\* httpx raises past step 6 of proxy: the key stays.
KeyAfterRaise(q) == owner

\* A timeout, a refused connection, the gateway's own death.
CallRaises(q) ==
    /\ pc[q] = "sent"
    /\ Strike
    /\ owner' = KeyAfterRaise(q)
    /\ Finish(q, "raised")
    /\ UNCHANGED <<rateVars, call, arrived, upstreamVars>>

\* Redis raises; the command may have been carried out.
RedisRaises(q) ==
    /\ Strike
    /\ Finish(q, "raised")
    /\ \/ pc[q] = "count" /\ Incr(q) /\ UNCHANGED owner
       \/ pc[q] = "key" /\ IsNew(call[q].key)
             /\ owner' = [owner EXCEPT ![call[q].key] = q]
             /\ UNCHANGED <<rate, until>>
       \/ pc[q] = "delete" /\ owner' = Deleted(q) /\ UNCHANGED <<rate, until>>
       \/ pc[q] \in {"count", "key", "delete"} /\ UNCHANGED <<rate, until, owner>>
    /\ UNCHANGED <<now, admitted, call, arrived, upstreamVars>>

----------------------------------------------------------------------------
(* The upstream service *)

Transact(q, from, to) ==
    /\ upstream[q] = from
    /\ upstream' = [upstream EXCEPT ![q] = to]
    /\ UNCHANGED <<rateVars, owner, handlerVars>>

Respond(q, answer) == reply' = [reply EXCEPT ![q] = answer] /\ UNCHANGED faults

\* An HTTPException, or an exception before the commit.
Refuses(q) ==
    /\ Transact(q, "running", "rolled back")
    /\ Respond(q, "4xx") \/ Respond(q, "5xx")

\* execute commits the new execution, then enqueues it: delay() may raise.
Creates(q) ==
    /\ call[q].endpoint = "execute"
    /\ Transact(q, "running", "created")
    /\ UNCHANGED <<reply, faults>>

Enqueues(q) ==
    /\ Transact(q, "created", "committed")
    /\ Respond(q, "2xx") \/ Respond(q, "5xx")

\* The session of store_memory commits after the response is sent, or fails to.
Answers(q) ==
    /\ call[q].endpoint # "execute"
    /\ Transact(q, "running", "answered")
    /\ Respond(q, "2xx")

Commits(q) ==
    /\ Transact(q, "answered", "committed") \/ Transact(q, "answered", "rolled back")
    /\ UNCHANGED <<reply, faults>>

\* The service dies: no reply.
Dies(q) ==
    /\ Transact(q, "running", "rolled back") \/ Transact(q, "created", "committed")
    /\ Strike
    /\ UNCHANGED reply

----------------------------------------------------------------------------
(* Time *)

Tick ==
    /\ now < MaxTime
    /\ \A q \in Requests : pc[q] = "count" => now - arrived[q] < MaxDelay
    /\ now' = now + 1
    /\ rate' = [w \in Windows |-> IF until[w] = now' THEN 0 ELSE rate[w]]
    /\ UNCHANGED <<until, admitted, owner, handlerVars, upstreamVars, faults>>

Handle(q) == Arrive(q) \/ Count(q) \/ TakeKey(q) \/ Receive(q) \/ DeleteKey(q)
Serve(q) == Refuses(q) \/ Creates(q) \/ Enqueues(q) \/ Answers(q) \/ Commits(q)
Fault(q) == CallRaises(q) \/ RedisRaises(q) \/ Dies(q)

Next == Tick \/ \E q \in Requests : Handle(q) \/ Serve(q) \/ Fault(q)

Spec == Init /\ [][Next]_vars

----------------------------------------------------------------------------
(* Properties *)

WithKey(k) == {q \in Requests : HasKey(q) /\ call[q].key = k}

\* proxy.py 89-104: at most one transaction with a key is open upstream, even
\* one the gateway has given up waiting for.
OneUpstreamPerKey ==
    \A k \in Keys : \A p, q \in WithKey(k) :
        {upstream[p], upstream[q]} \subseteq {"running", "created", "answered"} => p = q

\* proxy.py 147-150: retries after failures of any kind store at most one memory
\* item per key, since a 5xx of store_memory means that it has not committed.
OneItemPerKey ==
    \A k \in Keys : \A p, q \in WithKey(k) :
        /\ {call[p].endpoint, call[q].endpoint} = {"store"}
        /\ {upstream[p], upstream[q]} = {"committed"}
        => p = q

\* README "key cleared on 5xx so clients can retry": a key belongs to a request
\* under way or to one answered for good, unless a call raised.
KeyFreedAfter5xx ==
    faults = 0 => \A k \in Keys :
        \/ owner[k] = Nobody
        \/ pc[owner[k]] \in {"sent", "delete"}
        \/ status[owner[k]] \in {"2xx", "4xx"}

AdmittedIn(times) == {q \in admitted : arrived[q] \in times}
Counted(w) == {q \in admitted : WindowOf(arrived[q]) = w}

\* rate_limit.py 39-40: no window admits more than the limit, because the
\* counter outlives every request that will still count in it.
WindowHolds ==
    MaxDelay + Window <= CounterTTL =>
        \A w \in Windows : Cardinality(Counted(w)) <= Limit

\* rate_limit.py 32-33: any span of one window's length admits twice the limit.
BurstAtMostTwice ==
    MaxDelay + Window <= CounterTTL => \A t \in 0 .. MaxTime :
        Cardinality(AdmittedIn(t .. t + Window - 1)) <= 2 * Limit

----------------------------------------------------------------------------
(* Strengthenings that make the properties of the keys inductive *)

\* A key names the request that took it, and only a forwarded request can.
OwnerTookKey ==
    \A k \in Keys : owner[k] # Nobody =>
        /\ HasKey(owner[k]) /\ call[owner[k]].key = k
        /\ pc[owner[k]] \in {"sent", "delete", "done"}

\* What a request may still do, or has done, upstream that its key has to guard.
Guarded(q) ==
    \/ upstream[q] \in {"running", "created", "answered"}
    \/ call[q].endpoint = "store" /\ upstream[q] = "committed"

KeyGuards ==
    \A q \in Requests : HasKey(q) /\ (pc[q] \in {"sent", "delete"} \/ Guarded(q))
        => owner[call[q].key] = q

\* The upstream service answers a forwarded request once, and a 5xx tells that
\* nothing is open and no item is stored.
RepliesOnce ==
    \A q \in Requests :
        /\ pc[q] \in {"idle", "count", "key"} => upstream[q] = "none"
        /\ pc[q] = "key" => HasKey(q)
        /\ upstream[q] = "created" => call[q].endpoint = "execute"
        /\ upstream[q] \in {"none", "running", "created"} => reply[q] = "none"
        /\ reply[q] = "5xx" => ~Guarded(q)
        /\ pc[q] = "delete" => HasKey(q) /\ reply[q] = "5xx"

\* Tick leaves a request that has read the clock MaxDelay ticks to be counted.
CountsInTime ==
    \A q \in Requests :
        /\ arrived[q] <= now
        /\ pc[q] = "count" => now <= arrived[q] + MaxDelay
        /\ q \in admitted => pc[q] \notin {"idle", "count"}

\* A counter does not expire before its window and the delay are over; until
\* then it counts at least the requests admitted.
CounterLives ==
    MaxDelay + Window <= CounterTTL => \A w \in Windows :
        /\ rate[w] > 0 => now < until[w] /\ Window * w + CounterTTL <= until[w]
        /\ \/ Cardinality(Counted(w)) <= rate[w]
           \/ Window * (w + 1) + MaxDelay <= now
=============================================================================
