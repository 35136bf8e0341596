--------------------------- MODULE Gateway_proofs ---------------------------
(***************************************************************************)
(* Proofs about the idempotency keys and the rate counters of Gateway, for *)
(* any requests, keys, limits, delays and faults.                          *)
(***************************************************************************)
EXTENDS Gateway, FiniteSetTheorems, TLAPS

\* The rate limiter's part of a step, which the keys do not depend on.
LEMMA CounterTypes ==
    ASSUME TypeOK, NEW q \in Requests, Incr(q)
    PROVE  rate' \in [Windows -> Nat] /\ until' \in [Windows -> Nat]
<1>1. Expiry \in Nat
  BY GatewayConstants DEF Expiry, TypeOK
<1>2. rate' \in [Windows -> Nat]
  <2>1. PICK w : rate' = [rate EXCEPT ![w] = rate[w] + 1]
    BY DEF Incr
  <2>2. \A v \in Windows : rate[v] \in Nat /\ rate[v] + 1 \in Nat
    BY DEF TypeOK
  <2> QED
    BY <2>1, <2>2 DEF TypeOK
<1>3. until' \in [Windows -> Nat]
  BY <1>1 DEF Incr, TypeOK
<1> QED
  BY <1>2, <1>3

\* What an answer of the handler writes (proxy.py:119-152).
LEMMA FinishTypes ==
    ASSUME TypeOK, NEW q \in Requests, NEW a \in Answer \cup Refusal \cup {"raised"},
           Finish(q, a)
    PROVE  /\ pc' \in [Requests -> HandlerPC]
           /\ status' \in [Requests -> Answer \cup Refusal \cup {"none", "raised"}]
           /\ \A r \in Requests : status'[r] = "none" <=> pc'[r] # "done"
<1>1. a # "none"
  BY DEF Answer, Refusal
<1> QED
  BY <1>1 DEF TypeOK, Finish, Goto, HandlerPC

\* What going on without an answer writes.
LEMMA GotoTypes ==
    ASSUME TypeOK, NEW q \in Requests, NEW l \in HandlerPC \ {"done"}, pc[q] # "done",
           Goto(q, l)
    PROVE  /\ pc' \in [Requests -> HandlerPC]
           /\ \A r \in Requests : status[r] = "none" <=> pc'[r] # "done"
BY DEF TypeOK, Goto

\* The service starts with nothing counted, kept or forwarded.
LEMMA TypeInit == Init => TypeOK
<1> SUFFICES ASSUME Init PROVE TypeOK
  OBVIOUS
<1>1. 0 \in 0 .. MaxTime
  BY GatewayConstants
<1>2. /\ now \in 0 .. MaxTime /\ arrived \in [Requests -> 0 .. MaxTime]
      /\ rate \in [Windows -> Nat] /\ until \in [Windows -> Nat]
  BY <1>1 DEF Init
<1>3. call \in [Requests -> Calls]
  BY DEF Init, Calls
<1> QED
  BY <1>2, <1>3 DEF Init, TypeOK, HandlerPC, Transaction

\* The handler's steps, and those in which it or Redis fails.
LEMMA HandlerTypes ==
    ASSUME TypeOK, RepliesOnce, NEW q \in Requests, Handle(q) \/ CallRaises(q) \/ RedisRaises(q)
    PROVE  TypeOK'
<1> USE DEF rateVars, upstreamVars
<1>1. CASE Arrive(q)
  <2>1. call' \in [Requests -> Calls] /\ arrived' \in [Requests -> 0 .. MaxTime]
    BY <1>1 DEF Arrive, TypeOK
  <2>2. CASE Goto(q, "count") /\ UNCHANGED status
    BY <1>1, <2>1, <2>2, GotoTypes DEF Arrive, TypeOK, HandlerPC
  <2>3. CASE Finish(q, "401")
    BY <1>1, <2>1, <2>3, FinishTypes DEF Arrive, TypeOK, Refusal
  <2> QED
    BY <1>1, <2>2, <2>3 DEF Arrive
<1>2. CASE Count(q)
  <2>1. /\ rate' \in [Windows -> Nat] /\ until' \in [Windows -> Nat]
        /\ pc[q] = "count" /\ UNCHANGED <<now, owner, call, arrived, faults>>
    BY <1>2, CounterTypes DEF Count
  <2>2. CASE Finish(q, "429") /\ UNCHANGED <<admitted, upstreamVars>>
    BY <2>1, <2>2, FinishTypes DEF TypeOK, Refusal
  <2>3. CASE admitted' = admitted \cup {q} /\ Goto(q, "key") /\ UNCHANGED <<status, upstreamVars>>
    BY <2>1, <2>3, GotoTypes DEF TypeOK, HandlerPC
  <2>4. CASE admitted' = admitted \cup {q} /\ Forward(q)
    <3>1. Goto(q, "sent") /\ status' = status /\ reply' = reply
      BY <2>4 DEF Forward
    <3>2. upstream' \in [Requests -> Transaction]
      BY <2>4 DEF Forward, TypeOK, Transaction
    <3> QED
      BY <2>1, <2>4, <3>1, <3>2, GotoTypes DEF TypeOK, HandlerPC
  <2> QED
    BY <1>2, <2>2, <2>3, <2>4 DEF Count
<1>3. CASE TakeKey(q)
  <2>1. pc[q] = "key" /\ UNCHANGED <<rateVars, call, arrived, faults>>
    BY <1>3 DEF TakeKey
  <2>2. CASE owner' = [owner EXCEPT ![call[q].key] = q] /\ Forward(q)
    <3>1. Goto(q, "sent") /\ status' = status /\ reply' = reply
      BY <2>2 DEF Forward
    <3>2. upstream' \in [Requests -> Transaction]
      BY <2>2 DEF Forward, TypeOK, Transaction
    <3>3. owner' \in [Keys -> Requests \cup {Nobody}]
      BY <2>2 DEF TypeOK
    <3> QED
      BY <2>1, <3>1, <3>2, <3>3, GotoTypes DEF TypeOK, HandlerPC
  <2>3. CASE Finish(q, "409") /\ UNCHANGED <<owner, upstreamVars>>
    BY <2>1, <2>3, FinishTypes DEF TypeOK, Refusal
  <2> QED
    BY <1>3, <2>2, <2>3 DEF TakeKey
<1>4. CASE Receive(q)
  <2>1. reply[q] \in Answer
    BY <1>4 DEF Receive, Replied, TypeOK
  <2>2. CASE Goto(q, "delete") /\ UNCHANGED status
    BY <1>4, <2>2, GotoTypes DEF Receive, TypeOK, HandlerPC
  <2>3. CASE Finish(q, reply[q])
    BY <1>4, <2>1, <2>3, FinishTypes DEF Receive, TypeOK
  <2> QED
    BY <1>4, <2>2, <2>3 DEF Receive
<1>5. ASSUME pc[q] = "delete", owner' = Deleted(q) \/ owner' = owner
      PROVE  owner' \in [Keys -> Requests \cup {Nobody}]
  BY <1>5 DEF Deleted, TypeOK
<1>6. CASE DeleteKey(q)
  <2>1. reply[q] \in Answer
    BY <1>6 DEF DeleteKey, RepliesOnce, Answer
  <2> QED
    BY <1>5, <1>6, <2>1, FinishTypes DEF DeleteKey, TypeOK
<1>7. CASE CallRaises(q)
  BY <1>7, FinishTypes DEF CallRaises, KeyAfterRaise, Strike, TypeOK
<1>8. CASE RedisRaises(q)
  <2>1. owner' \in [Keys -> Requests \cup {Nobody}]
    BY <1>5, <1>8 DEF RedisRaises, Deleted, TypeOK
  <2>2. rate' \in [Windows -> Nat] /\ until' \in [Windows -> Nat]
    BY <1>8, CounterTypes DEF RedisRaises, TypeOK
  <2>3. faults' \in Nat /\ Finish(q, "raised")
    BY <1>8 DEF RedisRaises, Strike, TypeOK
  <2>4. UNCHANGED <<now, admitted, call, arrived, upstreamVars>>
    BY <1>8 DEF RedisRaises
  <2> QED
    BY <2>1, <2>2, <2>3, <2>4, FinishTypes DEF TypeOK
<1> QED
  BY <1>1, <1>2, <1>3, <1>4, <1>6, <1>7, <1>8 DEF Handle

\* The upstream service's steps.
LEMMA ServiceTypes ==
    ASSUME TypeOK, NEW q \in Requests, Serve(q) \/ Dies(q)
    PROVE  TypeOK'
<1>1. \E to \in Transaction : upstream' = [upstream EXCEPT ![q] = to]
  BY DEF Serve, Refuses, Creates, Enqueues, Answers, Commits, Dies, Transact, Transaction
<1>2. reply' = reply \/ \E a \in Answer : reply' = [reply EXCEPT ![q] = a]
  BY DEF Serve, Refuses, Creates, Enqueues, Answers, Commits, Dies, Respond, Answer
<1>3. UNCHANGED <<rateVars, owner, handlerVars>>
  BY DEF Serve, Refuses, Creates, Enqueues, Answers, Commits, Dies, Transact
<1>4. faults' \in Nat
  <2>1. faults' = faults \/ faults' = faults + 1
    BY DEF Serve, Refuses, Creates, Enqueues, Answers, Commits, Dies, Respond, Strike
  <2> QED
    BY <2>1 DEF TypeOK
<1>5. upstream' \in [Requests -> Transaction]
  BY <1>1 DEF TypeOK
<1>6. reply' \in [Requests -> Answer \cup {"none"}]
  BY <1>2 DEF TypeOK
<1> QED
  BY <1>3, <1>4, <1>5, <1>6 DEF TypeOK, rateVars, handlerVars

\* Time.
LEMMA TickTypes == ASSUME TypeOK, Tick PROVE TypeOK'
<1>1. now' \in 0 .. MaxTime
  BY GatewayConstants DEF Tick, TypeOK
<1>2. rate' \in [Windows -> Nat]
  BY DEF Tick, TypeOK
<1> QED
  BY <1>1, <1>2 DEF Tick, TypeOK, handlerVars, upstreamVars

----------------------------------------------------------------------------
\* What the keys, the handlers and the upstream transactions know of each other.
IInv == TypeOK /\ RepliesOnce /\ OwnerTookKey /\ KeyGuards

\* Nobody has asked for anything.
LEMMA InvariantInit == Init => IInv
<1> SUFFICES ASSUME Init PROVE IInv
  OBVIOUS
<1>1. TypeOK
  BY TypeInit
<1>2. RepliesOnce /\ OwnerTookKey /\ KeyGuards
  BY DEF Init, RepliesOnce, OwnerTookKey, KeyGuards, Guarded, HasKey
<1> QED
  BY <1>1, <1>2 DEF IInv

\* A key's owner is a request; the key of a request that carries one is a key.
LEMMA KeysAreKeys ==
    ASSUME TypeOK
    PROVE  /\ \A q \in Requests : HasKey(q) => call[q].key \in Keys
           /\ \A k \in Keys : owner[k] # Nobody => owner[k] \in Requests
BY DEF TypeOK, HasKey, Calls

\* The steps of the handler that neither take nor free a key.
LEMMA OwnerUnchangedStep ==
    ASSUME IInv, NEW q \in Requests,
           Arrive(q) \/ Count(q) \/ Receive(q) \/ CallRaises(q)
    PROVE  RepliesOnce' /\ OwnerTookKey' /\ KeyGuards'
<1> USE DEF rateVars, upstreamVars
<1>0. /\ pc \in [Requests -> HandlerPC] /\ upstream \in [Requests -> Transaction]
      /\ call \in [Requests -> Calls] /\ reply \in [Requests -> Answer \cup {"none"}]
  BY DEF IInv, TypeOK
<1>1. CASE Arrive(q)
  <2>1. /\ \E l \in {"count", "done"} : pc' = [pc EXCEPT ![q] = l]
        /\ \E c \in Calls : call' = [call EXCEPT ![q] = c]
        /\ pc[q] = "idle" /\ owner' = owner /\ upstream' = upstream /\ reply' = reply
    BY <1>1 DEF Arrive, Goto, Finish
  <2>2. upstream[q] = "none" /\ \A k \in Keys : owner[k] # q
    BY <2>1, GatewayConstants DEF IInv, RepliesOnce, OwnerTookKey
  <2>3. RepliesOnce'
    BY <1>0, <2>1, <2>2 DEF IInv, RepliesOnce, Guarded, HasKey
  <2>4. OwnerTookKey'
    BY <1>0, <2>1, <2>2, KeysAreKeys DEF IInv, OwnerTookKey, HasKey
  <2>5. KeyGuards'
    BY <1>0, <2>1, <2>2 DEF IInv, KeyGuards, Guarded, HasKey
  <2> QED
    BY <2>3, <2>4, <2>5
<1>2. CASE Count(q)
  <2>1. /\ pc[q] = "count" /\ owner' = owner /\ call' = call /\ reply' = reply
        /\ \/ pc' = [pc EXCEPT ![q] = "done"] /\ upstream' = upstream
           \/ HasKey(q) /\ pc' = [pc EXCEPT ![q] = "key"] /\ upstream' = upstream
           \/ /\ ~HasKey(q) /\ pc' = [pc EXCEPT ![q] = "sent"]
              /\ upstream' = [upstream EXCEPT ![q] = "running"]
    BY <1>2 DEF Count, Finish, Goto, Forward
  <2>2. upstream[q] = "none" /\ reply[q] = "none" /\ \A k \in Keys : owner[k] # q
    BY <2>1, GatewayConstants DEF IInv, RepliesOnce, OwnerTookKey
  <2>3. RepliesOnce'
    BY <1>0, <2>1, <2>2 DEF IInv, RepliesOnce, Guarded, HasKey
  <2>4. OwnerTookKey'
    BY <1>0, <2>1, <2>2, KeysAreKeys DEF IInv, OwnerTookKey, HasKey
  <2>5. KeyGuards'
    BY <1>0, <2>1, <2>2 DEF IInv, KeyGuards, Guarded, HasKey
  <2> QED
    BY <2>3, <2>4, <2>5
<1>3. CASE Receive(q) \/ CallRaises(q)
  <2>1. /\ pc[q] = "sent" /\ owner' = owner /\ call' = call /\ reply' = reply
        /\ upstream' = upstream
        /\ \/ pc' = [pc EXCEPT ![q] = "done"]
           \/ HasKey(q) /\ reply[q] = "5xx" /\ pc' = [pc EXCEPT ![q] = "delete"]
    BY <1>3 DEF Receive, CallRaises, KeyAfterRaise, Finish, Goto, Failed
  <2>3. RepliesOnce'
    BY <1>0, <2>1 DEF IInv, RepliesOnce, Guarded, HasKey
  <2>4. OwnerTookKey'
    BY <1>0, <2>1, KeysAreKeys DEF IInv, OwnerTookKey, HasKey
  <2>5. KeyGuards'
    BY <1>0, <2>1 DEF IInv, KeyGuards, Guarded, HasKey
  <2> QED
    BY <2>3, <2>4, <2>5
<1> QED
  BY <1>1, <1>2, <1>3

\* A key is taken when it is free, so nothing with that key is guarded
\* (proxy.py:89-104); the SET may go through although Redis raises.
LEMMA TakeStep ==
    ASSUME IInv, NEW q \in Requests, pc[q] = "key",
           UNCHANGED <<call, reply>>,
           \/ /\ owner' = owner /\ upstream' = upstream
              /\ pc' = [pc EXCEPT ![q] = "done"]
           \/ /\ owner[call[q].key] = Nobody
              /\ owner' = [owner EXCEPT ![call[q].key] = q]
              /\ \/ upstream' = upstream /\ pc' = [pc EXCEPT ![q] = "done"]
                 \/ /\ upstream' = [upstream EXCEPT ![q] = "running"]
                    /\ pc' = [pc EXCEPT ![q] = "sent"]
    PROVE  RepliesOnce' /\ OwnerTookKey' /\ KeyGuards'
<1>0. /\ pc \in [Requests -> HandlerPC] /\ upstream \in [Requests -> Transaction]
      /\ owner \in [Keys -> Requests \cup {Nobody}] /\ Nobody \notin Requests
  BY GatewayConstants DEF IInv, TypeOK
<1>1. /\ HasKey(q) /\ call[q].key \in Keys /\ upstream[q] = "none" /\ reply[q] = "none"
      /\ \A k \in Keys : owner[k] # q
  BY KeysAreKeys, GatewayConstants DEF IInv, RepliesOnce, OwnerTookKey
<1>2. RepliesOnce'
  BY <1>0, <1>1 DEF IInv, RepliesOnce, Guarded, HasKey
<1>3. OwnerTookKey'
  BY <1>0, <1>1, KeysAreKeys DEF IInv, OwnerTookKey, HasKey
<1>4. KeyGuards'
  BY <1>0, <1>1, KeysAreKeys DEF IInv, KeyGuards, Guarded, HasKey
<1> QED
  BY <1>2, <1>3, <1>4

\* A key is freed only after a 5xx, when its request guards nothing any more
\* (proxy.py:147-150); the DEL may fail.
LEMMA FreeStep ==
    ASSUME IInv, NEW q \in Requests, pc[q] = "delete",
           UNCHANGED <<call, reply, upstream>>, pc' = [pc EXCEPT ![q] = "done"],
           owner' = owner \/ owner' = Deleted(q)
    PROVE  RepliesOnce' /\ OwnerTookKey' /\ KeyGuards'
<1>0. /\ pc \in [Requests -> HandlerPC] /\ owner \in [Keys -> Requests \cup {Nobody}]
  BY DEF IInv, TypeOK
<1>1. /\ HasKey(q) /\ call[q].key \in Keys /\ owner[call[q].key] = q /\ ~Guarded(q)
  BY KeysAreKeys DEF IInv, RepliesOnce, KeyGuards
<1>2. RepliesOnce'
  BY <1>0 DEF IInv, RepliesOnce, Guarded, HasKey
<1>3. OwnerTookKey'
  BY <1>0, <1>1, KeysAreKeys DEF IInv, OwnerTookKey, HasKey, Deleted
<1>4. KeyGuards'
  BY <1>0, <1>1, KeysAreKeys DEF IInv, KeyGuards, Guarded, HasKey, Deleted
<1> QED
  BY <1>2, <1>3, <1>4

\* What a transaction upstream does to its guard (executions.py:29-66,
\* memory.py:103-137).
LEMMA ServiceStep ==
    ASSUME IInv, NEW q \in Requests, Serve(q) \/ Dies(q)
    PROVE  RepliesOnce' /\ OwnerTookKey' /\ KeyGuards'
<1>0. /\ upstream \in [Requests -> Transaction] /\ reply \in [Requests -> Answer \cup {"none"}]
      /\ pc' = pc /\ call' = call /\ owner' = owner
  BY DEF IInv, TypeOK, Serve, Refuses, Creates, Enqueues, Answers, Commits, Dies, Transact,
         handlerVars
<1>1. /\ upstream[q] \in {"running", "created", "answered"}
      /\ \E to \in Transaction : upstream' = [upstream EXCEPT ![q] = to]
      /\ \A r \in Requests \ {q} : upstream'[r] = upstream[r] /\ reply'[r] = reply[r]
      /\ upstream'[q] \in {"running", "created"} => reply'[q] = "none"
      /\ upstream'[q] # "none"
      /\ upstream'[q] = "created" => call[q].endpoint = "execute"
  <2>1. CASE Refuses(q)
    BY <1>0, <2>1 DEF Refuses, Transact, Respond, Transaction
  <2>2. CASE Creates(q)
    BY <1>0, <2>2 DEF Creates, Transact, Transaction, IInv, RepliesOnce
  <2>3. CASE Enqueues(q)
    BY <1>0, <2>3 DEF Enqueues, Transact, Respond, Transaction
  <2>4. CASE Answers(q)
    BY <1>0, <2>4 DEF Answers, Transact, Respond, Transaction
  <2>5. CASE Commits(q)
    BY <1>0, <2>5 DEF Commits, Transact, Transaction
  <2>6. CASE Dies(q)
    BY <1>0, <2>6 DEF Dies, Transact, Transaction
  <2> QED
    BY <2>1, <2>2, <2>3, <2>4, <2>5, <2>6 DEF Serve
<1>2. reply'[q] = "5xx" => ~Guarded(q)'
  <2>1. CASE Refuses(q)
    BY <1>0, <2>1 DEF Refuses, Transact, Respond, Guarded
  <2>2. CASE Creates(q)
    BY <1>0, <2>2 DEF Creates, Transact, IInv, RepliesOnce
  <2>3. CASE Enqueues(q)
    <3>1. call[q].endpoint # "store"
      BY <2>3 DEF Enqueues, Transact, IInv, RepliesOnce
    <3> QED
      BY <1>0, <2>3, <3>1 DEF Enqueues, Transact, Guarded
  <2>4. CASE Answers(q)
    BY <1>0, <2>4 DEF Answers, Transact, Respond
  <2>5. CASE Commits(q)
    BY <1>0, <2>5 DEF Commits, Transact, IInv, RepliesOnce, Guarded
  <2>6. CASE Dies(q)
    BY <1>0, <2>6 DEF Dies, Transact, IInv, RepliesOnce
  <2> QED
    BY <2>1, <2>2, <2>3, <2>4, <2>5, <2>6 DEF Serve
<1>3. RepliesOnce'
  BY <1>0, <1>1, <1>2 DEF IInv, RepliesOnce, Guarded, HasKey
<1>4. OwnerTookKey'
  BY <1>0 DEF IInv, OwnerTookKey, HasKey
<1>5. KeyGuards'
  BY <1>0, <1>1 DEF IInv, KeyGuards, Guarded, HasKey
<1> QED
  BY <1>3, <1>4, <1>5

\* Every step keeps what the keys, the handlers and upstream know of each other.
LEMMA InvariantStep == IInv /\ [Next]_vars => IInv'
<1> SUFFICES ASSUME IInv, [Next]_vars PROVE IInv'
  OBVIOUS
<1> USE DEF IInv
<1>1. CASE UNCHANGED vars
  <2>1. TypeOK'
    BY <1>1 DEF vars, rateVars, handlerVars, upstreamVars, TypeOK
  <2>2. RepliesOnce' /\ OwnerTookKey' /\ KeyGuards'
    BY <1>1 DEF vars, handlerVars, upstreamVars, RepliesOnce, OwnerTookKey, KeyGuards,
                Guarded, HasKey
  <2> QED
    BY <2>1, <2>2
<1>2. CASE Tick
  <2>1. RepliesOnce' /\ OwnerTookKey' /\ KeyGuards'
    BY <1>2 DEF Tick, handlerVars, upstreamVars, RepliesOnce, OwnerTookKey, KeyGuards,
                Guarded, HasKey
  <2> QED
    BY <1>2, <2>1, TickTypes
<1>3. ASSUME NEW q \in Requests, Handle(q) \/ CallRaises(q) \/ RedisRaises(q) PROVE IInv'
  <2>1. TypeOK'
    BY <1>3, HandlerTypes
  <2>2. CASE Arrive(q) \/ Count(q) \/ Receive(q) \/ CallRaises(q)
    BY <2>1, <2>2, OwnerUnchangedStep
  <2>3. CASE TakeKey(q)
    BY <2>1, <2>3, TakeStep
       DEF TakeKey, IsNew, Forward, Finish, Goto, upstreamVars
  <2>4. CASE DeleteKey(q)
    BY <2>1, <2>4, FreeStep DEF DeleteKey, Finish, Goto, upstreamVars
  <2>5. CASE RedisRaises(q)
    <3>1. pc' = [pc EXCEPT ![q] = "done"] /\ UNCHANGED <<call, reply, upstream>>
      BY <2>5 DEF RedisRaises, Finish, Goto, upstreamVars
    <3>2. CASE pc[q] = "count" /\ owner' = owner
      <4>1. upstream[q] = "none"
        BY <3>2 DEF RepliesOnce
      <4>2. RepliesOnce' /\ KeyGuards'
        BY <3>1, <3>2, <4>1 DEF TypeOK, RepliesOnce, KeyGuards, Guarded, HasKey
      <4>3. OwnerTookKey'
        BY <3>1, <3>2, KeysAreKeys DEF TypeOK, OwnerTookKey, HasKey
      <4> QED
        BY <2>1, <4>2, <4>3
    <3>3. CASE pc[q] = "key"
      BY <2>1, <2>5, <3>1, <3>3, TakeStep DEF RedisRaises, IsNew
    <3>4. CASE pc[q] = "delete"
      BY <2>1, <2>5, <3>1, <3>4, FreeStep DEF RedisRaises
    <3> QED
      BY <2>5, <3>2, <3>3, <3>4 DEF RedisRaises
  <2> QED
    BY <1>3, <2>2, <2>3, <2>4, <2>5 DEF Handle
<1>4. ASSUME NEW q \in Requests, Serve(q) \/ Dies(q) PROVE IInv'
  BY <1>4, ServiceTypes, ServiceStep
<1> QED
  BY <1>1, <1>2, <1>3, <1>4 DEF Next, Fault

\* The keys guard what they should, whatever fails.
LEMMA InvariantHolds == Spec => []IInv
BY InvariantInit, InvariantStep, PTL DEF Spec

\* Every variable keeps its type, and a request is done when and only when it has
\* been answered (proxy.py:107-152).
THEOREM TypeCorrect == Spec => []TypeOK
<1>1. IInv => TypeOK
  BY DEF IInv
<1> QED
  BY InvariantHolds, <1>1, PTL

\* proxy.py:89-104, 147-150: one transaction per key is open upstream, although
\* answers, deletions and calls may fail or come late.
THEOREM OneAtATime == Spec => []OneUpstreamPerKey
<1>1. IInv => OneUpstreamPerKey
  BY DEF IInv, KeyGuards, Guarded, OneUpstreamPerKey, WithKey
<1> QED
  BY InvariantHolds, <1>1, PTL

\* proxy.py:147-150, memory.py:103-137: retries with one key store one item.
THEOREM OneItem == Spec => []OneItemPerKey
<1>1. IInv => OneItemPerKey
  <2> SUFFICES ASSUME IInv, NEW k \in Keys, NEW p \in WithKey(k), NEW q \in WithKey(k),
                      {call[p].endpoint, call[q].endpoint} = {"store"},
                      {upstream[p], upstream[q]} = {"committed"}
               PROVE  p = q
    BY DEF OneItemPerKey
  <2>1. Guarded(p) /\ Guarded(q)
    <3>1. call[p].endpoint = "store" /\ call[q].endpoint = "store"
      OBVIOUS
    <3>2. upstream[p] = "committed" /\ upstream[q] = "committed"
      OBVIOUS
    <3> QED
      BY <3>1, <3>2 DEF Guarded
  <2> QED
    BY <2>1 DEF IInv, KeyGuards, WithKey
<1> QED
  BY InvariantHolds, <1>1, PTL

\* proxy.py:147-152: without a fault a key is free again once its request got a
\* 5xx, so the client may retry.
THEOREM RetryAfter5xx == Spec => []KeyFreedAfter5xx
<1>1. Init => KeyFreedAfter5xx
  BY DEF Init, KeyFreedAfter5xx
<1>2. IInv /\ KeyFreedAfter5xx /\ [Next]_vars => KeyFreedAfter5xx'
  <2> SUFFICES ASSUME IInv, KeyFreedAfter5xx, [Next]_vars, faults' = 0,
                      NEW k \in Keys, owner'[k] # Nobody
               PROVE  \/ pc'[owner'[k]] \in {"sent", "delete"}
                      \/ status'[owner'[k]] \in {"2xx", "4xx"}
    BY DEF KeyFreedAfter5xx
  <2> USE DEF IInv
  <2>1. faults = 0 /\ ~Strike
    <3>1. faults \in Nat /\ (faults' = faults \/ Strike)
      BY DEF TypeOK, Next, vars, Tick, Handle, Arrive, Count, TakeKey, Receive, DeleteKey,
             Serve, Refuses, Creates, Enqueues, Answers, Commits, Respond, Fault,
             CallRaises, RedisRaises, Dies
    <3> QED
      BY <3>1 DEF Strike
  <2>2. CASE Tick \/ UNCHANGED vars \/ \E q \in Requests : Serve(q)
    <3>1. UNCHANGED <<owner, pc, status>>
      BY <2>2 DEF Tick, vars, handlerVars, Serve, Refuses, Creates, Enqueues, Answers, Commits,
                  Transact
    <3> QED
      BY <2>1, <3>1 DEF KeyFreedAfter5xx
  <2>3. ASSUME NEW q \in Requests, Handle(q)
        PROVE  \/ pc'[owner'[k]] \in {"sent", "delete"}
               \/ status'[owner'[k]] \in {"2xx", "4xx"}
    <3>0. /\ pc \in [Requests -> HandlerPC] /\ owner \in [Keys -> Requests \cup {Nobody}]
          /\ status \in [Requests -> Answer \cup Refusal \cup {"none", "raised"}]
          /\ Nobody \notin Requests
      BY GatewayConstants DEF TypeOK
    <3>1. CASE owner'[k] # q
      <4>1. owner'[k] = owner[k]
        BY <2>3, <3>0, <3>1 DEF Handle, Arrive, Count, TakeKey, Receive, DeleteKey, Deleted
      <4>2. pc'[owner[k]] = pc[owner[k]] /\ status'[owner[k]] = status[owner[k]]
        BY <2>3, <3>0, <3>1, <4>1
           DEF Handle, Arrive, Count, TakeKey, Receive, DeleteKey, Goto, Finish, Forward
      <4> QED
        BY <2>1, <4>1, <4>2 DEF KeyFreedAfter5xx
    <3>2. CASE owner'[k] = q
      <4>1. CASE Arrive(q) \/ Count(q)
        BY <3>2, <4>1 DEF Arrive, Count, OwnerTookKey
      <4>2. CASE TakeKey(q)
        <5>1. owner[k] # q
          BY <3>0, <4>2 DEF TakeKey, OwnerTookKey
        <5> QED
          BY <3>0, <3>2, <4>2, <5>1 DEF TakeKey, Forward, Goto
      <4>3. CASE Receive(q)
        <5>1. HasKey(q) /\ reply[q] \in Answer
          BY <3>0, <3>2, <4>3 DEF Receive, Replied, OwnerTookKey, TypeOK
        <5> QED
          BY <3>0, <3>2, <4>3, <5>1 DEF Receive, Goto, Finish, Failed, Answer
      <4>4. CASE DeleteKey(q)
        <5>1. call[q].key = k \/ owner[k] # q
          BY <3>0 DEF OwnerTookKey
        <5> QED
          BY <3>0, <3>2, <4>4, <5>1 DEF DeleteKey, Deleted
      <4> QED
        BY <2>3, <4>1, <4>2, <4>3, <4>4 DEF Handle
    <3> QED
      BY <3>1, <3>2
  <2> QED
    BY <2>1, <2>2, <2>3 DEF Next, Fault, CallRaises, RedisRaises, Dies
<1> QED
  BY InvariantHolds, <1>1, <1>2, PTL DEF Spec

----------------------------------------------------------------------------
(* The rate limiter *)

\* window = int(time.time()) // _WINDOW_SECONDS (rate_limit.py:43).
LEMMA WindowBounds ==
    ASSUME NEW t \in Nat
    PROVE  /\ WindowOf(t) \in Nat
           /\ Window * WindowOf(t) <= t /\ t < Window * WindowOf(t) + Window
<1>1. /\ t \div Window \in Int
      /\ Window * (t \div Window) <= t /\ t < Window * (t \div Window) + Window
  BY GatewayConstants
<1>2. ASSUME NEW d \in Int, t < Window * d + Window PROVE d >= 0
  BY <1>2, GatewayConstants
<1> QED
  BY <1>1, <1>2 DEF WindowOf

\* Windows do not run backwards, and one follows the other.
LEMMA WindowsOrdered ==
    ASSUME NEW v \in Nat, NEW w \in Nat
    PROVE  /\ Window * v < Window * w + Window => v <= w
           /\ Window * (w + 1) = Window * w + Window
           /\ Window * w \in Nat /\ Window * v \in Nat
BY GatewayConstants

\* The limiter never looks at a window beyond the bound on time.
LEMMA WindowInBound ==
    ASSUME TypeOK, NEW q \in Requests
    PROVE  WindowOf(arrived[q]) \in Windows
<1>1. arrived[q] \in Nat /\ arrived[q] <= MaxTime /\ MaxTime \in Nat /\ Window \in Nat
  BY GatewayConstants DEF TypeOK
<1>2. WindowOf(arrived[q]) \in Nat /\ WindowOf(MaxTime) \in Nat
  BY <1>1, WindowBounds
<1>3. Window * WindowOf(arrived[q]) <= arrived[q] /\ MaxTime < Window * WindowOf(MaxTime) + Window
  BY <1>1, WindowBounds
<1>4. Window * WindowOf(arrived[q]) < Window * WindowOf(MaxTime) + Window
  BY <1>1, <1>2, <1>3, WindowsOrdered
<1>5. WindowOf(arrived[q]) <= WindowOf(MaxTime)
  BY <1>2, <1>4, WindowsOrdered
<1> QED
  BY <1>2, <1>5 DEF Windows, WindowOf

\* Only finitely many requests are counted.
LEMMA CountedFinite ==
    ASSUME TypeOK, NEW w
    PROVE  IsFiniteSet(Counted(w)) /\ Cardinality(Counted(w)) \in Nat
<1>1. Counted(w) \in SUBSET Requests
  BY DEF Counted, TypeOK
<1> QED
  BY <1>1, GatewayConstants, FS_Subset, FS_CardinalityType

\* The limit rests on counters that outlive every request still to be counted.
RateInv == IInv /\ CountsInTime /\ CounterLives /\ WindowHolds

\* Nobody has been counted.
LEMMA RateInit == Init => RateInv
<1> SUFFICES ASSUME Init PROVE RateInv
  OBVIOUS
<1>1. \A w : Counted(w) = {}
  BY DEF Init, Counted
<1>2. CountsInTime
  BY GatewayConstants DEF Init, CountsInTime
<1>3. CounterLives /\ WindowHolds
  BY <1>1, FS_EmptySet, GatewayConstants DEF Init, CounterLives, WindowHolds
<1> QED
  BY <1>2, <1>3, InvariantInit DEF RateInv

\* The parts of RateInv speak of the limiter's variables and of who is at it.
LEMMA LimiterUntouched ==
    ASSUME RateInv, UNCHANGED <<rateVars, arrived>>,
           \A r \in Requests : pc'[r] \in {"idle", "count"} => pc'[r] = pc[r]
    PROVE  CountsInTime' /\ CounterLives' /\ WindowHolds'
<1>1. UNCHANGED <<now, rate, until, admitted, arrived>>
  BY DEF rateVars
<1>2. \A w : Counted(w)' = Counted(w)
  BY <1>1 DEF Counted
<1>3. CountsInTime'
  BY <1>1 DEF RateInv, CountsInTime
<1>4. CounterLives'
  BY <1>1, <1>2 DEF RateInv, CounterLives
<1>5. WindowHolds'
  BY <1>1, <1>2 DEF RateInv, WindowHolds
<1> QED
  BY <1>3, <1>4, <1>5

\* Time passes, and counters expire that nobody will count in again.
LEMMA RateTick == ASSUME RateInv, Tick PROVE CountsInTime' /\ CounterLives' /\ WindowHolds'
<1>0. /\ now \in Nat /\ now' = now + 1 /\ MaxDelay \in Nat
      /\ rate \in [Windows -> Nat] /\ until \in [Windows -> Nat]
      /\ arrived \in [Requests -> 0 .. MaxTime] /\ MaxTime \in Nat
      /\ rate' = [w \in Windows |-> IF until[w] = now' THEN 0 ELSE rate[w]]
      /\ UNCHANGED <<until, admitted, pc, arrived>>
  BY GatewayConstants DEF RateInv, IInv, TypeOK, Tick, handlerVars
<1>1. \A w : Counted(w)' = Counted(w)
  BY <1>0 DEF Counted
<1>2. CountsInTime'
  <2>1. \A q \in Requests : pc[q] = "count" => now - arrived[q] < MaxDelay
    BY DEF Tick
  <2>2. \A q \in Requests : arrived[q] \in Nat
    BY <1>0
  <2> QED
    BY <1>0, <2>1, <2>2 DEF RateInv, CountsInTime
<1>3. CounterLives'
  <2> SUFFICES ASSUME MaxDelay + Window <= CounterTTL, NEW w \in Windows
               PROVE  /\ rate'[w] > 0 => now' < until'[w] /\ Window * w + CounterTTL <= until'[w]
                      /\ \/ Cardinality(Counted(w)') <= rate'[w]
                         \/ Window * (w + 1) + MaxDelay <= now'
    BY DEF CounterLives
  <2>1. /\ rate[w] > 0 => now < until[w] /\ Window * w + CounterTTL <= until[w]
        /\ \/ Cardinality(Counted(w)) <= rate[w]
           \/ Window * (w + 1) + MaxDelay <= now
    BY DEF RateInv, CounterLives
  <2>2. /\ w \in Nat /\ Window * (w + 1) = Window * w + Window /\ Window * w \in Nat
        /\ Window \in Nat /\ CounterTTL \in Nat
    <3>1. w \in Nat
      BY DEF Windows
    <3> QED
      BY <3>1, WindowsOrdered, GatewayConstants
  <2>3. rate[w] \in Nat /\ until[w] \in Nat
    BY <1>0
  <2>4. CASE until[w] = now'
    <3>1. rate'[w] = 0
      BY <1>0, <2>4
    <3>2. CASE rate[w] > 0
      <4>1. Window * w + CounterTTL <= now'
        BY <2>1, <2>4, <3>2
      <4>2. Window * (w + 1) + MaxDelay <= now'
        BY <1>0, <2>2, <4>1
      <4> QED
        BY <3>1, <4>2
    <3>3. CASE rate[w] = 0
      <4>1. \/ Cardinality(Counted(w)') <= rate'[w]
            \/ Window * (w + 1) + MaxDelay <= now
        BY <1>1, <2>1, <3>1, <3>3
      <4>2. Window * (w + 1) + MaxDelay <= now => Window * (w + 1) + MaxDelay <= now'
        BY <1>0, <2>2
      <4> QED
        BY <3>1, <4>1, <4>2
    <3> QED
      BY <2>3, <3>2, <3>3
  <2>5. CASE until[w] # now'
    <3>1. rate'[w] = rate[w] /\ until'[w] = until[w]
      BY <1>0, <2>5
    <3>2. Window * (w + 1) + MaxDelay <= now => Window * (w + 1) + MaxDelay <= now'
      BY <1>0, <2>2
    <3>3. now < until[w] => now' < until[w]
      BY <1>0, <2>3, <2>5
    <3> QED
      BY <1>1, <2>1, <3>1, <3>2, <3>3
  <2> QED
    BY <2>4, <2>5
<1>4. WindowHolds'
  BY <1>1 DEF RateInv, WindowHolds
<1> QED
  BY <1>2, <1>3, <1>4

\* The counter still lives when a request counts (rate_limit.py:39-50), so
\* whoever is admitted is within the limit.
LEMMA IncrStep ==
    ASSUME RateInv, TypeOK', NEW q \in Requests, pc[q] = "count", Incr(q),
           UNCHANGED <<now, arrived>>, pc'[q] \notin {"idle", "count"},
           \A r \in Requests \ {q} : pc'[r] = pc[r],
           \/ admitted' = admitted
           \/ /\ admitted' = admitted \cup {q}
              /\ ~Exceeded(rate'[WindowOf(arrived[q])])
    PROVE  CountsInTime' /\ CounterLives' /\ WindowHolds'
<1> DEFINE v == WindowOf(arrived[q])
<1>0. /\ now \in Nat /\ arrived[q] \in Nat /\ v \in Windows /\ v \in Nat /\ TypeOK
      /\ rate \in [Windows -> Nat] /\ until \in [Windows -> Nat]
      /\ Limit \in Nat /\ Window \in Nat \ {0} /\ CounterTTL \in Nat /\ MaxDelay \in Nat
  <2>1. TypeOK
    BY DEF RateInv, IInv
  <2>2. now \in Nat /\ arrived[q] \in Nat
    BY <2>1, GatewayConstants DEF TypeOK
  <2>3. v \in Windows /\ v \in Nat
    BY <2>1, <2>2, WindowInBound, WindowBounds
  <2> QED
    BY <2>1, <2>2, <2>3, GatewayConstants DEF TypeOK
<1>1. /\ rate' = [rate EXCEPT ![v] = @ + 1]
      /\ until' = IF rate[v] = 0 THEN [until EXCEPT ![v] = now + CounterTTL] ELSE until
  BY DEF Incr, Expiry
<1>2. CountsInTime'
  BY DEF RateInv, CountsInTime
<1>3. \A w \in Windows : w # v => Counted(w)' = Counted(w)
  BY DEF Counted
<1>4. arrived[q] <= now /\ now <= arrived[q] + MaxDelay
  BY DEF RateInv, CountsInTime
<1>5. Window * v <= arrived[q] /\ arrived[q] < Window * (v + 1) /\ Window * v \in Nat
      /\ Window * (v + 1) = Window * v + Window
  BY <1>0, WindowBounds, WindowsOrdered
<1>6. ~(Window * (v + 1) + MaxDelay <= now)
  BY <1>0, <1>4, <1>5
<1>7. MaxDelay + Window <= CounterTTL => Cardinality(Counted(v)) <= rate[v]
  BY <1>0, <1>6 DEF RateInv, CounterLives
<1>8. /\ rate'[v] = rate[v] + 1 /\ rate[v] \in Nat
      /\ Cardinality(Counted(v)) \in Nat
  BY <1>0, <1>1, CountedFinite
<1>9. \/ Counted(v)' = Counted(v)
      \/ Counted(v)' = Counted(v) \cup {q} /\ rate[v] + 1 <= Limit
  <2>1. CASE admitted' = admitted
    BY <2>1 DEF Counted
  <2>2. CASE admitted' = admitted \cup {q} /\ ~Exceeded(rate'[v])
    <3>1. Counted(v)' = Counted(v) \cup {q}
      BY <2>2 DEF Counted
    <3>2. rate[v] + 1 <= Limit
      BY <1>0, <1>8, <2>2 DEF Exceeded
    <3> QED
      BY <3>1, <3>2
  <2> QED
    BY <2>1, <2>2
<1>10. Cardinality(Counted(v) \cup {q}) <= Cardinality(Counted(v)) + 1
  <2>1. IsFiniteSet(Counted(v))
    BY <1>0, CountedFinite
  <2>2. Cardinality(Counted(v) \cup {q}) =
            IF q \in Counted(v) THEN Cardinality(Counted(v)) ELSE Cardinality(Counted(v)) + 1
    BY <2>1, FS_AddElement
  <2> QED
    BY <1>8, <2>2
<1>11. MaxDelay + Window <= CounterTTL =>
          Cardinality(Counted(v)') <= rate'[v] /\ Cardinality(Counted(v)') <= Limit
  <2>1. MaxDelay + Window <= CounterTTL => Cardinality(Counted(v)) <= Limit
    BY <1>0 DEF RateInv, WindowHolds
  <2>2. IsFiniteSet(Counted(v) \cup {q})
    BY <1>0, CountedFinite, FS_AddElement
  <2>3. Cardinality(Counted(v) \cup {q}) \in Nat
    BY <2>2, FS_CardinalityType
  <2>4. CASE Counted(v)' = Counted(v)
    BY <1>7, <1>8, <2>1, <2>4
  <2>5. CASE Counted(v)' = Counted(v) \cup {q} /\ rate[v] + 1 <= Limit
    BY <1>0, <1>7, <1>8, <1>10, <2>3, <2>5
  <2> QED
    BY <1>9, <2>4, <2>5
<1>12. CounterLives'
  <2> SUFFICES ASSUME MaxDelay + Window <= CounterTTL, NEW w \in Windows
               PROVE  /\ rate'[w] > 0 => now < until'[w] /\ Window * w + CounterTTL <= until'[w]
                      /\ \/ Cardinality(Counted(w)') <= rate'[w]
                         \/ Window * (w + 1) + MaxDelay <= now
    BY DEF CounterLives
  <2>1. /\ rate[w] > 0 => now < until[w] /\ Window * w + CounterTTL <= until[w]
        /\ \/ Cardinality(Counted(w)) <= rate[w]
           \/ Window * (w + 1) + MaxDelay <= now
    BY DEF RateInv, CounterLives
  <2>2. CASE w # v
    BY <1>0, <1>1, <1>3, <2>1, <2>2
  <2>3. CASE w = v /\ rate[v] = 0
    <3>1. until'[v] = now + CounterTTL
      BY <1>0, <1>1, <2>3
    <3>2. now < until'[v] /\ Window * v + CounterTTL <= until'[v]
      BY <1>0, <1>4, <1>5, <3>1
    <3> QED
      BY <1>11, <2>3, <3>2
  <2>4. CASE w = v /\ rate[v] # 0
    <3>1. until'[v] = until[v] /\ rate[v] > 0
      BY <1>1, <1>8, <2>4
    <3> QED
      BY <1>11, <2>1, <2>4, <3>1
  <2> QED
    BY <2>2, <2>3, <2>4
<1>13. WindowHolds'
  BY <1>3, <1>11 DEF RateInv, WindowHolds
<1> QED
  BY <1>2, <1>12, <1>13

\* Every step keeps the limit.
LEMMA RateStep == RateInv /\ [Next]_vars => RateInv'
<1> SUFFICES ASSUME RateInv, [Next]_vars PROVE RateInv'
  OBVIOUS
<1> USE DEF upstreamVars, handlerVars
<1>0. IInv' /\ TypeOK' /\ TypeOK
  BY InvariantStep DEF RateInv, IInv
<1>1. pc \in [Requests -> HandlerPC]
  BY <1>0 DEF TypeOK
<1> SUFFICES CountsInTime' /\ CounterLives' /\ WindowHolds'
  BY <1>0 DEF RateInv
<1>2. CASE Tick
  BY <1>2, RateTick
<1>3. ASSUME NEW q \in Requests, Arrive(q) PROVE CountsInTime' /\ CounterLives' /\ WindowHolds'
  <2>1. /\ pc[q] = "idle" /\ arrived' = [arrived EXCEPT ![q] = now]
        /\ UNCHANGED <<now, rate, until, admitted>>
        /\ \E l \in {"count", "done"} : pc' = [pc EXCEPT ![q] = l]
    BY <1>3 DEF Arrive, Goto, Finish, rateVars
  <2>2. q \notin admitted
    BY <2>1 DEF RateInv, CountsInTime
  <2>3. \A w : Counted(w)' = Counted(w)
    BY <1>0, <2>1, <2>2 DEF Counted, TypeOK
  <2>4. now \in Nat /\ MaxDelay \in Nat /\ arrived \in [Requests -> 0 .. MaxTime]
    BY <1>0, GatewayConstants DEF TypeOK
  <2>5. CountsInTime'
    BY <1>1, <2>1, <2>2, <2>4 DEF RateInv, CountsInTime
  <2>6. CounterLives' /\ WindowHolds'
    BY <2>1, <2>3 DEF RateInv, CounterLives, WindowHolds
  <2> QED
    BY <2>5, <2>6
<1>4. ASSUME NEW q \in Requests, Count(q) PROVE CountsInTime' /\ CounterLives' /\ WindowHolds'
  <2>1. /\ pc[q] = "count" /\ Incr(q) /\ UNCHANGED <<now, arrived>>
        /\ \E l \in {"key", "sent", "done"} : pc' = [pc EXCEPT ![q] = l]
        /\ \/ admitted' = admitted
           \/ /\ admitted' = admitted \cup {q}
              /\ ~Exceeded(rate'[WindowOf(arrived[q])])
    BY <1>4 DEF Count, Finish, Goto, Forward
  <2>2. pc'[q] \notin {"idle", "count"} /\ \A r \in Requests \ {q} : pc'[r] = pc[r]
    BY <1>1, <2>1
  <2> QED
    BY <1>0, <2>1, <2>2, IncrStep
<1>5. ASSUME NEW q \in Requests, RedisRaises(q)
      PROVE  CountsInTime' /\ CounterLives' /\ WindowHolds'
  <2>1. /\ UNCHANGED <<now, admitted, arrived>>
        /\ (pc[q] = "count" /\ Incr(q)) \/ UNCHANGED <<rate, until>>
        /\ pc' = [pc EXCEPT ![q] = "done"]
    BY <1>5 DEF RedisRaises, Finish, Goto
  <2>2. pc'[q] = "done" /\ \A r \in Requests \ {q} : pc'[r] = pc[r]
    BY <1>1, <2>1
  <2>3. CASE pc[q] = "count" /\ Incr(q)
    BY <1>0, <2>1, <2>2, <2>3, IncrStep
  <2>4. CASE UNCHANGED <<rate, until>>
    BY <2>1, <2>2, <2>4, LimiterUntouched DEF rateVars
  <2> QED
    BY <2>1, <2>3, <2>4
<1>6. ASSUME NEW q \in Requests,
             TakeKey(q) \/ Receive(q) \/ DeleteKey(q) \/ CallRaises(q) \/ Serve(q) \/ Dies(q)
      PROVE  CountsInTime' /\ CounterLives' /\ WindowHolds'
  <2>1. UNCHANGED <<rateVars, arrived>>
    BY <1>6 DEF TakeKey, Receive, DeleteKey, CallRaises, Serve, Refuses, Creates, Enqueues,
                Answers, Commits, Dies, Transact
  <2>2. pc' = pc \/ \E l \in {"sent", "delete", "done"} : pc' = [pc EXCEPT ![q] = l]
    BY <1>6 DEF TakeKey, Receive, DeleteKey, CallRaises, Serve, Refuses, Creates, Enqueues,
                Answers, Commits, Dies, Transact, Finish, Goto, Forward
  <2>3. \A r \in Requests : pc'[r] \in {"idle", "count"} => pc'[r] = pc[r]
    BY <1>1, <2>2
  <2> QED
    BY <2>1, <2>3, LimiterUntouched
<1>7. CASE UNCHANGED vars
  BY <1>7, LimiterUntouched DEF vars
<1> QED
  BY <1>2, <1>3, <1>4, <1>5, <1>6, <1>7 DEF Next, Handle, Fault

\* The limit holds in every state.
LEMMA RateHolds == Spec => []RateInv
BY RateInit, RateStep, PTL DEF Spec

\* rate_limit.py:39-50: no window admits more requests than the limit, if none
\* is delayed for longer than its counter outlives the window.
THEOREM LimitPerWindow == Spec => []WindowHolds
<1>1. RateInv => WindowHolds
  BY DEF RateInv
<1> QED
  BY RateHolds, <1>1, PTL

\* rate_limit.py:32-33: a span of one window's length meets two windows, and so
\* admits at most twice the limit.
THEOREM TwiceTheLimit == Spec => []BurstAtMostTwice
<1>1. RateInv => BurstAtMostTwice
  <2> SUFFICES ASSUME RateInv, MaxDelay + Window <= CounterTTL, NEW t \in 0 .. MaxTime
               PROVE  Cardinality(AdmittedIn(t .. t + Window - 1)) <= 2 * Limit
    BY DEF BurstAtMostTwice
  <2> DEFINE w == WindowOf(t)
  <2>0. t \in Nat /\ w \in Nat /\ Window \in Nat \ {0} /\ Limit \in Nat /\ TypeOK
    BY WindowBounds, GatewayConstants DEF RateInv, IInv
  <2>1. AdmittedIn(t .. t + Window - 1) \subseteq Counted(w) \cup Counted(w + 1)
    <3> SUFFICES ASSUME NEW q \in admitted, arrived[q] \in t .. t + Window - 1
                 PROVE  WindowOf(arrived[q]) \in {w, w + 1}
      BY DEF AdmittedIn, Counted
    <3> DEFINE v == WindowOf(arrived[q])
    <3>1. arrived[q] \in Nat /\ t <= arrived[q] /\ arrived[q] < t + Window
      BY <2>0
    <3>2. /\ v \in Nat /\ Window * v <= arrived[q] /\ arrived[q] < Window * v + Window
          /\ Window * w <= t /\ t < Window * w + Window
      BY <2>0, <3>1, WindowBounds
    <3>3. Window * w \in Nat /\ Window * v \in Nat /\ Window * (w + 1) = Window * w + Window
      BY <2>0, <3>2, WindowsOrdered
    <3>4. Window * w < Window * v + Window /\ Window * v < Window * (w + 1) + Window
      BY <2>0, <3>1, <3>2, <3>3
    <3>5. w <= v /\ v <= w + 1
      BY <2>0, <3>2, <3>4, WindowsOrdered
    <3>6. v = w \/ v = w + 1
      <4>1. ASSUME NEW x \in Nat, NEW y \in Nat, x <= y, y <= x + 1 PROVE y = x \/ y = x + 1
        BY <4>1
      <4> QED
        BY <2>0, <3>2, <3>5, <4>1
    <3> QED
      BY <3>6
  <2>2. ASSUME NEW u PROVE IsFiniteSet(Counted(u)) /\ Cardinality(Counted(u)) \in Nat
                           /\ Cardinality(Counted(u)) <= Limit
    <3>1. CASE u \in Windows
      BY <2>0, <3>1, CountedFinite DEF RateInv, WindowHolds
    <3>2. CASE u \notin Windows
      <4>1. Counted(u) = {}
        BY <2>0, <3>2, WindowInBound DEF Counted, TypeOK
      <4> QED
        BY <2>0, <4>1, FS_EmptySet
    <3> QED
      BY <3>1, <3>2
  <2> DEFINE A == Counted(w)
             B == Counted(w + 1)
             S == AdmittedIn(t .. t + Window - 1)
  <2>3. /\ IsFiniteSet(A) /\ Cardinality(A) \in Nat /\ Cardinality(A) <= Limit
        /\ IsFiniteSet(B) /\ Cardinality(B) \in Nat /\ Cardinality(B) <= Limit
    BY <2>2
  <2>4. S \in SUBSET (A \cup B)
    BY <2>1
  <2> HIDE DEF A, B, S
  <2>5. /\ IsFiniteSet(A \cup B) /\ IsFiniteSet(A \cap B)
        /\ Cardinality(A \cup B) = Cardinality(A) + Cardinality(B) - Cardinality(A \cap B)
    BY <2>3, FS_Union, FS_Intersection
  <2>6. Cardinality(A \cap B) \in Nat
    BY <2>5, FS_CardinalityType
  <2>7. IsFiniteSet(S) /\ Cardinality(S) <= Cardinality(A \cup B)
    BY <2>4, <2>5, FS_Subset
  <2>8. Cardinality(S) \in Nat
    BY <2>7, FS_CardinalityType
  <2> QED
    BY <2>0, <2>3, <2>5, <2>6, <2>7, <2>8 DEF S
<1> QED
  BY RateHolds, <1>1, PTL
=============================================================================
