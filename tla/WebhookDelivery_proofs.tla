----------------------- MODULE WebhookDelivery_proofs -----------------------
(***************************************************************************)
(* Proofs about WebhookDelivery, for any workers, any length of the retry  *)
(* schedule and any number of faults.                                      *)
(***************************************************************************)
EXTENDS WebhookDelivery, TLAPS

\* A task that schedules a retry has a delay to look up (tasks.py:91-97).
LEMMA ScheduleFits ==
    ASSUME NEW a \in Attempts, ~Exhausted(a)
    PROVE  a + 1 \in Attempts
BY WebhookConstants DEF Attempts, Exhausted

\* The first attempt, and a session that has loaded nothing.
LEMMA FreshTask ==
    /\ 0 \in Attempts
    /\ NoDelivery \in Delivery
    /\ \A d \in Delivery : [d EXCEPT !.status = "pending"] \in Delivery
<1>1. 0 \in Attempts
  BY WebhookConstants DEF Attempts
<1> QED
  BY <1>1 DEF NoDelivery, Delivery, DeliveryStatus

\* webhook_deliveries starts without the row, and nobody holds a message.
LEMMA TypeInit == Init => TypeOK
<1> SUFFICES ASSUME Init PROVE TypeOK
  OBVIOUS
<1>1. queue \in [Attempts -> Nat]
  BY DEF Init
<1>2. attempt \in [Workers -> Attempts] /\ seen \in [Workers -> Delivery]
  BY FreshTask DEF Init
<1>3. pc \in [Workers -> TaskPC] /\ outcome \in [Workers -> Outcome]
  BY DEF Init, TaskPC, Outcome
<1> QED
  BY <1>1, <1>2, <1>3, FreshTask DEF Init, TypeOK

\* A verdict is a status of the table's CHECK constraint.
LEMMA VerdictIsStatus ==
    ASSUME NEW w \in Workers
    PROVE  /\ Verdict(w) \in DeliveryStatus
           /\ Verdict(w) = "pending" => ~Exhausted(attempt[w])
BY DEF Verdict, DeliveryStatus

\* Every action of the task, the routes and the faults keeps the types.
LEMMA TypeStep == TypeOK /\ [Next]_vars => TypeOK'
<1> SUFFICES ASSUME TypeOK, [Next]_vars PROVE TypeOK'
  OBVIOUS
<1> USE DEF TypeOK, dbVars, taskVars
<1>1. CASE Create \/ Delete
  BY <1>1 DEF Create, Delete
<1>2. CASE Trigger
  BY <1>2, FreshTask DEF Trigger, Published
<1>3. CASE \E w \in Workers : Deliver(w)
  <2> PICK w \in Workers : Deliver(w)
    BY <1>3
  <2>1. CASE Take(w)
    BY <2>1 DEF Take, Goto, TaskPC
  <2>2. CASE Load(w)
    BY <2>2 DEF Load, Goto, TaskPC
  <2>3. CASE CheckSubscription(w)
    BY <2>3 DEF CheckSubscription, Goto, TaskPC, Outcome
  <2>4. CASE Post(w)
    BY <2>4 DEF Post, Goto, TaskPC, Outcome
  <2>5. CASE Save(w)
    <3>1. row' \in Delivery
      BY <2>5, VerdictIsStatus DEF Save, Delivery
    <3>2. pc' \in [Workers -> TaskPC]
      BY <2>5 DEF Save, Goto, TaskPC
    <3>3. \A v \in Workers : pc'[v] = "retry" => attempt[v] + 1 \in Attempts
      BY <2>5, VerdictIsStatus, ScheduleFits DEF Save, Goto
    <3> QED
      BY <2>5, <3>1, <3>2, <3>3 DEF Save
  <2>6. CASE Retry(w)
    BY <2>6 DEF Retry, Goto, Published, TaskPC
  <2>7. CASE Ack(w)
    BY <2>7, FreshTask DEF Ack, Forget, TaskPC, Outcome
  <2> QED
    BY <2>1, <2>2, <2>3, <2>4, <2>5, <2>6, <2>7 DEF Deliver
<1>4. CASE \E w \in Workers : Crash(w) \/ Raises(w)
  <2> PICK w \in Workers : Crash(w) \/ Raises(w)
    BY <1>4
  <2>1. faults' \in Nat
    BY DEF Crash, Raises, Strike
  <2>2. queue' \in [Attempts -> Nat]
    BY DEF Crash, Raises, Redelivered, Published
  <2>3. /\ pc' \in [Workers -> TaskPC] /\ attempt' \in [Workers -> Attempts]
        /\ seen' \in [Workers -> Delivery] /\ outcome' \in [Workers -> Outcome]
        /\ \A v \in Workers : pc'[v] = "retry" => attempt'[v] + 1 \in Attempts
    BY FreshTask DEF Crash, Raises, Forget, TaskPC, Outcome
  <2> QED
    BY <2>1, <2>2, <2>3 DEF Crash, Raises
<1>5. CASE UNCHANGED vars
  BY <1>5 DEF vars
<1> QED
  BY <1>1, <1>2, <1>3, <1>4, <1>5 DEF Next

\* Every variable keeps its type, and no retry is scheduled past the table of
\* delays (tasks.py:91-97).
THEOREM TypeCorrect == Spec => []TypeOK
<1>1. TypeOK /\ [Next]_vars => TypeOK'
  BY TypeStep
<1> QED
  BY TypeInit, <1>1, PTL DEF Spec

----------------------------------------------------------------------------
\* A message stands for an attempt whose predecessors were refused.
IInv == AttemptsInOrder /\ DeadAfterEveryAttempt

\* Before the trigger there is no message.
LEMMA OrderInit == Init => IInv
BY WebhookConstants
   DEF Init, IInv, AttemptsInOrder, DeadAfterEveryAttempt, NoDelivery, Attempts, Before

\* An attempt that may be the last one completes the schedule.
LEMMA LastAttempt ==
    ASSUME NEW a \in Attempts, Exhausted(a), Before(a) \subseteq refused, a \in refused,
           refused \subseteq Attempts
    PROVE  refused = Attempts
<1>1. ASSUME NEW b \in Attempts PROVE b \in refused
  <2>1. b < a \/ b = a
    BY WebhookConstants DEF Attempts, Exhausted
  <2> QED
    BY <2>1 DEF Before
<1> QED
  BY <1>1

\* A refused attempt makes room for the next one.
LEMMA NextAttempt ==
    ASSUME NEW a \in Attempts, Before(a) \subseteq refused, a \in refused
    PROVE  Before(a + 1) \subseteq refused
BY WebhookConstants DEF Attempts, Before

\* What a trigger publishes, and a worker that holds nothing.
LEMMA NothingBeforeFirst == 0 \in Attempts /\ Before(0) = {}
BY WebhookConstants DEF Attempts, Before

\* No action, redelivery included, publishes an attempt out of its turn.
LEMMA OrderStep == TypeOK /\ IInv /\ [Next]_vars => IInv'
<1> SUFFICES ASSUME TypeOK, IInv, [Next]_vars PROVE IInv'
  OBVIOUS
<1> USE DEF IInv, AttemptsInOrder, DeadAfterEveryAttempt, dbVars, taskVars
<1>0. /\ queue \in [Attempts -> Nat] /\ pc \in [Workers -> TaskPC]
      /\ attempt \in [Workers -> Attempts] /\ outcome \in [Workers -> Outcome]
      /\ refused \subseteq Attempts /\ row \in Delivery /\ seen \in [Workers -> Delivery]
  BY DEF TypeOK
<1>1. CASE Create \/ Delete
  BY <1>1 DEF Create, Delete, Before
<1>2. CASE Trigger
  BY <1>0, <1>2, NothingBeforeFirst DEF Trigger, Published, Delivery, Before
<1>3. CASE \E w \in Workers : Deliver(w)
  <2> PICK w \in Workers : Deliver(w)
    BY <1>3
  <2>1. CASE Take(w)
    BY <1>0, <2>1 DEF Take, Goto, Before
  <2>2. CASE Load(w)
    BY <1>0, <2>2 DEF Load, Goto, Before
  <2>3. CASE CheckSubscription(w)
    BY <1>0, <2>3 DEF CheckSubscription, Goto, Before
  <2>4. CASE Post(w)
    BY <1>0, <2>4 DEF Post, Goto, Before
  <2>5. CASE Save(w)
    <3>1. row'.status = "dead_lettered" =>
             row.status = "dead_lettered" \/ Verdict(w) = "dead_lettered"
      BY <1>0, <2>5 DEF Save
    <3>2. Verdict(w) = "dead_lettered" => refused = Attempts
      BY <1>0, <2>5, LastAttempt DEF Save, Goto, Verdict
    <3>3. Verdict(w) = "pending" => outcome[w] \notin {"2xx", "inactive"}
      BY DEF Verdict
    <3> QED
      BY <1>0, <2>5, <3>1, <3>2, <3>3 DEF Save, Goto, Before
  <2>6. CASE Retry(w)
    <3>1. Before(attempt[w] + 1) \subseteq refused
      BY <1>0, <2>6, NextAttempt DEF Retry, Goto
    <3> QED
      BY <1>0, <2>6, <3>1 DEF Retry, Goto, Published, Before
  <2>7. CASE Ack(w)
    BY <1>0, <2>7, NothingBeforeFirst DEF Ack, Forget, Before
  <2> QED
    BY <2>1, <2>2, <2>3, <2>4, <2>5, <2>6, <2>7 DEF Deliver
<1>4. CASE \E w \in Workers : Crash(w) \/ Raises(w)
  BY <1>0, <1>4, NothingBeforeFirst
     DEF Crash, Raises, Strike, Redelivered, Published, Forget, Before
<1>5. CASE UNCHANGED vars
  BY <1>5 DEF vars, Before
<1> QED
  BY <1>1, <1>2, <1>3, <1>4, <1>5 DEF Next

\* tasks.py:3-4, 91-93: a delivery is dead-lettered only when every attempt of
\* the schedule has been made and refused, however many messages were repeated.
THEOREM GivenUpAfterAll == Spec => []DeadAfterEveryAttempt
<1>1. TypeOK /\ IInv /\ [Next]_vars => IInv'
  BY OrderStep
<1>2. IInv => DeadAfterEveryAttempt
  BY DEF IInv
<1> QED
  BY TypeCorrect, OrderInit, <1>1, <1>2, PTL DEF Spec
=============================================================================
