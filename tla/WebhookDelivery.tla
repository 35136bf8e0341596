--------------------------- MODULE WebhookDelivery ---------------------------
(***************************************************************************)
(* One webhook delivery and its subscription: the Celery task              *)
(* webhook.deliver (webhooks/tasks.py) on several workers, and the create  *)
(* and delete routes (routes/webhooks.py).                                 *)
(*                                                                         *)
(* Nothing in the repository inserts webhook_deliveries or enqueues the    *)
(* task: Trigger stands for the caller.  A message carries its number of   *)
(* retries, which is the attempt it stands for.  Countdowns are            *)
(* abstracted: a message may be taken as soon as it is published.          *)
(***************************************************************************)
EXTENDS Naturals

CONSTANTS
    Workers,    \* Celery worker slots
    NumDelays,  \* len(RETRY_DELAYS)
    MaxFaults   \* bound: processes that die and tasks that raise

ASSUME WebhookConstants == NumDelays \in Nat \ {0} /\ MaxFaults \in Nat

VARIABLES
    subscription,  \* the committed subscription
    row,           \* the committed delivery
    queue,         \* per attempt: messages that wait in the broker
    pc,            \* per worker: where its task is
    attempt,       \* per worker: self.request.retries of its message
    seen,          \* per worker: the delivery as its session loaded it
    outcome,       \* per worker: what became of its attempt
    refused,       \* attempts the subscriber answered with no 2xx, or not at all
    raised,        \* has a task ended in an exception other than Retry?
    faults         \* faults so far

dbVars == <<subscription, row>>
taskVars == <<pc, attempt, seen, outcome>>
vars == <<dbVars, queue, taskVars, refused, raised, faults>>

Attempts == 0 .. NumDelays - 1
DeliveryStatus == {"absent", "pending", "delivered", "failed", "dead_lettered"}
Delivery == [status : DeliveryStatus, count : Nat]
NoDelivery == [status |-> "absent", count |-> 0]
TaskPC == {"idle", "load", "subscription", "post", "save", "retry", "ack"}
Outcome == {"none", "2xx", "refused", "inactive"}

TypeOK ==
    /\ subscription \in {"none", "active", "inactive"}
    /\ row \in Delivery
    /\ queue \in [Attempts -> Nat]
    /\ pc \in [Workers -> TaskPC]
    /\ attempt \in [Workers -> Attempts]
    /\ seen \in [Workers -> Delivery]
    /\ outcome \in [Workers -> Outcome]
    /\ \A w \in Workers : pc[w] = "retry" => attempt[w] + 1 \in Attempts
    /\ refused \subseteq Attempts
    /\ raised \in BOOLEAN
    /\ faults \in Nat

Init ==
    /\ subscription = "none" /\ row = NoDelivery
    /\ queue = [a \in Attempts |-> 0]
    /\ pc = [w \in Workers |-> "idle"]
    /\ attempt = [w \in Workers |-> 0]
    /\ seen = [w \in Workers |-> NoDelivery]
    /\ outcome = [w \in Workers |-> "none"]
    /\ refused = {} /\ raised = FALSE /\ faults = 0

----------------------------------------------------------------------------
(* The subscriber *)

\* create_webhook; a URL that validate_webhook_url refuses leaves no row.
Create ==
    /\ subscription = "none"
    /\ subscription' = "active"
    /\ UNCHANGED <<row, queue, taskVars, refused, raised, faults>>

\* delete_webhook is a soft delete; no route activates the row again.
Delete ==
    /\ subscription = "active"
    /\ subscription' = "inactive"
    /\ UNCHANGED <<row, queue, taskVars, refused, raised, faults>>

Published(a) == queue' = [queue EXCEPT ![a] = @ + 1]

Trigger ==
    /\ subscription = "active" /\ row.status = "absent"
    /\ row' = [row EXCEPT !.status = "pending"]
    /\ Published(0)
    /\ UNCHANGED <<subscription, taskVars, refused, raised, faults>>

----------------------------------------------------------------------------
(* The task *)

Goto(w, from, to) ==
    /\ pc[w] = from
    /\ pc' = [pc EXCEPT ![w] = to]

Take(w) ==
    /\ Goto(w, "idle", "load")
    /\ \E a \in Attempts :
          /\ queue[a] > 0
          /\ queue' = [queue EXCEPT ![a] = @ - 1]
          /\ attempt' = [attempt EXCEPT ![w] = a]
    /\ UNCHANGED <<dbVars, seen, outcome, refused, raised, faults>>

\* "failed" is not among the statuses that end a delivery.
Settled(status) == status \in {"delivered", "dead_lettered"}

Load(w) ==
    /\ Goto(w, "load", IF Settled(row.status) THEN "ack" ELSE "subscription")
    /\ seen' = [seen EXCEPT ![w] = row]
    /\ UNCHANGED <<dbVars, queue, attempt, outcome, refused, raised, faults>>

CheckSubscription(w) ==
    /\ Goto(w, "subscription", IF subscription = "active" THEN "post" ELSE "save")
    /\ outcome' = [outcome EXCEPT
          ![w] = IF subscription = "active" THEN @ ELSE "inactive"]
    /\ UNCHANGED <<dbVars, queue, attempt, seen, refused, raised, faults>>

\* Sign and POST; a RequestError counts as status code 0.
Post(w) ==
    /\ Goto(w, "post", "save")
    /\ \/ /\ outcome' = [outcome EXCEPT ![w] = "2xx"]
          /\ UNCHANGED refused
       \/ /\ outcome' = [outcome EXCEPT ![w] = "refused"]
          /\ refused' = refused \cup {attempt[w]}
    /\ UNCHANGED <<dbVars, queue, attempt, seen, raised, faults>>

\* Faulty variant: the schedule's last attempt is never made.
ExhaustedEarly(a) == a + 2 >= NumDelays

\* Faulty variant: the limit is tested against the number of delays itself.
ExhaustedLate(a) == a >= NumDelays

\* attempt >= len(RETRY_DELAYS) - 1
Exhausted(a) == a + 1 >= NumDelays

\* The status the task assigns.
Verdict(w) ==
    CASE outcome[w] = "2xx"      -> "delivered"
      [] outcome[w] = "inactive" -> "failed"
      [] OTHER -> IF Exhausted(attempt[w]) THEN "dead_lettered" ELSE "pending"

\* The session's UPDATE and commit.  SQLAlchemy writes attempt_count as it was
\* loaded plus one, and leaves out a status equal to the one loaded.
Save(w) ==
    /\ Goto(w, "save", IF Verdict(w) = "pending" THEN "retry" ELSE "ack")
    /\ row' = [status |-> IF Verdict(w) = seen[w].status THEN row.status ELSE Verdict(w),
               count |-> IF outcome[w] = "inactive" THEN row.count ELSE seen[w].count + 1]
    /\ UNCHANGED <<subscription, queue, attempt, seen, outcome, refused, raised, faults>>

\* self.retry publishes the next message.
Retry(w) ==
    /\ Goto(w, "retry", "ack")
    /\ Published(attempt[w] + 1)
    /\ UNCHANGED <<dbVars, attempt, seen, outcome, refused, raised, faults>>

Forget(w) ==
    /\ pc' = [pc EXCEPT ![w] = "idle"]
    /\ attempt' = [attempt EXCEPT ![w] = 0]
    /\ seen' = [seen EXCEPT ![w] = NoDelivery]
    /\ outcome' = [outcome EXCEPT ![w] = "none"]

Ack(w) ==
    /\ pc[w] = "ack"
    /\ Forget(w)
    /\ UNCHANGED <<dbVars, queue, refused, raised, faults>>

Strike == faults < MaxFaults /\ faults' = faults + 1

\* Faulty variant: acknowledged when received, and not redelivered.
NotRedelivered(w) == queue' = queue

\* acks_late and task_reject_on_worker_lost: the message comes back.
Redelivered(w) == Published(attempt[w])

\* The worker process dies, perhaps behind its POST, its commit or its retry.
Crash(w) ==
    /\ pc[w] # "idle"
    /\ Strike
    /\ Redelivered(w)
    /\ Forget(w)
    /\ UNCHANGED <<dbVars, refused, raised>>

\* PostgreSQL, decrypt_secret or the broker raises: the transaction is rolled
\* back unless it has committed, and the message of a failed task is acknowledged.
Raises(w) ==
    /\ pc[w] \in {"load", "subscription", "post", "save", "retry"}
    /\ Strike
    /\ raised' = TRUE
    /\ Forget(w)
    /\ UNCHANGED <<dbVars, queue, refused>>

Deliver(w) ==
    \/ Take(w) \/ Load(w) \/ CheckSubscription(w) \/ Post(w) \/ Save(w)
    \/ Retry(w) \/ Ack(w)

Next ==
    \/ Create \/ Delete \/ Trigger
    \/ \E w \in Workers : Deliver(w) \/ Crash(w) \/ Raises(w)

Spec == Init /\ [][Next]_vars

\* The workers go on with what they hold and take what waits.
FairSpec == Spec /\ \A w \in Workers : WF_vars(Deliver(w))

----------------------------------------------------------------------------
\* tasks.py:3-4 "After 5 failures: mark delivery as dead_lettered": every
\* attempt of the schedule has been made and refused, whatever was redelivered.
DeadAfterEveryAttempt ==
    row.status = "dead_lettered" => refused = Attempts

\* What makes it inductive: a message stands for an attempt whose predecessors
\* were all refused, and so does the task that holds it.
Before(a) == {b \in Attempts : b < a}
AttemptsInOrder ==
    /\ \A a \in Attempts : queue[a] > 0 => Before(a) \subseteq refused
    /\ \A w \in Workers :
          /\ Before(attempt[w]) \subseteq refused
          /\ pc[w] \in {"save", "retry"} /\ outcome[w] \notin {"2xx", "inactive"}
                => attempt[w] \in refused
          /\ pc[w] = "retry" => outcome[w] \notin {"2xx", "inactive"}

\* tasks.py:22-33: wherever workers die, a pending delivery is settled, unless
\* a task raised (then nothing publishes another message for it).
DeliveryEnds == (row.status = "pending") ~> (row.status # "pending" \/ raised)
==============================================================================
