--------------------------- MODULE ExecutionEngine ---------------------------
(***************************************************************************)
(* One workflow execution and everything that acts on it: the Celery       *)
(* workers that run tasks/execute.py and engine/executor.py, the pause,     *)
(* resume and cancel routes of routes/executions.py, and the recovery pods  *)
(* of engine/recovery.py.  They share the execution's row and checkpoints   *)
(* in PostgreSQL, the lock execution:{id}:lock in Redis, the Celery queue    *)
(* and the two event streams.  Executions share none of these but the        *)
(* queue, so one is enough.                                                 *)
(*                                                                          *)
(* PostgreSQL runs at READ COMMITTED: a SELECT sees the last committed row   *)
(* or its own transaction's version; an UPDATE waits for the row lock, then  *)
(* writes its columns over whatever has been committed meanwhile.           *)
(***************************************************************************)
EXTENDS ExecutionFSM, Integers, FiniteSets

CONSTANTS
    Workers,          \* Celery worker slots that run workflow.execute
    Calls,            \* requests that clients may still make on it
    Offered,          \* what they may ask: "manual_pause", "resume", "cancel"
    Submission,       \* the request that created the execution
    Pods,             \* recovery scans that may run at the same time
    NumSteps,         \* len(workflow_definition.steps)
    CheckpointSteps,  \* the steps with checkpoint_before=True
    CostLimits,       \* what the CostTracker's max_per_execution may be
    MaxCrashes,       \* bound: process deaths and broker refusals
    MaxOutages,       \* bound: publications and lock heartbeats that raise
    MaxQueue,         \* bound: a pod scans only while the queue is shorter
    LeaseMayExpire,   \* may the lock key expire under a live holder?
    Nobody,           \* no owner of a lock
    Orphan            \* token left under the lock key by a dead process

Steps == 0 .. NumSteps - 1
Requests == Calls \cup {Submission}

ASSUME EngineConstants ==
    /\ NumSteps \in Nat
    /\ CheckpointSteps \subseteq Steps
    /\ Offered \subseteq {"manual_pause", "resume", "cancel"}
    /\ CostLimits \subseteq Int
    /\ MaxCrashes \in Nat /\ MaxOutages \in Nat /\ MaxQueue \in Nat
    /\ LeaseMayExpire \in BOOLEAN
    /\ Submission \notin Calls
    /\ Nobody \notin Workers \cup Requests \cup Pods
    /\ Orphan \notin Workers \cup Pods \cup {Nobody}
    /\ Workers \cap Requests = {} /\ Workers \cap Pods = {}

VARIABLES
    row,          \* the committed row: status, context index, stale heartbeat?
    draft,        \* the version written by the transaction that holds the row lock
    rowOwner,     \* that transaction's client, or Nobody (then draft = row)
    checkpoints,  \* committed checkpoints, by step_index
    lock,         \* owner of the token under execution:{id}:lock
    queue,        \* messages of workflow.execute waiting in the broker
    pc,           \* per worker: where its task is
    seen,         \* per worker: the row as its session has it loaded
    at,           \* per worker: the loop variable i
    req,          \* per request: where its handler is
    op,           \* per request: the trigger it applies
    pod,          \* per recovery scan: where it is
    events,       \* per stream: the events published to it
    latest,       \* per stream: the last of them
    limit,        \* max_per_execution, as the CostTracker is given it
    crashes,      \* process deaths so far
    outages       \* publications and heartbeats that raised so far

dbVars == <<row, draft, rowOwner, checkpoints>>
taskVars == <<pc, seen, at>>
eventVars == <<events, latest>>
envVars == <<limit, crashes, outages>>
vars == <<dbVars, lock, queue, taskVars, req, op, pod, eventVars, envVars>>

----------------------------------------------------------------------------
(* Types *)

RowVersion == [status : Status, index : 0..NumSteps, stale : BOOLEAN]

WorkerPC ==
    {"idle", "load", "acquire", "setup", "submit", "announce", "opened",
     "check", "checkpoint", "step", "save", "over_budget", "error", "paused",
     "finish", "completed", "commit", "release", "raise", "close", "rollback",
     "ack"}

\* The labels of the step loop's body, where i is the index of a step.
LoopBody == {"checkpoint", "step", "save", "over_budget", "error"}

RequestPC == {"new", "flush", "commit", "enqueue", "done"}
PodPC == {"idle", "scanned", "enqueue", "release"}

StepCompleted(i) == <<"step.completed", i>>
Started   == <<"execution.started", 0>>
Paused    == <<"execution.paused", 0>>
Completed == <<"execution.completed", 0>>
Event == {StepCompleted(i) : i \in Steps} \cup {Started, Paused, Completed}
Nothing   == <<"nothing", 0>>
Streams == {"executions", "sse"}

TypeOK ==
    /\ row \in RowVersion /\ draft \in RowVersion
    /\ rowOwner \in Workers \cup Requests \cup {Nobody}
    /\ checkpoints \in SUBSET Steps
    /\ lock \in Workers \cup Pods \cup {Nobody, Orphan}
    /\ queue \in Nat
    /\ pc \in [Workers -> WorkerPC]
    /\ seen \in [Workers -> RowVersion]
    /\ at \in [Workers -> 0..NumSteps]
    /\ \A w \in Workers : pc[w] \in LoopBody => at[w] \in Steps
    /\ req \in [Requests -> RequestPC]
    /\ op \in [Requests -> Offered \cup {"none"}]
    /\ pod \in [Pods -> PodPC]
    /\ events \in [Streams -> SUBSET Event]
    /\ latest \in [Streams -> Event \cup {Nothing}]
    /\ limit \in CostLimits
    /\ crashes \in 0..MaxCrashes
    /\ outages \in 0..MaxOutages

NewRow == [status |-> "PENDING", index |-> 0, stale |-> FALSE]

\* execute() has committed the PENDING row and is about to call delay().
Init ==
    /\ row = NewRow /\ draft = NewRow /\ rowOwner = Nobody
    /\ checkpoints = {}
    /\ lock = Nobody
    /\ queue = 0
    /\ pc = [w \in Workers |-> "idle"]
    /\ seen = [w \in Workers |-> NewRow]
    /\ at = [w \in Workers |-> 0]
    /\ req = [r \in Requests |-> IF r = Submission THEN "enqueue" ELSE "new"]
    /\ op = [r \in Requests |-> "none"]
    /\ pod = [p \in Pods |-> "idle"]
    /\ events = [s \in Streams |-> {}]
    /\ latest = [s \in Streams |-> Nothing]
    /\ limit \in CostLimits
    /\ crashes = 0 /\ outages = 0

----------------------------------------------------------------------------
(* PostgreSQL, as its clients see it.  draft is the newest version of the   *)
(* row, committed or not.                                                   *)

\* What a SELECT of client t returns.
Visible(t) == IF rowOwner = t THEN draft ELSE row

\* UPDATE by client t: it takes the row lock, or waits.
Write(t, version) ==
    /\ rowOwner \in {Nobody, t}
    /\ draft' = version
    /\ rowOwner' = t
    /\ row' = row

Commit(t) ==
    /\ rowOwner' = IF rowOwner = t THEN Nobody ELSE rowOwner
    /\ row' = IF rowOwner = t THEN draft ELSE row
    /\ draft' = draft

Rollback(t) ==
    /\ rowOwner' = IF rowOwner = t THEN Nobody ELSE rowOwner
    /\ draft' = IF rowOwner = t THEN row ELSE draft
    /\ row' = row

----------------------------------------------------------------------------
(* A worker's task: tasks/execute.py, _run, then executor.py, run.          *)

Goto(w, label) == pc' = [pc EXCEPT ![w] = label]

\* A worker slot takes a message; with acks_late it stays unacknowledged.
Take(w) ==
    /\ pc[w] = "idle"
    /\ queue > 0
    /\ queue' = queue - 1
    /\ Goto(w, "load")
    /\ UNCHANGED <<dbVars, lock, seen, at, req, op, pod, eventVars, envVars>>

\* SELECT of the execution and check_not_terminal.
Load(w) ==
    /\ pc[w] = "load"
    /\ seen' = [seen EXCEPT ![w] = row]
    /\ Goto(w, IF row.status \in Terminal THEN "ack" ELSE "acquire")
    /\ UNCHANGED <<dbVars, lock, queue, at, req, op, pod, eventVars, envVars>>

\* Faulty variant: the answer of SET NX is not looked at.
LockIsFreeUnchecked == TRUE

LockIsFree == lock = Nobody

\* RedisLock.acquire; a held lock ends the task without an error, so its
\* message is acknowledged.
TryLock(w) ==
    /\ pc[w] = "acquire"
    /\ \/ /\ LockIsFree
          /\ lock' = w
          /\ Goto(w, "setup")
       \/ /\ ~LockIsFree
          /\ Goto(w, "ack")
          /\ UNCHANGED lock
    /\ UNCHANGED <<dbVars, queue, seen, at, req, op, pod, eventVars, envVars>>

\* Faulty variant: the checkpoint is loaded and not used.
IsStartIndexFromScratch(i) == i = 0

\* The step after the checkpoint with the highest step_index, or 0.
IsStartIndex(i) ==
    /\ \A k \in checkpoints : k < i
    /\ i = 0 \/ i - 1 \in checkpoints

MaySubmit(w) == CanTransition(seen[w].status, "submit")

\* get_latest, then transition("submit") on the status loaded before the lock.
Setup(w) ==
    /\ pc[w] = "setup"
    /\ \E i \in 0..NumSteps : IsStartIndex(i) /\ at' = [at EXCEPT ![w] = i]
    /\ Goto(w, IF MaySubmit(w) THEN "submit" ELSE "raise")
    /\ UNCHANGED <<dbVars, lock, queue, seen, req, op, pod, eventVars, envVars>>

\* _update_status: status and last_heartbeat.  SQLAlchemy leaves out of the
\* UPDATE a status equal to the one loaded.
UpdateStatus(w, status, version) ==
    /\ Write(w, [version EXCEPT !.stale = FALSE,
                                !.status = IF seen[w].status = status THEN @ ELSE status])
    /\ seen' = [seen EXCEPT ![w].status = status]
    /\ UNCHANGED checkpoints

Submit(w) ==
    /\ pc[w] = "submit"
    /\ UpdateStatus(w, "RUNNING", draft)
    /\ Goto(w, "announce")
    /\ UNCHANGED <<lock, queue, at, req, op, pod, eventVars, envVars>>

\* The commit that makes RUNNING visible.
Open(w) ==
    /\ pc[w] = "opened"
    /\ Commit(w)
    /\ Goto(w, "check")
    /\ UNCHANGED <<checkpoints, lock, queue, seen, at, req, op, pod, eventVars, envVars>>

\* Faulty variant: one step too many.
InLoopOnceMore(w) == at[w] <= NumSteps

\* for i in range(start_index, len(steps))
InLoop(w) == at[w] < NumSteps

\* Faulty variant: the status loaded at the start of the run.
RefreshedNever(w) == seen[w]

\* The head of the step loop: refresh, and stop on PAUSED or CANCELLED.
StopSignal == {"PAUSED", "CANCELLED"}
Refreshed(w) == Visible(w)

\* should_checkpoint
FirstOfStep(i) == IF i \in CheckpointSteps THEN "checkpoint" ELSE "step"

\* Faulty variant: the checkpoint is written before the stop signal is read.
CheckAfterCheckpoint(w) ==
    /\ pc[w] = "check"
    /\ InLoop(w)
    /\ checkpoints' = checkpoints \cup ({at[w]} \cap CheckpointSteps)
    /\ seen' = [seen EXCEPT ![w] = Refreshed(w)]
    /\ Goto(w, IF Refreshed(w).status \in StopSignal THEN "release" ELSE "step")
    /\ UNCHANGED <<row, draft, rowOwner, lock, queue, at, req, op, pod, eventVars, envVars>>

Check(w) ==
    /\ pc[w] = "check"
    /\ InLoop(w)
    /\ seen' = [seen EXCEPT ![w] = Refreshed(w)]
    /\ Goto(w, IF Refreshed(w).status \in StopSignal THEN "release" ELSE FirstOfStep(at[w]))
    /\ UNCHANGED <<dbVars, lock, queue, at, req, op, pod, eventVars, envVars>>

LeaveLoop(w) ==
    /\ pc[w] = "check"
    /\ ~InLoop(w)
    /\ Goto(w, "finish")
    /\ UNCHANGED <<dbVars, lock, queue, seen, at, req, op, pod, eventVars, envVars>>

\* Faulty variant: the commit after the write is forgotten, and the row is
\* lost with the next rollback.
WriteCheckpointUncommitted(w) ==
    /\ pc[w] = "checkpoint"
    /\ Goto(w, "step")
    /\ UNCHANGED <<dbVars, lock, queue, seen, at, req, op, pod, eventVars, envVars>>

\* CheckpointManager.write, then commit.
WriteCheckpoint(w) ==
    /\ pc[w] = "checkpoint"
    /\ checkpoints' = checkpoints \cup {at[w]}
    /\ Commit(w)
    /\ Goto(w, "step")
    /\ UNCHANGED <<lock, queue, seen, at, req, op, pod, eventVars, envVars>>

\* What cost_tracker.add compares with the limit: every run has a tracker of its
\* own, which starts at 0.0, and the simulated steps add 0.0.
NewTotal == 0
OverBudget == NewTotal > limit

RefuseStep(w) ==
    /\ pc[w] = "step"
    /\ OverBudget
    /\ Goto(w, "over_budget")
    /\ UNCHANGED <<dbVars, lock, queue, seen, at, req, op, pod, eventVars, envVars>>

\* execution.context = ... and flush; no UPDATE if the context is unchanged.
SaveContext(w, version) ==
    [version EXCEPT !.index = IF seen[w].index = at[w] + 1 THEN @ ELSE at[w] + 1]

SaveStep(w) ==
    /\ pc[w] = "save"
    /\ IF seen[w].index = at[w] + 1
       THEN UNCHANGED <<row, draft, rowOwner>>
       ELSE Write(w, SaveContext(w, draft))
    /\ seen' = [seen EXCEPT ![w].index = at[w] + 1]
    /\ at' = [at EXCEPT ![w] = @ + 1]
    /\ Goto(w, "check")
    /\ UNCHANGED <<checkpoints, lock, queue, req, op, pod, eventVars, envVars>>

\* except CostLimitExceeded: the context has not been touched yet.
PauseOverBudget(w) ==
    /\ pc[w] = "over_budget"
    /\ UpdateStatus(w, "PAUSED", draft)
    /\ Goto(w, "paused")
    /\ UNCHANGED <<lock, queue, at, req, op, pod, eventVars, envVars>>

\* except Exception: the flush also writes the context assigned before the
\* publication that raised.
PauseOnError(w) ==
    /\ pc[w] = "error"
    /\ UpdateStatus(w, "PAUSED", SaveContext(w, draft))
    /\ Goto(w, "paused")
    /\ UNCHANGED <<lock, queue, at, req, op, pod, eventVars, envVars>>

Finish(w) ==
    /\ pc[w] = "finish"
    /\ UpdateStatus(w, "COMPLETED", draft)
    /\ Goto(w, "completed")
    /\ UNCHANGED <<lock, queue, at, req, op, pod, eventVars, envVars>>

\* The commit that ends a run as PAUSED or COMPLETED.
CommitRun(w) ==
    /\ pc[w] = "commit"
    /\ Commit(w)
    /\ Goto(w, "release")
    /\ UNCHANGED <<checkpoints, lock, queue, seen, at, req, op, pod, eventVars, envVars>>

\* What the next _publish of w sends, where it does.
Unsent(w) ==
    CASE pc[w] = "announce"  -> {Started}
      [] pc[w] = "step"      -> IF OverBudget THEN {} ELSE {StepCompleted(at[w])}
      [] pc[w] = "paused"    -> {Paused}
      [] pc[w] = "completed" -> {Completed}
      [] OTHER -> {}

\* The last event of a stream to which sent is appended.
Newest(old, sent) == IF sent = {} THEN old ELSE CHOOSE e \in sent : TRUE

\* Faulty variant: the execution's own stream is forgotten.
ReceiversGlobalOnly == {"executions"}

Receivers == Streams

\* _publish: to the global stream, then to the execution's own.
Publish(w) ==
    /\ Unsent(w) # {}
    /\ events' = [s \in Streams |->
                    IF s \in Receivers THEN events[s] \cup Unsent(w) ELSE events[s]]
    /\ latest' = [s \in Streams |->
                    IF s \in Receivers THEN Newest(latest[s], Unsent(w)) ELSE latest[s]]
    /\ Goto(w, CASE pc[w] = "announce" -> "opened"
                 [] pc[w] = "step"     -> "save"
                 [] OTHER              -> "commit")
    /\ UNCHANGED <<dbVars, lock, queue, seen, at, req, op, pod, envVars>>

\* The first or the second XADD raises.  Inside the step loop that is caught
\* and pauses the execution; anywhere else it ends the task.
PublishRaises(w) ==
    /\ Unsent(w) # {}
    /\ outages < MaxOutages
    /\ outages' = outages + 1
    /\ \E sent \in SUBSET Unsent(w) :
          /\ events' = [events EXCEPT !["executions"] = @ \cup sent]
          /\ latest' = [latest EXCEPT !["executions"] = Newest(@, sent)]
    /\ Goto(w, IF pc[w] = "step" THEN "error" ELSE "raise")
    /\ UNCHANGED <<dbVars, lock, queue, seen, at, req, op, pod, limit, crashes>>

\* Faulty variant: the release is forgotten.
LockAfterReleaseKept(w) == lock

\* The Lua script: delete the key if the token is still one's own.
LockAfterRelease(w) == IF lock = w THEN Nobody ELSE lock

\* The heartbeat of t had died of a Redis error, which is raised again where it is
\* awaited: the script is skipped, and the key of t stays until it expires.
HeartbeatRaises(t) ==
    /\ outages < MaxOutages
    /\ outages' = outages + 1
    /\ lock' = IF lock = t THEN Orphan ELSE lock

\* Leaving "async with lock.acquire", normally or with an exception.
Release(w) ==
    /\ pc[w] \in {"release", "raise"}
    /\ \/ /\ lock' = LockAfterRelease(w)
          /\ Goto(w, IF pc[w] = "release" THEN "close" ELSE "rollback")
          /\ UNCHANGED outages
       \/ HeartbeatRaises(w) /\ Goto(w, "rollback")
    /\ UNCHANGED <<dbVars, queue, seen, at, req, op, pod, eventVars, limit, crashes>>

\* Leaving get_db_session_context: commit, or roll back on an exception.
CloseSession(w) ==
    /\ \/ pc[w] = "close" /\ Commit(w)
       \/ pc[w] = "rollback" /\ Rollback(w)
    /\ Goto(w, "ack")
    /\ UNCHANGED <<checkpoints, lock, queue, seen, at, req, op, pod, eventVars, envVars>>

\* The task has returned or raised; with max_retries=0 either way its message
\* is acknowledged and its session forgotten.
ForgetTask(w) ==
    /\ Goto(w, "idle")
    /\ seen' = [seen EXCEPT ![w] = NewRow]
    /\ at' = [at EXCEPT ![w] = 0]

Ack(w) ==
    /\ pc[w] = "ack"
    /\ ForgetTask(w)
    /\ UNCHANGED <<dbVars, lock, queue, req, op, pod, eventVars, envVars>>

\* The worker process dies: its transaction is rolled back, its lock key stays
\* until it expires, its message goes back to the queue.
Crash(w) ==
    /\ pc[w] # "idle"
    /\ crashes < MaxCrashes
    /\ crashes' = crashes + 1
    /\ queue' = queue + 1
    /\ lock' = IF lock = w THEN Orphan ELSE lock
    /\ Rollback(w)
    /\ \E sent \in SUBSET Unsent(w) :
          /\ events' = [events EXCEPT !["executions"] = @ \cup sent]
          /\ latest' = [latest EXCEPT !["executions"] = Newest(@, sent)]
    /\ ForgetTask(w)
    /\ UNCHANGED <<checkpoints, req, op, pod, limit, outages>>

----------------------------------------------------------------------------
(* A request: routes/executions.py.                                         *)

\* SELECT and transition(); an invalid one answers 409.
Receive(r) ==
    /\ req[r] = "new"
    /\ \E t \in Offered :
          IF CanTransition(row.status, t)
          THEN op' = [op EXCEPT ![r] = t] /\ req' = [req EXCEPT ![r] = "flush"]
          ELSE op' = op /\ req' = [req EXCEPT ![r] = "done"]
    /\ UNCHANGED <<dbVars, lock, queue, taskVars, pod, eventVars, envVars>>

\* UPDATE of the status, whatever it has become since the SELECT.
Flush(r) ==
    /\ req[r] = "flush"
    /\ \E t \in Transitions : t[2] = op[r] /\ Write(r, [draft EXCEPT !.status = t[3]])
    /\ req' = [req EXCEPT ![r] = "commit"]
    /\ UNCHANGED <<checkpoints, lock, queue, taskVars, op, pod, eventVars, envVars>>

\* Faulty variant: a handler that neither commits nor closes its session.
CommitRequestForgotten(r) ==
    /\ req[r] = "commit"
    /\ req' = [req EXCEPT ![r] = "done"]
    /\ UNCHANGED <<dbVars, lock, queue, taskVars, op, pod, eventVars, envVars>>

CommitRequest(r) ==
    /\ req[r] = "commit"
    /\ Commit(r)
    /\ req' = [req EXCEPT ![r] = IF op[r] = "resume" THEN "enqueue" ELSE "done"]
    /\ UNCHANGED <<checkpoints, lock, queue, taskVars, op, pod, eventVars, envVars>>

\* execute_workflow.delay, after the commit, in resume and in execute.
Enqueue(r) ==
    /\ req[r] = "enqueue"
    /\ queue' = queue + 1
    /\ req' = [req EXCEPT ![r] = "done"]
    /\ UNCHANGED <<dbVars, lock, taskVars, op, pod, eventVars, envVars>>

\* The web process dies, or the broker refuses the message.
RequestDies(r) ==
    /\ req[r] \in {"commit", "enqueue"}
    /\ crashes < MaxCrashes
    /\ crashes' = crashes + 1
    /\ Rollback(r)
    /\ req' = [req EXCEPT ![r] = "done"]
    /\ UNCHANGED <<checkpoints, lock, queue, taskVars, op, pod, eventVars, limit, outages>>

----------------------------------------------------------------------------
(* A recovery scan: tasks/recover.py and engine/recovery.py.                *)

\* get_stale_executions returned this execution.
Scan(p) ==
    /\ pod[p] = "idle"
    /\ row.status = "RUNNING" /\ row.stale
    /\ queue < MaxQueue
    /\ pod' = [pod EXCEPT ![p] = "scanned"]
    /\ UNCHANGED <<dbVars, lock, queue, taskVars, req, op, eventVars, envVars>>

\* Faulty variant: re-enqueueing without the lock.
ClaimWithoutLock(p) ==
    /\ pod[p] = "scanned"
    /\ pod' = [pod EXCEPT ![p] = "enqueue"]
    /\ UNCHANGED <<dbVars, lock, queue, taskVars, req, op, eventVars, envVars>>

\* try_recover: take the lock, or skip.
Claim(p) ==
    /\ pod[p] = "scanned"
    /\ \/ LockIsFree /\ lock' = p /\ pod' = [pod EXCEPT ![p] = "enqueue"]
       \/ ~LockIsFree /\ UNCHANGED lock /\ pod' = [pod EXCEPT ![p] = "idle"]
    /\ UNCHANGED <<dbVars, queue, taskVars, req, op, eventVars, envVars>>

Requeue(p) ==
    /\ pod[p] = "enqueue"
    /\ queue' = queue + 1
    /\ pod' = [pod EXCEPT ![p] = "release"]
    /\ UNCHANGED <<dbVars, lock, taskVars, req, op, eventVars, envVars>>

\* The broker refuses the message; the lock is still released.
RequeueRaises(p) ==
    /\ pod[p] = "enqueue"
    /\ crashes < MaxCrashes
    /\ crashes' = crashes + 1
    /\ pod' = [pod EXCEPT ![p] = "release"]
    /\ UNCHANGED <<dbVars, lock, queue, taskVars, req, op, eventVars, limit, outages>>

Unclaim(p) ==
    /\ pod[p] = "release"
    /\ \/ lock' = LockAfterRelease(p) /\ UNCHANGED outages
       \/ HeartbeatRaises(p)
    /\ pod' = [pod EXCEPT ![p] = "idle"]
    /\ UNCHANGED <<dbVars, queue, taskVars, req, op, eventVars, limit, crashes>>

PodDies(p) ==
    /\ pod[p] \in {"enqueue", "release"}
    /\ crashes < MaxCrashes
    /\ crashes' = crashes + 1
    /\ lock' = IF lock = p THEN Orphan ELSE lock
    /\ pod' = [pod EXCEPT ![p] = "idle"]
    /\ UNCHANGED <<dbVars, queue, taskVars, req, op, eventVars, limit, outages>>

----------------------------------------------------------------------------
(* Time.                                                                    *)

\* The lock key's TTL runs out (module RedisLock says when that may happen
\* under a live holder).
LockExpires ==
    /\ lock = Orphan \/ (LeaseMayExpire /\ lock # Nobody)
    /\ lock' = Nobody
    /\ UNCHANGED <<dbVars, queue, taskVars, req, op, pod, eventVars, envVars>>

\* execution_stale_threshold_minutes pass without a status change: nothing
\* else writes last_heartbeat, however alive the worker is.
HeartbeatAges ==
    /\ row.status = "RUNNING" /\ ~row.stale
    /\ row' = [row EXCEPT !.stale = TRUE]
    /\ draft' = [draft EXCEPT !.stale = TRUE]
    /\ UNCHANGED <<rowOwner, checkpoints, lock, queue, taskVars, req, op, pod,
                   eventVars, envVars>>

----------------------------------------------------------------------------
Work(w) ==
    \/ Take(w) \/ Load(w) \/ TryLock(w) \/ Setup(w) \/ Submit(w) \/ Publish(w)
    \/ Open(w) \/ Check(w) \/ LeaveLoop(w) \/ WriteCheckpoint(w) \/ RefuseStep(w)
    \/ SaveStep(w) \/ PauseOverBudget(w) \/ PauseOnError(w) \/ Finish(w)
    \/ CommitRun(w) \/ Release(w) \/ CloseSession(w) \/ Ack(w)

Serve(r) == Flush(r) \/ CommitRequest(r) \/ Enqueue(r)

Recover(p) == Scan(p) \/ Claim(p) \/ Requeue(p) \/ Unclaim(p)

Next ==
    \/ \E w \in Workers : Work(w) \/ PublishRaises(w) \/ Crash(w)
    \/ \E r \in Requests : Receive(r) \/ Serve(r) \/ RequestDies(r)
    \/ \E p \in Pods : Recover(p) \/ RequeueRaises(p) \/ PodDies(p)
    \/ LockExpires
    \/ HeartbeatAges

Spec == Init /\ [][Next]_vars

\* Celery workers and the event loop keep running what they have started, beat
\* keeps scanning, time passes.  No fairness makes a client call, a process
\* die or a publication raise.
FairSpec ==
    /\ Spec
    /\ \A w \in Workers : WF_vars(Work(w))
    /\ \A r \in Requests : WF_vars(Serve(r))
    /\ \A p \in Pods : WF_vars(Recover(p))
    /\ WF_vars(lock = Orphan /\ LockExpires)
    /\ WF_vars(HeartbeatAges)

----------------------------------------------------------------------------
(* Safety. *)

\* The labels between a successful RedisLock.acquire and the release.
LockBody ==
    WorkerPC \ {"idle", "load", "acquire", "close", "rollback", "ack"}
Inside(w) == pc[w] \in LockBody
Claiming(p) == pod[p] \in {"enqueue", "release"}

\* README "Split-brain prevention": two workers never advance the same
\* execution at the same time (executor.py:134-288).
OneExecutor == \A v, w \in Workers : Inside(v) /\ Inside(w) => v = w

\* recovery.py:5-9: a scan that got the lock re-enqueues an execution nobody
\* is advancing.
RecoverySparesLiveWorker ==
    \A p \in Pods, w \in Workers : ~(Claiming(p) /\ Inside(w))

\* executor.py:5: a checkpointed step reports completion only after its
\* checkpoint is committed, whatever crashes or fails in between.
CheckpointBeforeEvent ==
    \A i \in CheckpointSteps :
        StepCompleted(i) \in events["executions"] => i \in checkpoints

\* executor.py:83-88: what the engine commits has been announced on both
\* streams, so no client sees a COMPLETED row whose event was never sent.
CommittedIsAnnounced ==
    \A s \in Streams :
        /\ row.status = "RUNNING" => Started \in events[s]
        /\ row.status = "COMPLETED" => Completed \in events[s]

\* README "resume from the last completed step, not the beginning": no run
\* works on a step that lies before a committed checkpoint (executor.py:145-150).
NeverBeforeCheckpoint ==
    \A w \in Workers :
        pc[w] \in {"checkpoint", "step", "save"} => \A k \in checkpoints : k <= at[w]

\* A COMPLETED execution has reported every step of its workflow on the stream
\* its clients follow (executor.py:171-219).
NoStepSkipped ==
    row.status = "COMPLETED" => \A i \in Steps : StepCompleted(i) \in events["sse"]

----------------------------------------------------------------------------
(* Strengthenings that make the safety properties inductive. *)

\* The lock key is held by whoever is inside the lock body (no lease lost).
LockOwned ==
    /\ \A w \in Workers : Inside(w) => lock = w
    /\ \A p \in Pods : Claiming(p) => lock = p

\* A token goes with its owner: nobody leaves the lock body and keeps the key.
LockIsLive ==
    /\ lock \in Workers => Inside(lock)
    /\ lock \in Pods => Claiming(lock)

\* A transaction between the UPDATE and the announcement of a status, or one
\* whose announcement raised: it will not commit.
Unannounced(label) ==
    rowOwner \in Workers /\ pc[rowOwner] \in {label, "raise", "rollback"}

AnnouncedOrUncommitted ==
    \A s \in Streams :
        /\ draft.status = "RUNNING" => Started \in events[s] \/ Unannounced("announce")
        /\ draft.status = "COMPLETED" => Completed \in events[s] \/ Unannounced("completed")

\* A worker at a checkpointed step has its checkpoint committed.
StepHasCheckpoint ==
    \A w \in Workers : pc[w] = "step" /\ at[w] \in CheckpointSteps => at[w] \in checkpoints

\* Without a writer the newest version is the committed one, and inside the
\* loop a worker's uncommitted version has changed the context only.
DraftFollowsRow ==
    /\ rowOwner = Nobody => draft = row
    /\ \A w \in Workers :
          rowOwner = w /\ pc[w] \in {"check", "checkpoint", "step", "save"}
              => draft.status = row.status

\* A run never starts, or gets, behind a committed checkpoint.
AheadOfCheckpoints ==
    \A w \in Workers :
        Inside(w) /\ pc[w] # "setup" => \A k \in checkpoints : k <= at[w]

\* No fault strikes: nothing dies, no publication or heartbeat raises, every cost
\* is within the limit and no lease is lost.
Calm ==
    /\ MaxCrashes = 0 /\ MaxOutages = 0 /\ ~LeaseMayExpire
    /\ \A l \in CostLimits : NewTotal <= l

Reported(i) == StepCompleted(i) \in events["sse"]

\* In a calm system every step up to the newest checkpoint has been reported,
\* save the one a worker is at, so a run may start behind it.
NothingSkipped ==
    /\ \A k \in checkpoints :
          /\ \A i \in Steps : i < k => Reported(i)
          /\ Reported(k) \/ \E w \in Workers : pc[w] = "step" /\ at[w] = k
    /\ \A w \in Workers :
          /\ Inside(w) /\ pc[w] \notin {"setup", "raise"}
                => \A i \in Steps : i < at[w] => Reported(i)
          /\ pc[w] = "save" => Reported(at[w])
          /\ pc[w] \in {"finish", "completed"} => at[w] = NumSteps
          /\ pc[w] \notin {"over_budget", "error", "paused"}
    /\ draft.status = "COMPLETED" => \A i \in Steps : Reported(i)
    /\ row.status = "COMPLETED" => \A i \in Steps : Reported(i)

\* An event after which a run is at step i, and one that leaves a run open.
Awaits(e, i) == e = Started \/ (i - 1 \in Steps /\ e = StepCompleted(i - 1))
OfOpenRun(e) == e = Started \/ \E i \in Steps : e = StepCompleted(i)

\* The last event of either stream is that of the run a worker is in.
LatestIsOfRun ==
    \A w \in Workers, s \in Streams :
        /\ pc[w] = "opened" => latest[s] = Started
        /\ pc[w] \in {"check", "checkpoint", "step", "finish", "completed"}
              => Awaits(latest[s], at[w])
        /\ pc[w] = "save" => latest[s] = StepCompleted(at[w])
        /\ pc[w] \in {"over_budget", "error", "paused"} => OfOpenRun(latest[s])
        /\ pc[w] \in {"finish", "completed"} => at[w] = NumSteps

\* _publish writes to the global stream first.
OwnInGlobal == events["sse"] \subseteq events["executions"]

----------------------------------------------------------------------------
(* Action properties. *)

\* README "takes effect before the next step begins": no step starts while the
\* committed status is PAUSED or CANCELLED.
NoStepStartsOnceStopped ==
    [][\A w \in Workers :
          pc[w] = "check" /\ pc'[w] \in {"checkpoint", "step"}
              => row.status \notin StopSignal]_vars

----------------------------------------------------------------------------
(* Refinement. *)

\* Whoever is between RedisLock.acquire and the release.
Holders == {w \in Workers : Inside(w)} \cup {p \in Pods : Claiming(p)}

Lease == INSTANCE LeaseLock WITH
    Clients <- Workers \cup Pods,
    token   <- lock,
    inside  <- Holders

\* executor.py:134-288 and recovery.py:44-63 use the key as RedisLock provides
\* it: in only with the key free, out on every path, however the body ends, and
\* without taking the key of another.
UsesLease == Lease!Spec

Global == INSTANCE ExecutionReport WITH
    Faultless <- Calm, status <- row.status,
    told <- events["executions"], latest <- latest["executions"]

Own == INSTANCE ExecutionReport WITH
    Faultless <- Calm, status <- row.status,
    told <- events["sse"], latest <- latest["sse"]

\* executor.py:156-276: on either stream every run reads as started, steps in
\* order, paused or completed, whichever workers wrote it and whatever died or
\* raised between two of them; and no status is committed before its event.
ReportsRun == Global!Spec /\ Own!Spec

----------------------------------------------------------------------------
(* Liveness. *)

\* A run ends: RUNNING does not last.
RunEnds == (row.status = "RUNNING") ~> (row.status # "RUNNING")

\* The lock is not kept by those who are done with it.
LockComesBack == (lock # Nobody) ~> (lock = Nobody)
==============================================================================
