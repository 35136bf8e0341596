------------------------ MODULE ExecutionEngine_proofs ------------------------
(***************************************************************************)
(* Invariants of the execution engine for every set of workers, requests   *)
(* and pods, every workflow and every number of faults.                     *)
(***************************************************************************)
EXTENDS ExecutionEngine, TLAPS

USE DEF eventVars

\* What is about to be published is an event.
LEMMA UnsentTyped ==
  ASSUME TypeOK, NEW w \in Workers
  PROVE  Unsent(w) \subseteq Event
  BY DEF Unsent, Event, TypeOK, LoopBody

\* The newest event of a stream is the one it had or one of those just sent.
LEMMA NewestOfBoth ==
  ASSUME NEW old, NEW sent
  PROVE  /\ Newest(old, sent) \in sent \cup {old}
         /\ sent # {} => Newest(old, sent) \in sent
<1>1. CASE sent = {}
  BY <1>1 DEF Newest
<1>2. CASE sent # {}
  <2>1. PICK e : e \in sent
    BY <1>2
  <2>2. (CHOOSE x \in sent : TRUE) \in sent
    BY <2>1
  <2> QED
    BY <1>2, <2>2 DEF Newest
<1> QED
  BY <1>1, <1>2

\* Publishing some of it leaves every stream a set of events and a last event.
LEMMA PublishTyped ==
  ASSUME TypeOK, NEW w \in Workers, NEW sent \in SUBSET Unsent(w),
         \/ /\ events' = [events EXCEPT !["executions"] = @ \cup sent]
            /\ latest' = [latest EXCEPT !["executions"] = Newest(@, sent)]
         \/ /\ events' = [s \in Streams |->
                            IF s \in Receivers THEN events[s] \cup Unsent(w) ELSE events[s]]
            /\ latest' = [s \in Streams |->
                            IF s \in Receivers THEN Newest(latest[s], Unsent(w)) ELSE latest[s]]
  PROVE  /\ events' \in [Streams -> SUBSET Event]
         /\ latest' \in [Streams -> Event \cup {Nothing}]
<1>1. \A s \in Streams : latest[s] \in Event \cup {Nothing}
  BY DEF TypeOK
<1>2. \A s \in Streams : /\ Newest(latest[s], sent) \in Event \cup {Nothing}
                         /\ Newest(latest[s], Unsent(w)) \in Event \cup {Nothing}
  BY <1>1, NewestOfBoth, UnsentTyped
<1>3. "executions" \in Streams
  BY DEF Streams
<1>4. latest \in [Streams -> Event \cup {Nothing}] /\ events \in [Streams -> SUBSET Event]
  BY DEF TypeOK
<1> HIDE DEF TypeOK
<1>5. events' \in [Streams -> SUBSET Event]
  BY <1>3, <1>4, UnsentTyped
<1>6. latest' \in [Streams -> Event \cup {Nothing}]
  BY <1>2, <1>3, <1>4
<1> QED
  BY <1>5, <1>6

\* An UPDATE that puts a status and an index of the right types into the newest
\* version of the row leaves a well-typed row.
LEMMA WriteTyped ==
  ASSUME TypeOK, NEW t \in Workers \cup Requests, NEW version \in RowVersion, Write(t, version)
  PROVE  /\ row' \in RowVersion /\ draft' \in RowVersion
         /\ rowOwner' \in Workers \cup Requests \cup {Nobody}
  BY DEF TypeOK, Write

\* The context that a step saves has an index of the workflow (executor.py:202-204).
LEMMA SaveContextTyped ==
  ASSUME TypeOK, NEW w \in Workers, at[w] \in Steps
  PROVE  SaveContext(w, draft) \in RowVersion
  BY EngineConstants DEF TypeOK, SaveContext, RowVersion, Steps

\* _update_status leaves well-typed versions of the row (executor.py:90-110).
LEMMA UpdateStatusTyped ==
  ASSUME TypeOK, NEW w \in Workers, NEW status \in Status, NEW version \in RowVersion,
         UpdateStatus(w, status, version)
  PROVE  /\ row' \in RowVersion /\ draft' \in RowVersion
         /\ rowOwner' \in Workers \cup Requests \cup {Nobody}
         /\ seen' \in [Workers -> RowVersion]
         /\ checkpoints' = checkpoints
<1>1. [version EXCEPT !.stale = FALSE,
                      !.status = IF seen[w].status = status THEN @ ELSE status] \in RowVersion
  BY DEF RowVersion
<1>2. seen' \in [Workers -> RowVersion] /\ checkpoints' = checkpoints
  BY DEF UpdateStatus, RowVersion, TypeOK
<1> QED
  BY <1>1, <1>2, WriteTyped DEF UpdateStatus

\* Every variable of the engine keeps its type (tasks/execute.py,
\* engine/executor.py, engine/recovery.py, routes/executions.py).
THEOREM TypeCorrect == Spec => []TypeOK
<1> USE EngineConstants DEF Requests, Steps
<1>1. Init => TypeOK
  BY DEF Init, TypeOK, NewRow, RowVersion, Status, WorkerPC, LoopBody, RequestPC, PodPC,
         Event, Streams
<1>2. TypeOK /\ [Next]_vars => TypeOK'
  <2> SUFFICES ASSUME TypeOK, [Next]_vars PROVE TypeOK'
    OBVIOUS
  <2> USE DEF TypeOK, RowVersion, Status, WorkerPC, LoopBody, RequestPC, PodPC,
              Goto, dbVars, taskVars, envVars
  <2>1. ASSUME NEW w \in Workers, Take(w) PROVE TypeOK'
    BY <2>1 DEF Take
  <2>2. ASSUME NEW w \in Workers, Load(w) PROVE TypeOK'
    BY <2>2 DEF Load, NewRow
  <2>3. ASSUME NEW w \in Workers, TryLock(w) PROVE TypeOK'
    BY <2>3 DEF TryLock, LockIsFree
  <2>4. ASSUME NEW w \in Workers, Setup(w) PROVE TypeOK'
    BY <2>4 DEF Setup, MaySubmit, IsStartIndex
  <2>5. ASSUME NEW w \in Workers, Submit(w) PROVE TypeOK'
    BY <2>5, UpdateStatusTyped DEF Submit
  <2>6. ASSUME NEW w \in Workers, Publish(w) PROVE TypeOK'
    <3>1. /\ events' \in [Streams -> SUBSET Event]
          /\ latest' \in [Streams -> Event \cup {Nothing}]
      BY <2>6, PublishTyped DEF Publish
    <3>2. \A v \in Workers : pc'[v] \in LoopBody => at[v] \in Steps
      BY <2>6 DEF Publish, Unsent
    <3>3. pc' \in [Workers -> WorkerPC]
      BY <2>6 DEF Publish
    <3>4. QED
      BY <3>1, <3>2, <3>3, <2>6 DEF Publish
  <2>7. ASSUME NEW w \in Workers, Open(w) PROVE TypeOK'
    BY <2>7 DEF Open, Commit
  <2>8. ASSUME NEW w \in Workers, Check(w) PROVE TypeOK'
    BY <2>8 DEF Check, Refreshed, Visible, FirstOfStep, InLoop
  <2>9. ASSUME NEW w \in Workers, LeaveLoop(w) PROVE TypeOK'
    BY <2>9 DEF LeaveLoop, InLoop
  <2>10. ASSUME NEW w \in Workers, WriteCheckpoint(w) PROVE TypeOK'
    BY <2>10 DEF WriteCheckpoint, Commit
  <2>11. ASSUME NEW w \in Workers, RefuseStep(w) PROVE TypeOK'
    BY <2>11 DEF RefuseStep
  <2>12. ASSUME NEW w \in Workers, SaveStep(w) PROVE TypeOK'
    BY <2>12 DEF SaveStep, SaveContext, Write
  <2>13. ASSUME NEW w \in Workers, PauseOverBudget(w) PROVE TypeOK'
    BY <2>13, UpdateStatusTyped DEF PauseOverBudget
  <2>14. ASSUME NEW w \in Workers, PauseOnError(w) PROVE TypeOK'
    <3>1. SaveContext(w, draft) \in RowVersion
      BY <2>14, SaveContextTyped DEF PauseOnError
    <3>2. QED
      BY <3>1, UpdateStatusTyped, <2>14 DEF PauseOnError
  <2>15. ASSUME NEW w \in Workers, Finish(w) PROVE TypeOK'
    BY <2>15, UpdateStatusTyped DEF Finish
  <2>16. ASSUME NEW w \in Workers, CommitRun(w) PROVE TypeOK'
    BY <2>16 DEF CommitRun, Commit
  <2>17. ASSUME NEW w \in Workers, Release(w) PROVE TypeOK'
    BY <2>17 DEF Release, LockAfterRelease, HeartbeatRaises
  <2>18. ASSUME NEW w \in Workers, CloseSession(w) PROVE TypeOK'
    BY <2>18 DEF CloseSession, Commit, Rollback
  <2>19. ASSUME NEW w \in Workers, Ack(w) PROVE TypeOK'
    BY <2>19 DEF Ack, ForgetTask, NewRow
  <2>20. ASSUME NEW w \in Workers, PublishRaises(w) PROVE TypeOK'
    <3>1. /\ events' \in [Streams -> SUBSET Event]
          /\ latest' \in [Streams -> Event \cup {Nothing}]
      BY <2>20, PublishTyped DEF PublishRaises
    <3>2. QED
      BY <3>1, <2>20 DEF PublishRaises
  <2>21. ASSUME NEW w \in Workers, Crash(w) PROVE TypeOK'
    <3>1. /\ events' \in [Streams -> SUBSET Event]
          /\ latest' \in [Streams -> Event \cup {Nothing}]
      BY <2>21, PublishTyped DEF Crash
    <3>2. /\ row' \in RowVersion /\ draft' \in RowVersion
          /\ rowOwner' \in Workers \cup Requests \cup {Nobody}
      BY <2>21 DEF Crash, Rollback
    <3>3. QED
      BY <3>1, <3>2, <2>21 DEF Crash, ForgetTask, NewRow
  <2>22. ASSUME NEW r \in Requests, Receive(r) PROVE TypeOK'
    <3>1. PICK t \in Offered :
            IF CanTransition(row.status, t)
            THEN op' = [op EXCEPT ![r] = t] /\ req' = [req EXCEPT ![r] = "flush"]
            ELSE op' = op /\ req' = [req EXCEPT ![r] = "done"]
      BY <2>22 DEF Receive
    <3>2. op' \in [Requests -> Offered \cup {"none"}] /\ req' \in [Requests -> RequestPC]
      <4>1. CASE CanTransition(row.status, t)
        BY <3>1, <4>1
      <4>2. CASE ~CanTransition(row.status, t)
        BY <3>1, <4>2
      <4>3. QED
        BY <4>1, <4>2
    <3>3. QED
      BY <3>2, <2>22 DEF Receive
  <2>23. ASSUME NEW r \in Requests, Flush(r) PROVE TypeOK'
    <3>1. PICK t \in Transitions : Write(r, [draft EXCEPT !.status = t[3]])
      BY <2>23 DEF Flush
    <3>2. t[3] \in Status
      BY DEF Transitions, Status
    <3>3. [draft EXCEPT !.status = t[3]] \in RowVersion
      BY <3>2
    <3>4. QED
      BY <3>1, <3>3, WriteTyped, <2>23 DEF Flush
  <2>24. ASSUME NEW r \in Requests, CommitRequest(r) PROVE TypeOK'
    BY <2>24 DEF CommitRequest, Commit
  <2>25. ASSUME NEW r \in Requests, Enqueue(r) PROVE TypeOK'
    BY <2>25 DEF Enqueue
  <2>26. ASSUME NEW r \in Requests, RequestDies(r) PROVE TypeOK'
    BY <2>26 DEF RequestDies, Rollback
  <2>27. ASSUME NEW p \in Pods, Scan(p) PROVE TypeOK'
    BY <2>27 DEF Scan
  <2>28. ASSUME NEW p \in Pods, Claim(p) PROVE TypeOK'
    BY <2>28 DEF Claim, LockIsFree
  <2>29. ASSUME NEW p \in Pods, Requeue(p) PROVE TypeOK'
    BY <2>29 DEF Requeue
  <2>30. ASSUME NEW p \in Pods, Unclaim(p) PROVE TypeOK'
    BY <2>30 DEF Unclaim, LockAfterRelease, HeartbeatRaises
  <2>31. ASSUME NEW p \in Pods, RequeueRaises(p) PROVE TypeOK'
    BY <2>31 DEF RequeueRaises
  <2>32. ASSUME NEW p \in Pods, PodDies(p) PROVE TypeOK'
    BY <2>32 DEF PodDies
  <2>33. CASE LockExpires
    BY <2>33 DEF LockExpires
  <2>34. CASE HeartbeatAges
    BY <2>34 DEF HeartbeatAges
  <2>35. CASE UNCHANGED vars
    BY <2>35 DEF vars
  <2>36. QED
    BY <2>1, <2>2, <2>3, <2>4, <2>5, <2>6, <2>7, <2>8, <2>9, <2>10, <2>11,
       <2>12, <2>13, <2>14, <2>15, <2>16, <2>17, <2>18, <2>19, <2>20, <2>21,
       <2>22, <2>23, <2>24, <2>25, <2>26, <2>27, <2>28, <2>29, <2>30, <2>31,
       <2>32, <2>33, <2>34, <2>35 DEF Next, Work, Serve, Recover
<1>3. QED
  BY <1>1, <1>2, PTL DEF Spec

-----------------------------------------------------------------------------
\* While no lease is lost, the lock key belongs to whoever is inside the lock
\* body: SET NX admits one, the compare-and-delete removes only one's own key,
\* a dead holder leaves a key that is nobody else's (redis_lock.py:28-58).
LEMMA LockOwnedStep ==
  ASSUME ~LeaseMayExpire, TypeOK, LockOwned, [Next]_vars
  PROVE  LockOwned'
<1> USE EngineConstants DEF LockOwned, Inside, Claiming, LockBody, WorkerPC, TypeOK, Goto,
         dbVars, taskVars, envVars
<1>1. ASSUME NEW w \in Workers, Take(w) PROVE LockOwned'
  BY <1>1 DEF Take
<1>2. ASSUME NEW w \in Workers, Load(w) PROVE LockOwned'
  BY <1>2 DEF Load
<1>3. ASSUME NEW w \in Workers, TryLock(w) PROVE LockOwned'
  BY <1>3 DEF TryLock, LockIsFree
<1>4. ASSUME NEW w \in Workers, Setup(w) PROVE LockOwned'
  BY <1>4 DEF Setup
<1>5. ASSUME NEW w \in Workers, Submit(w) PROVE LockOwned'
  BY <1>5 DEF Submit
<1>6. ASSUME NEW w \in Workers, Publish(w) PROVE LockOwned'
  BY <1>6 DEF Publish, Unsent, Receivers
<1>7. ASSUME NEW w \in Workers, Open(w) PROVE LockOwned'
  BY <1>7 DEF Open
<1>8. ASSUME NEW w \in Workers, Check(w) PROVE LockOwned'
  BY <1>8 DEF Check, Refreshed, Visible, FirstOfStep, InLoop
<1>9. ASSUME NEW w \in Workers, LeaveLoop(w) PROVE LockOwned'
  BY <1>9 DEF LeaveLoop
<1>10. ASSUME NEW w \in Workers, WriteCheckpoint(w) PROVE LockOwned'
  BY <1>10 DEF WriteCheckpoint
<1>11. ASSUME NEW w \in Workers, RefuseStep(w) PROVE LockOwned'
  BY <1>11 DEF RefuseStep
<1>12. ASSUME NEW w \in Workers, SaveStep(w) PROVE LockOwned'
  BY <1>12 DEF SaveStep
<1>13. ASSUME NEW w \in Workers, PauseOverBudget(w) PROVE LockOwned'
  BY <1>13 DEF PauseOverBudget
<1>14. ASSUME NEW w \in Workers, PauseOnError(w) PROVE LockOwned'
  BY <1>14 DEF PauseOnError
<1>15. ASSUME NEW w \in Workers, Finish(w) PROVE LockOwned'
  BY <1>15 DEF Finish
<1>16. ASSUME NEW w \in Workers, CommitRun(w) PROVE LockOwned'
  BY <1>16 DEF CommitRun
<1>17. ASSUME NEW w \in Workers, Release(w) PROVE LockOwned'
  BY <1>17 DEF Release, LockAfterRelease, HeartbeatRaises
<1>18. ASSUME NEW w \in Workers, CloseSession(w) PROVE LockOwned'
  BY <1>18 DEF CloseSession
<1>19. ASSUME NEW w \in Workers, Ack(w) PROVE LockOwned'
  BY <1>19 DEF Ack, ForgetTask
<1>20. ASSUME NEW w \in Workers, PublishRaises(w) PROVE LockOwned'
  BY <1>20 DEF PublishRaises, Unsent
<1>21. ASSUME NEW w \in Workers, Crash(w) PROVE LockOwned'
  BY <1>21 DEF Crash, Rollback, ForgetTask
<1>22. ASSUME NEW r \in Requests, Receive(r) PROVE LockOwned'
  BY <1>22 DEF Receive
<1>23. ASSUME NEW r \in Requests, Flush(r) PROVE LockOwned'
  BY <1>23 DEF Flush
<1>24. ASSUME NEW r \in Requests, CommitRequest(r) PROVE LockOwned'
  BY <1>24 DEF CommitRequest
<1>25. ASSUME NEW r \in Requests, Enqueue(r) PROVE LockOwned'
  BY <1>25 DEF Enqueue
<1>26. ASSUME NEW r \in Requests, RequestDies(r) PROVE LockOwned'
  BY <1>26 DEF RequestDies
<1>27. ASSUME NEW p \in Pods, Scan(p) PROVE LockOwned'
  BY <1>27 DEF Scan
<1>28. ASSUME NEW p \in Pods, Claim(p) PROVE LockOwned'
  BY <1>28 DEF Claim, LockIsFree
<1>29. ASSUME NEW p \in Pods, Requeue(p) PROVE LockOwned'
  BY <1>29 DEF Requeue
<1>30. ASSUME NEW p \in Pods, Unclaim(p) PROVE LockOwned'
  BY <1>30 DEF Unclaim, LockAfterRelease, HeartbeatRaises
<1>31. ASSUME NEW p \in Pods, RequeueRaises(p) PROVE LockOwned'
  BY <1>31 DEF RequeueRaises
<1>32. ASSUME NEW p \in Pods, PodDies(p) PROVE LockOwned'
  BY <1>32 DEF PodDies
<1>33. CASE LockExpires
  BY <1>33 DEF LockExpires
<1>34. CASE HeartbeatAges
  BY <1>34 DEF HeartbeatAges
<1>35. CASE UNCHANGED vars
  BY <1>35 DEF vars
<1>36. QED
  BY <1>1, <1>2, <1>3, <1>4, <1>5, <1>6, <1>7, <1>8, <1>9, <1>10, <1>11,
     <1>12, <1>13, <1>14, <1>15, <1>16, <1>17, <1>18, <1>19, <1>20, <1>21,
     <1>22, <1>23, <1>24, <1>25, <1>26, <1>27, <1>28, <1>29, <1>30, <1>31,
     <1>32, <1>33, <1>34, <1>35 DEF Next, Work, Serve, Recover

\* Ownership holds in every state while no lease is lost.
LEMMA OwnershipHolds ==
  ASSUME ~LeaseMayExpire
  PROVE  Spec => []LockOwned
<1>1. Init => LockOwned
  BY DEF Init, LockOwned, Inside, Claiming, LockBody
<1>2. TypeOK /\ LockOwned /\ [Next]_vars => LockOwned'
  BY LockOwnedStep
<1>3. QED
  BY <1>1, <1>2, TypeCorrect, PTL DEF Spec

\* README "Split-brain prevention" while no lease is lost: one worker at a time
\* advances the execution (executor.py:134-288).
THEOREM LockSafety ==
  ASSUME ~LeaseMayExpire
  PROVE  Spec => []OneExecutor
<1>1. LockOwned => OneExecutor
  BY DEF LockOwned, OneExecutor
<1>2. QED
  BY <1>1, OwnershipHolds, PTL

\* recovery.py:5-9 while no lease is lost: a scan that holds the lock finds
\* nobody at the execution.
THEOREM ScansFindNobody ==
  ASSUME ~LeaseMayExpire
  PROVE  Spec => []RecoverySparesLiveWorker
<1>1. LockOwned => RecoverySparesLiveWorker
  BY EngineConstants DEF LockOwned, RecoverySparesLiveWorker
<1>2. QED
  BY <1>1, OwnershipHolds, PTL

-----------------------------------------------------------------------------
\* A run starts after the newest checkpoint and only its own checkpoints are
\* written while it holds the lock (executor.py:145-150, 183-191).
LEMMA AheadStep ==
  ASSUME ~LeaseMayExpire, TypeOK, LockOwned, AheadOfCheckpoints, [Next]_vars
  PROVE  AheadOfCheckpoints'
<1> USE EngineConstants DEF AheadOfCheckpoints, Inside, LockBody, TypeOK, Goto, Steps, WorkerPC,
         dbVars, taskVars, envVars
<1>1. ASSUME NEW w \in Workers, Take(w) PROVE AheadOfCheckpoints'
  BY <1>1 DEF Take
<1>2. ASSUME NEW w \in Workers, Load(w) PROVE AheadOfCheckpoints'
  BY <1>2 DEF Load
<1>3. ASSUME NEW w \in Workers, TryLock(w) PROVE AheadOfCheckpoints'
  BY <1>3 DEF TryLock, LockIsFree
<1>4. ASSUME NEW w \in Workers, Setup(w) PROVE AheadOfCheckpoints'
  BY <1>4 DEF Setup, IsStartIndex
<1>5. ASSUME NEW w \in Workers, Submit(w) PROVE AheadOfCheckpoints'
  BY <1>5 DEF Submit, UpdateStatus
<1>6. ASSUME NEW w \in Workers, Publish(w) PROVE AheadOfCheckpoints'
  BY <1>6 DEF Publish, Unsent, Receivers
<1>7. ASSUME NEW w \in Workers, Open(w) PROVE AheadOfCheckpoints'
  BY <1>7 DEF Open
<1>8. ASSUME NEW w \in Workers, Check(w) PROVE AheadOfCheckpoints'
  BY <1>8 DEF Check, Refreshed, Visible, FirstOfStep, InLoop
<1>9. ASSUME NEW w \in Workers, LeaveLoop(w) PROVE AheadOfCheckpoints'
  BY <1>9 DEF LeaveLoop
<1>10. ASSUME NEW w \in Workers, WriteCheckpoint(w) PROVE AheadOfCheckpoints'
  BY <1>10 DEF WriteCheckpoint, LockOwned
<1>11. ASSUME NEW w \in Workers, RefuseStep(w) PROVE AheadOfCheckpoints'
  BY <1>11 DEF RefuseStep
<1>12. ASSUME NEW w \in Workers, SaveStep(w) PROVE AheadOfCheckpoints'
  BY <1>12 DEF SaveStep, SaveContext, Write
<1>13. ASSUME NEW w \in Workers, PauseOverBudget(w) PROVE AheadOfCheckpoints'
  BY <1>13 DEF PauseOverBudget, UpdateStatus
<1>14. ASSUME NEW w \in Workers, PauseOnError(w) PROVE AheadOfCheckpoints'
  BY <1>14 DEF PauseOnError, UpdateStatus
<1>15. ASSUME NEW w \in Workers, Finish(w) PROVE AheadOfCheckpoints'
  BY <1>15 DEF Finish, UpdateStatus
<1>16. ASSUME NEW w \in Workers, CommitRun(w) PROVE AheadOfCheckpoints'
  BY <1>16 DEF CommitRun
<1>17. ASSUME NEW w \in Workers, Release(w) PROVE AheadOfCheckpoints'
  BY <1>17 DEF Release, LockAfterRelease, HeartbeatRaises
<1>18. ASSUME NEW w \in Workers, CloseSession(w) PROVE AheadOfCheckpoints'
  BY <1>18 DEF CloseSession
<1>19. ASSUME NEW w \in Workers, Ack(w) PROVE AheadOfCheckpoints'
  BY <1>19 DEF Ack, ForgetTask
<1>20. ASSUME NEW w \in Workers, PublishRaises(w) PROVE AheadOfCheckpoints'
  BY <1>20 DEF PublishRaises, Unsent
<1>21. ASSUME NEW w \in Workers, Crash(w) PROVE AheadOfCheckpoints'
  BY <1>21 DEF Crash, Rollback, ForgetTask
<1>22. ASSUME NEW r \in Requests, Receive(r) PROVE AheadOfCheckpoints'
  BY <1>22 DEF Receive
<1>23. ASSUME NEW r \in Requests, Flush(r) PROVE AheadOfCheckpoints'
  BY <1>23 DEF Flush
<1>24. ASSUME NEW r \in Requests, CommitRequest(r) PROVE AheadOfCheckpoints'
  BY <1>24 DEF CommitRequest
<1>25. ASSUME NEW r \in Requests, Enqueue(r) PROVE AheadOfCheckpoints'
  BY <1>25 DEF Enqueue
<1>26. ASSUME NEW r \in Requests, RequestDies(r) PROVE AheadOfCheckpoints'
  BY <1>26 DEF RequestDies
<1>27. ASSUME NEW p \in Pods, Scan(p) PROVE AheadOfCheckpoints'
  BY <1>27 DEF Scan
<1>28. ASSUME NEW p \in Pods, Claim(p) PROVE AheadOfCheckpoints'
  BY <1>28 DEF Claim
<1>29. ASSUME NEW p \in Pods, Requeue(p) PROVE AheadOfCheckpoints'
  BY <1>29 DEF Requeue
<1>30. ASSUME NEW p \in Pods, Unclaim(p) PROVE AheadOfCheckpoints'
  BY <1>30 DEF Unclaim, LockAfterRelease, HeartbeatRaises
<1>31. ASSUME NEW p \in Pods, RequeueRaises(p) PROVE AheadOfCheckpoints'
  BY <1>31 DEF RequeueRaises
<1>32. ASSUME NEW p \in Pods, PodDies(p) PROVE AheadOfCheckpoints'
  BY <1>32 DEF PodDies
<1>33. CASE LockExpires
  BY <1>33 DEF LockExpires
<1>34. CASE HeartbeatAges
  BY <1>34 DEF HeartbeatAges
<1>35. CASE UNCHANGED vars
  BY <1>35 DEF vars
<1>36. QED
  BY <1>1, <1>2, <1>3, <1>4, <1>5, <1>6, <1>7, <1>8, <1>9, <1>10, <1>11,
     <1>12, <1>13, <1>14, <1>15, <1>16, <1>17, <1>18, <1>19, <1>20, <1>21,
     <1>22, <1>23, <1>24, <1>25, <1>26, <1>27, <1>28, <1>29, <1>30, <1>31,
     <1>32, <1>33, <1>34, <1>35 DEF Next, Work, Serve, Recover

\* README "resume from the last completed step, not the beginning", while no
\* lease is lost: no run works on a step before a committed checkpoint.
THEOREM NeverRepeatsCheckpointed ==
  ASSUME ~LeaseMayExpire
  PROVE  Spec => []NeverBeforeCheckpoint
<1>1. Init => LockOwned /\ AheadOfCheckpoints
  BY DEF Init, LockOwned, Inside, Claiming, LockBody, AheadOfCheckpoints
<1>2. TypeOK /\ LockOwned /\ [Next]_vars => LockOwned'
  BY LockOwnedStep
<1>3. TypeOK /\ LockOwned /\ AheadOfCheckpoints /\ [Next]_vars => AheadOfCheckpoints'
  BY AheadStep
<1>4. AheadOfCheckpoints => NeverBeforeCheckpoint
  BY DEF AheadOfCheckpoints, NeverBeforeCheckpoint, Inside, LockBody, WorkerPC
<1>5. QED
  BY <1>1, <1>2, <1>3, <1>4, TypeCorrect, PTL DEF Spec

-----------------------------------------------------------------------------
\* What is announced on a stream stays announced; Publish adds to both streams
\* (executor.py:87-88).
LEMMA EventsGrow ==
  ASSUME TypeOK, [Next]_vars
  PROVE  \A s \in Streams : events[s] \subseteq events'[s]
<1> USE DEF TypeOK, Streams, dbVars, taskVars, envVars, UpdateStatus, ForgetTask
<1>1. ASSUME NEW w \in Workers, Take(w) PROVE \A s \in Streams : events[s] \subseteq events'[s]
  BY <1>1 DEF Take
<1>2. ASSUME NEW w \in Workers, Load(w) PROVE \A s \in Streams : events[s] \subseteq events'[s]
  BY <1>2 DEF Load
<1>3. ASSUME NEW w \in Workers, TryLock(w) PROVE \A s \in Streams : events[s] \subseteq events'[s]
  BY <1>3 DEF TryLock
<1>4. ASSUME NEW w \in Workers, Setup(w) PROVE \A s \in Streams : events[s] \subseteq events'[s]
  BY <1>4 DEF Setup
<1>5. ASSUME NEW w \in Workers, Submit(w) PROVE \A s \in Streams : events[s] \subseteq events'[s]
  BY <1>5 DEF Submit
<1>6. ASSUME NEW w \in Workers, Publish(w) PROVE \A s \in Streams : events[s] \subseteq events'[s]
  BY <1>6 DEF Publish, Receivers
<1>7. ASSUME NEW w \in Workers, Open(w) PROVE \A s \in Streams : events[s] \subseteq events'[s]
  BY <1>7 DEF Open
<1>8. ASSUME NEW w \in Workers, Check(w) PROVE \A s \in Streams : events[s] \subseteq events'[s]
  BY <1>8 DEF Check
<1>9. ASSUME NEW w \in Workers, LeaveLoop(w) PROVE \A s \in Streams : events[s] \subseteq events'[s]
  BY <1>9 DEF LeaveLoop
<1>10. ASSUME NEW w \in Workers, WriteCheckpoint(w) PROVE \A s \in Streams : events[s] \subseteq events'[s]
  BY <1>10 DEF WriteCheckpoint
<1>11. ASSUME NEW w \in Workers, RefuseStep(w) PROVE \A s \in Streams : events[s] \subseteq events'[s]
  BY <1>11 DEF RefuseStep
<1>12. ASSUME NEW w \in Workers, SaveStep(w) PROVE \A s \in Streams : events[s] \subseteq events'[s]
  BY <1>12 DEF SaveStep
<1>13. ASSUME NEW w \in Workers, PauseOverBudget(w) PROVE \A s \in Streams : events[s] \subseteq events'[s]
  BY <1>13 DEF PauseOverBudget
<1>14. ASSUME NEW w \in Workers, PauseOnError(w) PROVE \A s \in Streams : events[s] \subseteq events'[s]
  BY <1>14 DEF PauseOnError
<1>15. ASSUME NEW w \in Workers, Finish(w) PROVE \A s \in Streams : events[s] \subseteq events'[s]
  BY <1>15 DEF Finish
<1>16. ASSUME NEW w \in Workers, CommitRun(w) PROVE \A s \in Streams : events[s] \subseteq events'[s]
  BY <1>16 DEF CommitRun
<1>17. ASSUME NEW w \in Workers, Release(w) PROVE \A s \in Streams : events[s] \subseteq events'[s]
  BY <1>17 DEF Release, LockAfterRelease, HeartbeatRaises
<1>18. ASSUME NEW w \in Workers, CloseSession(w) PROVE \A s \in Streams : events[s] \subseteq events'[s]
  BY <1>18 DEF CloseSession
<1>19. ASSUME NEW w \in Workers, Ack(w) PROVE \A s \in Streams : events[s] \subseteq events'[s]
  BY <1>19 DEF Ack
<1>20. ASSUME NEW w \in Workers, PublishRaises(w) PROVE \A s \in Streams : events[s] \subseteq events'[s]
  BY <1>20 DEF PublishRaises
<1>21. ASSUME NEW w \in Workers, Crash(w) PROVE \A s \in Streams : events[s] \subseteq events'[s]
  BY <1>21 DEF Crash
<1>22. ASSUME NEW r \in Requests, Receive(r) PROVE \A s \in Streams : events[s] \subseteq events'[s]
  BY <1>22 DEF Receive
<1>23. ASSUME NEW r \in Requests, Flush(r) PROVE \A s \in Streams : events[s] \subseteq events'[s]
  BY <1>23 DEF Flush
<1>24. ASSUME NEW r \in Requests, CommitRequest(r) PROVE \A s \in Streams : events[s] \subseteq events'[s]
  BY <1>24 DEF CommitRequest
<1>25. ASSUME NEW r \in Requests, Enqueue(r) PROVE \A s \in Streams : events[s] \subseteq events'[s]
  BY <1>25 DEF Enqueue
<1>26. ASSUME NEW r \in Requests, RequestDies(r) PROVE \A s \in Streams : events[s] \subseteq events'[s]
  BY <1>26 DEF RequestDies
<1>27. ASSUME NEW p \in Pods, Scan(p) PROVE \A s \in Streams : events[s] \subseteq events'[s]
  BY <1>27 DEF Scan
<1>28. ASSUME NEW p \in Pods, Claim(p) PROVE \A s \in Streams : events[s] \subseteq events'[s]
  BY <1>28 DEF Claim
<1>29. ASSUME NEW p \in Pods, Requeue(p) PROVE \A s \in Streams : events[s] \subseteq events'[s]
  BY <1>29 DEF Requeue
<1>30. ASSUME NEW p \in Pods, Unclaim(p) PROVE \A s \in Streams : events[s] \subseteq events'[s]
  BY <1>30 DEF Unclaim, LockAfterRelease, HeartbeatRaises
<1>31. ASSUME NEW p \in Pods, RequeueRaises(p) PROVE \A s \in Streams : events[s] \subseteq events'[s]
  BY <1>31 DEF RequeueRaises
<1>32. ASSUME NEW p \in Pods, PodDies(p) PROVE \A s \in Streams : events[s] \subseteq events'[s]
  BY <1>32 DEF PodDies
<1>33. CASE LockExpires
  BY <1>33 DEF LockExpires
<1>34. CASE HeartbeatAges
  BY <1>34 DEF HeartbeatAges
<1>35. CASE UNCHANGED vars
  BY <1>35 DEF vars
<1>36. QED
  BY <1>1, <1>2, <1>3, <1>4, <1>5, <1>6, <1>7, <1>8, <1>9, <1>10, <1>11,
     <1>12, <1>13, <1>14, <1>15, <1>16, <1>17, <1>18, <1>19, <1>20, <1>21,
     <1>22, <1>23, <1>24, <1>25, <1>26, <1>27, <1>28, <1>29, <1>30, <1>31,
     <1>32, <1>33, <1>34, <1>35 DEF Next, Work, Serve, Recover

\* A step is reported only past its checkpoint, and no checkpoint is removed
\* (executor.py:183-219).
LEMMA CheckpointStep ==
  ASSUME TypeOK, StepHasCheckpoint, CheckpointBeforeEvent, [Next]_vars
  PROVE  (StepHasCheckpoint /\ CheckpointBeforeEvent)'
<1> USE EngineConstants DEF StepHasCheckpoint, CheckpointBeforeEvent, TypeOK, Goto,
        Steps, WorkerPC, Streams, StepCompleted, Started, Paused, Completed,
        dbVars, taskVars, envVars
<1>1. ASSUME NEW w \in Workers, Take(w) PROVE (StepHasCheckpoint /\ CheckpointBeforeEvent)'
  BY <1>1 DEF Take
<1>2. ASSUME NEW w \in Workers, Load(w) PROVE (StepHasCheckpoint /\ CheckpointBeforeEvent)'
  BY <1>2 DEF Load
<1>3. ASSUME NEW w \in Workers, TryLock(w) PROVE (StepHasCheckpoint /\ CheckpointBeforeEvent)'
  BY <1>3 DEF TryLock
<1>4. ASSUME NEW w \in Workers, Setup(w) PROVE (StepHasCheckpoint /\ CheckpointBeforeEvent)'
  BY <1>4 DEF Setup, IsStartIndex
<1>5. ASSUME NEW w \in Workers, Submit(w) PROVE (StepHasCheckpoint /\ CheckpointBeforeEvent)'
  BY <1>5 DEF Submit, UpdateStatus
<1>6. ASSUME NEW w \in Workers, Publish(w) PROVE (StepHasCheckpoint /\ CheckpointBeforeEvent)'
  BY <1>6 DEF Publish, Unsent, Receivers
<1>7. ASSUME NEW w \in Workers, Open(w) PROVE (StepHasCheckpoint /\ CheckpointBeforeEvent)'
  BY <1>7 DEF Open
<1>8. ASSUME NEW w \in Workers, Check(w) PROVE (StepHasCheckpoint /\ CheckpointBeforeEvent)'
  BY <1>8 DEF Check, Refreshed, Visible, FirstOfStep, InLoop
<1>9. ASSUME NEW w \in Workers, LeaveLoop(w) PROVE (StepHasCheckpoint /\ CheckpointBeforeEvent)'
  BY <1>9 DEF LeaveLoop
<1>10. ASSUME NEW w \in Workers, WriteCheckpoint(w) PROVE (StepHasCheckpoint /\ CheckpointBeforeEvent)'
  BY <1>10 DEF WriteCheckpoint
<1>11. ASSUME NEW w \in Workers, RefuseStep(w) PROVE (StepHasCheckpoint /\ CheckpointBeforeEvent)'
  BY <1>11 DEF RefuseStep
<1>12. ASSUME NEW w \in Workers, SaveStep(w) PROVE (StepHasCheckpoint /\ CheckpointBeforeEvent)'
  BY <1>12 DEF SaveStep, SaveContext, Write
<1>13. ASSUME NEW w \in Workers, PauseOverBudget(w) PROVE (StepHasCheckpoint /\ CheckpointBeforeEvent)'
  BY <1>13 DEF PauseOverBudget, UpdateStatus
<1>14. ASSUME NEW w \in Workers, PauseOnError(w) PROVE (StepHasCheckpoint /\ CheckpointBeforeEvent)'
  BY <1>14 DEF PauseOnError, UpdateStatus
<1>15. ASSUME NEW w \in Workers, Finish(w) PROVE (StepHasCheckpoint /\ CheckpointBeforeEvent)'
  BY <1>15 DEF Finish, UpdateStatus
<1>16. ASSUME NEW w \in Workers, CommitRun(w) PROVE (StepHasCheckpoint /\ CheckpointBeforeEvent)'
  BY <1>16 DEF CommitRun
<1>17. ASSUME NEW w \in Workers, Release(w) PROVE (StepHasCheckpoint /\ CheckpointBeforeEvent)'
  BY <1>17 DEF Release, LockAfterRelease, HeartbeatRaises
<1>18. ASSUME NEW w \in Workers, CloseSession(w) PROVE (StepHasCheckpoint /\ CheckpointBeforeEvent)'
  BY <1>18 DEF CloseSession
<1>19. ASSUME NEW w \in Workers, Ack(w) PROVE (StepHasCheckpoint /\ CheckpointBeforeEvent)'
  BY <1>19 DEF Ack, ForgetTask
<1>20. ASSUME NEW w \in Workers, PublishRaises(w) PROVE (StepHasCheckpoint /\ CheckpointBeforeEvent)'
  BY <1>20 DEF PublishRaises, Unsent
<1>21. ASSUME NEW w \in Workers, Crash(w) PROVE (StepHasCheckpoint /\ CheckpointBeforeEvent)'
  BY <1>21 DEF Crash, ForgetTask, Unsent
<1>22. ASSUME NEW r \in Requests, Receive(r) PROVE (StepHasCheckpoint /\ CheckpointBeforeEvent)'
  BY <1>22 DEF Receive
<1>23. ASSUME NEW r \in Requests, Flush(r) PROVE (StepHasCheckpoint /\ CheckpointBeforeEvent)'
  BY <1>23 DEF Flush
<1>24. ASSUME NEW r \in Requests, CommitRequest(r) PROVE (StepHasCheckpoint /\ CheckpointBeforeEvent)'
  BY <1>24 DEF CommitRequest
<1>25. ASSUME NEW r \in Requests, Enqueue(r) PROVE (StepHasCheckpoint /\ CheckpointBeforeEvent)'
  BY <1>25 DEF Enqueue
<1>26. ASSUME NEW r \in Requests, RequestDies(r) PROVE (StepHasCheckpoint /\ CheckpointBeforeEvent)'
  BY <1>26 DEF RequestDies
<1>27. ASSUME NEW p \in Pods, Scan(p) PROVE (StepHasCheckpoint /\ CheckpointBeforeEvent)'
  BY <1>27 DEF Scan
<1>28. ASSUME NEW p \in Pods, Claim(p) PROVE (StepHasCheckpoint /\ CheckpointBeforeEvent)'
  BY <1>28 DEF Claim
<1>29. ASSUME NEW p \in Pods, Requeue(p) PROVE (StepHasCheckpoint /\ CheckpointBeforeEvent)'
  BY <1>29 DEF Requeue
<1>30. ASSUME NEW p \in Pods, Unclaim(p) PROVE (StepHasCheckpoint /\ CheckpointBeforeEvent)'
  BY <1>30 DEF Unclaim, LockAfterRelease, HeartbeatRaises
<1>31. ASSUME NEW p \in Pods, RequeueRaises(p) PROVE (StepHasCheckpoint /\ CheckpointBeforeEvent)'
  BY <1>31 DEF RequeueRaises
<1>32. ASSUME NEW p \in Pods, PodDies(p) PROVE (StepHasCheckpoint /\ CheckpointBeforeEvent)'
  BY <1>32 DEF PodDies
<1>33. CASE LockExpires
  BY <1>33 DEF LockExpires
<1>34. CASE HeartbeatAges
  BY <1>34 DEF HeartbeatAges
<1>35. CASE UNCHANGED vars
  BY <1>35 DEF vars
<1>36. QED
  BY <1>1, <1>2, <1>3, <1>4, <1>5, <1>6, <1>7, <1>8, <1>9, <1>10, <1>11,
     <1>12, <1>13, <1>14, <1>15, <1>16, <1>17, <1>18, <1>19, <1>20, <1>21,
     <1>22, <1>23, <1>24, <1>25, <1>26, <1>27, <1>28, <1>29, <1>30, <1>31,
     <1>32, <1>33, <1>34, <1>35 DEF Next, Work, Serve, Recover

\* executor.py:5, for every number of crashes and failed publications and even
\* with lost leases: a checkpointed step reports completion only after its
\* checkpoint is committed.
THEOREM CheckpointsComeFirst == Spec => []CheckpointBeforeEvent
<1>1. Init => StepHasCheckpoint /\ CheckpointBeforeEvent
  BY EngineConstants DEF Init, StepHasCheckpoint, CheckpointBeforeEvent, Streams
<1>2. TypeOK /\ StepHasCheckpoint /\ CheckpointBeforeEvent /\ [Next]_vars
        => StepHasCheckpoint' /\ CheckpointBeforeEvent'
  BY CheckpointStep
<1>3. QED
  BY <1>1, <1>2, TypeCorrect, PTL DEF Spec

-----------------------------------------------------------------------------
\* The row lock keeps the uncommitted version in step with the committed one:
\* only a status UPDATE of the same transaction can change its status.
LEMMA DraftStep ==
  ASSUME TypeOK, DraftFollowsRow, [Next]_vars
  PROVE  DraftFollowsRow'
<1> USE EngineConstants DEF DraftFollowsRow, TypeOK, Goto, WorkerPC, RowVersion,
        dbVars, taskVars, envVars
<1>1. ASSUME NEW w \in Workers, Take(w) PROVE DraftFollowsRow'
  BY <1>1 DEF Take
<1>2. ASSUME NEW w \in Workers, Load(w) PROVE DraftFollowsRow'
  BY <1>2 DEF Load
<1>3. ASSUME NEW w \in Workers, TryLock(w) PROVE DraftFollowsRow'
  BY <1>3 DEF TryLock, LockIsFree
<1>4. ASSUME NEW w \in Workers, Setup(w) PROVE DraftFollowsRow'
  BY <1>4 DEF Setup, IsStartIndex
<1>5. ASSUME NEW w \in Workers, Submit(w) PROVE DraftFollowsRow'
  BY <1>5 DEF Submit, UpdateStatus, Write
<1>6. ASSUME NEW w \in Workers, Publish(w) PROVE DraftFollowsRow'
  BY <1>6 DEF Publish, Unsent, Receivers
<1>7. ASSUME NEW w \in Workers, Open(w) PROVE DraftFollowsRow'
  BY <1>7 DEF Open, Commit
<1>8. ASSUME NEW w \in Workers, Check(w) PROVE DraftFollowsRow'
  BY <1>8 DEF Check, Refreshed, Visible, FirstOfStep, InLoop
<1>9. ASSUME NEW w \in Workers, LeaveLoop(w) PROVE DraftFollowsRow'
  BY <1>9 DEF LeaveLoop, InLoop
<1>10. ASSUME NEW w \in Workers, WriteCheckpoint(w) PROVE DraftFollowsRow'
  BY <1>10 DEF WriteCheckpoint, Commit
<1>11. ASSUME NEW w \in Workers, RefuseStep(w) PROVE DraftFollowsRow'
  BY <1>11 DEF RefuseStep
<1>12. ASSUME NEW w \in Workers, SaveStep(w) PROVE DraftFollowsRow'
  BY <1>12 DEF SaveStep, SaveContext, Write
<1>13. ASSUME NEW w \in Workers, PauseOverBudget(w) PROVE DraftFollowsRow'
  BY <1>13 DEF PauseOverBudget, UpdateStatus, Write
<1>14. ASSUME NEW w \in Workers, PauseOnError(w) PROVE DraftFollowsRow'
  BY <1>14 DEF PauseOnError, UpdateStatus, Write, SaveContext
<1>15. ASSUME NEW w \in Workers, Finish(w) PROVE DraftFollowsRow'
  BY <1>15 DEF Finish, UpdateStatus, Write
<1>16. ASSUME NEW w \in Workers, CommitRun(w) PROVE DraftFollowsRow'
  BY <1>16 DEF CommitRun, Commit
<1>17. ASSUME NEW w \in Workers, Release(w) PROVE DraftFollowsRow'
  BY <1>17 DEF Release, LockAfterRelease, HeartbeatRaises
<1>18. ASSUME NEW w \in Workers, CloseSession(w) PROVE DraftFollowsRow'
  BY <1>18 DEF CloseSession, Commit, Rollback
<1>19. ASSUME NEW w \in Workers, Ack(w) PROVE DraftFollowsRow'
  BY <1>19 DEF Ack, ForgetTask
<1>20. ASSUME NEW w \in Workers, PublishRaises(w) PROVE DraftFollowsRow'
  BY <1>20 DEF PublishRaises, Unsent
<1>21. ASSUME NEW w \in Workers, Crash(w) PROVE DraftFollowsRow'
  BY <1>21 DEF Crash, Rollback, ForgetTask
<1>22. ASSUME NEW r \in Requests, Receive(r) PROVE DraftFollowsRow'
  BY <1>22 DEF Receive
<1>23. ASSUME NEW r \in Requests, Flush(r) PROVE DraftFollowsRow'
  BY <1>23 DEF Flush, Write
<1>24. ASSUME NEW r \in Requests, CommitRequest(r) PROVE DraftFollowsRow'
  BY <1>24 DEF CommitRequest, Commit
<1>25. ASSUME NEW r \in Requests, Enqueue(r) PROVE DraftFollowsRow'
  BY <1>25 DEF Enqueue
<1>26. ASSUME NEW r \in Requests, RequestDies(r) PROVE DraftFollowsRow'
  BY <1>26 DEF RequestDies, Rollback
<1>27. ASSUME NEW p \in Pods, Scan(p) PROVE DraftFollowsRow'
  BY <1>27 DEF Scan
<1>28. ASSUME NEW p \in Pods, Claim(p) PROVE DraftFollowsRow'
  BY <1>28 DEF Claim, LockIsFree
<1>29. ASSUME NEW p \in Pods, Requeue(p) PROVE DraftFollowsRow'
  BY <1>29 DEF Requeue
<1>30. ASSUME NEW p \in Pods, Unclaim(p) PROVE DraftFollowsRow'
  BY <1>30 DEF Unclaim, LockAfterRelease, HeartbeatRaises
<1>31. ASSUME NEW p \in Pods, RequeueRaises(p) PROVE DraftFollowsRow'
  BY <1>31 DEF RequeueRaises
<1>32. ASSUME NEW p \in Pods, PodDies(p) PROVE DraftFollowsRow'
  BY <1>32 DEF PodDies
<1>33. CASE LockExpires
  BY <1>33 DEF LockExpires
<1>34. CASE HeartbeatAges
  BY <1>34 DEF HeartbeatAges
<1>35. CASE UNCHANGED vars
  BY <1>35 DEF vars
<1>36. QED
  BY <1>1, <1>2, <1>3, <1>4, <1>5, <1>6, <1>7, <1>8, <1>9, <1>10, <1>11,
     <1>12, <1>13, <1>14, <1>15, <1>16, <1>17, <1>18, <1>19, <1>20, <1>21,
     <1>22, <1>23, <1>24, <1>25, <1>26, <1>27, <1>28, <1>29, <1>30, <1>31,
     <1>32, <1>33, <1>34, <1>35 DEF Next, Work, Serve, Recover

\* README "takes effect before the next step begins": whatever leases are lost
\* and processes die, no step starts while the committed status is PAUSED or
\* CANCELLED.
THEOREM StopSignalHonoured == Spec => NoStepStartsOnceStopped
<1>1. Init => DraftFollowsRow
  BY EngineConstants DEF Init, DraftFollowsRow
<1>2. TypeOK /\ DraftFollowsRow /\ [Next]_vars => DraftFollowsRow'
  BY DraftStep
<1>3. TypeOK /\ DraftFollowsRow /\ [Next]_vars
        => [\A w \in Workers :
              pc[w] = "check" /\ pc'[w] \in {"checkpoint", "step"}
                => row.status \notin StopSignal]_vars
  <2> SUFFICES ASSUME TypeOK, DraftFollowsRow, [Next]_vars, NEW v \in Workers,
                      pc[v] = "check", pc'[v] \in {"checkpoint", "step"}
               PROVE  row.status \notin StopSignal
    OBVIOUS
  <2> USE DEF TypeOK, Goto, dbVars, taskVars, envVars
  <2>1. ASSUME NEW w \in Workers, Take(w) PROVE row.status \notin StopSignal
    BY <2>1 DEF Take
  <2>2. ASSUME NEW w \in Workers, Load(w) PROVE row.status \notin StopSignal
    BY <2>2 DEF Load
  <2>3. ASSUME NEW w \in Workers, TryLock(w) PROVE row.status \notin StopSignal
    BY <2>3 DEF TryLock
  <2>4. ASSUME NEW w \in Workers, Setup(w) PROVE row.status \notin StopSignal
    BY <2>4 DEF Setup
  <2>5. ASSUME NEW w \in Workers, Submit(w) PROVE row.status \notin StopSignal
    BY <2>5 DEF Submit
  <2>6. ASSUME NEW w \in Workers, Publish(w) PROVE row.status \notin StopSignal
    BY <2>6 DEF Publish
  <2>7. ASSUME NEW w \in Workers, Open(w) PROVE row.status \notin StopSignal
    BY <2>7 DEF Open
  <2>8. ASSUME NEW w \in Workers, Check(w) PROVE row.status \notin StopSignal
    BY <2>8 DEF Check, Refreshed, Visible, DraftFollowsRow
  <2>9. ASSUME NEW w \in Workers, LeaveLoop(w) PROVE row.status \notin StopSignal
    BY <2>9 DEF LeaveLoop
  <2>10. ASSUME NEW w \in Workers, WriteCheckpoint(w) PROVE row.status \notin StopSignal
    BY <2>10 DEF WriteCheckpoint
  <2>11. ASSUME NEW w \in Workers, RefuseStep(w) PROVE row.status \notin StopSignal
    BY <2>11 DEF RefuseStep
  <2>12. ASSUME NEW w \in Workers, SaveStep(w) PROVE row.status \notin StopSignal
    BY <2>12 DEF SaveStep
  <2>13. ASSUME NEW w \in Workers, PauseOverBudget(w) PROVE row.status \notin StopSignal
    BY <2>13 DEF PauseOverBudget
  <2>14. ASSUME NEW w \in Workers, PauseOnError(w) PROVE row.status \notin StopSignal
    BY <2>14 DEF PauseOnError
  <2>15. ASSUME NEW w \in Workers, Finish(w) PROVE row.status \notin StopSignal
    BY <2>15 DEF Finish
  <2>16. ASSUME NEW w \in Workers, CommitRun(w) PROVE row.status \notin StopSignal
    BY <2>16 DEF CommitRun
  <2>17. ASSUME NEW w \in Workers, Release(w) PROVE row.status \notin StopSignal
    BY <2>17 DEF Release, LockAfterRelease, HeartbeatRaises
  <2>18. ASSUME NEW w \in Workers, CloseSession(w) PROVE row.status \notin StopSignal
    BY <2>18 DEF CloseSession
  <2>19. ASSUME NEW w \in Workers, Ack(w) PROVE row.status \notin StopSignal
    BY <2>19 DEF Ack, ForgetTask
  <2>20. ASSUME NEW w \in Workers, PublishRaises(w) PROVE row.status \notin StopSignal
    BY <2>20 DEF PublishRaises
  <2>21. ASSUME NEW w \in Workers, Crash(w) PROVE row.status \notin StopSignal
    BY <2>21 DEF Crash, ForgetTask
  <2>22. ASSUME NEW r \in Requests, Receive(r) PROVE row.status \notin StopSignal
    BY <2>22 DEF Receive
  <2>23. ASSUME NEW r \in Requests, Flush(r) PROVE row.status \notin StopSignal
    BY <2>23 DEF Flush
  <2>24. ASSUME NEW r \in Requests, CommitRequest(r) PROVE row.status \notin StopSignal
    BY <2>24 DEF CommitRequest
  <2>25. ASSUME NEW r \in Requests, Enqueue(r) PROVE row.status \notin StopSignal
    BY <2>25 DEF Enqueue
  <2>26. ASSUME NEW r \in Requests, RequestDies(r) PROVE row.status \notin StopSignal
    BY <2>26 DEF RequestDies
  <2>27. ASSUME NEW p \in Pods, Scan(p) PROVE row.status \notin StopSignal
    BY <2>27 DEF Scan
  <2>28. ASSUME NEW p \in Pods, Claim(p) PROVE row.status \notin StopSignal
    BY <2>28 DEF Claim
  <2>29. ASSUME NEW p \in Pods, Requeue(p) PROVE row.status \notin StopSignal
    BY <2>29 DEF Requeue
  <2>30. ASSUME NEW p \in Pods, Unclaim(p) PROVE row.status \notin StopSignal
    BY <2>30 DEF Unclaim, LockAfterRelease, HeartbeatRaises
  <2>31. ASSUME NEW p \in Pods, RequeueRaises(p) PROVE row.status \notin StopSignal
    BY <2>31 DEF RequeueRaises
  <2>32. ASSUME NEW p \in Pods, PodDies(p) PROVE row.status \notin StopSignal
    BY <2>32 DEF PodDies
  <2>33. CASE LockExpires
    BY <2>33 DEF LockExpires
  <2>34. CASE HeartbeatAges
    BY <2>34 DEF HeartbeatAges
  <2>35. CASE UNCHANGED vars
    BY <2>35 DEF vars
  <2>36. QED
    BY <2>1, <2>2, <2>3, <2>4, <2>5, <2>6, <2>7, <2>8, <2>9, <2>10, <2>11,
       <2>12, <2>13, <2>14, <2>15, <2>16, <2>17, <2>18, <2>19, <2>20, <2>21,
       <2>22, <2>23, <2>24, <2>25, <2>26, <2>27, <2>28, <2>29, <2>30, <2>31,
       <2>32, <2>33, <2>34, <2>35 DEF Next, Work, Serve, Recover
<1>4. QED
  BY <1>1, <1>2, <1>3, TypeCorrect, PTL DEF Spec, NoStepStartsOnceStopped

-----------------------------------------------------------------------------
\* A transaction that has written a status but not announced it cannot commit
\* before the publication succeeded (executor.py:156-165, 228-244, 274-288).
LEMMA AnnouncedStep ==
  ASSUME TypeOK, DraftFollowsRow, AnnouncedOrUncommitted, CommittedIsAnnounced, [Next]_vars
  PROVE  (AnnouncedOrUncommitted /\ CommittedIsAnnounced)'
<1>0. \A s \in Streams : events[s] \subseteq events'[s]
  BY EventsGrow
<1> USE EngineConstants, <1>0 DEF DraftFollowsRow, AnnouncedOrUncommitted,
        Unannounced, CommittedIsAnnounced, TypeOK, Goto, WorkerPC, RowVersion,
        dbVars, taskVars, envVars
<1>1. ASSUME NEW w \in Workers, Take(w) PROVE (AnnouncedOrUncommitted /\ CommittedIsAnnounced)'
  BY <1>1 DEF Take
<1>2. ASSUME NEW w \in Workers, Load(w) PROVE (AnnouncedOrUncommitted /\ CommittedIsAnnounced)'
  BY <1>2 DEF Load
<1>3. ASSUME NEW w \in Workers, TryLock(w) PROVE (AnnouncedOrUncommitted /\ CommittedIsAnnounced)'
  BY <1>3 DEF TryLock, LockIsFree
<1>4. ASSUME NEW w \in Workers, Setup(w) PROVE (AnnouncedOrUncommitted /\ CommittedIsAnnounced)'
  BY <1>4 DEF Setup, IsStartIndex
<1>5. ASSUME NEW w \in Workers, Submit(w) PROVE (AnnouncedOrUncommitted /\ CommittedIsAnnounced)'
  BY <1>5 DEF Submit, UpdateStatus, Write
<1>6. ASSUME NEW w \in Workers, Publish(w) PROVE (AnnouncedOrUncommitted /\ CommittedIsAnnounced)'
  BY <1>6 DEF Publish, Unsent, Receivers
<1>7. ASSUME NEW w \in Workers, Open(w) PROVE (AnnouncedOrUncommitted /\ CommittedIsAnnounced)'
  BY <1>7 DEF Open, Commit
<1>8. ASSUME NEW w \in Workers, Check(w) PROVE (AnnouncedOrUncommitted /\ CommittedIsAnnounced)'
  BY <1>8 DEF Check, Refreshed, Visible, FirstOfStep, InLoop
<1>9. ASSUME NEW w \in Workers, LeaveLoop(w) PROVE (AnnouncedOrUncommitted /\ CommittedIsAnnounced)'
  BY <1>9 DEF LeaveLoop, InLoop
<1>10. ASSUME NEW w \in Workers, WriteCheckpoint(w) PROVE (AnnouncedOrUncommitted /\ CommittedIsAnnounced)'
  BY <1>10 DEF WriteCheckpoint, Commit
<1>11. ASSUME NEW w \in Workers, RefuseStep(w) PROVE (AnnouncedOrUncommitted /\ CommittedIsAnnounced)'
  BY <1>11 DEF RefuseStep
<1>12. ASSUME NEW w \in Workers, SaveStep(w) PROVE (AnnouncedOrUncommitted /\ CommittedIsAnnounced)'
  BY <1>12 DEF SaveStep, SaveContext, Write
<1>13. ASSUME NEW w \in Workers, PauseOverBudget(w) PROVE (AnnouncedOrUncommitted /\ CommittedIsAnnounced)'
  BY <1>13 DEF PauseOverBudget, UpdateStatus, Write
<1>14. ASSUME NEW w \in Workers, PauseOnError(w) PROVE (AnnouncedOrUncommitted /\ CommittedIsAnnounced)'
  BY <1>14 DEF PauseOnError, UpdateStatus, Write, SaveContext
<1>15. ASSUME NEW w \in Workers, Finish(w) PROVE (AnnouncedOrUncommitted /\ CommittedIsAnnounced)'
  BY <1>15 DEF Finish, UpdateStatus, Write
<1>16. ASSUME NEW w \in Workers, CommitRun(w) PROVE (AnnouncedOrUncommitted /\ CommittedIsAnnounced)'
  BY <1>16 DEF CommitRun, Commit
<1>17. ASSUME NEW w \in Workers, Release(w) PROVE (AnnouncedOrUncommitted /\ CommittedIsAnnounced)'
  BY <1>17 DEF Release, LockAfterRelease, HeartbeatRaises
<1>18. ASSUME NEW w \in Workers, CloseSession(w) PROVE (AnnouncedOrUncommitted /\ CommittedIsAnnounced)'
  BY <1>18 DEF CloseSession, Commit, Rollback
<1>19. ASSUME NEW w \in Workers, Ack(w) PROVE (AnnouncedOrUncommitted /\ CommittedIsAnnounced)'
  BY <1>19 DEF Ack, ForgetTask
<1>20. ASSUME NEW w \in Workers, PublishRaises(w) PROVE (AnnouncedOrUncommitted /\ CommittedIsAnnounced)'
  BY <1>20 DEF PublishRaises, Unsent
<1>21. ASSUME NEW w \in Workers, Crash(w) PROVE (AnnouncedOrUncommitted /\ CommittedIsAnnounced)'
  BY <1>21 DEF Crash, Rollback, ForgetTask
<1>22. ASSUME NEW r \in Requests, Receive(r) PROVE (AnnouncedOrUncommitted /\ CommittedIsAnnounced)'
  BY <1>22 DEF Receive
<1>23. ASSUME NEW r \in Requests, Flush(r) PROVE (AnnouncedOrUncommitted /\ CommittedIsAnnounced)'
  BY <1>23 DEF Flush, Write, Transitions
<1>24. ASSUME NEW r \in Requests, CommitRequest(r) PROVE (AnnouncedOrUncommitted /\ CommittedIsAnnounced)'
  BY <1>24 DEF CommitRequest, Commit
<1>25. ASSUME NEW r \in Requests, Enqueue(r) PROVE (AnnouncedOrUncommitted /\ CommittedIsAnnounced)'
  BY <1>25 DEF Enqueue
<1>26. ASSUME NEW r \in Requests, RequestDies(r) PROVE (AnnouncedOrUncommitted /\ CommittedIsAnnounced)'
  BY <1>26 DEF RequestDies, Rollback
<1>27. ASSUME NEW p \in Pods, Scan(p) PROVE (AnnouncedOrUncommitted /\ CommittedIsAnnounced)'
  BY <1>27 DEF Scan
<1>28. ASSUME NEW p \in Pods, Claim(p) PROVE (AnnouncedOrUncommitted /\ CommittedIsAnnounced)'
  BY <1>28 DEF Claim, LockIsFree
<1>29. ASSUME NEW p \in Pods, Requeue(p) PROVE (AnnouncedOrUncommitted /\ CommittedIsAnnounced)'
  BY <1>29 DEF Requeue
<1>30. ASSUME NEW p \in Pods, Unclaim(p) PROVE (AnnouncedOrUncommitted /\ CommittedIsAnnounced)'
  BY <1>30 DEF Unclaim, LockAfterRelease, HeartbeatRaises
<1>31. ASSUME NEW p \in Pods, RequeueRaises(p) PROVE (AnnouncedOrUncommitted /\ CommittedIsAnnounced)'
  BY <1>31 DEF RequeueRaises
<1>32. ASSUME NEW p \in Pods, PodDies(p) PROVE (AnnouncedOrUncommitted /\ CommittedIsAnnounced)'
  BY <1>32 DEF PodDies
<1>33. CASE LockExpires
  BY <1>33 DEF LockExpires
<1>34. CASE HeartbeatAges
  BY <1>34 DEF HeartbeatAges
<1>35. CASE UNCHANGED vars
  BY <1>35 DEF vars
<1>36. QED
  BY <1>1, <1>2, <1>3, <1>4, <1>5, <1>6, <1>7, <1>8, <1>9, <1>10, <1>11,
     <1>12, <1>13, <1>14, <1>15, <1>16, <1>17, <1>18, <1>19, <1>20, <1>21,
     <1>22, <1>23, <1>24, <1>25, <1>26, <1>27, <1>28, <1>29, <1>30, <1>31,
     <1>32, <1>33, <1>34, <1>35 DEF Next, Work, Serve, Recover

\* executor.py:83-88: what the engine commits as RUNNING or COMPLETED has been
\* announced on both streams, whatever crashes or fails.
THEOREM AnnouncedBeforeCommitted == Spec => []CommittedIsAnnounced
<1>1. Init => DraftFollowsRow /\ AnnouncedOrUncommitted /\ CommittedIsAnnounced
  BY EngineConstants DEF Init, NewRow, DraftFollowsRow, AnnouncedOrUncommitted, CommittedIsAnnounced
<1>2. TypeOK /\ DraftFollowsRow /\ [Next]_vars => DraftFollowsRow'
  BY DraftStep
<1>3. TypeOK /\ DraftFollowsRow /\ AnnouncedOrUncommitted /\ CommittedIsAnnounced /\ [Next]_vars
        => AnnouncedOrUncommitted' /\ CommittedIsAnnounced'
  BY AnnouncedStep
<1>4. QED
  BY <1>1, <1>2, <1>3, TypeCorrect, PTL DEF Spec

-----------------------------------------------------------------------------
\* An index below the successor of i is below i or is i (executor.py:147).
LEMMA BelowSuccessor ==
  \A i, j \in Int : j < i + 1 => j < i \/ j = i
  OBVIOUS

\* Of two step indexes, one is below the other or they are the same.
LEMMA BelowOrEqual ==
  \A i, j \in Int : j < i => j < i - 1 \/ j = i - 1
  OBVIOUS

\* The step loop is left behind its last step only (executor.py:171).
LEMMA LoopLeftAtEnd ==
  ASSUME TypeOK, NEW w \in Workers, ~InLoop(w)
  PROVE  at[w] = NumSteps
  BY EngineConstants DEF TypeOK, InLoop

\* In a calm system a checkpoint is written by the worker that then completes
\* its step, and a run starts right behind it (executor.py:145-150, 171-219).
LEMMA NothingSkippedStep ==
  ASSUME Calm, TypeOK, LockOwned, NothingSkipped, [Next]_vars
  PROVE  NothingSkipped'
<1>0. \A i \in Steps : Reported(i) => Reported(i)'
  BY EventsGrow DEF Streams, Reported
<1> USE EngineConstants, <1>0 DEF Calm, NothingSkipped, Inside, LockBody,
        TypeOK, LoopBody, Goto, Steps, WorkerPC, RowVersion, dbVars, taskVars, envVars
<1>1. ASSUME NEW w \in Workers, Take(w) PROVE NothingSkipped'
  BY <1>1 DEF Take
<1>2. ASSUME NEW w \in Workers, Load(w) PROVE NothingSkipped'
  BY <1>2 DEF Load
<1>3. ASSUME NEW w \in Workers, TryLock(w) PROVE NothingSkipped'
  BY <1>3 DEF TryLock, LockIsFree
<1>4. ASSUME NEW w \in Workers, Setup(w) PROVE NothingSkipped'
  <2>1. PICK i \in 0..NumSteps : IsStartIndex(i) /\ at' = [at EXCEPT ![w] = i]
    BY <1>4 DEF Setup
  <2>2. \A v \in Workers : pc[v] # "step"
    BY <1>4 DEF Setup, LockOwned
  <2>3. \A j \in Steps : j < i => Reported(j)
    <3>1. CASE i = 0
      BY <3>1
    <3>2. CASE i - 1 \in checkpoints
      <4>1. Reported(i - 1) /\ \A j \in Steps : j < i - 1 => Reported(j)
        BY <2>2, <3>2
      <4>2. SUFFICES ASSUME NEW j \in Steps, j < i PROVE Reported(j)
        OBVIOUS
      <4>3. j < i - 1 \/ j = i - 1
        BY <4>2, BelowOrEqual
      <4>4. CASE j = i - 1
        BY <4>1, <4>4, Zenon
      <4>5. QED  BY <4>1, <4>2, <4>3, <4>4
    <3>3. QED  BY <2>1, <3>1, <3>2 DEF IsStartIndex
  <2>4. \A j \in Steps : Reported(j)' <=> Reported(j)
    BY <1>4 DEF Setup, Reported
  <2>5. QED
    BY <2>1, <2>2, <2>3, <2>4, <1>4 DEF Setup
<1>5. ASSUME NEW w \in Workers, Submit(w) PROVE NothingSkipped'
  BY <1>5 DEF Submit, UpdateStatus, Write
<1>6. ASSUME NEW w \in Workers, Publish(w) PROVE NothingSkipped'
  BY <1>6 DEF Publish, Unsent, Receivers, Reported, Streams
<1>7. ASSUME NEW w \in Workers, Open(w) PROVE NothingSkipped'
  BY <1>7 DEF Open, Commit
<1>8. ASSUME NEW w \in Workers, Check(w) PROVE NothingSkipped'
  BY <1>8 DEF Check, Refreshed, Visible, FirstOfStep, InLoop
<1>9. ASSUME NEW w \in Workers, LeaveLoop(w) PROVE NothingSkipped'
  <2>1. at[w] = NumSteps
    BY <1>9, LoopLeftAtEnd DEF LeaveLoop
  <2>2. \A i \in Steps : Reported(i)
    BY <2>1, <1>9 DEF LeaveLoop
  <2>3. QED
    BY <2>1, <2>2, <1>9 DEF LeaveLoop
<1>10. ASSUME NEW w \in Workers, WriteCheckpoint(w) PROVE NothingSkipped'
  BY <1>10 DEF WriteCheckpoint, Commit, LockOwned
<1>11. ASSUME NEW w \in Workers, RefuseStep(w) PROVE NothingSkipped'
  <2>1. ~OverBudget
    BY DEF OverBudget, NewTotal
  <2>2. QED
    BY <2>1, <1>11 DEF RefuseStep
<1>12. ASSUME NEW w \in Workers, SaveStep(w) PROVE NothingSkipped'
  <2>1. at[w] \in Steps /\ at' = [at EXCEPT ![w] = at[w] + 1] /\ pc' = [pc EXCEPT ![w] = "check"]
    BY <1>12 DEF SaveStep
  <2>2. \A j \in Steps : j < at'[w] => Reported(j)
    <3>1. SUFFICES ASSUME NEW j \in Steps, j < at[w] + 1 PROVE Reported(j)
      BY <2>1
    <3>2. Reported(at[w]) /\ (j < at[w] => Reported(j))
      BY <1>12 DEF SaveStep
    <3>3. at[w] \in Int /\ j \in Int
      BY <2>1, <3>1
    <3>4. j < at[w] \/ j = at[w]
      BY <3>1, <3>3, BelowSuccessor
    <3>5. QED  BY <3>2, <3>4
  <2>3. row' = row /\ draft'.status = draft.status /\ checkpoints' = checkpoints
    BY <1>12 DEF SaveStep, SaveContext, Write
  <2>4. \A j \in Steps : Reported(j)' <=> Reported(j)
    BY <1>12 DEF SaveStep, Reported
  <2>5. \A v \in Workers : pc[v] = "step" => pc'[v] = "step" /\ at'[v] = at[v]
    BY <2>1, <1>12 DEF SaveStep
  <2>6. QED
    BY <2>1, <2>2, <2>3, <2>4, <2>5
<1>13. ASSUME NEW w \in Workers, PauseOverBudget(w) PROVE NothingSkipped'
  BY <1>13 DEF PauseOverBudget, UpdateStatus, Write
<1>14. ASSUME NEW w \in Workers, PauseOnError(w) PROVE NothingSkipped'
  BY <1>14 DEF PauseOnError, UpdateStatus, Write, SaveContext
<1>15. ASSUME NEW w \in Workers, Finish(w) PROVE NothingSkipped'
  BY <1>15 DEF Finish, UpdateStatus, Write
<1>16. ASSUME NEW w \in Workers, CommitRun(w) PROVE NothingSkipped'
  BY <1>16 DEF CommitRun, Commit
<1>17. ASSUME NEW w \in Workers, Release(w) PROVE NothingSkipped'
  BY <1>17 DEF Release, LockAfterRelease, HeartbeatRaises
<1>18. ASSUME NEW w \in Workers, CloseSession(w) PROVE NothingSkipped'
  BY <1>18 DEF CloseSession, Commit, Rollback
<1>19. ASSUME NEW w \in Workers, Ack(w) PROVE NothingSkipped'
  BY <1>19 DEF Ack, ForgetTask
<1>20. ASSUME NEW w \in Workers, PublishRaises(w) PROVE NothingSkipped'
  BY <1>20 DEF PublishRaises, Unsent
<1>21. ASSUME NEW w \in Workers, Crash(w) PROVE NothingSkipped'
  BY <1>21 DEF Crash, Rollback, ForgetTask
<1>22. ASSUME NEW r \in Requests, Receive(r) PROVE NothingSkipped'
  BY <1>22 DEF Receive
<1>23. ASSUME NEW r \in Requests, Flush(r) PROVE NothingSkipped'
  BY <1>23 DEF Flush, Write, Transitions
<1>24. ASSUME NEW r \in Requests, CommitRequest(r) PROVE NothingSkipped'
  BY <1>24 DEF CommitRequest, Commit
<1>25. ASSUME NEW r \in Requests, Enqueue(r) PROVE NothingSkipped'
  BY <1>25 DEF Enqueue
<1>26. ASSUME NEW r \in Requests, RequestDies(r) PROVE NothingSkipped'
  BY <1>26 DEF RequestDies, Rollback
<1>27. ASSUME NEW p \in Pods, Scan(p) PROVE NothingSkipped'
  BY <1>27 DEF Scan
<1>28. ASSUME NEW p \in Pods, Claim(p) PROVE NothingSkipped'
  BY <1>28 DEF Claim, LockIsFree
<1>29. ASSUME NEW p \in Pods, Requeue(p) PROVE NothingSkipped'
  BY <1>29 DEF Requeue
<1>30. ASSUME NEW p \in Pods, Unclaim(p) PROVE NothingSkipped'
  BY <1>30 DEF Unclaim, LockAfterRelease, HeartbeatRaises
<1>31. ASSUME NEW p \in Pods, RequeueRaises(p) PROVE NothingSkipped'
  BY <1>31 DEF RequeueRaises
<1>32. ASSUME NEW p \in Pods, PodDies(p) PROVE NothingSkipped'
  BY <1>32 DEF PodDies
<1>33. CASE LockExpires
  BY <1>33 DEF LockExpires
<1>34. CASE HeartbeatAges
  BY <1>34 DEF HeartbeatAges
<1>35. CASE UNCHANGED vars
  BY <1>35 DEF vars
<1>36. QED
  BY <1>1, <1>2, <1>3, <1>4, <1>5, <1>6, <1>7, <1>8, <1>9, <1>10, <1>11,
     <1>12, <1>13, <1>14, <1>15, <1>16, <1>17, <1>18, <1>19, <1>20, <1>21,
     <1>22, <1>23, <1>24, <1>25, <1>26, <1>27, <1>28, <1>29, <1>30, <1>31,
     <1>32, <1>33, <1>34, <1>35 DEF Next, Work, Serve, Recover

\* A COMPLETED execution has reported every step, as long as no fault strikes,
\* whatever requests interleave with its runs.
THEOREM CompletedReportsAll ==
  ASSUME Calm PROVE Spec => []NoStepSkipped
<1>1. Init => LockOwned /\ NothingSkipped
  BY EngineConstants DEF Init, NewRow, LockOwned, Inside, Claiming, LockBody, NothingSkipped
<1>2. TypeOK /\ LockOwned /\ [Next]_vars => LockOwned'
  BY LockOwnedStep DEF Calm
<1>3. TypeOK /\ LockOwned /\ NothingSkipped /\ [Next]_vars => NothingSkipped'
  BY NothingSkippedStep
<1>4. NothingSkipped => NoStepSkipped
  BY DEF NothingSkipped, NoStepSkipped, Reported
<1>5. QED
  BY <1>1, <1>2, <1>3, <1>4, TypeCorrect, PTL DEF Spec
-----------------------------------------------------------------------------
\* A step of a worker's task that neither takes nor gives back the lock
\* (executor.py:137-288).
Proceeds(w) ==
  \/ Take(w) \/ Load(w) \/ Setup(w) \/ Submit(w) \/ Publish(w) \/ Open(w) \/ Check(w)
  \/ LeaveLoop(w) \/ WriteCheckpoint(w) \/ RefuseStep(w) \/ SaveStep(w)
  \/ PauseOverBudget(w) \/ PauseOnError(w) \/ Finish(w) \/ CommitRun(w)
  \/ CloseSession(w) \/ Ack(w) \/ PublishRaises(w)

\* Such a step stays inside the lock body, or outside.
LEMMA ProceedsInPlace ==
  ASSUME TypeOK, NEW w \in Workers, Proceeds(w)
  PROVE  /\ lock' = lock /\ pod' = pod
         /\ \A v \in Workers : Inside(v)' <=> Inside(v)
<1>0. pc \in [Workers -> WorkerPC]
  BY DEF TypeOK
<1> SUFFICES /\ lock' = lock /\ pod' = pod
             /\ \E l : pc' = [pc EXCEPT ![w] = l] /\ (l \in LockBody <=> pc[w] \in LockBody)
  BY <1>0 DEF Inside
<1> USE DEF Goto, LockBody, WorkerPC
<1>1. CASE Take(w) \/ Load(w) \/ CloseSession(w) \/ Ack(w)
  BY <1>1 DEF Take, Load, CloseSession, Ack, ForgetTask
<1>2. CASE Setup(w) \/ Submit(w) \/ Open(w) \/ LeaveLoop(w) \/ WriteCheckpoint(w)
           \/ RefuseStep(w) \/ SaveStep(w) \/ PauseOverBudget(w) \/ PauseOnError(w)
           \/ Finish(w) \/ CommitRun(w)
  BY <1>2 DEF Setup, Submit, Open, LeaveLoop, WriteCheckpoint, RefuseStep, SaveStep,
              PauseOverBudget, PauseOnError, Finish, CommitRun
<1>3. CASE Check(w)
  <2>1. /\ pc[w] = "check" /\ lock' = lock /\ pod' = pod
        /\ \E l \in {"release", "checkpoint", "step"} : pc' = [pc EXCEPT ![w] = l]
    BY <1>3 DEF Check, FirstOfStep
  <2>2. QED
    BY <2>1
<1>4. CASE Publish(w) \/ PublishRaises(w)
  BY <1>4 DEF Publish, PublishRaises, Unsent
<1>5. QED
  BY <1>1, <1>2, <1>3, <1>4 DEF Proceeds

\* A step that leaves the lock key and everybody's place alone.
LEMMA InPlace ==
  ASSUME lock' = lock, \A w \in Workers : Inside(w)' <=> Inside(w),
         \A p \in Pods : Claiming(p)' <=> Claiming(p)
  PROVE  Holders' = Holders /\ (LockIsLive => LockIsLive')
  BY DEF Holders, LockIsLive

\* Every step of a worker, a request, a scan or the clock is one of the lease's,
\* or does not concern it (executor.py:134-288, recovery.py:44-63).
LEMMA LeaseStep ==
  ASSUME TypeOK, LockIsLive, [Next]_vars
  PROVE  LockIsLive' /\ [Lease!Next]_(Lease!vars)
<1> USE EngineConstants
<1> DEFINE Goal == LockIsLive' /\ [Lease!Next]_(Lease!vars)
<1>0. /\ pc \in [Workers -> WorkerPC] /\ pod \in [Pods -> PodPC]
      /\ lock \in Workers \cup Pods \cup {Nobody, Orphan}
  BY DEF TypeOK
<1>1. ASSUME lock' = lock, \A w \in Workers : Inside(w)' <=> Inside(w),
             \A p \in Pods : Claiming(p)' <=> Claiming(p)
      PROVE  Goal
  BY <1>1, InPlace DEF Lease!vars
<1>2. ASSUME NEW w \in Workers, Proceeds(w) PROVE Goal
  BY <1>1, <1>2, ProceedsInPlace DEF Claiming
<1>3. ASSUME NEW w \in Workers, TryLock(w) PROVE Goal
  <2>1. pod' = pod /\ pc[w] = "acquire"
    BY <1>3 DEF TryLock
  <2>2. CASE lock = Nobody
    <3>1. lock' = w /\ pc' = [pc EXCEPT ![w] = "setup"]
      BY <1>3, <2>2 DEF TryLock, LockIsFree, Goto
    <3>2. w \notin Holders /\ Holders' = Holders \cup {w}
      BY <1>0, <2>1, <3>1 DEF Holders, Inside, Claiming, LockBody, WorkerPC
    <3>3. Lease!Enter(w)
      BY <2>2, <3>1, <3>2 DEF Lease!Enter
    <3>4. LockIsLive'
      BY <1>0, <3>1 DEF LockIsLive, Inside, LockBody, WorkerPC
    <3>5. QED  BY <3>3, <3>4 DEF Lease!Next
  <2>3. CASE lock # Nobody
    <3>1. lock' = lock /\ pc' = [pc EXCEPT ![w] = "ack"]
      BY <1>3, <2>3 DEF TryLock, LockIsFree, Goto
    <3>2. QED
      BY <1>0, <1>1, <2>1, <3>1 DEF Inside, Claiming, LockBody, WorkerPC
  <2>4. QED  BY <2>2, <2>3
<1>4. ASSUME NEW w \in Workers, Release(w) \/ Crash(w), Inside(w) PROVE Goal
  <2>1. /\ pod' = pod
        /\ \E l \in {"close", "rollback", "idle"} : pc' = [pc EXCEPT ![w] = l]
        /\ IF lock = w THEN lock' \in {Nobody, Orphan} ELSE lock' = lock
    BY <1>4 DEF Release, LockAfterRelease, HeartbeatRaises, Crash, ForgetTask, Goto
  <2>2. w \in Holders /\ Holders' = Holders \ {w}
    BY <1>0, <1>4, <2>1 DEF Holders, Inside, Claiming, LockBody, WorkerPC
  <2>3. Lease!Exit(w)
    BY <2>1, <2>2 DEF Lease!Exit
  <2>4. LockIsLive'
    BY <1>0, <2>1 DEF LockIsLive, Inside, Claiming, LockBody, WorkerPC
  <2>5. QED  BY <2>3, <2>4 DEF Lease!Next
<1>5. ASSUME NEW w \in Workers, Release(w) \/ Crash(w), ~Inside(w) PROVE Goal
  <2>1. Crash(w) /\ lock # w
    BY <1>5 DEF Release, Inside, LockBody, WorkerPC, LockIsLive
  <2>2. lock' = lock /\ pod' = pod /\ pc' = [pc EXCEPT ![w] = "idle"]
    BY <2>1 DEF Crash, ForgetTask, Goto
  <2>3. QED
    BY <1>0, <1>1, <1>5, <2>2 DEF Inside, Claiming, LockBody
<1>6. ASSUME NEW p \in Pods, Claim(p) PROVE Goal
  <2>1. pc' = pc /\ pod[p] = "scanned"
    BY <1>6 DEF Claim, taskVars
  <2>2. CASE lock = Nobody
    <3>1. lock' = p /\ pod' = [pod EXCEPT ![p] = "enqueue"]
      BY <1>6, <2>2 DEF Claim, LockIsFree
    <3>2. p \notin Holders /\ Holders' = Holders \cup {p}
      BY <1>0, <2>1, <3>1 DEF Holders, Inside, Claiming
    <3>3. Lease!Enter(p)
      BY <2>2, <3>1, <3>2 DEF Lease!Enter
    <3>4. LockIsLive'
      BY <1>0, <3>1 DEF LockIsLive, Claiming
    <3>5. QED  BY <3>3, <3>4 DEF Lease!Next
  <2>3. CASE lock # Nobody
    <3>1. lock' = lock /\ pod' = [pod EXCEPT ![p] = "idle"]
      BY <1>6, <2>3 DEF Claim, LockIsFree
    <3>2. QED
      BY <1>0, <1>1, <2>1, <3>1 DEF Inside, Claiming
  <2>4. QED  BY <2>2, <2>3
<1>7. ASSUME NEW p \in Pods, Unclaim(p) \/ PodDies(p) PROVE Goal
  <2>1. /\ pc' = pc /\ Claiming(p) /\ pod' = [pod EXCEPT ![p] = "idle"]
        /\ IF lock = p THEN lock' \in {Nobody, Orphan} ELSE lock' = lock
    BY <1>7 DEF Unclaim, PodDies, HeartbeatRaises, LockAfterRelease, Claiming, taskVars
  <2>2. p \in Holders /\ Holders' = Holders \ {p}
    BY <1>0, <2>1 DEF Holders, Inside, Claiming
  <2>3. Lease!Exit(p)
    BY <2>1, <2>2 DEF Lease!Exit
  <2>4. LockIsLive'
    BY <1>0, <2>1 DEF LockIsLive, Inside, Claiming
  <2>5. QED  BY <2>3, <2>4 DEF Lease!Next
<1>8. ASSUME NEW p \in Pods, Scan(p) \/ Requeue(p) \/ RequeueRaises(p) PROVE Goal
  <2>1. lock' = lock /\ pc' = pc /\ \A q \in Pods : Claiming(q)' <=> Claiming(q)
    BY <1>0, <1>8 DEF Scan, Requeue, RequeueRaises, Claiming, taskVars
  <2>2. QED  BY <1>1, <2>1 DEF Inside
<1>9. CASE LockExpires
  <2>1. /\ lock = Orphan \/ (LeaseMayExpire /\ lock # Nobody)
        /\ lock' = Nobody /\ UNCHANGED <<pc, pod>>
    BY <1>9 DEF LockExpires, taskVars
  <2>2. Holders' = Holders
    BY <2>1 DEF Holders, Inside, Claiming
  <2>3. QED
    BY <2>1, <2>2 DEF Lease!Expire, Lease!Next, LockIsLive
<1>10. ASSUME UNCHANGED <<lock, pc, pod>> PROVE Goal
  BY <1>1, <1>10 DEF Inside, Claiming
<1>11. QED
  BY <1>2, <1>3, <1>4, <1>5, <1>6, <1>7, <1>8, <1>9, <1>10
  DEF Next, Work, Serve, Recover, Proceeds, Receive, Flush, CommitRequest, Enqueue,
      RequestDies, HeartbeatAges, vars, taskVars

\* executor.py:134-288 and recovery.py:44-63: workers and recovery scans obey
\* the lease that RedisLock is proved to implement, through crashes, failed
\* publications and lost leases.
THEOREM LeaseRefinement == Spec => UsesLease
<1>1. Init => LockIsLive /\ Lease!Init
  <2>1. Init => Holders = {}
    BY DEF Init, Holders, Inside, Claiming, LockBody
  <2>2. QED
    BY <2>1, EngineConstants DEF Init, LockIsLive, Lease!Init
<1>2. TypeOK /\ LockIsLive /\ [Next]_vars => LockIsLive' /\ [Lease!Next]_(Lease!vars)
  BY LeaseStep
<1>3. QED
  BY <1>1, <1>2, TypeCorrect, PTL DEF Spec, Lease!Spec, UsesLease
-----------------------------------------------------------------------------
\* The three steps in which a worker sends events (executor.py:83-88).
Sends(w) == Publish(w) \/ PublishRaises(w) \/ Crash(w)

\* Nothing else touches a stream.
LEMMA OnlySendersPublish ==
  ASSUME [Next]_vars
  PROVE  UNCHANGED eventVars \/ \E w \in Workers : Sends(w)
  BY DEF Sends, Next, Work, Serve, Recover, Take, Load, TryLock, Setup, Submit, Open, Check,
         LeaveLoop, WriteCheckpoint, RefuseStep, SaveStep, PauseOverBudget, PauseOnError, Finish,
         CommitRun, Release, CloseSession, Ack, Receive, Flush, CommitRequest, Enqueue,
         RequestDies, Scan, Claim, Requeue, Unclaim, RequeueRaises, PodDies, LockExpires,
         HeartbeatAges, vars, envVars

\* A worker has at most one event to send.
LEMMA OneUnsent ==
  ASSUME NEW w \in Workers
  PROVE  \E e : Unsent(w) \subseteq {e}
  BY DEF Unsent

\* A sender leaves the committed row alone, and each stream either alone or
\* with its event at the end.
LEMMA SentOrNot ==
  ASSUME TypeOK, NEW w \in Workers, Sends(w), NEW s \in Streams
  PROVE  /\ row' = row
         /\ \/ events'[s] = events[s] /\ latest'[s] = latest[s]
            \/ \E e \in Unsent(w) : events'[s] = events[s] \cup {e} /\ latest'[s] = e
<1>1. row' = row
  BY DEF Sends, Publish, PublishRaises, Crash, Rollback, dbVars
<1>2. PICK sent \in SUBSET Unsent(w) :
        \/ events'[s] = events[s] /\ latest'[s] = latest[s]
        \/ events'[s] = events[s] \cup sent /\ latest'[s] = Newest(latest[s], sent)
  BY DEF Sends, Publish, PublishRaises, Crash, TypeOK, Streams, Receivers
<1>3. CASE sent = {}
  BY <1>1, <1>2, <1>3 DEF Newest
<1>4. CASE sent # {}
  <2>1. PICK e \in Unsent(w) : sent = {e}
    BY <1>4, OneUnsent
  <2>2. Newest(latest[s], sent) = e
    BY <2>1, NewestOfBoth
  <2> QED
    BY <1>1, <1>2, <2>1, <2>2
<1> QED
  BY <1>3, <1>4

\* While no lease is lost a worker in the lock body is alone there.
LEMMA Alone ==
  ASSUME LockOwned, NEW w \in Workers, Inside(w), NEW v \in Workers, v # w
  PROVE  ~Inside(v)
  BY DEF LockOwned

\* An event after which a run is at some step leaves the run open.
LEMMA AwaitedIsOpen ==
  ASSUME NEW e, NEW i, Awaits(e, i)
  PROVE  OfOpenRun(e)
  BY DEF Awaits, OfOpenRun

\* What the worker fits to the last event of stream s at.
Fits(w, s) ==
  /\ pc[w] = "opened" => latest[s] = Started
  /\ pc[w] \in {"check", "checkpoint", "step", "finish", "completed"}
        => Awaits(latest[s], at[w])
  /\ pc[w] = "save" => latest[s] = StepCompleted(at[w])
  /\ pc[w] \in {"over_budget", "error", "paused"} => OfOpenRun(latest[s])
  /\ pc[w] \in {"finish", "completed"} => at[w] = NumSteps

\* A worker that sends changes what fits the others only when it is alone.
LEMMA LatestOfOthers ==
  ASSUME TypeOK, LockOwned, LatestIsOfRun, NEW w \in Workers,
         latest' = latest \/ Inside(w),
         NEW v \in Workers, v # w, pc'[v] = pc[v], at'[v] = at[v], NEW s \in Streams
  PROVE  Fits(v, s)'
<1>1. CASE latest' = latest
  BY <1>1 DEF Fits, LatestIsOfRun
<1>2. CASE Inside(w)
  <2>1. ~Inside(v)
    BY <1>2, Alone
  <2> QED
    BY <2>1 DEF Fits, Inside, LockBody, WorkerPC
<1> QED
  BY <1>1, <1>2

\* Each step of a run leaves the event that the next one builds on, and a
\* failed publication leaves the run open (executor.py:156-276).
LEMMA LatestStep ==
  ASSUME TypeOK, LockOwned, LatestIsOfRun, [Next]_vars
  PROVE  LatestIsOfRun'
<1> USE EngineConstants
<1>0. /\ pc \in [Workers -> WorkerPC] /\ at \in [Workers -> 0..NumSteps]
      /\ \A w \in Workers : pc[w] \in LoopBody => at[w] \in Steps
      /\ \A w \in Workers, s \in Streams : Fits(w, s)
  BY DEF TypeOK, LatestIsOfRun, Fits
<1>1. ASSUME NEW w \in Workers, latest' = latest \/ Inside(w),
             \A v \in Workers : v # w => pc'[v] = pc[v] /\ at'[v] = at[v],
             \A s \in Streams : Fits(w, s)'
      PROVE  LatestIsOfRun'
  <2>1. \A v \in Workers, s \in Streams : Fits(v, s)'
    BY <1>1, LatestOfOthers
  <2> QED
    BY <2>1 DEF LatestIsOfRun, Fits
<1>2. ASSUME NEW w \in Workers, latest' = latest,
             \E l \in {"idle", "load", "acquire", "setup", "submit", "announce", "commit",
                       "release", "raise", "close", "rollback", "ack"} :
                pc' = [pc EXCEPT ![w] = l],
             \A v \in Workers : v # w => at'[v] = at[v]
      PROVE  LatestIsOfRun'
  <2>1. \A s \in Streams : Fits(w, s)'
    BY <1>0, <1>2 DEF Fits
  <2> QED
    BY <1>0, <1>1, <1>2, <2>1
<1>3. ASSUME NEW w \in Workers,
             \/ Take(w) \/ Load(w) \/ TryLock(w) \/ Setup(w) \/ Submit(w) \/ CommitRun(w)
             \/ Release(w) \/ CloseSession(w) \/ Ack(w)
      PROVE  LatestIsOfRun'
  <2>1. latest' = latest /\ \A v \in Workers : v # w => at'[v] = at[v]
    BY <1>0, <1>3 DEF Take, Load, TryLock, Setup, Submit, CommitRun, Release, CloseSession, Ack,
                      ForgetTask
  <2>2. \E l \in {"idle", "load", "acquire", "setup", "submit", "announce", "commit",
                  "release", "raise", "close", "rollback", "ack"} : pc' = [pc EXCEPT ![w] = l]
    BY <1>3 DEF Take, Load, TryLock, Setup, Submit, CommitRun, Release, CloseSession, Ack,
                ForgetTask, Goto
  <2> QED
    BY <1>2, <2>1, <2>2
<1>4. ASSUME NEW w \in Workers,
             \/ Open(w) \/ Check(w) \/ WriteCheckpoint(w) \/ RefuseStep(w) \/ PauseOverBudget(w)
             \/ PauseOnError(w) \/ Finish(w) \/ LeaveLoop(w)
      PROVE  LatestIsOfRun'
  <2>1. latest' = latest /\ at' = at
    BY <1>4 DEF Open, Check, WriteCheckpoint, RefuseStep, PauseOverBudget, PauseOnError, Finish,
                LeaveLoop
  <2>2. \E l \in WorkerPC : pc' = [pc EXCEPT ![w] = l]
    BY <1>4 DEF Open, Check, WriteCheckpoint, RefuseStep, PauseOverBudget, PauseOnError, Finish,
                LeaveLoop, Goto, WorkerPC, FirstOfStep
  <2> SUFFICES ASSUME NEW s \in Streams PROVE Fits(w, s)'
    BY <1>0, <1>1, <2>1, <2>2
  <2>3. CASE Open(w) \/ Check(w) \/ WriteCheckpoint(w)
    <3>1. /\ pc[w] \in {"opened", "check", "checkpoint"}
          /\ pc'[w] \in {"check", "checkpoint", "step", "release"}
      BY <1>0, <2>3 DEF Open, Check, WriteCheckpoint, Goto, FirstOfStep
    <3>2. Awaits(latest[s], at[w])
      BY <1>0, <3>1 DEF Fits, Awaits
    <3> QED
      BY <2>1, <3>1, <3>2 DEF Fits
  <2>4. CASE RefuseStep(w) \/ PauseOverBudget(w) \/ PauseOnError(w)
    <3>1. /\ pc[w] \in {"step", "over_budget", "error"}
          /\ pc'[w] \in {"over_budget", "paused"}
      BY <1>0, <2>4 DEF RefuseStep, PauseOverBudget, PauseOnError, Goto
    <3>2. OfOpenRun(latest[s])
      BY <1>0, <3>1, AwaitedIsOpen DEF Fits
    <3> QED
      BY <2>1, <3>1, <3>2 DEF Fits
  <2>5. CASE Finish(w) \/ LeaveLoop(w)
    <3>1. pc[w] \in {"check", "finish"} /\ pc'[w] \in {"finish", "completed"}
      BY <1>0, <2>5 DEF Finish, LeaveLoop, Goto
    <3>2. Awaits(latest[s], at[w])
      BY <1>0, <3>1 DEF Fits
    <3>3. at[w] = NumSteps
      BY <1>0, <2>5, LoopLeftAtEnd DEF Fits, Finish, LeaveLoop
    <3> QED
      BY <2>1, <3>1, <3>2, <3>3 DEF Fits
  <2> QED
    BY <1>4, <2>3, <2>4, <2>5
<1>5. ASSUME NEW w \in Workers, SaveStep(w) PROVE LatestIsOfRun'
  <2>1. /\ pc[w] = "save" /\ latest' = latest
        /\ pc' = [pc EXCEPT ![w] = "check"] /\ at' = [at EXCEPT ![w] = at[w] + 1]
    BY <1>5 DEF SaveStep, Goto
  <2>2. at[w] \in Steps
    BY <1>0, <2>1 DEF LoopBody
  <2>3. at[w] + 1 - 1 = at[w]
    BY <2>2 DEF Steps
  <2> SUFFICES ASSUME NEW s \in Streams PROVE Fits(w, s)'
    BY <1>0, <1>1, <2>1
  <2>4. latest[s] = StepCompleted(at[w])
    BY <1>0, <2>1 DEF Fits
  <2>5. Awaits(latest[s], at[w] + 1)
    BY <2>2, <2>3, <2>4 DEF Awaits, StepCompleted, Steps
  <2> QED
    BY <1>0, <2>1, <2>5 DEF Fits
<1>6. ASSUME NEW w \in Workers, Crash(w) PROVE LatestIsOfRun'
  <2>1. /\ pc' = [pc EXCEPT ![w] = "idle"] /\ \A v \in Workers : v # w => at'[v] = at[v]
    BY <1>0, <1>6 DEF Crash, ForgetTask, Goto
  <2>2. \A s \in Streams : Fits(w, s)'
    BY <1>0, <2>1 DEF Fits
  <2>3. latest' = latest \/ Inside(w)
    <3>1. CASE Unsent(w) = {}
      BY <1>6, <3>1 DEF Crash, Newest, TypeOK
    <3>2. CASE Unsent(w) # {}
      BY <3>2 DEF Unsent, Inside, LockBody, WorkerPC
    <3> QED  BY <3>1, <3>2
  <2> QED
    BY <1>0, <1>1, <2>1, <2>2, <2>3
<1>7. ASSUME NEW w \in Workers, Publish(w) PROVE LatestIsOfRun'
  <2>1. Inside(w) /\ at' = at /\ \E l \in WorkerPC : pc' = [pc EXCEPT ![w] = l]
    BY <1>7 DEF Publish, Unsent, Inside, LockBody, WorkerPC, Goto
  <2> SUFFICES ASSUME NEW s \in Streams PROVE Fits(w, s)'
    BY <1>0, <1>1, <2>1
  <2>2. latest'[s] = Newest(latest[s], Unsent(w))
    BY <1>7 DEF Publish, Receivers
  <2>3. latest'[s] \in Unsent(w)
    BY <1>7, <2>2, NewestOfBoth DEF Publish
  <2>4. CASE pc[w] = "announce"
    <3>1. latest'[s] = Started /\ pc'[w] = "opened"
      BY <1>0, <1>7, <2>3, <2>4 DEF Unsent, Publish, Goto
    <3> QED  BY <3>1 DEF Fits
  <2>5. CASE pc[w] = "step"
    <3>1. latest'[s] = StepCompleted(at[w]) /\ pc'[w] = "save"
      BY <1>0, <1>7, <2>3, <2>5 DEF Unsent, Publish, Goto
    <3> QED  BY <2>1, <3>1 DEF Fits
  <2>6. CASE pc[w] \notin {"announce", "step"}
    <3>1. pc'[w] = "commit"
      BY <1>0, <1>7, <2>6 DEF Publish, Goto
    <3> QED  BY <3>1 DEF Fits
  <2> QED
    BY <2>4, <2>5, <2>6
<1>8. ASSUME NEW w \in Workers, PublishRaises(w) PROVE LatestIsOfRun'
  <2>1. /\ Inside(w) /\ at' = at
        /\ pc' = [pc EXCEPT ![w] = IF pc[w] = "step" THEN "error" ELSE "raise"]
    BY <1>8 DEF PublishRaises, Unsent, Inside, LockBody, WorkerPC, Goto
  <2> SUFFICES ASSUME NEW s \in Streams PROVE Fits(w, s)'
    BY <1>0, <1>1, <2>1
  <2>2. CASE pc[w] = "step"
    <3>1. at[w] \in Steps /\ OfOpenRun(latest[s])
      BY <1>0, <2>2, AwaitedIsOpen DEF Fits, LoopBody
    <3>2. latest'[s] = latest[s] \/ latest'[s] \in Unsent(w)
      BY <1>8, SentOrNot DEF Sends
    <3>3. OfOpenRun(latest'[s])
      BY <2>2, <3>1, <3>2 DEF Unsent, OfOpenRun
    <3> QED
      BY <1>0, <2>1, <2>2, <3>3 DEF Fits
  <2>3. CASE pc[w] # "step"
    BY <1>0, <2>1, <2>3 DEF Fits
  <2> QED
    BY <2>2, <2>3
<1>9. ASSUME UNCHANGED <<latest, pc, at>> PROVE LatestIsOfRun'
  BY <1>9 DEF LatestIsOfRun
<1> QED
  BY <1>3, <1>4, <1>5, <1>6, <1>7, <1>8, <1>9
  DEF Next, Work, Serve, Recover, Receive, Flush, CommitRequest, Enqueue, RequestDies, Scan,
      Claim, Requeue, Unclaim, RequeueRaises, PodDies, LockExpires, HeartbeatAges, vars, taskVars

\* The execution's own stream never gets ahead of the global one.
LEMMA OwnInGlobalStep ==
  ASSUME TypeOK, OwnInGlobal, [Next]_vars
  PROVE  OwnInGlobal'
<1>1. CASE UNCHANGED eventVars
  BY <1>1 DEF OwnInGlobal
<1>2. ASSUME NEW w \in Workers, Publish(w) PROVE OwnInGlobal'
  BY <1>2 DEF Publish, OwnInGlobal, Receivers, Streams
<1>3. ASSUME NEW w \in Workers, PublishRaises(w) \/ Crash(w) PROVE OwnInGlobal'
  BY <1>3 DEF PublishRaises, Crash, OwnInGlobal, TypeOK, Streams
<1> QED
  BY <1>1, <1>2, <1>3, OnlySendersPublish DEF Sends

\* When event e may come next on stream s.
MayFollow(e, s) ==
  \/ e = Started
  \/ \E i \in Steps : /\ e = StepCompleted(i)
                      /\ Awaits(latest[s], i)
                      /\ Calm => \A k \in Steps : k < i => StepCompleted(k) \in events[s]
  \/ e = Paused /\ OfOpenRun(latest[s])
  \/ /\ e = Completed
     /\ Awaits(latest[s], NumSteps)
     /\ Calm => \A k \in Steps : StepCompleted(k) \in events[s]

\* The engine's step as stream s sees it.
Move(s) ==
  \/ row.status' = row.status /\ events'[s] = events[s] /\ latest'[s] = latest[s]
  \/ /\ row.status' # row.status
     /\ row.status' = "RUNNING" => Started \in events[s]
     /\ row.status' = "COMPLETED" => Completed \in events[s]
     /\ events'[s] = events[s] /\ latest'[s] = latest[s]
  \/ /\ row.status' = row.status
     /\ \E e : MayFollow(e, s) /\ events'[s] = events[s] \cup {e} /\ latest'[s] = e

\* The report's invariant: alone in the lock body a worker builds on the last
\* event, what is uncommitted is announced before it is committed, and in a
\* calm system nothing before the worker's step is missing.
ReportInv ==
  /\ LockOwned /\ LatestIsOfRun /\ OwnInGlobal
  /\ DraftFollowsRow /\ AnnouncedOrUncommitted /\ CommittedIsAnnounced
  /\ Calm => NothingSkipped

\* What a worker has to send may come next (executor.py:156-276).
LEMMA SendersMayFollow ==
  ASSUME TypeOK, ReportInv, NEW w \in Workers, NEW e \in Unsent(w), NEW s \in Streams
  PROVE  MayFollow(e, s)
<1>1. ASSUME Calm, NEW k \in Steps, k < at[w], pc[w] \in {"step", "completed"}
      PROVE  StepCompleted(k) \in events[s]
  <2>1. Reported(k)
    BY <1>1 DEF ReportInv, NothingSkipped, Inside, LockBody, WorkerPC
  <2> QED
    BY <2>1 DEF Reported, ReportInv, OwnInGlobal, Streams
<1>2. CASE pc[w] = "announce"
  BY <1>2 DEF Unsent, MayFollow
<1>3. CASE pc[w] = "step"
  <2>1. at[w] \in Steps /\ e = StepCompleted(at[w])
    BY <1>3 DEF Unsent, TypeOK, LoopBody
  <2>2. Awaits(latest[s], at[w])
    BY <1>3 DEF ReportInv, LatestIsOfRun
  <2> QED
    BY <1>1, <1>3, <2>1, <2>2 DEF MayFollow
<1>4. CASE pc[w] = "paused"
  BY <1>4 DEF Unsent, MayFollow, ReportInv, LatestIsOfRun
<1>5. CASE pc[w] = "completed"
  <2>1. e = Completed /\ at[w] = NumSteps /\ Awaits(latest[s], at[w])
    BY <1>5 DEF Unsent, ReportInv, LatestIsOfRun
  <2>2. \A k \in Steps : k < at[w]
    BY <2>1, EngineConstants DEF Steps
  <2> QED
    BY <1>1, <1>5, <2>1, <2>2 DEF MayFollow
<1> QED
  BY <1>2, <1>3, <1>4, <1>5 DEF Unsent

\* Every step of the engine is a move of both streams' reports.
LEMMA EveryStepMoves ==
  ASSUME TypeOK, ReportInv, CommittedIsAnnounced', [Next]_vars, NEW s \in Streams
  PROVE  Move(s)
<1>1. CASE UNCHANGED eventVars
  <2>1. /\ row'.status = "RUNNING" => Started \in events[s]
        /\ row'.status = "COMPLETED" => Completed \in events[s]
    BY <1>1 DEF CommittedIsAnnounced
  <2> QED
    BY <1>1, <2>1 DEF Move
<1>2. ASSUME NEW w \in Workers, Sends(w) PROVE Move(s)
  BY <1>2, SentOrNot, SendersMayFollow DEF Move
<1> QED
  BY <1>1, <1>2, OnlySendersPublish

\* The last step has no successor, so an event at which the loop ends is that
\* of the last step, or the run's first.
LEMMA LastStepEnds ==
  ASSUME NEW e, Awaits(e, NumSteps)
  PROVE  e = Started \/ \E i \in Steps : e = StepCompleted(i) /\ i + 1 \notin Steps
<1>1. NumSteps \in Nat
  BY EngineConstants
<1>2. NumSteps - 1 + 1 \notin Steps
  BY <1>1 DEF Steps
<1> QED
  BY <1>2 DEF Awaits

\* A move of the global stream is a step of its report.
LEMMA GlobalMoves ==
  ASSUME Move("executions")
  PROVE  [Global!Next]_(Global!vars)
<1> DEFINE s == "executions"
<1>1. CASE row.status' = row.status /\ events'[s] = events[s] /\ latest'[s] = latest[s]
  BY <1>1 DEF Global!vars
<1>2. CASE /\ row.status' # row.status
           /\ row.status' = "RUNNING" => Started \in events[s]
           /\ row.status' = "COMPLETED" => Completed \in events[s]
           /\ events'[s] = events[s] /\ latest'[s] = latest[s]
  BY <1>2 DEF Global!Settle, Global!Next
<1>3. ASSUME NEW e, MayFollow(e, s), row.status' = row.status,
             events'[s] = events[s] \cup {e}, latest'[s] = e
      PROVE  Global!Next
  <2>1. Global!Tell(e)
    BY <1>3 DEF Global!Tell
  <2>2. CASE e = Started
    BY <2>1, <2>2 DEF Global!Begin, Global!Next
  <2>3. ASSUME NEW i \in Steps, e = StepCompleted(i), Awaits(latest[s], i),
               Calm => \A k \in Steps : k < i => StepCompleted(k) \in events[s]
        PROVE  Global!Next
    <3>1. Global!Advance(i)
      BY <2>1, <2>3 DEF Global!Advance, Global!Told, Awaits
    <3> QED  BY <3>1 DEF Global!Next
  <2>4. CASE e = Paused /\ OfOpenRun(latest[s])
    BY <2>1, <2>4 DEF Global!Pause, Global!UnderWay, OfOpenRun, Global!Next
  <2>5. CASE /\ e = Completed
             /\ Awaits(latest[s], NumSteps)
             /\ Calm => \A k \in Steps : StepCompleted(k) \in events[s]
    <3>1. Global!Complete
      BY <2>1, <2>5, LastStepEnds DEF Global!Complete, Global!Told
    <3> QED  BY <3>1 DEF Global!Next
  <2> QED
    BY <1>3, <2>2, <2>3, <2>4, <2>5 DEF MayFollow
<1> QED
  BY <1>1, <1>2, <1>3 DEF Move

\* A move of the execution's own stream is a step of its report.
LEMMA OwnMoves ==
  ASSUME Move("sse")
  PROVE  [Own!Next]_(Own!vars)
<1> DEFINE s == "sse"
<1>1. CASE row.status' = row.status /\ events'[s] = events[s] /\ latest'[s] = latest[s]
  BY <1>1 DEF Own!vars
<1>2. CASE /\ row.status' # row.status
           /\ row.status' = "RUNNING" => Started \in events[s]
           /\ row.status' = "COMPLETED" => Completed \in events[s]
           /\ events'[s] = events[s] /\ latest'[s] = latest[s]
  BY <1>2 DEF Own!Settle, Own!Next
<1>3. ASSUME NEW e, MayFollow(e, s), row.status' = row.status,
             events'[s] = events[s] \cup {e}, latest'[s] = e
      PROVE  Own!Next
  <2>1. Own!Tell(e)
    BY <1>3 DEF Own!Tell
  <2>2. CASE e = Started
    BY <2>1, <2>2 DEF Own!Begin, Own!Next
  <2>3. ASSUME NEW i \in Steps, e = StepCompleted(i), Awaits(latest[s], i),
               Calm => \A k \in Steps : k < i => StepCompleted(k) \in events[s]
        PROVE  Own!Next
    <3>1. Own!Advance(i)
      BY <2>1, <2>3 DEF Own!Advance, Own!Told, Awaits
    <3> QED  BY <3>1 DEF Own!Next
  <2>4. CASE e = Paused /\ OfOpenRun(latest[s])
    BY <2>1, <2>4 DEF Own!Pause, Own!UnderWay, OfOpenRun, Own!Next
  <2>5. CASE /\ e = Completed
             /\ Awaits(latest[s], NumSteps)
             /\ Calm => \A k \in Steps : StepCompleted(k) \in events[s]
    <3>1. Own!Complete
      BY <2>1, <2>5, LastStepEnds DEF Own!Complete, Own!Told
    <3> QED  BY <3>1 DEF Own!Next
  <2> QED
    BY <1>3, <2>2, <2>3, <2>4, <2>5 DEF MayFollow
<1> QED
  BY <1>1, <1>2, <1>3 DEF Move

\* executor.py:156-276 while no lease is lost: what either stream is told is a
\* report, whichever workers tell it, whatever dies or raises in between; with
\* no fault at all, a report that leaves nothing out.
THEOREM ReportRefinement ==
  ASSUME ~LeaseMayExpire
  PROVE  Spec => ReportsRun
<1>1. Init => ReportInv
  BY EngineConstants DEF Init, NewRow, ReportInv, LockOwned, Inside, Claiming, LockBody,
     LatestIsOfRun, OwnInGlobal, Streams, DraftFollowsRow, AnnouncedOrUncommitted,
     CommittedIsAnnounced, NothingSkipped
<1>2. Init => Global!Init /\ Own!Init
  BY DEF Init, NewRow, Streams, Global!Init, Own!Init
<1>3. TypeOK /\ ReportInv /\ [Next]_vars => ReportInv'
  BY LockOwnedStep, LatestStep, OwnInGlobalStep, DraftStep, AnnouncedStep, NothingSkippedStep
  DEF ReportInv, Calm
<1>4. TypeOK /\ ReportInv /\ ReportInv' /\ [Next]_vars
        => [Global!Next]_(Global!vars) /\ [Own!Next]_(Own!vars)
  BY EveryStepMoves, GlobalMoves, OwnMoves DEF ReportInv, Streams
<1>5. QED
  BY <1>1, <1>2, <1>3, <1>4, TypeCorrect, PTL DEF Spec, Global!Spec, Own!Spec, ReportsRun
===============================================================================
