--------------------------- MODULE EventConsumers ---------------------------
(***************************************************************************)
(* The observability service's replicas (consumer/loop.py, handler.py and  *)
(* sampling/tail_sampler.py) on the streams "executions" and               *)
(* "memory.events": one consumer group, redelivery through its pending     *)
(* entries list, a span buffer in Redis and rows in PostgreSQL.            *)
(*                                                                         *)
(* An entry is named by its position in its stream.  One execution is      *)
(* enough: executions share nothing but the stream.                        *)
(*                                                                         *)
(* StepCompletedEvent carries a dict.  to_stream_dict writes it as a JSON  *)
(* string and parse_event validates that string as a dict, so such an entry*)
(* never parses.  No service publishes an unknown event or a failed step.  *)
(***************************************************************************)
EXTENDS Naturals, Sequences, FiniteSets

CONSTANTS
    Consumers,     \* replicas of the service
    PollCount,     \* consumer_poll_count
    ReclaimEvery,  \* _RECLAIM_EVERY
    ReclaimCount,  \* the count of an XAUTOCLAIM
    MaxEvents,     \* bound: events published per stream
    MaxFaults      \* bound: faults of any kind

Executions == "executions"
Memory == "memory.events"
Streams == {Executions, Memory}

\* A call to Redis or PostgreSQL raises; a replica dies; the buffer's TTL ends.
FaultKind == {"failure", "crash", "expiry"}

ASSUME ConsumerConstants ==
    /\ PollCount \in Nat \ {0} /\ ReclaimEvery \in Nat \ {0} /\ ReclaimCount \in Nat \ {0}
    /\ MaxEvents \in [Streams -> Nat]
    /\ MaxFaults \in Nat

VARIABLES
    stream,     \* per stream: what has been published
    group,      \* per stream: the group's last delivered entry
    since,      \* per stream: the last entry when the group was created
    created,    \* per stream: does the group exist?
    pending,    \* per stream: the pending entries list
    idle,       \* per stream: the pending entries idle for reclaim_min_idle_ms
    pc,         \* per replica: where its loop is
    at,         \* per replica: the stream it works on
    batch,      \* per replica: entries it has fetched and not finished
    claimed,    \* per replica: was the batch fetched by XAUTOCLAIM?
    processed,  \* per replica: messages_processed; 0, then 1 .. ReclaimEvery
    work,       \* per replica: the rows its open transaction will commit
    buffer,     \* spans in the hash trace:buffer:{execution_id}
    audit,      \* per stream: entries with a committed audit row
    traces,     \* committed rows for a completion
    spans,      \* committed rows for buffered spans
    faults      \* faults so far, of each kind

groupVars == <<group, since, created, pending, idle>>
loopVars == <<pc, at, batch, claimed, processed, work>>
dbVars == <<audit, traces, spans>>
vars == <<stream, groupVars, loopVars, buffer, dbVars, faults>>

----------------------------------------------------------------------------
(* Types                                                                   *)

Completion == {"slow", "fast"}     \* total_duration_ms above 30 s or not
ExecutionEvent == {"started", "step", "paused"} \cup Completion
MemoryEvent == {"written", "searched"}

LoopPC == {"down", "dead", "read", "reclaim", "process", "delete", "commit", "ack"}
Rows == [audit : BOOLEAN, trace : BOOLEAN, spans : Nat]
NoWork == [audit |-> FALSE, trace |-> FALSE, spans |-> 0]

TypeOK ==
    /\ stream \in [Streams -> Seq(ExecutionEvent \cup MemoryEvent)]
    /\ group \in [Streams -> Nat] /\ since \in [Streams -> Nat]
    /\ created \in [Streams -> BOOLEAN]
    /\ pending \in [Streams -> SUBSET Nat] /\ idle \in [Streams -> SUBSET Nat]
    /\ \A s \in Streams :
          /\ since[s] <= group[s] /\ group[s] <= Len(stream[s])
          /\ idle[s] \subseteq pending[s]
          /\ pending[s] \subseteq (since[s] + 1) .. group[s]
    /\ pc \in [Consumers -> LoopPC] /\ at \in [Consumers -> Streams]
    /\ batch \in [Consumers -> SUBSET Nat]
    /\ \A c \in Consumers :
          /\ batch[c] \subseteq (since[at[c]] + 1) .. group[at[c]]
          /\ (pc[c] \in {"process", "delete", "commit", "ack"}) <=> (batch[c] # {})
    /\ claimed \in [Consumers -> BOOLEAN]
    /\ processed \in [Consumers -> 0 .. ReclaimEvery]
    /\ work \in [Consumers -> Rows]
    /\ buffer \in Nat
    /\ audit \in [Streams -> SUBSET Nat]
    /\ traces \in Nat /\ spans \in Nat
    /\ faults \in [FaultKind -> Nat]

Init ==
    /\ stream = [s \in Streams |-> <<>>]
    /\ group = [s \in Streams |-> 0] /\ since = [s \in Streams |-> 0]
    /\ created = [s \in Streams |-> FALSE]
    /\ pending = [s \in Streams |-> {}] /\ idle = [s \in Streams |-> {}]
    /\ pc = [c \in Consumers |-> "down"]
    /\ at = [c \in Consumers |-> Executions]
    /\ batch = [c \in Consumers |-> {}]
    /\ claimed = [c \in Consumers |-> FALSE]
    /\ processed = [c \in Consumers |-> 0]
    /\ work = [c \in Consumers |-> NoWork]
    /\ buffer = 0
    /\ audit = [s \in Streams |-> {}]
    /\ traces = 0 /\ spans = 0
    /\ faults = [k \in FaultKind |-> 0]

Strike(k) ==
    /\ faults["failure"] + faults["crash"] + faults["expiry"] < MaxFaults
    /\ faults' = [faults EXCEPT ![k] = @ + 1]

----------------------------------------------------------------------------
(* The publishers: the workflow service reports each run of the execution, *)
(* the memory service each store and search.                               *)

\* What Executor.run publishes after an event of the execution (the theorem
\* ReportRefinement of ExecutionEngine_proofs): a new run may start after any.
Follows(e) ==
    {"started"} \cup
    IF e \in {"started", "step"} THEN {"step", "paused"} \cup Completion ELSE {}

LastEvent(s) == IF stream[s] = <<>> THEN "none" ELSE stream[s][Len(stream[s])]

Publish(s) ==
    /\ Len(stream[s]) < MaxEvents[s]
    /\ \E e \in IF s = Executions THEN Follows(LastEvent(s)) ELSE MemoryEvent :
          stream' = [stream EXCEPT ![s] = Append(@, e)]
    /\ UNCHANGED <<groupVars, loopVars, buffer, dbVars, faults>>

----------------------------------------------------------------------------
(* The loop of one replica                                                 *)

Goto(c, label) == pc' = [pc EXCEPT ![c] = label]

\* Both streams are read, then both are reclaimed if a reclaim is due:
\* messages_processed > 0 and messages_processed % _RECLAIM_EVERY == 0.
ReclaimsNext(c, n) ==
    IF claimed[c] THEN at[c] = Executions ELSE at[c] = Memory /\ n = ReclaimEvery

\* Faulty variant: a round ends with its first stream.
StreamAfterFirst(s) == Executions

\* The for loop over the two streams.
StreamAfter(s) == IF s = Executions THEN Memory ELSE Executions

\* Faulty variant: the rest of a batch is forgotten after its first message.
BatchDoneAfterFirst(rest) == TRUE

\* The for loop over the messages is over.
BatchDone(rest) == rest = {}

\* The loop of c with rest left of its batch and n messages processed.
GoOn(c, rest, n) ==
    /\ batch' = [batch EXCEPT ![c] = rest]
    /\ processed' = [processed EXCEPT ![c] = n]
    /\ IF ~BatchDone(rest)
       THEN Goto(c, "process") /\ UNCHANGED <<at, claimed>>
       ELSE /\ at' = [at EXCEPT ![c] = StreamAfter(@)]
            /\ claimed' = [claimed EXCEPT ![c] = ReclaimsNext(c, n)]
            /\ Goto(c, IF ReclaimsNext(c, n) THEN "reclaim" ELSE "read")

\* Entries that XREADGROUP or XAUTOCLAIM hands to c.
Fetch(c, entries) ==
    /\ idle' = [idle EXCEPT ![at[c]] = @ \ entries]
    /\ pending' = [pending EXCEPT ![at[c]] = @ \cup entries]
    /\ GoOn(c, entries, processed[c])

\* XGROUP CREATE at "$", where entries published before are skipped; BUSYGROUP
\* is ignored.
CreateGroups(made) ==
    LET fresh == {s \in made : ~created[s]}
        End(old) == [s \in Streams |-> IF s \in fresh THEN Len(stream[s]) ELSE old[s]]
    IN
    /\ created' = [s \in Streams |-> created[s] \/ s \in made]
    /\ since' = End(since)
    /\ group' = End(group)

\* ensure_consumer_groups, then the loop.
Start(c) ==
    /\ pc[c] = "down"
    /\ CreateGroups(Streams)
    /\ Goto(c, "read")
    /\ at' = [at EXCEPT ![c] = Executions]
    /\ UNCHANGED <<stream, pending, idle, batch, claimed, processed, work,
                   buffer, dbVars, faults>>

\* The first or the second XGROUP CREATE raises outside the loop's try: the task
\* ends, the process and its health endpoint live on.
StartRaises(c) ==
    /\ pc[c] = "down"
    /\ Strike("failure")
    /\ \E made \in {{}, {Executions}} : CreateGroups(made)
    /\ Goto(c, "dead")
    /\ UNCHANGED <<stream, pending, idle, at, batch, claimed, processed, work,
                   buffer, dbVars>>

\* The process stops, or is killed, or an operator restarts it.
Stop(c) ==
    /\ Goto(c, "down")
    /\ at' = [at EXCEPT ![c] = Executions]
    /\ batch' = [batch EXCEPT ![c] = {}]
    /\ processed' = [processed EXCEPT ![c] = 0]
    /\ work' = [work EXCEPT ![c] = NoWork]
    /\ claimed' = [claimed EXCEPT ![c] = FALSE]
    /\ UNCHANGED <<stream, groupVars, buffer, dbVars>>

Crash(c) == pc[c] \notin {"down", "dead"} /\ Strike("crash") /\ Stop(c)
Restart(c) == pc[c] = "dead" /\ Stop(c) /\ UNCHANGED faults

\* XREADGROUP with ">": entries nobody in the group has been given.
Read(c) ==
    LET s == at[c]
        last == IF group[s] + PollCount < Len(stream[s])
                THEN group[s] + PollCount ELSE Len(stream[s])
    IN
    /\ pc[c] = "read"
    /\ group' = [group EXCEPT ![s] = last]
    /\ Fetch(c, (group[s] + 1) .. last)
    /\ UNCHANGED <<stream, since, created, work, buffer, dbVars, faults>>

\* XAUTOCLAIM: the first idle entries, of any replica.
Reclaim(c) ==
    LET s == at[c] IN
    /\ pc[c] = "reclaim"
    /\ Fetch(c, {i \in idle[s] : Cardinality({j \in idle[s] : j < i}) < ReclaimCount})
    /\ UNCHANGED <<stream, group, since, created, work, buffer, dbVars, faults>>

\* Read: an exception reaches the loop, which drops the batch and starts a new
\* round.  Reclaim: _reclaim_pending catches it and is done with the stream.
RoundEnds(c) ==
    \/ claimed[c] /\ GoOn(c, {}, processed[c])
    \/ /\ ~claimed[c]
       /\ Goto(c, "read")
       /\ at' = [at EXCEPT ![c] = Executions]
       /\ batch' = [batch EXCEPT ![c] = {}]
       /\ UNCHANGED <<claimed, processed>>

\* XREADGROUP or XAUTOCLAIM raises.
FetchRaises(c) ==
    /\ pc[c] \in {"read", "reclaim"}
    /\ Strike("failure")
    /\ RoundEnds(c)
    /\ UNCHANGED <<stream, groupVars, work, buffer, dbVars>>

----------------------------------------------------------------------------
(* _process_one on the first entry of the batch                            *)

Entry(c) == CHOOSE i \in batch[c] : \A j \in batch[c] : i <= j
Event(c) == stream[at[c]][Entry(c)]

\* to_stream_dict writes outputs, a dict, as a JSON string.
JsonEncoded(e) == e = "step"

\* parse_event wants the dict: a ValidationError, not UnknownEventType.
Unparsable(e) == JsonEncoded(e)

\* The ValidationError leaves _process_one.
Abort(c) ==
    /\ pc[c] = "process" /\ Unparsable(Event(c))
    /\ RoundEnds(c)
    /\ UNCHANGED <<stream, groupVars, work, buffer, dbVars, faults>>

\* Faulty variant: a list, to which a redelivered span is pushed again.
BufferedAsList == buffer + 1

\* HSET with the same span_key overwrites.  The EXPIRE that follows only bounds
\* the life of the hash, and BufferExpires may end that at any time.
Buffered == 1

\* Faulty variant: the sampling rate decides for slow executions too.
MayKeepSampled(e) == BOOLEAN

\* should_keep: a slow execution always, others at random.  No StepFailedEvent
\* is published, so the failure flag is never set.
MayKeep(e) == IF e = "slow" THEN {TRUE} ELSE BOOLEAN

\* Faulty variant: the buffer is deleted before it is read.
FlushedTooLate(keep) == 0

\* The spans that the HGETALL of flush returns for the trace.
Flushed(keep) == IF keep THEN buffer ELSE 0

\* EventHandler.handle, for a completion up to the HGETALL of flush.
Handle(c) ==
    LET e == Event(c) IN
    /\ pc[c] = "process" /\ ~Unparsable(e)
    /\ \/ /\ e = "started"
          /\ buffer' = Buffered
          /\ work' = [work EXCEPT ![c] = [NoWork EXCEPT !.audit = TRUE]]
       \/ /\ e \in Completion
          /\ \E keep \in MayKeep(e) :
                work' = [work EXCEPT ![c] =
                    [audit |-> TRUE, trace |-> keep,
                     spans |-> Flushed(keep)]]
          /\ UNCHANGED buffer
       \/ /\ e \in {"paused", "written"}
          /\ work' = [work EXCEPT ![c] = [NoWork EXCEPT !.audit = TRUE]]
          /\ UNCHANGED buffer
       \/ /\ e = "searched"
          /\ work' = [work EXCEPT ![c] = NoWork]
          /\ UNCHANGED buffer
    /\ Goto(c, IF e \in Completion THEN "delete" ELSE "commit")
    /\ UNCHANGED <<stream, groupVars, at, batch, claimed, processed, dbVars, faults>>

\* The DELETE of flush, kept or not: what another replica has set since the
\* HGETALL goes unread.
DeleteBuffer(c) ==
    /\ pc[c] = "delete"
    /\ buffer' = 0
    /\ Goto(c, "commit")
    /\ UNCHANGED <<stream, groupVars, at, batch, claimed, processed, work, dbVars,
                   faults>>

Commit(c) ==
    /\ pc[c] = "commit"
    /\ audit' = [audit EXCEPT ![at[c]] =
                    IF work[c].audit THEN @ \cup {Entry(c)} ELSE @]
    /\ traces' = traces + IF work[c].trace THEN 1 ELSE 0
    /\ spans' = spans + work[c].spans
    /\ work' = [work EXCEPT ![c] = NoWork]
    /\ Goto(c, "ack")
    /\ UNCHANGED <<stream, groupVars, at, batch, claimed, processed, buffer, faults>>

\* _process_one returns; only run_consumer_loop counts.
Done(c) ==
    /\ GoOn(c, batch[c] \ {Entry(c)},
            IF claimed[c] THEN processed[c]
            ELSE IF processed[c] = ReclaimEvery THEN 1 ELSE processed[c] + 1)
    /\ work' = [work EXCEPT ![c] = NoWork]
    /\ UNCHANGED <<stream, group, since, created, buffer, dbVars>>

\* XACK, a no-op if another replica has acknowledged the entry.
Ack(c) ==
    /\ pc[c] = "ack"
    /\ pending' = [pending EXCEPT ![at[c]] = @ \ {Entry(c)}]
    /\ idle' = [idle EXCEPT ![at[c]] = @ \ {Entry(c)}]
    /\ Done(c)
    /\ UNCHANGED faults

\* Faulty variant: acknowledging what could not be processed.
LeftPendingAcked(c) ==
    /\ pending' = [pending EXCEPT ![at[c]] = @ \ {Entry(c)}]
    /\ idle' = [idle EXCEPT ![at[c]] = @ \ {Entry(c)}]

\* The entry stays in the pending entries list.
LeftPending(c) == UNCHANGED <<pending, idle>>

\* Redis or PostgreSQL raises in the handler, the commit or the XACK: logged.
Fails(c) ==
    /\ pc[c] \in {"delete", "commit", "ack"} \/ (pc[c] = "process" /\ ~Unparsable(Event(c)))
    /\ Strike("failure")
    /\ LeftPending(c)
    /\ Done(c)

----------------------------------------------------------------------------
(* Time                                                                    *)

GrowsIdle(s, i) ==
    /\ i \in pending[s] \ idle[s]
    /\ idle' = [idle EXCEPT ![s] = @ \cup {i}]
    /\ UNCHANGED <<stream, group, since, created, pending, loopVars, buffer,
                   dbVars, faults>>

\* Nothing was written to the buffer for trace_buffer_ttl_seconds.
BufferExpires ==
    /\ buffer # 0
    /\ Strike("expiry")
    /\ buffer' = 0
    /\ UNCHANGED <<stream, groupVars, loopVars, dbVars>>

Run(c) ==
    \/ Start(c) \/ Read(c) \/ Reclaim(c)
    \/ Abort(c) \/ Handle(c) \/ DeleteBuffer(c) \/ Commit(c) \/ Ack(c)

Next ==
    \/ \E s \in Streams : Publish(s) \/ \E i \in pending[s] : GrowsIdle(s, i)
    \/ \E c \in Consumers :
          Run(c) \/ StartRaises(c) \/ FetchRaises(c) \/ Fails(c) \/ Crash(c) \/ Restart(c)
    \/ BufferExpires

Spec == Init /\ [][Next]_vars

\* A replica goes on with its loop and time passes.  Nothing makes a service
\* publish, a call fail or a replica die, and nobody restarts a dead loop.
FairSpec ==
    /\ Spec
    /\ \A c \in Consumers : WF_vars(Run(c))
    /\ \A s \in Streams : \A i \in 1 .. MaxEvents[s] : WF_vars(GrowsIdle(s, i))

----------------------------------------------------------------------------
(* Properties                                                              *)

Calm == \A k \in FaultKind : faults[k] = 0

\* Entries the group has delivered and seen acknowledged.
Acked(s) == ((since[s] + 1) .. group[s]) \ pending[s]

Audited == {"started", "paused", "slow", "fast", "written"}

\* handler.py 56-60, 112-130 and loop.py 86-92: an acknowledged entry has its
\* audit row, whatever failed, died or was delivered twice on the way.
AckedIsAudited ==
    \A s \in Streams : \A i \in Acked(s) : stream[s][i] \in Audited => i \in audit[s]

\* tail_sampler.py 7-10 and 63: once its completion is acknowledged, a slow
\* execution has a stored trace.  Redelivery cannot sample it away.
SlowIsTraced ==
    \A i \in Acked(Executions) : stream[Executions][i] = "slow" => traces > 0

\* tail_sampler.py 3-5: however often a span is delivered, a stored trace holds
\* it once.
SpanOncePerTrace == spans <= traces

\* The execution's span is where it can still be stored from, or stored.
SpanSafe == buffer > 0 \/ (\E c \in Consumers : work[c].spans > 0) \/ spans > 0

\* Nothing failed, and no completion may be sampled away.
NothingSampledAway ==
    Calm /\ \A i \in 1 .. Len(stream[Executions]) : stream[Executions][i] # "fast"

\* No replica has been handed a completion.
NoneCompleting ==
    \A i \in (since[Executions] + 1) .. group[Executions] :
        stream[Executions][i] \notin Completion

StartsBefore ==
    NoneCompleting /\ \E i \in Acked(Executions) : stream[Executions][i] = "started"

\* handler.py 54-89, tail_sampler.py 67-73: when nothing fails, the span of a
\* start acknowledged before any completion is handed out is never lost to a
\* slow execution, whichever replicas handle the completion, or handle either of
\* them again.  (A start handled beside the completion may be lost, between the
\* HGETALL and the DELETE.)
SpanKeptInOrder == [](StartsBefore => [](NothingSampledAway => SpanSafe))

Handled(s, i) ==
    (created[s] /\ i \in (since[s] + 1) .. Len(stream[s])) ~> (i \in Acked(s) \/ ~Calm)

\* loop.py 45-68: once the executions stream is quiet, every memory event is
\* handled, even though step events abort the rounds in which they are read.
MemoryEventsHandled == \A i \in 1 .. MaxEvents[Memory] : Handled(Memory, i)

\* README "messages queue up and are processed when it recovers".
ExecutionEventsHandled == \A i \in 1 .. MaxEvents[Executions] : Handled(Executions, i)

----------------------------------------------------------------------------
(* Strengthenings that make the safety properties inductive                *)

\* No replica runs, and nothing of a stream is delivered, before its group exists.
NotYetCreated ==
    \A s \in Streams : ~created[s] =>
        /\ group[s] = 0
        /\ \A c \in Consumers : pc[c] \in {"down", "dead"}

\* The span of an execution is one field of the hash, however often it is set.
OneSpanBuffered ==
    /\ buffer <= 1
    /\ \A c \in Consumers : work[c].spans <= IF work[c].trace THEN 1 ELSE 0

\* What an entry calls for is in its transaction, and then in the database.
Matches(c) ==
    /\ pc[c] \in {"delete", "commit"} =>
          /\ Event(c) \in Audited => work[c].audit
          /\ Event(c) = "slow" => work[c].trace
    /\ pc[c] = "ack" =>
          /\ Event(c) \in Audited => Entry(c) \in audit[at[c]]
          /\ Event(c) = "slow" => traces > 0

WorkMatchesEvent == \A c \in Consumers : Matches(c)

\* A transaction holds spans only between the flush and its commit.
SpansInCommitOnly ==
    \A c \in Consumers : pc[c] \notin {"delete", "commit"} => work[c].spans = 0

\* Nothing on the memory stream flushes the buffer.
MemoryStreamOnly ==
    \A i \in 1 .. Len(stream[Memory]) : stream[Memory][i] \in MemoryEvent

\* The buffer is deleted for a completion of the executions stream.
DeletesForCompletion ==
    \A c \in Consumers :
        pc[c] = "delete" => at[c] = Executions /\ Event(c) \in Completion

\* Until a completion is handed out, the span of a handled start is buffered.
HandledIsBuffered ==
    NothingSampledAway /\ NoneCompleting =>
        /\ \A c \in Consumers :
              pc[c] \in {"commit", "ack"} /\ at[c] = Executions /\ Event(c) = "started"
                  => buffer > 0
        /\ \A i \in Acked(Executions) : stream[Executions][i] = "started" => buffer > 0

\* The span is stored, in a transaction, or in a buffer nobody is about to delete
\* unread.
SpanSecured ==
    \/ spans > 0
    \/ \E c \in Consumers : work[c].spans > 0
    \/ buffer > 0 /\ \A c \in Consumers : pc[c] # "delete"
=============================================================================
