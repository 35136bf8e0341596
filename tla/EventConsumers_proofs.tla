----------------------- MODULE EventConsumers_proofs -----------------------
(***************************************************************************)
(* Proofs about EventConsumers, for any replicas, batch sizes, reclaim     *)
(* intervals, numbers of events and faults.                                *)
(***************************************************************************)
EXTENDS EventConsumers, SequenceTheorems, WellFoundedInduction, TLAPS

\* The first of a batch exists.
LEMMA LeastExists ==
    ASSUME NEW S \in SUBSET Nat, S # {}
    PROVE  \E n \in S : \A m \in S : n <= m
<1>1. IsWellFoundedOn(OpToRel(<, Nat), Nat)
  BY NatLessThanWellFounded
<1>2. PICK n \in S : \A m \in S : ~(<<m, n>> \in OpToRel(<, Nat))
  BY <1>1, WFMin
<1>3. \A m \in S : ~(m < n)
  BY <1>2 DEF OpToRel
<1> QED
  BY <1>3

----------------------------------------------------------------------------
(* Types                                                                   *)

\* TypeOK in parts: the streams and their group, the loops, the rows.
GroupTypes ==
    /\ stream \in [Streams -> Seq(ExecutionEvent \cup MemoryEvent)]
    /\ group \in [Streams -> Nat] /\ since \in [Streams -> Nat]
    /\ created \in [Streams -> BOOLEAN]
    /\ pending \in [Streams -> SUBSET Nat] /\ idle \in [Streams -> SUBSET Nat]
    /\ \A s \in Streams :
          /\ since[s] <= group[s] /\ group[s] <= Len(stream[s])
          /\ idle[s] \subseteq pending[s]
          /\ pending[s] \subseteq (since[s] + 1) .. group[s]

\* What each replica's loop holds.
LoopTypes ==
    /\ pc \in [Consumers -> LoopPC] /\ at \in [Consumers -> Streams]
    /\ batch \in [Consumers -> SUBSET Nat]
    /\ \A c \in Consumers :
          /\ batch[c] \subseteq (since[at[c]] + 1) .. group[at[c]]
          /\ (pc[c] \in {"process", "delete", "commit", "ack"}) <=> (batch[c] # {})
    /\ claimed \in [Consumers -> BOOLEAN]
    /\ processed \in [Consumers -> 0 .. ReclaimEvery]

\* What the replicas' transactions will write, and what has been written.
RowTypes ==
    /\ work \in [Consumers -> Rows]
    /\ buffer \in Nat
    /\ audit \in [Streams -> SUBSET Nat]
    /\ traces \in Nat /\ spans \in Nat
    /\ faults \in [FaultKind -> Nat]

\* The parts make up TypeOK.
LEMMA TypeParts == GroupTypes' /\ LoopTypes' /\ RowTypes' => TypeOK'
BY DEF TypeOK, GroupTypes, LoopTypes, RowTypes

\* The message that a replica works on is one the group has delivered.
LEMMA EntryDelivered ==
    ASSUME TypeOK, NEW c \in Consumers, batch[c] # {}
    PROVE  /\ Entry(c) \in batch[c] /\ Entry(c) \in Nat
           /\ Entry(c) \in (since[at[c]] + 1) .. group[at[c]]
           /\ Entry(c) \in 1 .. Len(stream[at[c]])
           /\ Event(c) \in ExecutionEvent \cup MemoryEvent
<1>1. batch[c] \in SUBSET Nat /\ at[c] \in Streams
  BY DEF TypeOK
<1>2. \E n \in batch[c] : \A m \in batch[c] : n <= m
  BY <1>1, LeastExists
<1>3. Entry(c) \in batch[c]
  BY <1>2 DEF Entry
<1>4. /\ Entry(c) \in (since[at[c]] + 1) .. group[at[c]]
      /\ since[at[c]] \in Nat /\ group[at[c]] \in Nat /\ group[at[c]] <= Len(stream[at[c]])
      /\ stream[at[c]] \in Seq(ExecutionEvent \cup MemoryEvent)
  BY <1>1, <1>3 DEF TypeOK
<1>5. Entry(c) \in 1 .. Len(stream[at[c]])
  <2>1. Len(stream[at[c]]) \in Nat
    BY <1>4, LenProperties
  <2> QED
    BY <1>4, <2>1
<1>6. Event(c) \in ExecutionEvent \cup MemoryEvent
  BY <1>4, <1>5, ElementOfSeq DEF Event
<1> QED
  BY <1>1, <1>3, <1>4, <1>5, <1>6

\* The loop goes on (loop.py 45-68): what is left of the batch was delivered.
LEMMA GoOnTypes ==
    ASSUME TypeOK, NEW c \in Consumers, NEW rest \in SUBSET Nat,
           NEW n \in 0 .. ReclaimEvery, GoOn(c, rest, n),
           rest \subseteq (since[at[c]] + 1) .. group'[at[c]],
           since' = since, group' \in [Streams -> Nat],
           \A s \in Streams : group[s] <= group'[s]
    PROVE  LoopTypes'
<1>1. /\ batch' = [batch EXCEPT ![c] = rest]
      /\ processed' = [processed EXCEPT ![c] = n]
  BY DEF GoOn
<1>2. CASE rest # {}
  <2>1. pc' = [pc EXCEPT ![c] = "process"] /\ UNCHANGED <<at, claimed>>
    BY <1>2 DEF GoOn, Goto, BatchDone
  <2>2. pc' \in [Consumers -> LoopPC] /\ at' \in [Consumers -> Streams]
    BY <2>1 DEF TypeOK, LoopPC
  <2>3. \A d \in Consumers \ {c} : at'[d] = at[d] /\ batch'[d] = batch[d] /\ pc'[d] = pc[d]
    BY <1>1, <2>1 DEF TypeOK
  <2>4. at'[c] = at[c] /\ batch'[c] = rest /\ pc'[c] = "process"
    BY <1>1, <2>1 DEF TypeOK
  <2>5. \A d \in Consumers \ {c} : batch[d] \subseteq (since[at[d]] + 1) .. group'[at[d]]
    BY DEF TypeOK
  <2> QED
    BY <1>1, <1>2, <2>1, <2>2, <2>3, <2>4, <2>5 DEF TypeOK, LoopTypes
<1>3. CASE rest = {}
  <2>1. /\ at' = [at EXCEPT ![c] = StreamAfter(@)]
        /\ claimed' = [claimed EXCEPT ![c] = ReclaimsNext(c, n)]
        /\ \E label \in {"read", "reclaim"} : pc' = [pc EXCEPT ![c] = label]
    BY <1>3 DEF GoOn, Goto, BatchDone
  <2>2. at' \in [Consumers -> Streams]
    BY <2>1 DEF TypeOK, StreamAfter, Streams
  <2>3. claimed' \in [Consumers -> BOOLEAN]
    <3>1. ReclaimsNext(c, n) \in BOOLEAN
      BY DEF ReclaimsNext, TypeOK
    <3> QED
      BY <2>1, <3>1 DEF TypeOK
  <2>4. \A d \in Consumers \ {c} : at'[d] = at[d] /\ batch'[d] = batch[d] /\ pc'[d] = pc[d]
    BY <1>1, <2>1 DEF TypeOK
  <2>5. \A d \in Consumers \ {c} : batch[d] \subseteq (since[at[d]] + 1) .. group'[at[d]]
    BY DEF TypeOK
  <2>6. /\ pc' \in [Consumers -> LoopPC]
        /\ batch'[c] = {} /\ pc'[c] \in {"read", "reclaim"}
    BY <1>1, <1>3, <2>1 DEF TypeOK, LoopPC
  <2> QED
    BY <1>1, <1>3, <2>2, <2>3, <2>4, <2>5, <2>6 DEF TypeOK, LoopTypes
<1> QED
  BY <1>2, <1>3

\* Before anything is published.
LEMMA TypeInit == Init => TypeOK /\ NotYetCreated
<1> SUFFICES ASSUME Init PROVE TypeOK /\ NotYetCreated
  OBVIOUS
<1>1. stream \in [Streams -> Seq(ExecutionEvent \cup MemoryEvent)]
      /\ \A s \in Streams : Len(stream[s]) = 0
  BY DEF Init
<1>2. GroupTypes
  <2>1. \A s \in Streams : /\ since[s] = 0 /\ group[s] = 0 /\ Len(stream[s]) = 0
                          /\ idle[s] = {} /\ pending[s] = {}
    BY <1>1 DEF Init
  <2>2. /\ group \in [Streams -> Nat] /\ since \in [Streams -> Nat]
        /\ created \in [Streams -> BOOLEAN]
        /\ pending \in [Streams -> SUBSET Nat] /\ idle \in [Streams -> SUBSET Nat]
    BY DEF Init
  <2> QED
    BY <1>1, <2>1, <2>2 DEF GroupTypes
<1>3. LoopTypes
  BY ConsumerConstants DEF Init, LoopTypes, LoopPC, Streams
<1>4. RowTypes
  BY DEF Init, RowTypes, Rows, NoWork
<1>5. NotYetCreated
  BY DEF Init, NotYetCreated
<1> QED
  BY <1>2, <1>3, <1>4, <1>5 DEF TypeOK, GroupTypes, LoopTypes, RowTypes

\* Publishers, time and the expiry of the buffer.
LEMMA OutsideTypes ==
    ASSUME TypeOK, NotYetCreated, NEW s \in Streams,
           Publish(s) \/ (\E i \in pending[s] : GrowsIdle(s, i)) \/ BufferExpires
    PROVE  TypeOK' /\ NotYetCreated'
<1>1. CASE Publish(s)
  <2>1. PICK e \in ExecutionEvent \cup MemoryEvent :
            stream' = [stream EXCEPT ![s] = Append(@, e)]
    BY <1>1 DEF Publish, Follows, ExecutionEvent
  <2>2. /\ stream' \in [Streams -> Seq(ExecutionEvent \cup MemoryEvent)]
        /\ \A r \in Streams : Len(stream[r]) \in Nat /\ Len(stream[r]) <= Len(stream'[r])
    BY <2>1 DEF TypeOK
  <2>3. GroupTypes'
    BY <1>1, <2>2 DEF Publish, groupVars, TypeOK, GroupTypes
  <2>4. LoopTypes' /\ RowTypes'
    BY <1>1 DEF Publish, groupVars, loopVars, dbVars, TypeOK, LoopTypes, RowTypes
  <2> QED
    BY <1>1, <2>3, <2>4, TypeParts DEF Publish, groupVars, loopVars, NotYetCreated
<1>2. CASE \E i \in pending[s] : GrowsIdle(s, i)
  <2>1. GroupTypes'
    BY <1>2 DEF GrowsIdle, TypeOK, GroupTypes
  <2>2. LoopTypes' /\ RowTypes'
    BY <1>2 DEF GrowsIdle, loopVars, dbVars, TypeOK, LoopTypes, RowTypes
  <2> QED
    BY <1>2, <2>1, <2>2, TypeParts DEF GrowsIdle, loopVars, NotYetCreated
<1>3. CASE BufferExpires
  <2>1. GroupTypes' /\ LoopTypes'
    BY <1>3 DEF BufferExpires, groupVars, loopVars, TypeOK, GroupTypes, LoopTypes
  <2>2. RowTypes'
    BY <1>3 DEF BufferExpires, Strike, loopVars, dbVars, TypeOK, RowTypes, FaultKind
  <2> QED
    BY <1>3, <2>1, <2>2, TypeParts DEF BufferExpires, groupVars, loopVars, NotYetCreated
<1> QED
  BY <1>1, <1>2, <1>3

\* XGROUP CREATE, of both groups or of some (loop.py 21-28): nothing of a stream
\* was delivered, and no replica ran, before its group existed.
LEMMA CreateTypes ==
    ASSUME TypeOK, NotYetCreated, NEW made \in SUBSET Streams, CreateGroups(made),
           UNCHANGED <<stream, pending, idle, batch>>,
           \A d \in Consumers : at'[d] = at[d] \/ batch[d] = {}
    PROVE  /\ GroupTypes'
           /\ \A s \in Streams : created'[s] = (created[s] \/ s \in made)
           /\ \A s \in Streams : ~created'[s] => group'[s] = 0
           /\ \A d \in Consumers : batch[d] \subseteq (since'[at'[d]] + 1) .. group'[at'[d]]
<1>1. \A s \in Streams : Len(stream[s]) \in Nat
  BY DEF TypeOK
<1>2. /\ created' = [s \in Streams |-> created[s] \/ s \in made]
      /\ since' = [s \in Streams |-> IF s \in made /\ ~created[s] THEN Len(stream[s]) ELSE since[s]]
      /\ group' = [s \in Streams |-> IF s \in made /\ ~created[s] THEN Len(stream[s]) ELSE group[s]]
  BY DEF CreateGroups
<1>3. \A s \in Streams : ~created[s] => pending[s] = {} /\ idle[s] = {}
  BY DEF TypeOK, NotYetCreated
<1>4. \A s \in Streams :
          /\ since'[s] <= group'[s] /\ group'[s] <= Len(stream[s])
          /\ pending[s] \subseteq (since'[s] + 1) .. group'[s]
  BY <1>1, <1>2, <1>3 DEF TypeOK
<1>5. GroupTypes'
  BY <1>1, <1>2, <1>4 DEF TypeOK, GroupTypes
<1>6. ASSUME NEW d \in Consumers
      PROVE  batch[d] \subseteq (since'[at'[d]] + 1) .. group'[at'[d]]
  <2>1. CASE batch[d] = {}
    BY <2>1
  <2>2. CASE batch[d] # {}
    <3>1. at'[d] = at[d] /\ at[d] \in Streams
      BY <2>2 DEF TypeOK
    <3>2. created[at[d]]
      <4>1. pc[d] \notin {"down", "dead"}
        BY <2>2 DEF TypeOK
      <4> QED
        BY <3>1, <4>1 DEF NotYetCreated
    <3>3. since'[at[d]] = since[at[d]] /\ group'[at[d]] = group[at[d]]
      BY <1>2, <3>1, <3>2
    <3> QED
      BY <3>1, <3>3 DEF TypeOK
  <2> QED
    BY <2>1, <2>2
<1>7. \A s \in Streams : ~created'[s] => group'[s] = 0
  BY <1>2 DEF NotYetCreated
<1> QED
  BY <1>2, <1>5, <1>6, <1>7

\* A replica starts, dies or is restarted (loop.py 42-44).
LEMMA ReplicaTypes ==
    ASSUME TypeOK, NotYetCreated, NEW c \in Consumers,
           Start(c) \/ StartRaises(c) \/ Crash(c) \/ Restart(c)
    PROVE  TypeOK' /\ NotYetCreated'
<1>0. Executions \in Streams
  BY DEF Streams
<1>1. CASE Start(c)
  <2>1. /\ CreateGroups(Streams) /\ pc[c] = "down"
        /\ pc' = [pc EXCEPT ![c] = "read"] /\ at' = [at EXCEPT ![c] = Executions]
        /\ UNCHANGED <<stream, pending, idle, batch, claimed, processed, work, buffer,
                       audit, traces, spans, faults>>
    BY <1>1 DEF Start, Goto, dbVars
  <2>2. batch[c] = {}
    BY <2>1 DEF TypeOK
  <2>3. \A d \in Consumers : at'[d] = at[d] \/ batch[d] = {}
    BY <2>1, <2>2 DEF TypeOK
  <2>4. /\ GroupTypes' /\ \A s \in Streams : created'[s]
        /\ \A d \in Consumers : batch[d] \subseteq (since'[at'[d]] + 1) .. group'[at'[d]]
    BY <2>1, <2>3, CreateTypes
  <2>5. LoopTypes'
    <3>1. at' \in [Consumers -> Streams] /\ pc' \in [Consumers -> LoopPC]
      BY <1>0, <2>1 DEF TypeOK, LoopPC
    <3>2. \A d \in Consumers :
              (pc'[d] \in {"process", "delete", "commit", "ack"}) <=> (batch[d] # {})
      BY <2>1, <2>2 DEF TypeOK
    <3> QED
      BY <2>1, <2>4, <3>1, <3>2 DEF TypeOK, LoopTypes
  <2>6. RowTypes'
    BY <2>1 DEF TypeOK, RowTypes
  <2> QED
    BY <2>4, <2>5, <2>6, TypeParts DEF NotYetCreated
<1>2. CASE StartRaises(c)
  <2>1. PICK made \in SUBSET Streams : CreateGroups(made)
    BY <1>0, <1>2 DEF StartRaises
  <2>2. /\ pc[c] = "down" /\ pc' = [pc EXCEPT ![c] = "dead"]
        /\ UNCHANGED <<stream, pending, idle, at, batch, claimed, processed, work, buffer,
                       audit, traces, spans>>
    BY <1>2 DEF StartRaises, Goto, dbVars
  <2>3. /\ GroupTypes' /\ \A s \in Streams : ~created'[s] => ~created[s] /\ group'[s] = 0
        /\ \A d \in Consumers : batch[d] \subseteq (since'[at'[d]] + 1) .. group'[at'[d]]
    BY <2>1, <2>2, CreateTypes
  <2>4. LoopTypes'
    <3>1. /\ pc' \in [Consumers -> LoopPC]
          /\ \A d \in Consumers :
                (pc'[d] \in {"process", "delete", "commit", "ack"}) <=> (batch[d] # {})
      BY <2>2 DEF TypeOK, LoopPC
    <3> QED
      BY <2>2, <2>3, <3>1 DEF TypeOK, LoopTypes
  <2>5. RowTypes'
    BY <1>2, <2>2 DEF StartRaises, Strike, TypeOK, RowTypes, FaultKind
  <2>6. NotYetCreated'
    BY <2>2, <2>3 DEF TypeOK, NotYetCreated
  <2> QED
    BY <2>3, <2>4, <2>5, <2>6, TypeParts
<1>3. CASE Crash(c) \/ Restart(c)
  <2>1. Stop(c)
    BY <1>3 DEF Crash, Restart
  <2>2. faults' \in [FaultKind -> Nat]
    BY <1>3 DEF Crash, Restart, Strike, FaultKind, TypeOK
  <2>3. GroupTypes'
    BY <2>1 DEF Stop, groupVars, TypeOK, GroupTypes
  <2>4. LoopTypes'
    BY <1>0, <2>1, ConsumerConstants DEF Stop, Goto, groupVars, TypeOK, LoopTypes, LoopPC
  <2>5. RowTypes'
    BY <2>1, <2>2 DEF Stop, dbVars, TypeOK, RowTypes, Rows, NoWork
  <2> QED
    BY <2>1, <2>3, <2>4, <2>5, TypeParts DEF Stop, Goto, groupVars, TypeOK, NotYetCreated
<1> QED
  BY <1>1, <1>2, <1>3

\* XREADGROUP and XAUTOCLAIM (loop.py 48-68, redis_streams.py).
LEMMA FetchTypes ==
    ASSUME TypeOK, NotYetCreated, NEW c \in Consumers, Read(c) \/ Reclaim(c)
    PROVE  TypeOK' /\ NotYetCreated'
<1> DEFINE s == at[c]
<1>0. /\ s \in Streams /\ processed[c] \in 0 .. ReclaimEvery
      /\ group[s] \in Nat /\ since[s] \in Nat /\ since[s] <= group[s]
      /\ Len(stream[s]) \in Nat /\ group[s] <= Len(stream[s])
  BY DEF TypeOK
<1>1. PICK entries \in SUBSET Nat :
        /\ Fetch(c, entries)
        /\ group' \in [Streams -> Nat] /\ since' = since
        /\ \A r \in Streams : group[r] <= group'[r] /\ group'[r] <= Len(stream[r])
        /\ entries \subseteq (since[s] + 1) .. group'[s]
  <2>1. CASE Read(c)
    <3>1. PICK last \in Nat : /\ group[s] <= last /\ last <= Len(stream[s])
                             /\ group' = [group EXCEPT ![s] = last]
                             /\ Fetch(c, (group[s] + 1) .. last)
      <4> DEFINE n == IF group[s] + PollCount < Len(stream[s])
                      THEN group[s] + PollCount ELSE Len(stream[s])
      <4>1. n \in Nat /\ group[s] <= n /\ n <= Len(stream[s])
        BY <1>0, ConsumerConstants
      <4>2. group' = [group EXCEPT ![s] = n] /\ Fetch(c, (group[s] + 1) .. n)
        BY <2>1 DEF Read
      <4> QED
        BY <4>1, <4>2
    <3>2. group'[s] = last /\ \A r \in Streams \ {s} : group'[r] = group[r]
      BY <1>0, <3>1 DEF TypeOK
    <3>3. (group[s] + 1) .. last \subseteq (since[s] + 1) .. group'[s]
      BY <1>0, <3>1, <3>2
    <3>4. \A r \in Streams : group[r] <= group'[r] /\ group'[r] <= Len(stream[r])
      BY <1>0, <3>1, <3>2 DEF TypeOK
    <3>5. group' \in [Streams -> Nat] /\ since' = since
      BY <2>1, <3>1 DEF Read, TypeOK
    <3> QED
      BY <1>0, <3>1, <3>3, <3>4, <3>5
  <2>2. CASE Reclaim(c)
    <3>1. PICK entries \in SUBSET idle[s] :
              Fetch(c, entries) /\ group' = group /\ since' = since
      BY <2>2 DEF Reclaim
    <3>2. idle[s] \in SUBSET Nat /\ idle[s] \subseteq (since[s] + 1) .. group[s]
      BY <1>0 DEF TypeOK
    <3>3. group' \in [Streams -> Nat] /\ \A r \in Streams : group[r] <= group'[r]
      BY <3>1 DEF TypeOK
    <3>4. entries \in SUBSET Nat /\ entries \subseteq (since[s] + 1) .. group'[s]
      BY <3>1, <3>2
    <3>5. \A r \in Streams : group'[r] <= Len(stream[r])
      BY <3>1 DEF TypeOK
    <3> QED
      BY <3>1, <3>2, <3>3, <3>4, <3>5
  <2> QED
    BY <2>1, <2>2
<1>2. /\ UNCHANGED <<stream, created, work, buffer, audit, traces, spans, faults>>
      /\ pc[c] \in {"read", "reclaim"}
  BY DEF Read, Reclaim, dbVars
<1>3. GroupTypes'
  <2>1. /\ idle' = [idle EXCEPT ![s] = @ \ entries]
        /\ pending' = [pending EXCEPT ![s] = @ \cup entries]
    BY <1>1 DEF Fetch
  <2>2. idle' \in [Streams -> SUBSET Nat] /\ pending' \in [Streams -> SUBSET Nat]
    BY <1>0, <2>1 DEF TypeOK
  <2>3. ASSUME NEW r \in Streams
        PROVE  idle'[r] \subseteq pending'[r] /\ pending'[r] \subseteq (since[r] + 1) .. group'[r]
    <3>1. CASE r = s
      <4>1. idle'[s] = idle[s] \ entries /\ pending'[s] = pending[s] \cup entries
        BY <1>0, <2>1 DEF TypeOK
      <4>2. idle[s] \subseteq pending[s] /\ pending[s] \subseteq (since[s] + 1) .. group[s]
        BY <1>0 DEF TypeOK
      <4>3. (since[s] + 1) .. group[s] \subseteq (since[s] + 1) .. group'[s]
        <5>1. group'[s] \in Nat /\ group[s] <= group'[s]
          BY <1>0, <1>1
        <5> QED
          BY <1>0, <5>1
      <4>4. pending[s] \cup entries \subseteq (since[s] + 1) .. group'[s]
        BY <1>1, <4>2, <4>3
      <4> QED
        BY <3>1, <4>1, <4>2, <4>4, <1>1
    <3>2. CASE r # s
      BY <1>1, <2>1, <3>2 DEF TypeOK
    <3> QED
      BY <3>1, <3>2
  <2>4. \A r \in Streams : since[r] <= group'[r]
    BY <1>1 DEF TypeOK
  <2> QED
    BY <1>1, <1>2, <2>2, <2>3, <2>4 DEF TypeOK, GroupTypes
<1>4. LoopTypes'
  <2>1. GoOn(c, entries, processed[c])
    BY <1>1 DEF Fetch
  <2> QED
    BY <1>0, <1>1, <2>1, GoOnTypes
<1>5. RowTypes'
  BY <1>2 DEF TypeOK, RowTypes
<1>6. \A r \in Streams : created[r]
  BY <1>2 DEF NotYetCreated
<1> QED
  BY <1>2, <1>3, <1>4, <1>5, <1>6, TypeParts DEF NotYetCreated

\* An entry that does not parse, or a call that raises, ends the round or the
\* reclaim of its stream (loop.py 54-57, 66-68 and 95-130).
LEMMA AbortTypes ==
    ASSUME TypeOK, NotYetCreated, NEW c \in Consumers, Abort(c) \/ FetchRaises(c)
    PROVE  TypeOK' /\ NotYetCreated'
<1>0. /\ RoundEnds(c) /\ pc[c] \notin {"down", "dead"}
      /\ UNCHANGED <<stream, group, since, created, pending, idle, work, buffer,
                     audit, traces, spans>>
      /\ faults' \in [FaultKind -> Nat]
  BY DEF Abort, FetchRaises, Strike, FaultKind, groupVars, dbVars, TypeOK
<1>1. GroupTypes' /\ RowTypes'
  BY <1>0 DEF TypeOK, GroupTypes, RowTypes
<1>2. LoopTypes'
  <2>1. CASE GoOn(c, {}, processed[c])
    <3>1. /\ processed[c] \in 0 .. ReclaimEvery /\ since' = since /\ group' = group
          /\ group \in [Streams -> Nat]
      BY <1>0 DEF TypeOK
    <3>2. \A s \in Streams : group[s] <= group'[s]
      BY <3>1
    <3>3. {} \subseteq (since[at[c]] + 1) .. group'[at[c]]
      OBVIOUS
    <3>4. group' \in [Streams -> Nat]
      BY <3>1
    <3> QED
      BY <2>1, <3>1, <3>2, <3>3, <3>4, GoOnTypes
  <2>2. CASE ~GoOn(c, {}, processed[c])
    <3>1. /\ pc' = [pc EXCEPT ![c] = "read"] /\ at' = [at EXCEPT ![c] = Executions]
          /\ batch' = [batch EXCEPT ![c] = {}] /\ UNCHANGED <<claimed, processed>>
          /\ since' = since /\ group' = group
      BY <1>0, <2>2 DEF RoundEnds, Goto
    <3>2. Executions \in Streams
      BY DEF Streams
    <3> QED
      BY <3>1, <3>2 DEF TypeOK, LoopTypes, LoopPC
  <2> QED
    BY <2>1, <2>2
<1>3. \A s \in Streams : created[s] /\ created'[s]
  BY <1>0 DEF NotYetCreated
<1> QED
  BY <1>1, <1>2, <1>3, TypeParts DEF NotYetCreated

\* The handler's writes, its DELETE and its commit (handler.py 54-130).
LEMMA HandleTypes ==
    ASSUME TypeOK, NotYetCreated, NEW c \in Consumers,
           Handle(c) \/ DeleteBuffer(c) \/ Commit(c)
    PROVE  TypeOK' /\ NotYetCreated'
<1>0. /\ UNCHANGED <<stream, group, since, created, pending, idle, at, batch, claimed,
                     processed, faults>>
      /\ \E label \in {"delete", "commit", "ack"} : pc' = [pc EXCEPT ![c] = label]
      /\ pc[c] \in {"process", "delete", "commit"}
  BY DEF Handle, DeleteBuffer, Commit, Goto, groupVars
<1>1. GroupTypes' /\ LoopTypes'
  BY <1>0 DEF TypeOK, GroupTypes, LoopTypes, LoopPC
<1>2. RowTypes'
  <2>1. CASE Handle(c)
    <3>1. /\ buffer' \in Nat
          /\ \E w \in Rows : work' = [work EXCEPT ![c] = w]
          /\ UNCHANGED <<audit, traces, spans>>
      <4>1. \A keep \in BOOLEAN : Flushed(keep) \in Nat
        BY DEF Flushed, TypeOK
      <4>2. /\ NoWork \in Rows /\ [NoWork EXCEPT !.audit = TRUE] \in Rows
            /\ \A keep \in BOOLEAN : [audit |-> TRUE, trace |-> keep, spans |-> Flushed(keep)] \in Rows
        BY <4>1 DEF NoWork, Rows
      <4>3. CASE Event(c) \in Completion
        <5>1. MayKeep(Event(c)) \subseteq BOOLEAN
          BY DEF MayKeep
        <5>2. PICK keep \in MayKeep(Event(c)) : work' = [work EXCEPT ![c] =
                  [audit |-> TRUE, trace |-> keep, spans |-> Flushed(keep)]]
          BY <2>1, <4>3 DEF Handle, Completion
        <5>3. buffer' \in Nat /\ UNCHANGED <<audit, traces, spans>>
          BY <2>1, <4>3 DEF Handle, Completion, dbVars, TypeOK
        <5> QED
          BY <4>2, <5>1, <5>2, <5>3
      <4>4. CASE Event(c) \notin Completion
        <5>1. \E w \in {NoWork, [NoWork EXCEPT !.audit = TRUE]} : work' = [work EXCEPT ![c] = w]
          BY <2>1, <4>4 DEF Handle
        <5>2. buffer' \in {1, buffer} /\ UNCHANGED <<audit, traces, spans>>
          BY <2>1, <4>4 DEF Handle, Buffered, dbVars
        <5>3. buffer \in Nat
          BY DEF TypeOK
        <5>4. buffer' \in Nat
          BY <5>2, <5>3
        <5> QED
          BY <4>2, <5>1, <5>2, <5>4
      <4> QED
        BY <4>3, <4>4
    <3> QED
      BY <1>0, <3>1 DEF TypeOK, RowTypes
  <2>2. CASE Commit(c)
    <3>1. Entry(c) \in Nat /\ at[c] \in Streams
      BY <2>2, EntryDelivered DEF Commit, TypeOK
    <3>2. work[c] \in Rows
      BY DEF TypeOK
    <3>3. work' \in [Consumers -> Rows]
      BY <2>2 DEF Commit, TypeOK, NoWork, Rows
    <3>4. audit' \in [Streams -> SUBSET Nat]
      BY <2>2, <3>1 DEF Commit, TypeOK
    <3>5. traces' \in Nat /\ spans' \in Nat /\ buffer' = buffer
      BY <2>2, <3>2 DEF Commit, TypeOK, Rows
    <3> QED
      BY <1>0, <3>3, <3>4, <3>5 DEF TypeOK, RowTypes
  <2>3. CASE DeleteBuffer(c)
    BY <2>3 DEF DeleteBuffer, dbVars, TypeOK, RowTypes
  <2> QED
    BY <2>1, <2>2, <2>3
<1>3. pc'[c] \notin {"down", "dead"} /\ \A d \in Consumers \ {c} : pc'[d] = pc[d]
  BY <1>0 DEF TypeOK
<1>4. \A s \in Streams : created[s]
  BY <1>0 DEF NotYetCreated
<1> QED
  BY <1>0, <1>1, <1>2, <1>3, <1>4, TypeParts DEF NotYetCreated

\* A message is done with, acknowledged or not (loop.py 51-57, 86-92).
LEMMA DoneTypes ==
    ASSUME TypeOK, NotYetCreated, NEW c \in Consumers, Ack(c) \/ Fails(c)
    PROVE  TypeOK' /\ NotYetCreated'
<1> DEFINE s == at[c]
<1>1. /\ Done(c) /\ pc[c] \in {"process", "delete", "commit", "ack"}
      /\ \/ UNCHANGED <<pending, idle>>
         \/ /\ pending' = [pending EXCEPT ![s] = @ \ {Entry(c)}]
            /\ idle' = [idle EXCEPT ![s] = @ \ {Entry(c)}]
      /\ faults' \in [FaultKind -> Nat]
  BY DEF Ack, Fails, LeftPending, Strike, FaultKind, TypeOK
<1>2. /\ UNCHANGED <<stream, group, since, created, buffer, audit, traces, spans>>
      /\ work' = [work EXCEPT ![c] = NoWork]
      /\ \E n \in 0 .. ReclaimEvery : GoOn(c, batch[c] \ {Entry(c)}, n)
  <2>1. processed[c] \in 0 .. ReclaimEvery /\ ReclaimEvery \in Nat \ {0}
    BY ConsumerConstants DEF TypeOK
  <2> QED
    BY <1>1, <2>1 DEF Done, dbVars
<1>3. GroupTypes'
  <2>1. /\ pending' \in [Streams -> SUBSET Nat] /\ idle' \in [Streams -> SUBSET Nat]
        /\ \A r \in Streams : pending'[r] \subseteq pending[r] /\ idle'[r] \subseteq pending'[r]
    <3>1. CASE UNCHANGED <<pending, idle>>
      BY <3>1 DEF TypeOK
    <3>2. CASE /\ pending' = [pending EXCEPT ![s] = @ \ {Entry(c)}]
               /\ idle' = [idle EXCEPT ![s] = @ \ {Entry(c)}]
      BY <3>2 DEF TypeOK
    <3> QED
      BY <1>1, <3>1, <3>2
  <2> QED
    BY <1>2, <2>1 DEF TypeOK, GroupTypes
<1>4. LoopTypes'
  <2>1. PICK n \in 0 .. ReclaimEvery : GoOn(c, batch[c] \ {Entry(c)}, n)
    BY <1>2
  <2>2. /\ batch[c] \ {Entry(c)} \in SUBSET Nat
        /\ batch[c] \ {Entry(c)} \subseteq (since[at[c]] + 1) .. group'[at[c]]
        /\ since' = since /\ group' \in [Streams -> Nat]
    BY <1>2 DEF TypeOK
  <2>3. \A r \in Streams : group[r] <= group'[r]
    BY <1>2 DEF TypeOK
  <2> QED
    BY <2>1, <2>2, <2>3, GoOnTypes
<1>5. RowTypes'
  BY <1>1, <1>2 DEF TypeOK, RowTypes, NoWork, Rows
<1>6. \A r \in Streams : created[r]
  BY <1>1 DEF NotYetCreated
<1> QED
  BY <1>2, <1>3, <1>4, <1>5, <1>6, TypeParts DEF NotYetCreated

\* Every step keeps the types.
LEMMA TypeStep == TypeOK /\ NotYetCreated /\ [Next]_vars => TypeOK' /\ NotYetCreated'
<1> SUFFICES ASSUME TypeOK, NotYetCreated, [Next]_vars PROVE TypeOK' /\ NotYetCreated'
  OBVIOUS
<1>1. CASE \/ \E s \in Streams : Publish(s) \/ \E i \in pending[s] : GrowsIdle(s, i)
           \/ BufferExpires
  <2>1. Executions \in Streams
    BY DEF Streams
  <2> QED
    BY <1>1, <2>1, OutsideTypes
<1>2. ASSUME NEW c \in Consumers,
             \/ Run(c) \/ StartRaises(c) \/ FetchRaises(c) \/ Fails(c)
             \/ Crash(c) \/ Restart(c)
      PROVE  TypeOK' /\ NotYetCreated'
  BY <1>2, ReplicaTypes, FetchTypes, AbortTypes, HandleTypes, DoneTypes DEF Run
<1>3. CASE UNCHANGED vars
  BY <1>3 DEF vars, groupVars, loopVars, dbVars, TypeOK, NotYetCreated
<1> QED
  BY <1>1, <1>2, <1>3 DEF Next

\* The bookkeeping of the group, the loops and the rows is consistent: pending
\* entries were delivered, and a replica holds a batch exactly while it works on
\* one (loop.py 45-68).
THEOREM TypeCorrect == Spec => []TypeOK
<1>1. TypeOK /\ NotYetCreated /\ [Next]_vars => TypeOK' /\ NotYetCreated'
  BY TypeStep
<1> QED
  BY <1>1, TypeInit, PTL DEF Spec

----------------------------------------------------------------------------
(* A span is stored once per trace                                         *)

\* One span per execution, in the buffer, in a transaction and in the traces.
SpanInv == TypeOK /\ NotYetCreated /\ OneSpanBuffered /\ SpanOncePerTrace

\* The rows of one transaction at a time reach the database.
LEMMA SpanStep == SpanInv /\ [Next]_vars => SpanInv'
<1> SUFFICES ASSUME SpanInv, [Next]_vars PROVE SpanInv'
  OBVIOUS
<1>0. TypeOK' /\ NotYetCreated'
  BY TypeStep DEF SpanInv
<1>1. /\ buffer \in Nat /\ traces \in Nat /\ spans \in Nat
      /\ work \in [Consumers -> Rows]
      /\ \A c \in Consumers : work[c].trace \in BOOLEAN /\ work[c].spans \in Nat
  BY DEF SpanInv, TypeOK, Rows
<1>2. NoWork.spans = 0 /\ NoWork.trace = FALSE
  BY DEF NoWork
<1>3. ASSUME buffer' \in {0, 1, buffer}, UNCHANGED <<traces, spans>>,
             \/ UNCHANGED work
             \/ \E c \in Consumers, w \in Rows :
                   /\ work' = [work EXCEPT ![c] = w]
                   /\ w.spans <= IF w.trace THEN 1 ELSE 0
      PROVE  SpanInv'
  <2>1. buffer' <= 1
    BY <1>1, <1>3 DEF SpanInv, OneSpanBuffered
  <2>2. \A c \in Consumers : work'[c].spans <= IF work'[c].trace THEN 1 ELSE 0
    BY <1>1, <1>3 DEF SpanInv, OneSpanBuffered
  <2> QED
    BY <1>0, <1>3, <2>1, <2>2 DEF SpanInv, OneSpanBuffered, SpanOncePerTrace
<1>4. CASE \/ \E s \in Streams : Publish(s) \/ \E i \in pending[s] : GrowsIdle(s, i)
           \/ BufferExpires
  BY <1>3, <1>4 DEF Publish, GrowsIdle, BufferExpires, loopVars, dbVars
<1>5. ASSUME NEW c \in Consumers,
             \/ Start(c) \/ StartRaises(c) \/ Read(c) \/ Reclaim(c) \/ FetchRaises(c)
             \/ Abort(c) \/ DeleteBuffer(c)
      PROVE  SpanInv'
  BY <1>3, <1>5 DEF Start, StartRaises, Read, Reclaim, FetchRaises, Abort, DeleteBuffer, dbVars
<1>6. ASSUME NEW c \in Consumers, Crash(c) \/ Restart(c) \/ Ack(c) \/ Fails(c)
      PROVE  SpanInv'
  <2>1. /\ UNCHANGED <<buffer, traces, spans>>
        /\ work' = [work EXCEPT ![c] = NoWork]
    BY <1>6 DEF Crash, Restart, Stop, Ack, Fails, Done, dbVars
  <2>2. NoWork \in Rows /\ NoWork.spans <= IF NoWork.trace THEN 1 ELSE 0
    BY DEF NoWork, Rows
  <2>3. \E d \in Consumers, w \in Rows :
            /\ work' = [work EXCEPT ![d] = w]
            /\ w.spans <= IF w.trace THEN 1 ELSE 0
    BY <2>1, <2>2
  <2> QED
    BY <1>3, <2>1, <2>3
<1>7. ASSUME NEW c \in Consumers, Handle(c) PROVE SpanInv'
  <2>1. UNCHANGED <<traces, spans>> /\ buffer' \in {0, 1, buffer}
    BY <1>7 DEF Handle, Buffered, dbVars
  <2>2. CASE Event(c) \in Completion
    <3>1. PICK keep \in MayKeep(Event(c)) : work' = [work EXCEPT ![c] =
              [audit |-> TRUE, trace |-> keep, spans |-> Flushed(keep)]]
      BY <1>7, <2>2 DEF Handle, Completion
    <3>2. keep \in BOOLEAN
      BY <3>1 DEF MayKeep
    <3>3. Flushed(keep) \in Nat /\ Flushed(keep) <= IF keep THEN 1 ELSE 0
      BY <1>1, <3>2 DEF Flushed, SpanInv, OneSpanBuffered
    <3>4. [audit |-> TRUE, trace |-> keep, spans |-> Flushed(keep)] \in Rows
      BY <3>2, <3>3 DEF Rows
    <3> QED
      BY <1>3, <2>1, <3>1, <3>3, <3>4
  <2>3. CASE Event(c) \notin Completion
    <3> DEFINE Audit == [NoWork EXCEPT !.audit = TRUE]
    <3>1. work' = [work EXCEPT ![c] = NoWork] \/ work' = [work EXCEPT ![c] = Audit]
      BY <1>7, <2>3 DEF Handle
    <3>2. NoWork \in Rows /\ NoWork.spans <= IF NoWork.trace THEN 1 ELSE 0
      BY DEF NoWork, Rows
    <3>3. Audit \in Rows
      BY DEF NoWork, Rows
    <3>4. Audit.spans <= IF Audit.trace THEN 1 ELSE 0
      BY DEF NoWork
    <3> HIDE DEF Audit
    <3>5. \E d \in Consumers, w \in Rows :
              /\ work' = [work EXCEPT ![d] = w]
              /\ w.spans <= IF w.trace THEN 1 ELSE 0
      BY <3>1, <3>2, <3>3, <3>4
    <3> QED
      BY <1>3, <2>1, <3>5
  <2> QED
    BY <2>2, <2>3
<1>8. ASSUME NEW c \in Consumers, Commit(c) PROVE SpanInv'
  <2>1. /\ traces' = traces + (IF work[c].trace THEN 1 ELSE 0)
        /\ spans' = spans + work[c].spans
        /\ buffer' = buffer /\ work' = [work EXCEPT ![c] = NoWork]
    BY <1>8 DEF Commit
  <2>2. spans' <= traces'
    BY <1>1, <2>1 DEF SpanInv, OneSpanBuffered, SpanOncePerTrace
  <2>3. \A d \in Consumers : work'[d].spans <= IF work'[d].trace THEN 1 ELSE 0
    BY <1>1, <1>2, <2>1 DEF SpanInv, OneSpanBuffered
  <2> QED
    BY <1>0, <2>1, <2>2, <2>3 DEF SpanInv, OneSpanBuffered, SpanOncePerTrace
<1>9. CASE UNCHANGED vars
  BY <1>3, <1>9 DEF vars, loopVars, dbVars
<1> QED
  BY <1>4, <1>5, <1>6, <1>7, <1>8, <1>9 DEF Next, Run

\* However often an entry is delivered and by whomever, a trace is never stored
\* with a span twice (tail_sampler.py 3-5, handler.py 84-103).
THEOREM SpansStoredOnce == Spec => []SpanOncePerTrace
<1>1. Init => SpanInv
  BY TypeInit DEF Init, SpanInv, OneSpanBuffered, SpanOncePerTrace, NoWork
<1>2. SpanInv /\ [Next]_vars => SpanInv'
  BY SpanStep
<1>3. SpanInv => SpanOncePerTrace
  BY DEF SpanInv
<1> QED
  BY <1>1, <1>2, <1>3, PTL DEF Spec

----------------------------------------------------------------------------
(* What is acknowledged has left its rows                                  *)

\* The rows of an entry are in its transaction before they are committed, and
\* committed before it is acknowledged.
EntryInv == TypeOK /\ NotYetCreated /\ WorkMatchesEvent /\ AckedIsAudited /\ SlowIsTraced

\* Published entries stay what they are, and nothing deletes a row.
Grows ==
    /\ \A s \in Streams : \A i \in 1 .. Len(stream[s]) : stream'[s][i] = stream[s][i]
    /\ \A s \in Streams : audit[s] \subseteq audit'[s]
    /\ traces' \in Nat /\ traces <= traces'

\* The replica d does not move.
Rests(d) == pc'[d] = pc[d] /\ at'[d] = at[d] /\ batch'[d] = batch[d] /\ work'[d] = work[d]

\* The rows that a replica's message calls for stay with it.
LEMMA MatchesKept ==
    ASSUME TypeOK, Grows, NEW d \in Consumers, Matches(d), Rests(d)
    PROVE  Matches(d)'
<1>1. Entry(d)' = Entry(d)
  BY DEF Rests, Entry
<1>2. CASE pc[d] \in {"delete", "commit", "ack"}
  <2>1. Entry(d) \in 1 .. Len(stream[at[d]]) /\ at[d] \in Streams
    BY <1>2, EntryDelivered DEF TypeOK
  <2>2. Event(d)' = Event(d)
    BY <1>1, <2>1 DEF Grows, Rests, Event
  <2>3. traces \in Nat
    BY DEF TypeOK
  <2> QED
    BY <1>1, <2>1, <2>2, <2>3 DEF Matches, Grows, Rests
<1>3. CASE pc[d] \notin {"delete", "commit", "ack"}
  BY <1>3 DEF Matches, Rests
<1> QED
  BY <1>2, <1>3

\* So does what acknowledged entries have left.
LEMMA AckedKept ==
    ASSUME TypeOK, Grows, AckedIsAudited, SlowIsTraced,
           \A s \in Streams : Acked(s)' \subseteq Acked(s)
    PROVE  AckedIsAudited' /\ SlowIsTraced'
<1>1. ASSUME NEW s \in Streams, NEW i \in Acked(s)'
      PROVE  i \in Acked(s) /\ stream'[s][i] = stream[s][i]
  <2>1. i \in Acked(s)
    BY <1>1
  <2>2. i \in 1 .. Len(stream[s])
    <3>1. /\ since[s] \in Nat /\ group[s] \in Nat /\ group[s] <= Len(stream[s])
          /\ Len(stream[s]) \in Nat
      BY DEF TypeOK
    <3> QED
      BY <2>1, <3>1 DEF Acked
  <2> QED
    BY <2>1, <2>2 DEF Grows
<1>2. AckedIsAudited'
  BY <1>1 DEF AckedIsAudited, Grows
<1>3. SlowIsTraced'
  <2>1. Executions \in Streams
    BY DEF Streams
  <2>2. traces > 0 => traces' > 0
    BY DEF Grows, TypeOK
  <2>3. SUFFICES ASSUME NEW i \in Acked(Executions)', stream'[Executions][i] = "slow"
                 PROVE  traces' > 0
    BY DEF SlowIsTraced
  <2>4. i \in Acked(Executions) /\ stream[Executions][i] = "slow"
    BY <1>1, <2>1, <2>3
  <2> QED
    BY <2>2, <2>4 DEF SlowIsTraced
<1> QED
  BY <1>2, <1>3

\* Nothing of a stream is acknowledged when its group is created.
LEMMA NothingAckedByCreate ==
    ASSUME TypeOK, NEW made \in SUBSET Streams, CreateGroups(made), pending' = pending
    PROVE  \A s \in Streams : Acked(s)' \subseteq Acked(s)
<1>1. \A s \in Streams : Len(stream[s]) \in Nat
  BY DEF TypeOK
<1>2. /\ since' = [s \in Streams |-> IF s \in made /\ ~created[s] THEN Len(stream[s]) ELSE since[s]]
      /\ group' = [s \in Streams |-> IF s \in made /\ ~created[s] THEN Len(stream[s]) ELSE group[s]]
  BY DEF CreateGroups
<1> QED
  BY <1>1, <1>2 DEF Acked

\* A step of one replica that acknowledges nothing.
LEMMA QuietStep ==
    ASSUME EntryInv, TypeOK', NotYetCreated', NEW c \in Consumers, Grows,
           \A d \in Consumers \ {c} : Rests(d),
           Matches(c)' \/ pc'[c] \notin {"delete", "commit", "ack"},
           \A s \in Streams : Acked(s)' \subseteq Acked(s)
    PROVE  EntryInv'
<1>1. WorkMatchesEvent'
  BY MatchesKept DEF EntryInv, WorkMatchesEvent, Matches
<1>2. AckedIsAudited' /\ SlowIsTraced'
  BY AckedKept DEF EntryInv
<1> QED
  BY <1>1, <1>2 DEF EntryInv

\* The next message of a batch, or the next stream, has to be handled first.
LEMMA GoOnRests ==
    ASSUME TypeOK, NEW c \in Consumers, NEW rest, NEW n, GoOn(c, rest, n)
    PROVE  /\ pc'[c] \notin {"delete", "commit", "ack"}
           /\ \A d \in Consumers \ {c} :
                 pc'[d] = pc[d] /\ at'[d] = at[d] /\ batch'[d] = batch[d]
<1>1. batch' = [batch EXCEPT ![c] = rest]
  BY DEF GoOn
<1>2. \E label \in {"process", "read", "reclaim"} : pc' = [pc EXCEPT ![c] = label]
  BY DEF GoOn, Goto
<1>3. at' = at \/ at' = [at EXCEPT ![c] = StreamAfter(@)]
  BY DEF GoOn
<1> QED
  BY <1>1, <1>2, <1>3 DEF TypeOK

\* Every step keeps the rows of what is acknowledged.
LEMMA EntryStep == EntryInv /\ [Next]_vars => EntryInv'
<1> SUFFICES ASSUME EntryInv, [Next]_vars PROVE EntryInv'
  OBVIOUS
<1>0. TypeOK /\ TypeOK' /\ NotYetCreated'
  BY TypeStep DEF EntryInv
<1>1. \A s \in Streams : /\ since[s] \in Nat /\ group[s] \in Nat /\ Len(stream[s]) \in Nat
                        /\ stream[s] \in Seq(ExecutionEvent \cup MemoryEvent)
                        /\ audit[s] \in SUBSET Nat
  BY DEF EntryInv, TypeOK
<1>2. traces \in Nat
  BY DEF EntryInv, TypeOK
<1>3. ASSUME UNCHANGED <<pc, at, batch, work, group, since, pending, audit, traces>>, Grows
      PROVE  EntryInv'
  <2>1. WorkMatchesEvent'
    BY <1>0, <1>3, MatchesKept DEF EntryInv, WorkMatchesEvent, Rests
  <2>2. \A s \in Streams : Acked(s)' \subseteq Acked(s)
    BY <1>3 DEF Acked
  <2> QED
    BY <1>0, <1>3, <2>1, <2>2, AckedKept DEF EntryInv
<1>4. ASSUME NEW s \in Streams, Publish(s) PROVE EntryInv'
  <2>1. PICK e \in ExecutionEvent \cup MemoryEvent :
            stream' = [stream EXCEPT ![s] = Append(@, e)]
    BY <1>4 DEF Publish, Follows, ExecutionEvent
  <2>2. \A r \in Streams : \A i \in 1 .. Len(stream[r]) : stream'[r][i] = stream[r][i]
    BY <1>1, <2>1, AppendProperties DEF EntryInv, TypeOK
  <2>3. Grows
    BY <1>2, <1>4, <2>2 DEF Grows, Publish, dbVars
  <2> QED
    BY <1>3, <1>4, <2>3 DEF Publish, groupVars, loopVars, dbVars
<1>5. CASE \/ \E s \in Streams : \E i \in pending[s] : GrowsIdle(s, i)
           \/ BufferExpires
  BY <1>2, <1>3, <1>5 DEF GrowsIdle, BufferExpires, groupVars, loopVars, dbVars, Grows
<1>6. ASSUME NEW c \in Consumers, Start(c) PROVE EntryInv'
  <2>1. Grows
    BY <1>2, <1>6 DEF Start, dbVars, Grows
  <2>2. /\ pc'[c] \notin {"delete", "commit", "ack"}
        /\ \A d \in Consumers \ {c} : Rests(d)
    BY <1>0, <1>6 DEF Start, Goto, Rests, TypeOK
  <2>3. \A s \in Streams : Acked(s)' \subseteq Acked(s)
    BY <1>0, <1>6, NothingAckedByCreate DEF Start
  <2> QED
    BY <1>0, <2>1, <2>2, <2>3, QuietStep
<1>7. ASSUME NEW c \in Consumers, StartRaises(c) \/ Crash(c) \/ Restart(c) PROVE EntryInv'
  <2>1. Grows
    BY <1>2, <1>7 DEF StartRaises, Crash, Restart, Stop, dbVars, Grows
  <2>2. pc'[c] \notin {"delete", "commit", "ack"}
    BY <1>0, <1>7 DEF StartRaises, Crash, Restart, Stop, Goto, TypeOK
  <2>3. \A d \in Consumers \ {c} : Rests(d)
    BY <1>0, <1>7 DEF StartRaises, Crash, Restart, Stop, Goto, Rests, TypeOK
  <2>4. \A s \in Streams : Acked(s)' \subseteq Acked(s)
    <3>1. CASE StartRaises(c)
      <4>1. PICK made \in SUBSET Streams : CreateGroups(made)
        BY <3>1 DEF StartRaises, Streams
      <4> QED
        BY <1>0, <3>1, <4>1, NothingAckedByCreate DEF StartRaises
    <3>2. CASE Crash(c) \/ Restart(c)
      BY <3>2 DEF Crash, Restart, Stop, groupVars, Acked
    <3> QED
      BY <1>7, <3>1, <3>2
  <2> QED
    BY <1>0, <2>1, <2>2, <2>3, <2>4, QuietStep
<1>8. ASSUME NEW c \in Consumers, Read(c) \/ Reclaim(c) PROVE EntryInv'
  <2>1. Grows
    BY <1>2, <1>8 DEF Read, Reclaim, dbVars, Grows
  <2>2. /\ \E entries \in SUBSET Int, n \in Nat : GoOn(c, entries, n)
        /\ work' = work
    <3>1. /\ processed[c] \in Nat /\ at[c] \in Streams
          /\ SUBSET idle[at[c]] \subseteq SUBSET Int
      BY <1>0 DEF TypeOK
    <3> QED
      BY <1>8, <3>1 DEF Read, Reclaim, Fetch
  <2>3. /\ pc'[c] \notin {"delete", "commit", "ack"}
        /\ \A d \in Consumers \ {c} : Rests(d)
    BY <1>0, <2>2, GoOnRests DEF Rests
  <2>4. ASSUME NEW s \in Streams PROVE Acked(s)' \subseteq Acked(s)
    <3>1. CASE Reclaim(c)
      BY <1>0, <3>1 DEF Reclaim, Fetch, Acked, TypeOK
    <3>2. CASE Read(c)
      BY <1>0, <1>1, <3>2 DEF Read, Fetch, Acked, TypeOK
    <3> QED
      BY <1>8, <3>1, <3>2
  <2> QED
    BY <1>0, <2>1, <2>3, <2>4, QuietStep
<1>9. ASSUME NEW c \in Consumers, Abort(c) \/ FetchRaises(c) PROVE EntryInv'
  <2>0. /\ RoundEnds(c)
        /\ UNCHANGED <<stream, group, since, pending, work, audit, traces>>
    BY <1>9 DEF Abort, FetchRaises, groupVars, dbVars
  <2>1. Grows
    BY <1>2, <2>0 DEF Grows
  <2>2. \A s \in Streams : Acked(s)' \subseteq Acked(s)
    BY <2>0 DEF Acked
  <2>3. /\ pc'[c] \notin {"delete", "commit", "ack"}
        /\ \A d \in Consumers \ {c} : Rests(d)
    <3>1. CASE GoOn(c, {}, processed[c])
      BY <1>0, <2>0, <3>1, GoOnRests DEF Rests
    <3>2. CASE ~GoOn(c, {}, processed[c])
      BY <1>0, <2>0, <3>2 DEF RoundEnds, Goto, Rests, TypeOK
    <3> QED
      BY <3>1, <3>2
  <2> QED
    BY <1>0, <2>1, <2>2, <2>3, QuietStep
<1>10. ASSUME NEW c \in Consumers, Handle(c) PROVE EntryInv'
  <2>1. /\ UNCHANGED <<stream, group, since, pending, at, batch, audit, traces>>
        /\ \E w : work' = [work EXCEPT ![c] = w]
        /\ \E label \in {"delete", "commit"} : pc' = [pc EXCEPT ![c] = label]
    BY <1>10 DEF Handle, Goto, groupVars, dbVars
  <2>2. Grows
    BY <1>2, <2>1 DEF Grows
  <2>3. Entry(c)' = Entry(c) /\ Event(c)' = Event(c)
    BY <2>1 DEF Entry, Event
  <2>4. /\ Event(c) \in Audited => work'[c].audit
        /\ Event(c) = "slow" => work'[c].trace
    <3>0. work \in [Consumers -> Rows]
      BY <1>0 DEF TypeOK
    <3>1. CASE Event(c) \in Completion
      <4>1. PICK keep \in MayKeep(Event(c)) : work' = [work EXCEPT ![c] =
                [audit |-> TRUE, trace |-> keep, spans |-> Flushed(keep)]]
        BY <1>10, <3>1 DEF Handle, Completion
      <4>2. Event(c) = "slow" => keep = TRUE
        BY <4>1 DEF MayKeep
      <4> QED
        BY <3>0, <4>1, <4>2
    <3>2. CASE Event(c) \notin Completion
      <4>1. Event(c) \in Audited => work' = [work EXCEPT ![c] = [NoWork EXCEPT !.audit = TRUE]]
        BY <1>10, <3>2 DEF Handle, Audited, Completion
      <4>2. [NoWork EXCEPT !.audit = TRUE].audit = TRUE
        BY DEF NoWork
      <4>3. Event(c) # "slow"
        BY <3>2 DEF Completion
      <4> QED
        BY <3>0, <4>1, <4>2, <4>3
    <3> QED
      BY <3>1, <3>2
  <2>5. Matches(c)'
    BY <1>0, <2>1, <2>3, <2>4 DEF Matches, TypeOK
  <2>6. \A d \in Consumers \ {c} : Rests(d)
    BY <1>0, <2>1 DEF Rests, TypeOK
  <2>7. \A s \in Streams : Acked(s)' \subseteq Acked(s)
    BY <2>1 DEF Acked
  <2> QED
    BY <1>0, <2>2, <2>5, <2>6, <2>7, QuietStep
<1>11. ASSUME NEW c \in Consumers, Commit(c) PROVE EntryInv'
  <2>1. /\ UNCHANGED <<stream, group, since, pending, at, batch>>
        /\ work' = [work EXCEPT ![c] = NoWork]
        /\ pc[c] = "commit" /\ pc' = [pc EXCEPT ![c] = "ack"]
        /\ traces' = traces + (IF work[c].trace THEN 1 ELSE 0)
        /\ audit' = [audit EXCEPT ![at[c]] = IF work[c].audit THEN @ \cup {Entry(c)} ELSE @]
    BY <1>11 DEF Commit, Goto, groupVars
  <2>2. Grows
    BY <1>0, <1>2, <2>1 DEF Grows, TypeOK
  <2>3. Entry(c)' = Entry(c) /\ Event(c)' = Event(c)
    BY <2>1 DEF Entry, Event
  <2>4. Matches(c)'
    <3>1. /\ Event(c) \in Audited => work[c].audit
          /\ Event(c) = "slow" => work[c].trace
      BY <2>1 DEF EntryInv, WorkMatchesEvent, Matches
    <3>2. Event(c) \in Audited => Entry(c) \in audit'[at[c]]
      BY <1>0, <2>1, <3>1 DEF TypeOK
    <3>3. Event(c) = "slow" => traces' > 0
      BY <1>2, <2>1, <3>1
    <3> QED
      BY <1>0, <2>1, <2>3, <3>2, <3>3 DEF Matches, TypeOK
  <2>5. \A d \in Consumers \ {c} : Rests(d)
    BY <1>0, <2>1 DEF Rests, TypeOK
  <2>6. \A s \in Streams : Acked(s)' \subseteq Acked(s)
    BY <2>1 DEF Acked
  <2> QED
    BY <1>0, <2>2, <2>4, <2>5, <2>6, QuietStep
<1>12. ASSUME NEW c \in Consumers, Ack(c) \/ Fails(c) PROVE EntryInv'
  <2>1. Done(c) /\ UNCHANGED <<stream, group, since, audit, traces>>
    BY <1>12 DEF Ack, Fails, Done, dbVars
  <2>2. Grows
    BY <1>2, <2>1 DEF Grows
  <2>3. /\ pc'[c] \notin {"delete", "commit", "ack"}
        /\ \A d \in Consumers \ {c} : Rests(d)
    <3>1. /\ \E rest, n : GoOn(c, rest, n)
          /\ work' = [work EXCEPT ![c] = NoWork]
      BY <2>1 DEF Done
    <3> QED
      BY <1>0, <3>1, GoOnRests DEF Rests, TypeOK
  <2>4. CASE Fails(c)
    <3>1. \A s \in Streams : Acked(s)' \subseteq Acked(s)
      BY <2>1, <2>4 DEF Fails, LeftPending, Acked
    <3> QED
      BY <1>0, <2>2, <2>3, <3>1, QuietStep
  <2>5. CASE Ack(c)
    <3>1. /\ pc[c] = "ack"
          /\ pending' = [pending EXCEPT ![at[c]] = @ \ {Entry(c)}]
      BY <2>5 DEF Ack
    <3>2. /\ Event(c) \in Audited => Entry(c) \in audit[at[c]]
          /\ Event(c) = "slow" => traces > 0
      BY <3>1 DEF EntryInv, WorkMatchesEvent, Matches
    <3>3. \A s \in Streams : \A i \in Acked(s)' : i \in Acked(s) \/ (s = at[c] /\ i = Entry(c))
      BY <1>0, <2>1, <3>1 DEF Acked, TypeOK
    <3>4. AckedIsAudited'
      BY <2>1, <3>2, <3>3 DEF EntryInv, AckedIsAudited, Event
    <3>5. SlowIsTraced'
      <4>1. Executions \in Streams
        BY DEF Streams
      <4> QED
        BY <2>1, <3>2, <3>3, <4>1 DEF EntryInv, SlowIsTraced, Event
    <3>6. WorkMatchesEvent'
      BY <1>0, <2>2, <2>3, MatchesKept DEF EntryInv, WorkMatchesEvent, Matches
    <3> QED
      BY <1>0, <3>4, <3>5, <3>6 DEF EntryInv
  <2> QED
    BY <1>12, <2>4, <2>5
<1>13. ASSUME NEW c \in Consumers, DeleteBuffer(c) PROVE EntryInv'
  <2>1. /\ UNCHANGED <<stream, group, since, pending, at, batch, work, audit, traces>>
        /\ pc[c] = "delete" /\ pc' = [pc EXCEPT ![c] = "commit"]
    BY <1>13 DEF DeleteBuffer, Goto, groupVars, dbVars
  <2>2. Grows
    BY <1>2, <2>1 DEF Grows
  <2>3. Entry(c)' = Entry(c) /\ Event(c)' = Event(c)
    BY <2>1 DEF Entry, Event
  <2>4. Matches(c)'
    BY <1>0, <2>1, <2>3 DEF EntryInv, WorkMatchesEvent, Matches, TypeOK
  <2>5. \A d \in Consumers \ {c} : Rests(d)
    BY <1>0, <2>1 DEF Rests, TypeOK
  <2>6. \A s \in Streams : Acked(s)' \subseteq Acked(s)
    BY <2>1 DEF Acked
  <2> QED
    BY <1>0, <2>2, <2>4, <2>5, <2>6, QuietStep
<1>14. CASE UNCHANGED vars
  BY <1>2, <1>3, <1>14 DEF vars, groupVars, loopVars, dbVars, Grows
<1> QED
  BY <1>4, <1>5, <1>6, <1>7, <1>8, <1>9, <1>10, <1>11, <1>12, <1>13, <1>14
  DEF Next, Run

\* Before anything is delivered.
LEMMA EntryInit == Init => EntryInv
BY TypeInit DEF Init, EntryInv, WorkMatchesEvent, Matches, AckedIsAudited, SlowIsTraced,
                Acked, Streams

\* Crashes, failures and redelivery lose no audit row of an acknowledged entry
\* (handler.py 56-60, 112-130; loop.py 86-92).
THEOREM AuditComplete == Spec => []AckedIsAudited
<1>1. EntryInv /\ [Next]_vars => EntryInv'
  BY EntryStep
<1>2. EntryInv => AckedIsAudited
  BY DEF EntryInv
<1> QED
  BY <1>1, <1>2, EntryInit, PTL DEF Spec

\* A slow execution whose completion is acknowledged has a stored trace: no
\* redelivery can sample it away (tail_sampler.py 7-10).
THEOREM SlowKept == Spec => []SlowIsTraced
<1>1. EntryInv /\ [Next]_vars => EntryInv'
  BY EntryStep
<1>2. EntryInv => SlowIsTraced
  BY DEF EntryInv
<1> QED
  BY <1>1, <1>2, EntryInit, PTL DEF Spec

----------------------------------------------------------------------------
(* The span of a slow execution is not lost while nothing fails            *)

\* Where spans are, which streams flush them, and that a handled start is in the
\* buffer until a completion is handed out.
KeptInv ==
    /\ TypeOK /\ NotYetCreated
    /\ SpansInCommitOnly /\ MemoryStreamOnly /\ DeletesForCompletion /\ HandledIsBuffered

\* A fault is counted, so a calm state has seen none, and sees none next.
LEMMA FaultsCounted ==
    ASSUME TypeOK, NEW k \in FaultKind, Strike(k) PROVE ~Calm'
<1>1. faults[k] \in Nat /\ faults'[k] = faults[k] + 1
  BY DEF TypeOK, Strike
<1> QED
  BY <1>1 DEF Calm

\* Published entries stay where and what they are.
LEMMA StreamsGrow ==
    ASSUME TypeOK, [Next]_vars, NEW s \in Streams
    PROVE  /\ Len(stream[s]) \in Nat /\ Len(stream[s]) <= Len(stream'[s])
           /\ \A i \in 1 .. Len(stream[s]) : stream'[s][i] = stream[s][i]
<1>1. /\ stream[s] \in Seq(ExecutionEvent \cup MemoryEvent)
      /\ Len(stream[s]) \in Nat
  BY DEF TypeOK
<1>2. ASSUME NEW r \in Streams, Publish(r)
      PROVE  /\ Len(stream[s]) <= Len(stream'[s])
             /\ \A i \in 1 .. Len(stream[s]) : stream'[s][i] = stream[s][i]
  <2>1. PICK e \in ExecutionEvent \cup MemoryEvent :
            stream' = [stream EXCEPT ![r] = Append(@, e)]
    BY <1>2 DEF Publish, Follows, ExecutionEvent
  <2> QED
    BY <1>1, <2>1, AppendProperties DEF TypeOK
<1>3. CASE ~\E r \in Streams : Publish(r)
  <2>1. stream' = stream
    BY <1>3 DEF Next, GrowsIdle, BufferExpires, Run, Start, StartRaises, Read,
                Reclaim, FetchRaises, Abort, Handle, DeleteBuffer, Commit, Ack, Fails, Done, Crash, Restart,
                Stop, vars
  <2> QED
    BY <1>1, <2>1
<1> QED
  BY <1>1, <1>2, <1>3

\* A state in which nothing was sampled away or failed has only such pasts.
LEMMA NothingSampledBefore ==
    ASSUME TypeOK, TypeOK', [Next]_vars, NothingSampledAway'
    PROVE  NothingSampledAway
<1>1. Calm
  <2>1. \/ faults' = faults
        \/ \E k \in FaultKind : Strike(k)
    BY DEF Next, Publish, GrowsIdle, BufferExpires, Run, Start, StartRaises, Read,
           Reclaim, FetchRaises, Abort, Handle, DeleteBuffer, Commit, Ack, Fails, Crash,
           Restart, vars, FaultKind
  <2> QED
    BY <2>1, FaultsCounted DEF NothingSampledAway, Calm
<1>2. \A i \in 1 .. Len(stream[Executions]) :
          i \in 1 .. Len(stream'[Executions]) /\ stream'[Executions][i] = stream[Executions][i]
  <2>1. Executions \in Streams
    BY DEF Streams
  <2>2. Len(stream'[Executions]) \in Nat
    BY <2>1 DEF TypeOK
  <2> QED
    BY <2>1, <2>2, StreamsGrow
<1> QED
  BY <1>1, <1>2 DEF NothingSampledAway

\* Only a replica that acknowledges it makes an entry acknowledged (XACK,
\* loop.py 92), and entries delivered by a Read are pending first.
LEMMA AckedByAck ==
    ASSUME TypeOK, NotYetCreated, [Next]_vars, NEW s \in Streams, NEW i \in Acked(s)'
    PROVE  i \in Acked(s) \/ \E c \in Consumers : pc[c] = "ack" /\ at[c] = s /\ Entry(c) = i
<1>1. /\ since[s] \in Nat /\ group[s] \in Nat /\ Len(stream[s]) \in Nat
      /\ pending \in [Streams -> SUBSET Nat]
  BY DEF TypeOK
<1>2. ASSUME NEW c \in Consumers, Start(c) \/ StartRaises(c) PROVE i \in Acked(s)
  <2>1. PICK made \in SUBSET Streams : CreateGroups(made) /\ pending' = pending
    BY <1>2 DEF Start, StartRaises, Streams
  <2> QED
    BY <2>1, NothingAckedByCreate
<1>3. ASSUME NEW c \in Consumers, Read(c) \/ Reclaim(c) PROVE i \in Acked(s)
  <2>1. CASE Reclaim(c)
    BY <1>1, <2>1 DEF Reclaim, Fetch, Acked, TypeOK
  <2>2. CASE Read(c)
    BY <1>1, <2>2 DEF Read, Fetch, Acked, TypeOK
  <2> QED
    BY <1>3, <2>1, <2>2
<1>4. ASSUME NEW c \in Consumers, Ack(c)
      PROVE  i \in Acked(s) \/ (pc[c] = "ack" /\ at[c] = s /\ Entry(c) = i)
  BY <1>1, <1>4 DEF Ack, Done, Acked, TypeOK
<1>5. ASSUME UNCHANGED <<group, since, pending>> PROVE i \in Acked(s)
  BY <1>5 DEF Acked
<1> QED
  BY <1>2, <1>3, <1>4, <1>5 DEF Next, Run, Publish, GrowsIdle, BufferExpires,
     FetchRaises, Abort, Handle, DeleteBuffer, Commit, Fails, LeftPending, Done, Crash, Restart, Stop, groupVars, vars

\* What a replica has handled it handles in this step, or had handled before.
LEMMA HandledBefore ==
    ASSUME TypeOK, [Next]_vars, NEW c \in Consumers, pc'[c] \in {"delete", "commit", "ack"},
           ~Handle(c)
    PROVE  /\ pc[c] \in {"delete", "commit", "ack"} /\ at'[c] = at[c] /\ batch'[c] = batch[c]
           /\ pc'[c] = "delete" => pc[c] = "delete"
<1> DEFINE Before == /\ pc[c] \in {"delete", "commit", "ack"}
                     /\ at'[c] = at[c] /\ batch'[c] = batch[c]
                     /\ pc'[c] = "delete" => pc[c] = "delete"
<1>1. ASSUME NEW d \in Consumers, NEW rest, NEW n, GoOn(d, rest, n) PROVE Before
  BY <1>1, GoOnRests
<1>2. ASSUME NEW d \in Consumers, RoundEnds(d) PROVE Before
  <2>1. CASE \E rest, n : GoOn(d, rest, n)
    BY <1>1, <2>1
  <2>2. CASE ~\E rest, n : GoOn(d, rest, n)
    BY <1>2, <2>2 DEF RoundEnds, Goto, TypeOK
  <2> QED
    BY <2>1, <2>2
<1>3. ASSUME NEW d \in Consumers, Read(d) \/ Reclaim(d) \/ Ack(d) \/ Fails(d) PROVE Before
  <2>1. \E rest, n : GoOn(d, rest, n)
    BY <1>3 DEF Read, Reclaim, Fetch, Ack, Fails, Done
  <2> QED
    BY <1>1, <2>1
<1>4. ASSUME NEW d \in Consumers, Abort(d) \/ FetchRaises(d) PROVE Before
  BY <1>2, <1>4 DEF Abort, FetchRaises
<1>5. ASSUME NEW d \in Consumers, Start(d) \/ StartRaises(d) \/ Crash(d) \/ Restart(d)
      PROVE  Before
  BY <1>5 DEF Start, StartRaises, Crash, Restart, Stop, Goto, TypeOK
<1>6. ASSUME NEW d \in Consumers, Handle(d) \/ DeleteBuffer(d) \/ Commit(d)
      PROVE  Before
  BY <1>6 DEF Handle, DeleteBuffer, Commit, Goto, TypeOK
<1>7. ASSUME UNCHANGED loopVars PROVE Before
  BY <1>7 DEF loopVars
<1> QED
  BY <1>3, <1>4, <1>5, <1>6, <1>7
  DEF Next, Run, Publish, GrowsIdle, BufferExpires, vars

\* No transaction holds spans but a flushed one that is still to commit.
LEMMA SpansInCommitStep ==
    ASSUME TypeOK, TypeOK', SpansInCommitOnly, [Next]_vars
    PROVE  SpansInCommitOnly'
<1>0. NoWork.spans = 0
  BY DEF NoWork
<1>1. ASSUME NEW c \in Consumers,
             \/ Read(c) \/ Reclaim(c) \/ FetchRaises(c) \/ Abort(c) \/ Start(c)
             \/ StartRaises(c)
      PROVE  SpansInCommitOnly'
  <2>1. work' = work /\ pc[c] \notin {"delete", "commit"}
    BY <1>1 DEF Read, Reclaim, FetchRaises, Abort, Start, StartRaises
  <2>2. \A d \in Consumers \ {c} : pc'[d] = pc[d]
    <3>1. \E label : pc' = [pc EXCEPT ![c] = label]
      BY <1>1 DEF Read, Reclaim, Fetch, FetchRaises, Abort, RoundEnds, Start, StartRaises,
                  GoOn, Goto
    <3> QED
      BY <3>1 DEF TypeOK
  <2> QED
    BY <2>1, <2>2 DEF SpansInCommitOnly
<1>2. ASSUME NEW c \in Consumers, Ack(c) \/ Fails(c) \/ Crash(c) \/ Restart(c) \/ Commit(c)
      PROVE  SpansInCommitOnly'
  <2>1. work' = [work EXCEPT ![c] = NoWork]
    BY <1>2 DEF Ack, Fails, Done, Crash, Restart, Stop, Commit
  <2>2. \A d \in Consumers \ {c} : pc'[d] = pc[d]
    BY <1>2 DEF Ack, Fails, Done, Crash, Restart, Stop, Commit, GoOn, Goto, TypeOK
  <2> QED
    BY <1>0, <2>1, <2>2 DEF SpansInCommitOnly, TypeOK
<1>3. ASSUME NEW c \in Consumers, Handle(c) PROVE SpansInCommitOnly'
  <2>1. /\ \E label \in {"delete", "commit"} : pc' = [pc EXCEPT ![c] = label]
        /\ \E w : work' = [work EXCEPT ![c] = w]
    BY <1>3 DEF Handle, Goto
  <2> QED
    BY <2>1 DEF SpansInCommitOnly, TypeOK
<1>4. ASSUME NEW c \in Consumers, DeleteBuffer(c) PROVE SpansInCommitOnly'
  BY <1>4 DEF DeleteBuffer, Goto, SpansInCommitOnly, TypeOK
<1>5. ASSUME UNCHANGED loopVars PROVE SpansInCommitOnly'
  BY <1>5 DEF loopVars, SpansInCommitOnly
<1> QED
  BY <1>1, <1>2, <1>3, <1>4, <1>5 DEF Next, Run, Publish, GrowsIdle, BufferExpires, vars

\* The memory service publishes two events, neither of which is a completion.
LEMMA MemoryStreamStep ==
    ASSUME TypeOK, MemoryStreamOnly, [Next]_vars
    PROVE  MemoryStreamOnly'
<1>0. Memory \in Streams /\ Memory # Executions
  BY DEF Streams, Memory, Executions
<1>1. stream[Memory] \in Seq(ExecutionEvent \cup MemoryEvent) /\ Len(stream[Memory]) \in Nat
  BY <1>0 DEF TypeOK
<1>2. CASE Publish(Memory)
  <2>1. PICK e \in MemoryEvent : stream' = [stream EXCEPT ![Memory] = Append(@, e)]
    BY <1>0, <1>2 DEF Publish
  <2>2. stream'[Memory] = Append(stream[Memory], e)
    BY <1>0, <2>1 DEF TypeOK
  <2>3. /\ Len(stream'[Memory]) = Len(stream[Memory]) + 1
        /\ stream'[Memory][Len(stream[Memory]) + 1] = e
        /\ \A i \in 1 .. Len(stream[Memory]) : stream'[Memory][i] = stream[Memory][i]
    BY <1>1, <2>2, AppendProperties
  <2>4. ASSUME NEW i \in 1 .. Len(stream'[Memory]) PROVE stream'[Memory][i] \in MemoryEvent
    BY <1>1, <2>1, <2>3 DEF MemoryStreamOnly
  <2> QED
    BY <2>4 DEF MemoryStreamOnly
<1>3. CASE ~Publish(Memory)
  <2>1. stream'[Memory] = stream[Memory]
    <3>1. CASE Publish(Executions)
      BY <1>0, <3>1 DEF Publish, TypeOK
    <3>2. CASE ~Publish(Executions)
      BY <1>3, <3>2 DEF Next, Streams, GrowsIdle, BufferExpires, Run, Start, StartRaises, Read,
         Reclaim, FetchRaises, Abort, Handle, DeleteBuffer, Commit, Ack, Fails, Done, Crash, Restart, Stop, vars
    <3> QED
      BY <3>1, <3>2
  <2> QED
    BY <2>1 DEF MemoryStreamOnly
<1> QED
  BY <1>2, <1>3

\* The event of an entry stays with it while a replica works on it.
LEMMA EventStays ==
    ASSUME TypeOK, [Next]_vars, NEW c \in Consumers, batch[c] # {},
           at'[c] = at[c], batch'[c] = batch[c]
    PROVE  Entry(c)' = Entry(c) /\ Event(c)' = Event(c)
<1>1. Entry(c) \in 1 .. Len(stream[at[c]]) /\ at[c] \in Streams
  BY EntryDelivered DEF TypeOK
<1>2. Entry(c)' = Entry(c)
  BY DEF Entry
<1> QED
  BY <1>1, <1>2, StreamsGrow DEF Event

\* Completions are events of the executions stream.
LEMMA CompletionStream ==
    ASSUME TypeOK, MemoryStreamOnly, NEW c \in Consumers, batch[c] # {},
           Event(c) \in Completion
    PROVE  at[c] = Executions
<1>1. Entry(c) \in 1 .. Len(stream[at[c]]) /\ at[c] \in Streams
  BY EntryDelivered DEF TypeOK
<1> QED
  BY <1>1 DEF MemoryStreamOnly, Event, Streams, MemoryEvent, Completion

\* Only the handling of a completion leads to the DELETE (tail_sampler.py 67-73).
LEMMA DeletesStep ==
    ASSUME TypeOK, TypeOK', MemoryStreamOnly, DeletesForCompletion, [Next]_vars
    PROVE  DeletesForCompletion'
<1> SUFFICES ASSUME NEW c \in Consumers, pc'[c] = "delete"
             PROVE  at'[c] = Executions /\ Event(c)' \in Completion
  BY DEF DeletesForCompletion
<1>1. CASE Handle(c)
  <2>1. Event(c) \in Completion /\ batch[c] # {}
    BY <1>1 DEF Handle, Goto, TypeOK
  <2>2. at' = at /\ batch' = batch /\ stream' = stream
    BY <1>1 DEF Handle
  <2> QED
    BY <2>1, <2>2, CompletionStream DEF Event, Entry
<1>2. CASE ~Handle(c)
  <2>1. pc[c] = "delete" /\ at'[c] = at[c] /\ batch'[c] = batch[c]
    BY <1>2, HandledBefore
  <2>2. batch[c] # {} /\ at[c] = Executions /\ Event(c) \in Completion
    BY <2>1 DEF TypeOK, DeletesForCompletion
  <2> QED
    BY <2>1, <2>2, EventStays
<1> QED
  BY <1>1, <1>2

\* What has been handed out stays handed out.
LEMMA NoneCompletingBefore ==
    ASSUME TypeOK, NotYetCreated, TypeOK', [Next]_vars, NoneCompleting'
    PROVE  NoneCompleting
<1>0. /\ Executions \in Streams
      /\ since[Executions] \in Nat /\ group[Executions] \in Nat
      /\ Len(stream[Executions]) \in Nat /\ group[Executions] <= Len(stream[Executions])
  BY DEF Streams, TypeOK
<1>1. (since[Executions] + 1) .. group[Executions]
          \subseteq (since'[Executions] + 1) .. group'[Executions]
  <2>1. ASSUME NEW c \in Consumers, Start(c) \/ StartRaises(c)
        PROVE  \/ since'[Executions] = since[Executions] /\ group'[Executions] = group[Executions]
               \/ group[Executions] = 0
    <3>1. PICK made : CreateGroups(made)
      BY <2>1 DEF Start, StartRaises
    <3> QED
      BY <1>0, <3>1 DEF CreateGroups, NotYetCreated
  <2>2. ASSUME NEW c \in Consumers, Read(c)
        PROVE  since' = since /\ group[Executions] <= group'[Executions]
               /\ group'[Executions] \in Nat
    <3>1. PICK last : group' = [group EXCEPT ![at[c]] = last] /\ since' = since
                      /\ last \in Nat /\ group[at[c]] <= last
      <4>1. /\ at[c] \in Streams /\ group[at[c]] \in Nat /\ Len(stream[at[c]]) \in Nat
            /\ group[at[c]] <= Len(stream[at[c]])
        BY DEF TypeOK
      <4> DEFINE n == IF group[at[c]] + PollCount < Len(stream[at[c]])
                      THEN group[at[c]] + PollCount ELSE Len(stream[at[c]])
      <4>2. n \in Nat /\ group[at[c]] <= n
        BY <4>1, ConsumerConstants
      <4>3. group' = [group EXCEPT ![at[c]] = n] /\ since' = since
        BY <2>2 DEF Read
      <4> HIDE DEF n
      <4> QED
        BY <4>2, <4>3
    <3> QED
      BY <1>0, <3>1 DEF TypeOK
  <2>3. \/ since' = since /\ group' = group
        \/ \E c \in Consumers : Start(c) \/ StartRaises(c) \/ Read(c)
    BY DEF Next, Run, Publish, GrowsIdle, BufferExpires, Reclaim, FetchRaises, Abort, Handle,
           DeleteBuffer, Commit, Ack, Fails, Done, Crash, Restart, Stop, groupVars, vars
  <2> QED
    BY <1>0, <2>1, <2>2, <2>3
<1>2. \A i \in (since[Executions] + 1) .. group[Executions] :
          stream'[Executions][i] = stream[Executions][i]
  BY <1>0, StreamsGrow
<1> QED
  BY <1>1, <1>2 DEF NoneCompleting

\* Nobody deletes the buffer before a completion is handed out.
LEMMA NobodyDeletes ==
    ASSUME TypeOK, DeletesForCompletion, NoneCompleting, NEW c \in Consumers
    PROVE  pc[c] # "delete"
<1> SUFFICES ASSUME pc[c] = "delete" PROVE FALSE
  OBVIOUS
<1>1. batch[c] # {} /\ at[c] = Executions /\ Event(c) \in Completion
  BY DEF TypeOK, DeletesForCompletion
<1>2. Entry(c) \in (since[Executions] + 1) .. group[Executions]
  BY <1>1, EntryDelivered
<1> QED
  BY <1>1, <1>2 DEF NoneCompleting, Event

\* A handled start stays in the buffer until a completion is handed out
\* (handler.py 54-60).
LEMMA BufferedStep ==
    ASSUME KeptInv, TypeOK', [Next]_vars
    PROVE  HandledIsBuffered'
<1>0. TypeOK /\ NotYetCreated
  BY DEF KeptInv
<1> SUFFICES ASSUME NothingSampledAway', NoneCompleting'
             PROVE  /\ \A c \in Consumers :
                          pc'[c] \in {"commit", "ack"} /\ at'[c] = Executions
                                  /\ Event(c)' = "started" => buffer' > 0
                    /\ \A i \in Acked(Executions)' :
                          stream'[Executions][i] = "started" => buffer' > 0
  BY DEF HandledIsBuffered
<1>1. NothingSampledAway /\ NoneCompleting
  BY <1>0, NothingSampledBefore, NoneCompletingBefore
<1>2. buffer > 0 => buffer' > 0
  <2>1. \A c \in Consumers : ~DeleteBuffer(c)
    BY <1>0, <1>1, NobodyDeletes DEF KeptInv, DeleteBuffer
  <2>2. ~BufferExpires
    BY <1>0, FaultsCounted DEF BufferExpires, FaultKind, NothingSampledAway
  <2>3. ASSUME NEW c \in Consumers, Handle(c) PROVE buffer' = buffer \/ buffer' > 0
    BY <2>3 DEF Handle, Buffered
  <2> QED
    BY <2>1, <2>2, <2>3 DEF Next, Run, Publish, GrowsIdle, Start, StartRaises, Read, Reclaim,
       FetchRaises, Abort, Commit, Ack, Fails, Done, Crash, Restart, Stop, vars
<1>3. ASSUME NEW c \in Consumers, pc'[c] \in {"commit", "ack"}, at'[c] = Executions,
             Event(c)' = "started"
      PROVE  buffer' > 0
  <2>1. CASE Handle(c)
    <3>1. Event(c)' = Event(c)
      BY <2>1 DEF Handle, Event, Entry
    <3>2. buffer' = 1
      BY <1>3, <2>1, <3>1 DEF Handle, Buffered, Completion
    <3> QED
      BY <3>2
  <2>2. CASE ~Handle(c)
    <3>1. /\ pc[c] \in {"delete", "commit", "ack"}
          /\ at'[c] = at[c] /\ batch'[c] = batch[c]
      BY <1>0, <1>3, <2>2, HandledBefore
    <3>2. pc[c] # "delete"
      BY <1>0, <1>1, NobodyDeletes DEF KeptInv
    <3>3. Event(c)' = Event(c)
      <4>1. batch[c] # {}
        BY <1>0, <3>1 DEF TypeOK
      <4> QED
        BY <1>0, <3>1, <4>1, EventStays
    <3> QED
      BY <1>1, <1>2, <1>3, <3>1, <3>2, <3>3 DEF KeptInv, HandledIsBuffered
  <2> QED
    BY <2>1, <2>2
<1>4. ASSUME NEW i \in Acked(Executions)', stream'[Executions][i] = "started"
      PROVE  buffer' > 0
  <2>0. Executions \in Streams
    BY DEF Streams
  <2>1. CASE i \in Acked(Executions)
    <3>1. i \in 1 .. Len(stream[Executions])
      BY <1>0, <2>0, <2>1 DEF Acked, TypeOK
    <3>2. stream[Executions][i] = "started"
      BY <1>0, <1>4, <2>0, <3>1, StreamsGrow
    <3> QED
      BY <1>1, <1>2, <2>1, <3>2 DEF KeptInv, HandledIsBuffered
  <2>2. CASE \E c \in Consumers : pc[c] = "ack" /\ at[c] = Executions /\ Entry(c) = i
    <3>1. PICK c \in Consumers : pc[c] = "ack" /\ at[c] = Executions /\ Entry(c) = i
      BY <2>2
    <3>2. batch[c] # {}
      BY <1>0, <3>1 DEF TypeOK
    <3>3. i \in 1 .. Len(stream[Executions])
      BY <1>0, <3>1, <3>2, EntryDelivered
    <3>4. Event(c) = "started"
      BY <1>0, <1>4, <2>0, <3>1, <3>3, StreamsGrow DEF Event
    <3> QED
      BY <1>1, <1>2, <3>1, <3>4 DEF KeptInv, HandledIsBuffered
  <2> QED
    BY <1>0, <1>4, <2>0, <2>1, <2>2, AckedByAck
<1> QED
  BY <1>3, <1>4

\* Every step keeps what is known of the buffer.
LEMMA KeptStep == KeptInv /\ [Next]_vars => KeptInv'
<1> SUFFICES ASSUME KeptInv, [Next]_vars PROVE KeptInv'
  OBVIOUS
<1>1. TypeOK /\ TypeOK' /\ NotYetCreated'
  BY TypeStep DEF KeptInv
<1>2. SpansInCommitOnly' /\ MemoryStreamOnly' /\ DeletesForCompletion'
  BY <1>1, SpansInCommitStep, MemoryStreamStep, DeletesStep DEF KeptInv
<1> QED
  BY <1>1, <1>2, BufferedStep DEF KeptInv

\* While nothing fails and nothing may be sampled away, a span moves from the
\* buffer to the transaction of a completion before the buffer is deleted, and from
\* there to the database (handler.py 54-89).
LEMMA SecuredStays ==
    ASSUME KeptInv, [Next]_vars, NothingSampledAway, NothingSampledAway', SpanSecured
    PROVE  SpanSecured'
<1>0. TypeOK /\ TypeOK'
  BY TypeStep DEF KeptInv
<1>1. /\ buffer \in Nat /\ spans \in Nat
      /\ work \in [Consumers -> Rows]
      /\ \A c \in Consumers : work[c].spans \in Nat
  BY <1>0 DEF TypeOK, Rows
<1>2. ASSUME \E k \in FaultKind : Strike(k) PROVE FALSE
  BY <1>0, <1>2, FaultsCounted DEF NothingSampledAway
<1>3. spans <= spans'
  <2>1. ASSUME NEW c \in Consumers, Commit(c) PROVE spans <= spans'
    <3>1. spans' = spans + work[c].spans
      BY <2>1 DEF Commit
    <3>2. work[c].spans \in Nat
      BY <1>1
    <3> QED
      BY <1>1, <3>1, <3>2
  <2>2. spans' = spans \/ \E c \in Consumers : Commit(c)
    BY DEF Next, Run, Publish, GrowsIdle, BufferExpires, Start, StartRaises, Read, Reclaim,
       FetchRaises, Abort, Handle, DeleteBuffer, Ack, Fails, Done, Crash, Restart, Stop,
       dbVars, vars
  <2> QED
    BY <1>1, <2>1, <2>2
<1>4. CASE spans > 0
  <2>1. spans' \in Nat
    BY <1>0 DEF TypeOK
  <2> QED
    BY <1>1, <1>3, <1>4, <2>1 DEF SpanSecured
<1>5. CASE \E c \in Consumers : work[c].spans > 0
  <2>1. PICK c \in Consumers : work[c].spans > 0 /\ pc[c] \in {"delete", "commit"}
    BY <1>1, <1>5 DEF KeptInv, SpansInCommitOnly
  <2>2. CASE Commit(c)
    <3>1. spans' = spans + work[c].spans
      BY <2>2 DEF Commit
    <3> QED
      BY <1>1, <2>1, <3>1 DEF SpanSecured
  <2>3. CASE ~Commit(c)
    <3>1. \/ work' = work
          \/ \E d \in Consumers \ {c} : \E w : work' = [work EXCEPT ![d] = w]
      BY <1>2, <2>1, <2>3 DEF Next, Run, Publish, GrowsIdle, BufferExpires, Start, StartRaises,
         Read, Reclaim, FetchRaises, Abort, Handle, DeleteBuffer, Commit, Ack, Fails, Done,
         Crash, Restart, Stop, FaultKind, loopVars, vars
    <3>2. work'[c] = work[c]
      BY <1>1, <3>1
    <3> QED
      BY <2>1, <3>2 DEF SpanSecured
  <2> QED
    BY <2>2, <2>3
<1>6. CASE buffer > 0 /\ \A c \in Consumers : pc[c] # "delete"
  <2>1. ASSUME NEW c \in Consumers, Handle(c), Event(c) \in Completion PROVE SpanSecured'
    <3>1. batch[c] # {}
      BY <1>0, <2>1 DEF Handle, TypeOK
    <3>2. Entry(c) \in 1 .. Len(stream[Executions]) /\ at[c] = Executions
      BY <1>0, <2>1, <3>1, EntryDelivered, CompletionStream DEF KeptInv
    <3>3. Event(c) = "slow"
      BY <2>1, <3>2 DEF NothingSampledAway, Event, Completion
    <3>4. work' = [work EXCEPT ![c] = [audit |-> TRUE, trace |-> TRUE, spans |-> buffer]]
      BY <2>1, <3>3 DEF Handle, MayKeep, Flushed, Completion
    <3>5. work'[c].spans = buffer
      BY <1>1, <3>4
    <3> QED
      BY <1>6, <3>5 DEF SpanSecured
  <2>2. CASE ~\E c \in Consumers : Handle(c) /\ Event(c) \in Completion
    <3>1. ASSUME NEW d \in Consumers, pc'[d] = "delete" PROVE FALSE
      <4>1. ~Handle(d)
        BY <1>0, <2>2, <3>1 DEF Handle, Goto, TypeOK
      <4> QED
        BY <1>0, <1>6, <3>1, <4>1, HandledBefore
    <3>2. buffer' = buffer \/ buffer' > 0
      <4>1. ASSUME NEW c \in Consumers, Handle(c) PROVE buffer' = buffer \/ buffer' > 0
        BY <4>1 DEF Handle, Buffered
      <4>2. \A c \in Consumers : ~DeleteBuffer(c)
        BY <1>6 DEF DeleteBuffer
      <4>3. ~BufferExpires
        BY <1>2 DEF BufferExpires, FaultKind
      <4> QED
        BY <4>1, <4>2, <4>3 DEF Next, Run, Publish, GrowsIdle, Start, StartRaises, Read,
           Reclaim, FetchRaises, Abort, Commit, Ack, Fails, Done, Crash, Restart, Stop, vars
    <3> QED
      BY <1>6, <3>1, <3>2 DEF SpanSecured
  <2> QED
    BY <2>1, <2>2
<1> QED
  BY <1>4, <1>5, <1>6 DEF SpanSecured

\* When nothing fails, no replica, batch or redelivery order loses the span of a
\* slow execution whose start was acknowledged before any completion was handed
\* out (handler.py 54-89, tail_sampler.py 67-73): every DELETE comes after the
\* HGETALL that read the span.
THEOREM SpanKept == Spec => SpanKeptInOrder
<1>1. Init => KeptInv
  BY TypeInit DEF Init, KeptInv, SpansInCommitOnly, MemoryStreamOnly, DeletesForCompletion,
     HandledIsBuffered, Acked, Streams, NoWork
<1>2. KeptInv /\ [Next]_vars => KeptInv'
  BY KeptStep
<1>3. KeptInv /\ StartsBefore => (NothingSampledAway => SpanSecured)
  <2> SUFFICES ASSUME KeptInv, StartsBefore, NothingSampledAway PROVE SpanSecured
    OBVIOUS
  <2>1. buffer > 0
    BY DEF KeptInv, StartsBefore, HandledIsBuffered
  <2>2. \A c \in Consumers : pc[c] # "delete"
    BY NobodyDeletes DEF KeptInv, StartsBefore
  <2> QED
    BY <2>1, <2>2 DEF SpanSecured
<1>4. KeptInv /\ [Next]_vars /\ (NothingSampledAway => SpanSecured)
          => (NothingSampledAway => SpanSecured)'
  <2> SUFFICES ASSUME KeptInv, [Next]_vars, NothingSampledAway => SpanSecured,
                      NothingSampledAway'
               PROVE  SpanSecured'
    OBVIOUS
  <2>1. TypeOK /\ TypeOK'
    BY TypeStep DEF KeptInv
  <2>2. NothingSampledAway
    BY <2>1, NothingSampledBefore
  <2> QED
    BY <2>2, SecuredStays
<1>5. SpanSecured => SpanSafe
  BY DEF SpanSecured, SpanSafe
<1> QED
  BY <1>1, <1>2, <1>3, <1>4, <1>5, PTL DEF Spec, SpanKeptInOrder
=============================================================================
