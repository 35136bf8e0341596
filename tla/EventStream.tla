----------------------------- MODULE EventStream -----------------------------
(***************************************************************************)
(* GET /executions/{id}/stream (workflow routes/executions.py 172-238):    *)
(* all connections of one execution read the stream execution:{id} through *)
(* one consumer group, each under a consumer name of its own, and leave    *)
(* after a terminal event.  The gateway passes the bytes on.               *)
(*                                                                         *)
(* An entry is named by its position in the stream.                        *)
(***************************************************************************)
EXTENDS Naturals, Sequences

CONSTANTS
    Clients,       \* one connection each; a reconnection is another client
    MaxEvents,     \* bound: events published
    BatchSize      \* count of XREADGROUP

ASSUME StreamConstants == MaxEvents \in Nat /\ BatchSize \in Nat \ {0}

VARIABLES
    stream,     \* the events published
    group,      \* the group's last delivered entry
    created,    \* does the group exist?
    pending,    \* its pending entries list
    pc,         \* per client: where its generator is
    batch,      \* per client: entries read and not yet sent
    received    \* per client: entries it has been sent, in order

vars == <<stream, group, created, pending, pc, batch, received>>

Ending == {"completed", "paused"}
Event == {"started", "step"} \cup Ending

GeneratorPC == {"new", "read", "ack", "yield", "ended", "gone"}

TypeOK ==
    /\ stream \in Seq(Event) /\ Len(stream) <= MaxEvents
    /\ group \in 0 .. Len(stream)
    /\ created \in BOOLEAN /\ (~created => group = 0)
    /\ pending \subseteq 1 .. group
    /\ pc \in [Clients -> GeneratorPC]
    /\ batch \in [Clients -> SUBSET (1 .. group)]
    /\ \A c \in Clients : pc[c] \in {"ack", "yield"} => batch[c] # {}
    /\ \A c \in Clients : pc[c] = "ack" => batch[c] \subseteq pending
    /\ received \in [Clients -> Seq(1 .. group)]

Init ==
    /\ stream = <<>> /\ group = 0 /\ created = FALSE /\ pending = {}
    /\ pc = [c \in Clients |-> "new"]
    /\ batch = [c \in Clients |-> {}]
    /\ received = [c \in Clients |-> <<>>]

----------------------------------------------------------------------------

\* What Executor.run publishes next (the theorem ReportRefinement of
\* ExecutionEngine_proofs): a new run may start after any event, even after
\* "completed".  A cancelled execution publishes nothing.
Follows(e) ==
    {"started"} \cup IF e \in {"started", "step"} THEN {"step"} \cup Ending ELSE {}

Publish ==
    /\ Len(stream) < MaxEvents
    /\ \E e \in Follows(IF stream = <<>> THEN "none" ELSE stream[Len(stream)]) :
          stream' = Append(stream, e)
    /\ UNCHANGED <<group, created, pending, pc, batch, received>>

Goto(c, label) == pc' = [pc EXCEPT ![c] = label]

\* Faulty variant: the group of an earlier connection is made anew.
PositionReset == 0

\* XGROUP CREATE at "0": BUSYGROUP leaves an existing group where it is.
Position == IF created THEN group ELSE 0

\* The ownership 404, or an XGROUP CREATE that raises anything but BUSYGROUP,
\* makes no connection.
Connect(c) ==
    /\ pc[c] = "new"
    /\ created' = TRUE
    /\ group' = Position
    /\ Goto(c, "read")
    /\ UNCHANGED <<stream, pending, batch, received>>

LastRead == IF group + BatchSize < Len(stream) THEN group + BatchSize ELSE Len(stream)

\* Faulty variant: another consumer's pending entries are read again.
UnreadOrPending == (group + 1 .. LastRead) \cup pending

\* XREADGROUP with ">": entries no client has been given.
Unread == group + 1 .. LastRead

Read(c) ==
    /\ pc[c] = "read" /\ Unread # {}
    /\ batch' = [batch EXCEPT ![c] = Unread]
    /\ pending' = pending \cup Unread
    /\ group' = LastRead
    /\ Goto(c, "ack")
    /\ UNCHANGED <<stream, created, received>>

First(c) == CHOOSE i \in batch[c] : \A j \in batch[c] : i <= j

Ack(c) ==
    /\ pc[c] = "ack"
    /\ pending' = pending \ {First(c)}
    /\ Goto(c, "yield")
    /\ UNCHANGED <<stream, group, created, batch, received>>

\* Faulty variant: a pause does not end the stream.
IsTerminalUnlessPaused(e) == e = "completed"

IsTerminal(e) == e \in Ending

\* The entries behind a terminal one are dropped; they stay pending.
Yield(c) ==
    LET rest == batch[c] \ {First(c)}
        over == IsTerminal(stream[First(c)]) IN
    /\ pc[c] = "yield"
    /\ received' = [received EXCEPT ![c] = Append(@, First(c))]
    /\ batch' = [batch EXCEPT ![c] = IF over THEN {} ELSE rest]
    /\ Goto(c, IF over THEN "ended" ELSE IF rest = {} THEN "read" ELSE "ack")
    /\ UNCHANGED <<stream, group, created, pending>>

\* The client or the gateway hangs up, a time limit ends, or Redis raises: the
\* generator ends where it is.
Leave(c) ==
    /\ pc[c] \in {"read", "ack", "yield"}
    /\ Goto(c, "gone")
    /\ batch' = [batch EXCEPT ![c] = {}]
    /\ UNCHANGED <<stream, group, created, pending, received>>

Generate(c) == Read(c) \/ Ack(c) \/ Yield(c)

Next == Publish \/ \E c \in Clients : Connect(c) \/ Generate(c) \/ Leave(c)

Spec == Init /\ [][Next]_vars

\* A connected client's generator runs on.  Nothing makes clients stay.
FairSpec == Spec /\ \A c \in Clients : WF_vars(Generate(c))

----------------------------------------------------------------------------
(* Properties *)

Sent(c) == {received[c][n] : n \in 1 .. Len(received[c])}

\* executions.py 199-227: no event is sent twice, to one client or to two, and
\* each client is sent its events in the order of their publication.
SentOnceInOrder ==
    /\ \A c, d \in Clients : c # d => Sent(c) \cap Sent(d) = {}
    /\ \A c \in Clients : \A m, n \in 1 .. Len(received[c]) :
          m < n => received[c][m] < received[c][n]

Alone(c) == \A d \in Clients \ {c} : pc[d] = "new"

\* "Closes when a terminal event is received": a client that no other client has
\* ever read beside is sent everything up to the first terminal event, and ends.
LoneClientSeesEnd ==
    \A c \in Clients :
        (pc[c] = "read" /\ Alone(c) /\ \E n \in 1 .. Len(stream) : stream[n] \in Ending)
            ~> \/ ~Alone(c) \/ pc[c] = "gone"
               \/ pc[c] = "ended" /\ received[c] = [i \in 1 .. Len(received[c]) |-> i]

----------------------------------------------------------------------------
(* Strengthenings that make SentOnceInOrder inductive *)

Connected == \A c \in Clients : pc[c] # "new" => created

\* What it holds behind the entry it is about to send is not acknowledged.
RestPending == \A c \in Clients : pc[c] = "yield" => batch[c] \ {First(c)} \subseteq pending

\* What a connection holds are consecutive entries that nobody else holds.
HeldOnce ==
    /\ \A c \in Clients : \E a, b \in Nat : batch[c] = a .. b
    /\ \A c, d \in Clients : c # d => batch[c] \cap batch[d] = {}

\* They lie behind all it has sent, and nobody else has sent them.
HeldNotSent ==
    \A c, d \in Clients : \A i \in batch[c] : \A n \in 1 .. Len(received[d]) :
        IF c = d THEN received[d][n] < i ELSE received[d][n] # i
=============================================================================
