------------------------- MODULE EventStream_proofs -------------------------
(***************************************************************************)
(* Proofs about EventStream, for any clients, any number of events and any *)
(* batch size.                                                             *)
(***************************************************************************)
EXTENDS EventStream, SequenceTheorems, TLAPS

\* What a client has been sent stays a sequence of delivered entries when the
\* group delivers more.
LEMMA SeqOfLarger ==
    ASSUME NEW m \in Nat, NEW n \in Nat, m <= n, NEW s \in Seq(1 .. m)
    PROVE  s \in Seq(1 .. n)
BY SeqDef

\* Entries that XREADGROUP hands out (executions.py:212-218).
LEMMA ReadIsNew ==
    ASSUME TypeOK
    PROVE  /\ LastRead \in Nat /\ group \in Nat
           /\ group <= LastRead /\ LastRead <= Len(stream)
           /\ Unread = group + 1 .. LastRead
BY StreamConstants DEF TypeOK, LastRead, Unread

\* The entry that a connection acknowledges and sends next is its first.
LEMMA FirstIsLeast ==
    ASSUME NEW c \in Clients, NEW a \in Nat, NEW b \in Nat, batch[c] = a .. b, a <= b
    PROVE  First(c) = a /\ batch[c] \ {First(c)} = a + 1 .. b
<1>1. a \in batch[c] /\ \A j \in batch[c] : a <= j
  OBVIOUS
<1>2. First(c) \in batch[c] /\ \A j \in batch[c] : First(c) <= j
  BY <1>1 DEF First
<1>3. First(c) = a
  BY <1>1, <1>2
<1> QED
  BY <1>3

\* What connections hold and what they have been sent.
IInv == TypeOK /\ Connected /\ RestPending /\ HeldOnce /\ HeldNotSent /\ SentOnceInOrder

\* Before anybody connects.
LEMMA InvariantInit == Init => IInv
<1> SUFFICES ASSUME Init PROVE IInv
  OBVIOUS
<1>0. {} = 1 .. 0
  OBVIOUS
<1>1. TypeOK
  <2>1. stream \in Seq(Event) /\ Len(stream) = 0
    BY DEF Init
  <2>2. received \in [Clients -> Seq(1 .. 0)] /\ batch \in [Clients -> SUBSET (1 .. 0)]
    BY <1>0 DEF Init
  <2>3. group = 0 /\ pending \subseteq 1 .. group
    BY DEF Init
  <2>4. /\ pc \in [Clients -> GeneratorPC]
        /\ \A c \in Clients : pc[c] = "new"
    BY DEF Init, GeneratorPC
  <2>5. created = FALSE
    BY DEF Init
  <2>6. /\ received \in [Clients -> Seq(1 .. group)]
        /\ batch \in [Clients -> SUBSET (1 .. group)]
    BY <2>2, <2>3
  <2>7. Len(stream) <= MaxEvents /\ group \in 0 .. Len(stream)
    BY <2>1, <2>3, StreamConstants
  <2> QED
    BY <2>1, <2>3, <2>4, <2>5, <2>6, <2>7 DEF TypeOK
<1>2. \A c \in Clients : batch[c] = 1 .. 0
  BY <1>0 DEF Init
<1>3. HeldOnce
  BY <1>2 DEF HeldOnce, Init
<1>4. HeldNotSent /\ SentOnceInOrder /\ Connected /\ RestPending
  BY DEF Init, HeldNotSent, SentOnceInOrder, Sent, Connected, RestPending
<1> QED
  BY <1>1, <1>3, <1>4 DEF IInv

\* The invariant but for the types speaks of batch and received alone.
LEMMA Untouched ==
    ASSUME IInv, UNCHANGED <<batch, received>>
    PROVE  HeldOnce' /\ HeldNotSent' /\ SentOnceInOrder'
<1>1. batch' = batch /\ received' = received
  OBVIOUS
<1>2. HeldOnce'
  BY <1>1 DEF IInv, HeldOnce
<1>3. HeldNotSent'
  BY <1>1 DEF IInv, HeldNotSent
<1>4. SentOnceInOrder'
  <2>1. \A c \in Clients : Sent(c)' = Sent(c)
    BY <1>1 DEF Sent
  <2> QED
    BY <1>1, <2>1 DEF IInv, SentOnceInOrder
<1> QED
  BY <1>2, <1>3, <1>4

\* The execution goes on, and connections come.
LEMMA OutsideStep ==
    ASSUME IInv, Publish \/ \E c \in Clients : Connect(c) \/ Ack(c)
    PROVE  IInv'
<1>1. UNCHANGED <<batch, received>>
  BY DEF Publish, Connect, Ack
<1>2. CASE Publish
  <2>1. PICK e \in Event : stream' = Append(stream, e)
    BY <1>2 DEF Publish, Follows, Event, Ending
  <2>2. stream' \in Seq(Event) /\ Len(stream') = Len(stream) + 1
    BY <2>1 DEF IInv, TypeOK
  <2>3. Len(stream') <= MaxEvents
    BY <1>2, <2>2, StreamConstants DEF Publish, IInv, TypeOK
  <2>4. TypeOK'
    BY <1>2, <2>2, <2>3 DEF Publish, IInv, TypeOK
  <2> QED
    BY <1>1, <1>2, <2>4, Untouched DEF Publish, IInv, Connected, RestPending, First
<1>3. CASE \E c \in Clients : Connect(c)
  <2>1. group' = group
    BY <1>3 DEF Connect, Position, IInv, TypeOK
  <2>2. TypeOK'
    BY <1>3, <2>1 DEF Connect, Goto, IInv, TypeOK, GeneratorPC
  <2> QED
    BY <1>1, <1>3, <2>2, Untouched
       DEF Connect, Goto, IInv, TypeOK, Connected, RestPending, First
<1>4. ASSUME NEW c \in Clients, Ack(c) PROVE IInv'
  <2>1. \A d \in Clients : pc'[d] = "ack" => d # c /\ First(c) \notin batch[d]
    <3>1. PICK a \in Nat, b \in Nat : batch[c] = a .. b
      BY DEF IInv, HeldOnce
    <3>2. a <= b
      BY <1>4, <3>1 DEF Ack, IInv, TypeOK
    <3>3. First(c) \in batch[c]
      BY <3>1, <3>2, FirstIsLeast
    <3> QED
      BY <1>4, <3>3 DEF Ack, Goto, IInv, TypeOK, HeldOnce
  <2>3. RestPending'
    <3>1. PICK a \in Nat, b \in Nat : batch[c] = a .. b
      BY DEF IInv, HeldOnce
    <3>2. a <= b
      BY <1>4, <3>1 DEF Ack, IInv, TypeOK
    <3>3. First(c) \in batch[c]
      BY <3>1, <3>2, FirstIsLeast
    <3>4. \A d \in Clients : First(d)' = First(d) /\ batch'[d] = batch[d]
      BY <1>1 DEF First
    <3>5. pending' = pending \ {First(c)} /\ batch[c] \subseteq pending
      BY <1>4 DEF Ack, IInv, TypeOK
    <3>6. \A d \in Clients \ {c} : pc'[d] = pc[d] /\ First(c) \notin batch[d]
      BY <1>4, <3>3 DEF Ack, Goto, IInv, TypeOK, HeldOnce
    <3> QED
      BY <3>4, <3>5, <3>6 DEF IInv, RestPending
  <2>2. TypeOK'
    BY <1>4, <2>1 DEF Ack, Goto, IInv, TypeOK, GeneratorPC
  <2> QED
    BY <1>1, <1>4, <2>2, <2>3, Untouched DEF Ack, Goto, IInv, TypeOK, Connected
<1> QED
  BY <1>2, <1>3, <1>4

\* Entries read are behind all that anybody holds or was sent.
LEMMA ReadStep == ASSUME IInv, NEW c \in Clients, Read(c) PROVE IInv'
<1>1. /\ LastRead \in Nat /\ group \in Nat /\ group < LastRead
      /\ LastRead <= Len(stream) /\ Unread = group + 1 .. LastRead
  <2>1. Unread # {}
    BY DEF Read
  <2> QED
    BY <2>1, ReadIsNew DEF IInv
<1>2. /\ batch' = [batch EXCEPT ![c] = group + 1 .. LastRead]
      /\ group' = LastRead /\ received' = received /\ stream' = stream
      /\ pending' = pending \cup (group + 1 .. LastRead)
      /\ pc' = [pc EXCEPT ![c] = "ack"] /\ created' = created
      /\ pc[c] = "read"
  BY <1>1 DEF Read, Goto
<1>3. \A d \in Clients : batch[d] \subseteq 1 .. group
  BY DEF IInv, TypeOK
<1>4. \A d \in Clients : received[d] \in Seq(1 .. group)
  BY DEF IInv, TypeOK
<1>5. TypeOK'
  <2>1. ASSUME NEW d \in Clients PROVE received[d] \in Seq(1 .. LastRead)
    <3>1. group <= LastRead
      BY <1>1
    <3> QED
      BY <1>1, <1>4, <3>1, SeqOfLarger
  <2>2. received' \in [Clients -> Seq(1 .. group')]
    BY <1>2, <2>1 DEF IInv, TypeOK
  <2>3. batch' \in [Clients -> SUBSET (1 .. group')]
    BY <1>1, <1>2, <1>3 DEF IInv, TypeOK
  <2>4. created
    BY <1>2 DEF IInv, Connected
  <2>5. pending' \subseteq 1 .. group'
    BY <1>1, <1>2 DEF IInv, TypeOK
  <2>6. \A d \in Clients : /\ pc'[d] \in {"ack", "yield"} => batch'[d] # {}
                           /\ pc'[d] = "ack" => batch'[d] \subseteq pending'
    BY <1>1, <1>2 DEF IInv, TypeOK
  <2>7. pc' \in [Clients -> GeneratorPC]
    BY <1>2 DEF IInv, TypeOK, GeneratorPC
  <2>8. stream' \in Seq(Event) /\ Len(stream') <= MaxEvents /\ group' \in 0 .. Len(stream')
    BY <1>1, <1>2 DEF IInv, TypeOK
  <2> QED
    BY <1>2, <2>2, <2>3, <2>4, <2>5, <2>6, <2>7, <2>8 DEF IInv, TypeOK
<1>6. HeldOnce'
  BY <1>1, <1>2, <1>3 DEF IInv, TypeOK, HeldOnce
<1>7. HeldNotSent'
  <2>1. \A d \in Clients : \A n \in 1 .. Len(received[d]) : received[d][n] \in 1 .. group
    BY <1>4, ElementOfSeq
  <2> QED
    BY <1>1, <1>2, <2>1 DEF IInv, TypeOK, HeldNotSent
<1>8. SentOnceInOrder'
  <2>1. \A d \in Clients : Sent(d)' = Sent(d)
    BY <1>2 DEF Sent
  <2> QED
    BY <1>2, <2>1 DEF IInv, SentOnceInOrder
<1>9. Connected'
  BY <1>2 DEF IInv, TypeOK, Connected
<1>10. RestPending'
  <2>1. \A d \in Clients : pc'[d] = "yield" => pc[d] = "yield" /\ batch'[d] = batch[d]
    BY <1>2 DEF IInv, TypeOK
  <2>2. \A d \in Clients : pc'[d] = "yield" => First(d)' = First(d)
    BY <2>1 DEF First
  <2> QED
    BY <1>2, <2>1, <2>2 DEF IInv, RestPending
<1> QED
  BY <1>5, <1>6, <1>7, <1>8, <1>9, <1>10 DEF IInv

\* The first entry held is sent; the rest stay, or are dropped behind a terminal
\* event (executions.py:222-230).
LEMMA YieldStep == ASSUME IInv, NEW c \in Clients, Yield(c) PROVE IInv'
<1>1. PICK a \in Nat, b \in Nat : batch[c] = a .. b
  BY DEF IInv, HeldOnce
<1>2. a <= b
  <2>1. batch[c] # {}
    BY DEF Yield, IInv, TypeOK
  <2> QED
    BY <1>1, <2>1
<1>3. First(c) = a /\ batch[c] \ {First(c)} = a + 1 .. b
  BY <1>1, <1>2, FirstIsLeast
<1>4. a \in 1 .. group /\ a \in batch[c] /\ group \in Nat
  <2>1. a \in batch[c]
    BY <1>1, <1>2
  <2> QED
    BY <2>1 DEF IInv, TypeOK
<1>5. PICK rest \in {a + 1 .. b, {}} : batch' = [batch EXCEPT ![c] = rest]
  BY <1>3 DEF Yield
<1>6. /\ received' = [received EXCEPT ![c] = Append(received[c], a)]
      /\ group' = group /\ stream' = stream /\ pending' = pending /\ created' = created
      /\ pc[c] = "yield"
  BY <1>3 DEF Yield
<1>7. rest \subseteq batch[c] \ {a}
  BY <1>1, <1>5
<1>8. \A d \in Clients : batch'[d] \subseteq batch[d]
  BY <1>5, <1>7 DEF IInv, TypeOK
<1>9. TypeOK'
  <2>1. received' \in [Clients -> Seq(1 .. group)]
    BY <1>4, <1>6 DEF IInv, TypeOK
  <2>2. batch' \in [Clients -> SUBSET (1 .. group)]
    BY <1>5, <1>7 DEF IInv, TypeOK
  <2>3. \E l \in {"ended", "read", "ack"} :
            pc' = [pc EXCEPT ![c] = l] /\ (l = "ack" => batch'[c] # {})
    BY DEF Yield, Goto, IInv, TypeOK
  <2>4. pc' \in [Clients -> GeneratorPC]
    BY <2>3 DEF IInv, TypeOK, GeneratorPC
  <2>5. \A d \in Clients : pc'[d] \in {"ack", "yield"} => batch'[d] # {}
    BY <1>5, <2>3 DEF IInv, TypeOK
  <2>6. \A d \in Clients : pc'[d] = "ack" => batch'[d] \subseteq pending
    <3>1. batch'[c] \subseteq pending
      BY <1>3, <1>5, <1>6, <1>7 DEF IInv, TypeOK, RestPending
    <3> QED
      BY <1>5, <2>3, <3>1 DEF IInv, TypeOK
  <2> QED
    BY <1>6, <2>1, <2>2, <2>4, <2>5, <2>6 DEF IInv, TypeOK
<1>10. HeldOnce'
  <2>1. rest = a + 1 .. b \/ rest = 1 .. 0
    BY <1>5
  <2>2. \E x, y \in Nat : rest = x .. y
    <3>1. a + 1 \in Nat /\ b \in Nat /\ 1 \in Nat /\ 0 \in Nat
      OBVIOUS
    <3> QED
      BY <2>1, <3>1
  <2>3. \A d \in Clients : \E x, y \in Nat : batch'[d] = x .. y
    BY <1>5, <2>2 DEF IInv, TypeOK, HeldOnce
  <2>4. \A d, e \in Clients : d # e => batch'[d] \cap batch'[e] = {}
    BY <1>8 DEF IInv, HeldOnce
  <2> QED
    BY <2>3, <2>4 DEF HeldOnce
<1>11. Len(received'[c]) = Len(received[c]) + 1 /\ Len(received[c]) \in Nat
       /\ \A n \in 1 .. Len(received[c]) + 1 :
              received'[c][n] = IF n <= Len(received[c]) THEN received[c][n] ELSE a
  BY <1>4, <1>6 DEF IInv, TypeOK
<1>12. \A d \in Clients \ {c} : received'[d] = received[d]
  BY <1>6 DEF IInv, TypeOK
<1>13. \A n \in 1 .. Len(received[c]) : received[c][n] < a
  BY <1>4 DEF IInv, HeldNotSent
<1>14. \A d \in Clients \ {c} : a \notin batch[d]
  BY <1>4 DEF IInv, HeldOnce
<1>15. HeldNotSent'
  <2> SUFFICES ASSUME NEW e \in Clients, NEW d \in Clients, NEW i \in batch'[e],
                      NEW n \in 1 .. Len(received'[d])
               PROVE  IF e = d THEN received'[d][n] < i ELSE received'[d][n] # i
    BY DEF HeldNotSent
  <2>1. i \in batch[e]
    BY <1>8
  <2>2. CASE d # c
    BY <1>12, <2>1, <2>2 DEF IInv, HeldNotSent
  <2>3. CASE d = c /\ n <= Len(received[c])
    BY <1>11, <2>1, <2>3 DEF IInv, HeldNotSent
  <2>4. CASE d = c /\ n = Len(received[c]) + 1
    <3>1. e = c => i \in a + 1 .. b
      BY <1>5 DEF IInv, TypeOK
    <3> QED
      BY <1>4, <1>11, <1>14, <2>1, <2>4, <3>1
  <2> QED
    BY <1>11, <2>2, <2>3, <2>4
<1>16. SentOnceInOrder'
  <2>1. \A d \in Clients \ {c} : Sent(d)' = Sent(d)
    BY <1>12 DEF Sent
  <2>2. Sent(c)' = Sent(c) \cup {a}
    <3>1. Sent(c)' \subseteq Sent(c) \cup {a}
      BY <1>11 DEF Sent
    <3>2. Sent(c) \subseteq Sent(c)'
      <4>1. ASSUME NEW n \in 1 .. Len(received[c])
            PROVE  n \in 1 .. Len(received'[c]) /\ received'[c][n] = received[c][n]
        BY <1>11
      <4> QED
        BY <4>1 DEF Sent
    <3>3. a \in Sent(c)'
      <4>1. /\ Len(received'[c]) \in 1 .. Len(received'[c])
            /\ received'[c][Len(received'[c])] = a
        BY <1>11
      <4> QED
        BY <4>1 DEF Sent
    <3> QED
      BY <3>1, <3>2, <3>3
  <2>3. \A d \in Clients \ {c} : a \notin Sent(d)
    BY <1>4 DEF IInv, HeldNotSent, Sent
  <2>4. \A d, e \in Clients : d # e => Sent(d)' \cap Sent(e)' = {}
    BY <2>1, <2>2, <2>3 DEF IInv, SentOnceInOrder
  <2>5. ASSUME NEW d \in Clients, NEW m \in 1 .. Len(received'[d]),
               NEW n \in 1 .. Len(received'[d]), m < n
        PROVE  received'[d][m] < received'[d][n]
    <3>1. CASE d # c
      BY <1>12, <2>5, <3>1 DEF IInv, SentOnceInOrder
    <3>2. CASE d = c
      BY <1>11, <1>13, <2>5, <3>2 DEF IInv, SentOnceInOrder
    <3> QED
      BY <3>1, <3>2
  <2> QED
    BY <2>4, <2>5 DEF SentOnceInOrder
<1>17. Connected'
  BY <1>6 DEF Yield, Goto, IInv, TypeOK, Connected
<1>18. RestPending'
  <2>1. \A d \in Clients : pc'[d] = "yield" => pc[d] = "yield" /\ d # c
    BY <1>6 DEF Yield, Goto, IInv, TypeOK
  <2>2. \A d \in Clients \ {c} : batch'[d] = batch[d]
    BY <1>5 DEF IInv, TypeOK
  <2>3. \A d \in Clients \ {c} : First(d)' = First(d)
    BY <2>2 DEF First
  <2> QED
    BY <1>6, <2>1, <2>2, <2>3 DEF IInv, RestPending
<1> QED
  BY <1>9, <1>10, <1>15, <1>16, <1>17, <1>18 DEF IInv

\* A connection that ends drops what it holds.
LEMMA LeaveStep == ASSUME IInv, NEW c \in Clients, Leave(c) PROVE IInv'
<1>1. /\ batch' = [batch EXCEPT ![c] = {}] /\ received' = received
      /\ pc' = [pc EXCEPT ![c] = "gone"]
      /\ UNCHANGED <<stream, group, created, pending>>
  BY DEF Leave, Goto
<1>2. TypeOK'
  BY <1>1 DEF IInv, TypeOK, GeneratorPC
<1>3. {} = 1 .. 0
  OBVIOUS
<1>4. HeldOnce'
  BY <1>1, <1>3 DEF IInv, TypeOK, HeldOnce
<1>5. HeldNotSent'
  BY <1>1 DEF IInv, TypeOK, HeldNotSent
<1>6. SentOnceInOrder'
  <2>1. \A d \in Clients : Sent(d)' = Sent(d)
    BY <1>1 DEF Sent
  <2> QED
    BY <1>1, <2>1 DEF IInv, SentOnceInOrder
<1>7. Connected'
  BY <1>1 DEF Leave, IInv, TypeOK, Connected
<1>8. RestPending'
  <2>1. \A d \in Clients : pc'[d] = "yield" => pc[d] = "yield" /\ batch'[d] = batch[d]
    BY <1>1 DEF IInv, TypeOK
  <2>2. \A d \in Clients : pc'[d] = "yield" => First(d)' = First(d)
    BY <2>1 DEF First
  <2> QED
    BY <1>1, <2>1, <2>2 DEF IInv, RestPending
<1> QED
  BY <1>2, <1>4, <1>5, <1>6, <1>7, <1>8 DEF IInv

\* Connections share out the entries in every state.
LEMMA InvariantHolds == Spec => []IInv
<1>1. IInv /\ [Next]_vars => IInv'
  <2> SUFFICES ASSUME IInv, [Next]_vars PROVE IInv'
    OBVIOUS
  <2>1. CASE UNCHANGED vars
    <3>1. UNCHANGED <<batch, received>>
      BY <2>1 DEF vars
    <3> QED
      BY <2>1, <3>1, Untouched DEF vars, IInv, TypeOK, Connected, RestPending, First
  <2> QED
    BY <2>1, OutsideStep, ReadStep, YieldStep, LeaveStep DEF Next, Generate
<1> QED
  BY InvariantInit, <1>1, PTL DEF Spec

\* Every variable keeps its type: what a connection holds was delivered to the
\* group, and what it is about to acknowledge is pending (executions.py:212-227).
THEOREM TypeCorrect == Spec => []TypeOK
<1>1. IInv => TypeOK
  BY DEF IInv
<1> QED
  BY InvariantHolds, <1>1, PTL

\* executions.py:199-227: however many connections share the group and wherever
\* they end, no event is sent twice and each gets its events in order.
THEOREM NothingTwice == Spec => []SentOnceInOrder
<1>1. IInv => SentOnceInOrder
  BY DEF IInv
<1> QED
  BY InvariantHolds, <1>1, PTL
=============================================================================
