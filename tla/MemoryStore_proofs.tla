------------------------- MODULE MemoryStore_proofs -------------------------
(***************************************************************************)
(* Proofs about MemoryStore, for any items, searches and compressors, any  *)
(* batch size and top_k, and any number of faults.                         *)
(***************************************************************************)
EXTENDS MemoryStore, FiniteSetTheorems, TLAPS

\* What the clients and the compressors know about the rows.
IInv == TypeOK /\ RowFollowsClient /\ MarkedIsHeld /\ PastPublish

\* The tables, the bucket, the cache and the stream start empty.
LEMMA StartsEmpty == Init => IInv
BY MemoryConstants
   DEF Init, IInv, TypeOK, RowFollowsClient, MarkedIsHeld, PastPublish, Exists,
       Row, ClientPC, SearchPC, RunPC

\* An item's rank among the old ones is a natural number (compressor.py:55).
LEMMA RankIsNat == \A S \in SUBSET Items : Cardinality(S) + 1 \in Nat
BY MemoryConstants, FS_Subset, FS_CardinalityType

\* Store and forget, up to their commits and rollbacks (memory.py:103-176).
LEMMA ClientStep ==
    ASSUME IInv, NEW i \in Items, Store(i) \/ Forget(i) \/ Request(i) \/ RequestFails(i)
    PROVE  IInv'
<1> USE DEF IInv, Client, rowVars, searchVars, runVars
<1>1. CASE Store(i)
  <2>1. TypeOK'
    BY <1>1 DEF Store, TypeOK, RowFollowsClient, MarkedIsHeld, Exists, Row, ClientPC
  <2>2. RowFollowsClient'
    BY <1>1 DEF Store, TypeOK, RowFollowsClient, MarkedIsHeld, Exists, Row
  <2>3. MarkedIsHeld'
    BY <1>1 DEF Store, TypeOK, RowFollowsClient, MarkedIsHeld, Exists
  <2>4. PastPublish'
    BY <1>1 DEF Store, TypeOK, PastPublish
  <2> QED
    BY <2>1, <2>2, <2>3, <2>4
<1>2. CASE Forget(i)
  <2>1. TypeOK'
    BY <1>2 DEF Forget, TypeOK, RowFollowsClient, MarkedIsHeld, Exists, Row, ClientPC
  <2>2. RowFollowsClient'
    BY <1>2 DEF Forget, TypeOK, RowFollowsClient, MarkedIsHeld, Exists, Row
  <2>3. MarkedIsHeld'
    BY <1>2 DEF Forget, TypeOK, RowFollowsClient, MarkedIsHeld, Exists
  <2>4. PastPublish'
    BY <1>2 DEF Forget, TypeOK, PastPublish
  <2> QED
    BY <2>1, <2>2, <2>3, <2>4
<1>3. CASE Invalidate(i)
  <2>1. TypeOK'
    <3>1. client' \in [Items -> ClientPC]
      BY <1>3 DEF Invalidate, TypeOK, ClientPC
    <3>2. \A j \in Items : row[j] = "gone" <=> client'[j] = "forgotten"
      BY <1>3 DEF Invalidate, TypeOK
    <3> QED
      BY <1>3, <3>1, <3>2 DEF Invalidate, TypeOK
  <2>2. RowFollowsClient'
    BY <1>3 DEF Invalidate, TypeOK, RowFollowsClient, Exists
  <2>3. MarkedIsHeld'
    BY <1>3 DEF Invalidate, TypeOK, RowFollowsClient, MarkedIsHeld, Exists
  <2>4. PastPublish'
    BY <1>3 DEF Invalidate, TypeOK, PastPublish
  <2> QED
    BY <2>1, <2>2, <2>3, <2>4
<1>4. CASE PublishWritten(i)
  <2>1. TypeOK'
    BY <1>4 DEF PublishWritten, Announced, TypeOK, RowFollowsClient, MarkedIsHeld, Exists, Row, ClientPC
  <2>2. RowFollowsClient'
    BY <1>4 DEF PublishWritten, Announced, TypeOK, RowFollowsClient, MarkedIsHeld, Exists, Row
  <2>3. MarkedIsHeld'
    BY <1>4 DEF PublishWritten, Announced, TypeOK, RowFollowsClient, MarkedIsHeld, Exists
  <2>4. PastPublish'
    BY <1>4 DEF PublishWritten, Announced, TypeOK, PastPublish
  <2> QED
    BY <2>1, <2>2, <2>3, <2>4
<1>5. CASE CommitStore(i)
  <2>1. TypeOK'
    BY <1>5 DEF CommitStore, TypeOK, RowFollowsClient, MarkedIsHeld, Exists, Row, ClientPC
  <2>2. RowFollowsClient'
    BY <1>5 DEF CommitStore, TypeOK, RowFollowsClient, MarkedIsHeld, Exists, Row
  <2>3. MarkedIsHeld'
    BY <1>5 DEF CommitStore, TypeOK, RowFollowsClient, MarkedIsHeld, Exists
  <2>4. PastPublish'
    BY <1>5 DEF CommitStore, TypeOK, PastPublish
  <2> QED
    BY <2>1, <2>2, <2>3, <2>4
<1>6. CASE DeleteRow(i)
  <2>1. TypeOK'
    BY <1>6 DEF DeleteRow, TypeOK, RowFollowsClient, MarkedIsHeld, Exists, Row, ClientPC
  <2>2. RowFollowsClient'
    BY <1>6 DEF DeleteRow, TypeOK, RowFollowsClient, MarkedIsHeld, Exists, Row
  <2>3. MarkedIsHeld'
    BY <1>6 DEF DeleteRow, TypeOK, RowFollowsClient, MarkedIsHeld, Exists
  <2>4. PastPublish'
    BY <1>6 DEF DeleteRow, TypeOK, PastPublish
  <2> QED
    BY <2>1, <2>2, <2>3, <2>4
<1>7. CASE CommitForget(i)
  <2>1. TypeOK'
    BY <1>7 DEF CommitForget, TypeOK, RowFollowsClient, MarkedIsHeld, Exists, Row, ClientPC
  <2>2. RowFollowsClient'
    BY <1>7 DEF CommitForget, TypeOK, RowFollowsClient, MarkedIsHeld, Exists, Row
  <2>3. MarkedIsHeld'
    BY <1>7 DEF CommitForget, TypeOK, RowFollowsClient, MarkedIsHeld, Exists
  <2>4. PastPublish'
    BY <1>7 DEF CommitForget, TypeOK, PastPublish
  <2> QED
    BY <2>1, <2>2, <2>3, <2>4
<1>8. CASE RequestFails(i)
  <2>1. TypeOK'
    <3>0. \E l \in {"failed", "stored"} : client' = [client EXCEPT ![i] = l]
      BY <1>8 DEF RequestFails
    <3>1. client' \in [Items -> ClientPC] /\ faults' \in Nat
      <4>1. client' \in [Items -> ClientPC]
        BY <3>0 DEF TypeOK, ClientPC
      <4>2. Strike
        BY <1>8 DEF RequestFails
      <4>3. faults' \in Nat
        BY <4>2 DEF Strike, TypeOK
      <4> QED
        BY <4>1, <4>3
    <3>2. \A j \in Items : row[j] = "gone" <=> client'[j] = "forgotten"
      BY <1>8 DEF RequestFails, TypeOK
    <3> QED
      BY <1>8, <3>1, <3>2 DEF RequestFails, TypeOK
  <2>2. RowFollowsClient'
    BY <1>8 DEF RequestFails, TypeOK, RowFollowsClient, Exists
  <2>3. MarkedIsHeld'
    BY <1>8 DEF RequestFails, Strike, TypeOK, RowFollowsClient, MarkedIsHeld, Exists
  <2>4. PastPublish'
    BY <1>8 DEF RequestFails, Strike, TypeOK, PastPublish
  <2> QED
    BY <2>1, <2>2, <2>3, <2>4
<1> QED
  BY <1>1, <1>2, <1>3, <1>4, <1>5, <1>6, <1>7, <1>8 DEF Request

\* A search changes no row, but the cache (memory.py:179-257).
LEMMA SearchStep ==
    ASSUME IInv, NEW s \in Searches, Lookup(s) \/ Answer(s) \/ SearchFails(s)
    PROVE  IInv'
<1> USE DEF IInv, Search, rowVars, runVars
<1>1. CASE Lookup(s)
  <2>1. TypeOK'
    BY <1>1 DEF Lookup, TypeOK, RowFollowsClient, MarkedIsHeld, Exists, SearchPC
  <2>2. RowFollowsClient'
    BY <1>1 DEF Lookup, TypeOK, RowFollowsClient, MarkedIsHeld, Exists, Row
  <2>3. MarkedIsHeld'
    BY <1>1 DEF Lookup, TypeOK, RowFollowsClient, MarkedIsHeld, Exists
  <2>4. PastPublish'
    BY <1>1 DEF Lookup, TypeOK, PastPublish
  <2> QED
    BY <2>1, <2>2, <2>3, <2>4
<1>2. CASE SelectItems(s)
  <2>1. TypeOK'
    BY <1>2 DEF SelectItems, TypeOK, RowFollowsClient, MarkedIsHeld, Exists, SearchPC
  <2>2. RowFollowsClient'
    BY <1>2 DEF SelectItems, TypeOK, RowFollowsClient, MarkedIsHeld, Exists, Row
  <2>3. MarkedIsHeld'
    BY <1>2 DEF SelectItems, TypeOK, RowFollowsClient, MarkedIsHeld, Exists
  <2>4. PastPublish'
    BY <1>2 DEF SelectItems, TypeOK, PastPublish
  <2> QED
    BY <2>1, <2>2, <2>3, <2>4
<1>3. CASE SelectSummaries(s)
  <2>1. TypeOK'
    <3>1. PICK kept \in SUBSET found[s] : found' = [found EXCEPT ![s] = kept]
      BY <1>3 DEF SelectSummaries
    <3>2. search' \in [Searches -> SearchPC]
      BY <1>3 DEF SelectSummaries, TypeOK, SearchPC
    <3>3. found' \in [Searches -> SUBSET Items]
      BY <3>1 DEF TypeOK
    <3> QED
      BY <1>3, <3>2, <3>3 DEF SelectSummaries, TypeOK
  <2>2. RowFollowsClient'
    BY <1>3 DEF SelectSummaries, TypeOK, RowFollowsClient, MarkedIsHeld, Exists, Row
  <2>3. MarkedIsHeld'
    BY <1>3 DEF SelectSummaries, TypeOK, RowFollowsClient, MarkedIsHeld, Exists
  <2>4. PastPublish'
    BY <1>3 DEF SelectSummaries, TypeOK, PastPublish
  <2> QED
    BY <2>1, <2>2, <2>3, <2>4
<1>4. CASE SelectRows(s)
  <2>1. TypeOK'
    BY <1>4 DEF SelectRows, Exists, TypeOK, RowFollowsClient, MarkedIsHeld, Exists, SearchPC
  <2>2. RowFollowsClient'
    BY <1>4 DEF SelectRows, Exists, TypeOK, RowFollowsClient, MarkedIsHeld, Exists, Row
  <2>3. MarkedIsHeld'
    BY <1>4 DEF SelectRows, Exists, TypeOK, RowFollowsClient, MarkedIsHeld, Exists
  <2>4. PastPublish'
    BY <1>4 DEF SelectRows, Exists, TypeOK, PastPublish
  <2> QED
    BY <2>1, <2>2, <2>3, <2>4
<1>5. CASE SetCache(s)
  <2>1. TypeOK'
    <3>1. cache' \in SUBSET SUBSET Items /\ \A x, y \in cache' : x = y
      BY <1>5 DEF SetCache, TypeOK
    <3>2. /\ search' \in [Searches -> SearchPC]
          /\ found' \in [Searches -> SUBSET Items]
      BY <1>5 DEF SetCache, TypeOK, SearchPC
    <3> QED
      BY <1>5, <3>1, <3>2 DEF SetCache, TypeOK
  <2>2. RowFollowsClient'
    BY <1>5 DEF SetCache, TypeOK, RowFollowsClient, MarkedIsHeld, Exists, Row
  <2>3. MarkedIsHeld'
    BY <1>5 DEF SetCache, TypeOK, RowFollowsClient, MarkedIsHeld, Exists
  <2>4. PastPublish'
    BY <1>5 DEF SetCache, TypeOK, PastPublish
  <2> QED
    BY <2>1, <2>2, <2>3, <2>4
<1>6. CASE SearchFails(s)
  <2>1. TypeOK'
    <3>1. /\ search' \in [Searches -> SearchPC]
          /\ found' \in [Searches -> SUBSET Items]
          /\ faults' \in Nat
      BY <1>6 DEF SearchFails, Strike, TypeOK, SearchPC
    <3> QED
      BY <1>6, <3>1 DEF SearchFails, TypeOK
  <2>2. RowFollowsClient'
    BY <1>6 DEF SearchFails, Strike, TypeOK, RowFollowsClient, MarkedIsHeld, Exists, Row
  <2>3. MarkedIsHeld'
    BY <1>6 DEF SearchFails, Strike, TypeOK, RowFollowsClient, MarkedIsHeld, Exists
  <2>4. PastPublish'
    BY <1>6 DEF SearchFails, Strike, TypeOK, PastPublish
  <2> QED
    BY <2>1, <2>2, <2>3, <2>4
<1> QED
  BY <1>1, <1>2, <1>3, <1>4, <1>5, <1>6 DEF Answer

\* A compression marks rows only that it holds (compressor.py:35-107).
LEMMA CompressorStep ==
    ASSUME IInv, NEW k \in Compressors, Compress(k) \/ RunFails(k)
    PROVE  IInv'
<1> USE DEF IInv, Run, rowVars, searchVars
<1>1. CASE SelectBatch(k)
  <2>1. TypeOK'
    BY <1>1 DEF SelectBatch, Oldest, TypeOK, RowFollowsClient, MarkedIsHeld, Exists, Row, RunPC
  <2>2. RowFollowsClient'
    BY <1>1 DEF SelectBatch, Oldest, TypeOK, RowFollowsClient, MarkedIsHeld, Exists, Row
  <2>3. MarkedIsHeld'
    BY <1>1 DEF SelectBatch, Oldest, TypeOK, RowFollowsClient, MarkedIsHeld, Exists
  <2>4. PastPublish'
    BY <1>1 DEF SelectBatch, Oldest, TypeOK, PastPublish
  <2> QED
    BY <2>1, <2>2, <2>3, <2>4
<1>2. CASE Archive(k)
  <2>1. TypeOK'
    <3>1. run' \in [Compressors -> RunPC]
      BY <1>2 DEF Archive, TypeOK, RunPC
    <3>2. archived' \subseteq Items /\ faults' \in Nat
      BY <1>2 DEF Archive, Strike, TypeOK
    <3>3. \A l \in Compressors : marked'[l] # {} => run'[l] = "commit"
      BY <1>2 DEF Archive, TypeOK
    <3> QED
      BY <1>2, <3>1, <3>2, <3>3 DEF Archive, TypeOK
  <2>2. RowFollowsClient'
    BY <1>2 DEF Archive, Strike, TypeOK, RowFollowsClient, MarkedIsHeld, Exists, Row
  <2>3. MarkedIsHeld'
    BY <1>2 DEF Archive, Strike, TypeOK, RowFollowsClient, MarkedIsHeld, Exists
  <2>4. PastPublish'
    BY <1>2 DEF Archive, Strike, TypeOK, PastPublish
  <2> QED
    BY <2>1, <2>2, <2>3, <2>4
<1>3. CASE Mark(k)
  <2>1. TypeOK'
    BY <1>3 DEF Mark, Targets, TypeOK, RowFollowsClient, MarkedIsHeld, Exists, Row, RunPC
  <2>2. RowFollowsClient'
    BY <1>3 DEF Mark, Targets, TypeOK, RowFollowsClient, MarkedIsHeld, Exists, Row
  <2>3. MarkedIsHeld'
    BY <1>3 DEF Mark, Targets, TypeOK, RowFollowsClient, MarkedIsHeld, Exists
  <2>4. PastPublish'
    BY <1>3 DEF Mark, Targets, TypeOK, PastPublish
  <2> QED
    BY <2>1, <2>2, <2>3, <2>4
<1>4. CASE CommitRun(k)
  <2>1. TypeOK'
    <3>1. run' \in [Compressors -> RunPC]
      BY <1>4 DEF CommitRun, TypeOK, RunPC
    <3>2. /\ batch' \in [Compressors -> SUBSET Items]
          /\ marked' \in [Compressors -> SUBSET Items]
          /\ \A l \in Compressors : marked'[l] # {} => run'[l] = "commit"
      BY <1>4 DEF CommitRun, EndRun, TypeOK
    <3>3. row' \in [Items -> Row]
      BY <1>4 DEF CommitRun, TypeOK, Row
    <3>4. summaries' \subseteq SUBSET Items
      BY <1>4 DEF CommitRun, TypeOK
    <3>5. \A i \in Items : row'[i] = "gone" <=> client[i] = "forgotten"
      BY <1>4 DEF CommitRun, TypeOK, MarkedIsHeld
    <3> QED
      BY <1>4, <3>1, <3>2, <3>3, <3>4, <3>5 DEF CommitRun, TypeOK
  <2>2. RowFollowsClient'
    BY <1>4 DEF CommitRun, EndRun, TypeOK, RowFollowsClient, MarkedIsHeld, Exists, Row
  <2>3. MarkedIsHeld'
    BY <1>4 DEF CommitRun, EndRun, TypeOK, RowFollowsClient, MarkedIsHeld, Exists
  <2>4. PastPublish'
    BY <1>4 DEF CommitRun, EndRun, TypeOK, PastPublish
  <2> QED
    BY <2>1, <2>2, <2>3, <2>4
<1>5. CASE RunFails(k)
  <2>1. TypeOK'
    <3>1. run' \in [Compressors -> RunPC]
      BY <1>5 DEF RunFails, TypeOK, RunPC
    <3>2. /\ batch' \in [Compressors -> SUBSET Items]
          /\ marked' \in [Compressors -> SUBSET Items]
      BY <1>5 DEF RunFails, EndRun, TypeOK
    <3>3. \A l \in Compressors : marked'[l] # {} => run'[l] = "commit"
      BY <1>5 DEF RunFails, EndRun, TypeOK
    <3>4. faults' \in Nat
      BY <1>5 DEF RunFails, Strike, TypeOK
    <3> QED
      BY <1>5, <3>1, <3>2, <3>3, <3>4 DEF RunFails, TypeOK
  <2>2. RowFollowsClient'
    BY <1>5 DEF RunFails, EndRun, Strike, TypeOK, RowFollowsClient, MarkedIsHeld, Exists, Row
  <2>3. MarkedIsHeld'
    BY <1>5 DEF RunFails, EndRun, Strike, TypeOK, RowFollowsClient, MarkedIsHeld, Exists
  <2>4. PastPublish'
    BY <1>5 DEF RunFails, EndRun, Strike, TypeOK, PastPublish
  <2> QED
    BY <2>1, <2>2, <2>3, <2>4
<1> QED
  BY <1>1, <1>2, <1>3, <1>4, <1>5 DEF Compress

\* Every step keeps what the clients and the compressors know.
LEMMA InvariantStep == IInv /\ [Next]_vars => IInv'
<1> SUFFICES ASSUME IInv, [Next]_vars PROVE IInv'
  OBVIOUS
<1>1. CASE \E i \in Items : GrowsOld(i)
  <2> PICK i \in Items : GrowsOld(i)
    BY <1>1
  <2>1. age' \in [Items -> Nat]
    BY RankIsNat DEF GrowsOld, IInv, TypeOK
  <2> QED
    BY <2>1 DEF GrowsOld, IInv, TypeOK, RowFollowsClient, MarkedIsHeld, PastPublish,
                Exists, searchVars, runVars
<1>2. CASE CacheExpires
  BY <1>2 DEF CacheExpires, IInv, TypeOK, RowFollowsClient, MarkedIsHeld, PastPublish,
              Exists, rowVars, searchVars, runVars
<1>3. CASE UNCHANGED vars
  BY <1>3 DEF vars, IInv, TypeOK, RowFollowsClient, MarkedIsHeld, PastPublish,
              Exists, rowVars, searchVars, runVars
<1> QED
  BY <1>1, <1>2, <1>3, ClientStep, SearchStep, CompressorStep DEF Next

\* Neither a commit nor a rollback breaks what the clients and the compressors
\* know of the rows.
LEMMA InvariantHolds == Spec => []IInv
BY StartsEmpty, InvariantStep, PTL DEF Spec

\* Every variable keeps its type, and a deleted row stays deleted although a
\* compression may still hold its id (compressor.py:102-105).
THEOREM TypeCorrect == Spec => []TypeOK
<1>1. IInv => TypeOK
  BY DEF IInv
<1> QED
  BY InvariantHolds, <1>1, PTL

\* memory.py:128-137: a committed item has been announced.
THEOREM AnnouncedBeforeCommitted == Spec => []CommittedIsAnnounced
<1>1. IInv => CommittedIsAnnounced
  BY DEF IInv, TypeOK, Row, RowFollowsClient, PastPublish, CommittedIsAnnounced, Exists
<1> QED
  BY InvariantHolds, <1>1, PTL

\* compressor.py:56-106: an item marked compressed is among the originals of a
\* committed summary, however many compressions overlap.
THEOREM NothingLostToCompression == Spec => []CompressedHasSummary
<1>1. Init => CompressedHasSummary
  BY DEF Init, CompressedHasSummary
<1>2. IInv /\ CompressedHasSummary /\ [Next]_vars => CompressedHasSummary'
  <2> SUFFICES ASSUME IInv, CompressedHasSummary, [Next]_vars
               PROVE  CompressedHasSummary'
    OBVIOUS
  <2>1. CASE \E k \in Compressors : CommitRun(k)
    <3> PICK k \in Compressors : CommitRun(k)
      BY <2>1
    <3>1. ASSUME NEW i \in Items, row'[i] = "compressed"
          PROVE  \E b \in summaries' : i \in b
      <4>1. CASE i \in marked[k]
        <5>1. i \in batch[k] /\ batch[k] \in summaries'
          BY <4>1 DEF CommitRun, IInv, MarkedIsHeld
        <5> QED
          BY <5>1
      <4>2. CASE i \notin marked[k]
        BY <3>1, <4>2 DEF CommitRun, CompressedHasSummary
      <4> QED
        BY <4>1, <4>2
    <3> QED
      BY <3>1 DEF CompressedHasSummary
  <2>2. CASE \E i \in Items : CommitStore(i) \/ CommitForget(i)
    BY <2>2 DEF CommitStore, CommitForget, CompressedHasSummary, IInv, TypeOK
  <2>3. CASE UNCHANGED <<row, summaries>>
    BY <2>3 DEF CompressedHasSummary
  <2>4. \/ \E k \in Compressors : CommitRun(k)
        \/ \E i \in Items : CommitStore(i) \/ CommitForget(i)
        \/ UNCHANGED <<row, summaries>>
    BY DEF Next, vars, rowVars, Store, Forget, Request, RequestFails, GrowsOld, Invalidate,
           PublishWritten, DeleteRow, Lookup, Answer, SearchFails, SelectItems,
           SelectSummaries, SelectRows, SetCache, Search, Compress, RunFails, SelectBatch,
           Archive, Mark, CacheExpires
  <2> QED
    BY <2>1, <2>2, <2>3, <2>4
<1> QED
  BY InvariantHolds, <1>1, <1>2, PTL DEF Spec
=============================================================================
