----------------------------- MODULE MemoryStore -----------------------------
(***************************************************************************)
(* The memory service for one tenant: store and forget (routes/memory.py), *)
(* search through the query cache (retrieval/searcher.py), and the daily   *)
(* compression (compression/compressor.py, tasks/compress.py).             *)
(*                                                                         *)
(* Every search asks one query that all items match: it stands for one key *)
(* of the query cache.  Scores are abstracted: reranking keeps any top_k   *)
(* of the candidates.  An item's retention_policy is not "forever".        *)
(*                                                                         *)
(* A request's session commits when its dependency closes, after the       *)
(* response has been sent (dependencies.py 98-113).                        *)
(***************************************************************************)
EXTENDS Naturals, FiniteSets

CONSTANTS
    Items,        \* memory items that clients may store and forget
    Searches,     \* concurrent search requests
    Compressors,  \* concurrent runs of memory.compress
    BatchSize,    \* compression_batch_size
    TopK,         \* top_k of the searches
    MaxFaults     \* bound: faults of any kind

ASSUME MemoryConstants ==
    /\ IsFiniteSet(Items)
    /\ BatchSize \in Nat \ {0} /\ TopK \in Nat /\ MaxFaults \in Nat

VARIABLES
    row,        \* per item: its committed row in memory_items
    age,        \* per item: 0, or its rank among the items past the threshold
    client,     \* per item: where the request that stores or forgets it is
    cache,      \* {} or {the result cached for the query}
    search,     \* per search: where its handler is
    found,      \* per search: items it has selected
    run,        \* per compressor: where compress_tenant is
    batch,      \* per compressor: the items it selected
    marked,     \* per compressor: rows its UPDATE has changed and locked
    summaries,  \* original_ids of the committed summaries
    archived,   \* items in S3
    announced,  \* items with a MemoryWrittenEvent
    faults      \* failed calls and processes that died

rowVars == <<row, age, summaries>>
searchVars == <<search, found>>
runVars == <<run, batch, marked>>
vars == <<rowVars, client, cache, searchVars, runVars, archived, announced, faults>>

Row == {"absent", "plain", "compressed", "gone"}
ClientPC == {"new", "store: invalidate", "store: publish", "store: commit", "failed",
             "stored", "forget: delete", "forget: invalidate", "forget: commit", "forgotten"}
SearchPC == {"idle", "items", "summaries", "rows", "cache"}
RunPC == {"idle", "archive", "update", "commit"}

TypeOK ==
    /\ row \in [Items -> Row]
    /\ age \in [Items -> Nat]
    /\ client \in [Items -> ClientPC]
    /\ \A i \in Items : row[i] = "gone" <=> client[i] = "forgotten"
    /\ cache \in SUBSET SUBSET Items /\ \A a, b \in cache : a = b
    /\ search \in [Searches -> SearchPC] /\ found \in [Searches -> SUBSET Items]
    /\ run \in [Compressors -> RunPC]
    /\ batch \in [Compressors -> SUBSET Items]
    /\ marked \in [Compressors -> SUBSET Items]
    /\ \A k \in Compressors : marked[k] # {} => run[k] = "commit"
    /\ summaries \subseteq SUBSET Items
    /\ archived \subseteq Items /\ announced \subseteq Items
    /\ faults \in Nat

Init ==
    /\ row = [i \in Items |-> "absent"]
    /\ age = [i \in Items |-> 0]
    /\ client = [i \in Items |-> "new"]
    /\ cache = {}
    /\ search = [s \in Searches |-> "idle"] /\ found = [s \in Searches |-> {}]
    /\ run = [k \in Compressors |-> "idle"]
    /\ batch = [k \in Compressors |-> {}] /\ marked = [k \in Compressors |-> {}]
    /\ summaries = {} /\ archived = {} /\ announced = {}
    /\ faults = 0

Strike == faults < MaxFaults /\ faults' = faults + 1

Exists(i) == row[i] \in {"plain", "compressed"}

----------------------------------------------------------------------------
(* Store and forget *)

Client(i, from, to) ==
    /\ client[i] = from
    /\ client' = [client EXCEPT ![i] = to]

\* store_memory: embed, INSERT, invalidate, publish, respond, commit.
Store(i) ==
    /\ Client(i, "new", "store: invalidate")
    /\ UNCHANGED <<rowVars, cache, searchVars, runVars, archived, announced, faults>>

\* _invalidate_query_cache, while the transaction is open.  For the one key, the
\* SCAN and the DELETEs take effect at its DELETE, or where the SCAN missed it.
Invalidate(i) ==
    /\ \/ Client(i, "store: invalidate", "store: publish")
       \/ Client(i, "forget: invalidate", "forget: commit")
    /\ cache' = {}
    /\ UNCHANGED <<rowVars, searchVars, runVars, archived, announced, faults>>

Announced(i) == announced' = announced \cup {i}

PublishWritten(i) ==
    /\ Client(i, "store: publish", "store: commit")
    /\ Announced(i)
    /\ UNCHANGED <<rowVars, cache, searchVars, runVars, archived, faults>>

CommitStore(i) ==
    /\ Client(i, "store: commit", "stored")
    /\ row' = [row EXCEPT ![i] = "plain"]
    /\ UNCHANGED <<age, summaries, cache, searchVars, runVars, archived, announced, faults>>

\* The SELECT of forget_memory finds the row.
Forget(i) ==
    /\ Exists(i)
    /\ Client(i, "stored", "forget: delete")
    /\ UNCHANGED <<rowVars, cache, searchVars, runVars, archived, announced, faults>>

\* DELETE waits for a compressor that has updated the row.
DeleteRow(i) ==
    /\ Client(i, "forget: delete", "forget: invalidate")
    /\ \A k \in Compressors : i \notin marked[k]
    /\ UNCHANGED <<rowVars, cache, searchVars, runVars, archived, announced, faults>>

CommitForget(i) ==
    /\ Client(i, "forget: commit", "forgotten")
    /\ row' = [row EXCEPT ![i] = "gone"]
    /\ UNCHANGED <<age, summaries, cache, searchVars, runVars, archived, announced, faults>>

\* The embedding, Redis, PostgreSQL or the process fails: the transaction rolls
\* back.  The commit may fail after a 201 or 204.
RequestFails(i) ==
    /\ \/ /\ client[i] \in {"store: invalidate", "store: publish", "store: commit"}
          /\ client' = [client EXCEPT ![i] = "failed"]
       \/ /\ client[i] \in {"forget: delete", "forget: invalidate", "forget: commit"}
          /\ client' = [client EXCEPT ![i] = "stored"]
    /\ Strike
    /\ UNCHANGED <<rowVars, cache, searchVars, runVars, archived, announced>>

----------------------------------------------------------------------------
(* Search *)

Search(s, from, to) ==
    /\ search[s] = from
    /\ search' = [search EXCEPT ![s] = to]
    /\ UNCHANGED <<rowVars, client, runVars, archived, announced>>

\* Faulty variant: a hit writes the answer back, so that its TTL starts anew.
LookupRefreshes(s) ==
    /\ \/ cache = {} /\ Search(s, "idle", "items") /\ UNCHANGED found
       \/ \E r \in cache : Search(s, "idle", "cache") /\ found' = [found EXCEPT ![s] = r]
    /\ UNCHANGED <<cache, faults>>

\* A hit is answered at once.
Lookup(s) ==
    /\ cache = {}
    /\ Search(s, "idle", "items")
    /\ UNCHANGED <<cache, found, faults>>

\* Searcher.search on memory_items, per embedding model.
SelectItems(s) ==
    /\ Search(s, "items", "summaries")
    /\ found' = [found EXCEPT ![s] = {i \in Items : row[i] = "plain"}]
    /\ UNCHANGED <<cache, faults>>

AtMost(n, limit) == IF n < limit THEN n ELSE limit

\* Searcher.search on memory_summaries, and rerank: each summary kept takes a
\* place among the top_k.
SelectSummaries(s) ==
    /\ Search(s, "summaries", "rows")
    /\ \E kept \in SUBSET found[s], n \in 0 .. Cardinality(summaries) :
          /\ Cardinality(kept) + n
                = AtMost(Cardinality(found[s]) + Cardinality(summaries), TopK)
          /\ found' = [found EXCEPT ![s] = kept]
    /\ UNCHANGED <<cache, faults>>

\* search_memory reads the candidates' rows from memory_items: summaries, and
\* items deleted since, drop out.
SelectRows(s) ==
    /\ Search(s, "rows", "cache")
    /\ found' = [found EXCEPT ![s] = {i \in @ : Exists(i)}]
    /\ UNCHANGED <<cache, faults>>

SetCache(s) ==
    /\ Search(s, "cache", "idle")
    /\ cache' = {found[s]}
    /\ found' = [found EXCEPT ![s] = {}]
    /\ UNCHANGED faults

SearchFails(s) ==
    /\ search[s] # "idle"
    /\ Search(s, search[s], "idle")
    /\ Strike
    /\ found' = [found EXCEPT ![s] = {}]
    /\ UNCHANGED cache

\* query_cache_ttl_seconds have passed.
CacheExpires ==
    /\ cache # {}
    /\ cache' = {}
    /\ UNCHANGED <<rowVars, client, searchVars, runVars, archived, announced, faults>>

----------------------------------------------------------------------------
(* Compression *)

Run(k, from, to) ==
    /\ run[k] = from
    /\ run' = [run EXCEPT ![k] = to]
    /\ UNCHANGED <<client, cache, searchVars, announced>>

\* A row's created_at falls behind the threshold; rows do so in their order.
GrowsOld(i) ==
    /\ Exists(i) /\ age[i] = 0
    /\ age' = [age EXCEPT ![i] = Cardinality({j \in Items : age[j] > 0}) + 1]
    /\ UNCHANGED <<row, summaries, client, cache, searchVars, runVars, archived,
                   announced, faults>>

\* Faulty variant: without compressed.is_(False).
EligibleAgain(i) == Exists(i) /\ age[i] > 0

Eligible(i) == row[i] = "plain" /\ age[i] > 0

\* The oldest BatchSize eligible items.
Oldest ==
    {i \in Items : Eligible(i) /\
        Cardinality({j \in Items : Eligible(j) /\ age[j] < age[i]}) < BatchSize}

\* The SELECT; the language model and the embedding of its answer come next.
SelectBatch(k) ==
    /\ Oldest # {}
    /\ Run(k, "idle", "archive")
    /\ batch' = [batch EXCEPT ![k] = Oldest]
    /\ UNCHANGED <<rowVars, marked, archived, faults>>

\* archive_items; an exception is logged and compression goes on.
Archive(k) ==
    /\ Run(k, "archive", "update")
    /\ \/ archived' = archived \cup batch[k] /\ UNCHANGED faults
       \/ UNCHANGED archived /\ Strike
    /\ UNCHANGED <<rowVars, batch, marked>>

\* Faulty variant: UPDATE by the conditions of the SELECT.
TargetsByThreshold(k) == {i \in Items : Eligible(i)}

\* Faulty variant: session.merge writes deleted rows again.
TargetsMerged(k) == batch[k]

\* UPDATE by id, on the rows that still exist.
Targets(k) == {i \in batch[k] : Exists(i)}

\* It waits for the rows that a DELETE or another UPDATE has locked: for all of them
\* at once, where PostgreSQL takes them one by one; a deadlock it breaks is RunFails.
Mark(k) ==
    /\ Run(k, "update", "commit")
    /\ \A i \in Targets(k) :
          /\ client[i] \notin {"forget: invalidate", "forget: commit"}
          /\ \A l \in Compressors : i \notin marked[l]
    /\ marked' = [marked EXCEPT ![k] = Targets(k)]
    /\ UNCHANGED <<rowVars, batch, archived, faults>>

EndRun(k) ==
    /\ batch' = [batch EXCEPT ![k] = {}]
    /\ marked' = [marked EXCEPT ![k] = {}]

CommitRun(k) ==
    /\ Run(k, "commit", "idle")
    /\ row' = [i \in Items |-> IF i \in marked[k] THEN "compressed" ELSE row[i]]
    /\ summaries' = summaries \cup {batch[k]}
    /\ EndRun(k)
    /\ UNCHANGED <<age, archived, faults>>

\* The language model, the embedding, PostgreSQL or the worker fails: rollback.
\* The next run of the day's beat starts afresh.
RunFails(k) ==
    /\ run[k] # "idle"
    /\ Run(k, run[k], "idle")
    /\ Strike
    /\ EndRun(k)
    /\ UNCHANGED <<rowVars, archived>>

Request(i) ==
    \/ Invalidate(i) \/ PublishWritten(i) \/ CommitStore(i)
    \/ DeleteRow(i) \/ CommitForget(i)
Answer(s) == SelectItems(s) \/ SelectSummaries(s) \/ SelectRows(s) \/ SetCache(s)
Compress(k) == SelectBatch(k) \/ Archive(k) \/ Mark(k) \/ CommitRun(k)

Next ==
    \/ \E i \in Items : Store(i) \/ Forget(i) \/ Request(i) \/ RequestFails(i) \/ GrowsOld(i)
    \/ \E s \in Searches : Lookup(s) \/ Answer(s) \/ SearchFails(s)
    \/ \E k \in Compressors : Compress(k) \/ RunFails(k)
    \/ CacheExpires

Spec == Init /\ [][Next]_vars

\* Stores and deletions under way are served, the beat starts the compression
\* every day, and the cache entry expires.  No client has to call, no search has
\* to end, and nothing has to fail.
FairSpec ==
    /\ Spec
    /\ \A i \in Items : WF_vars(Request(i))
    /\ \A k \in Compressors : WF_vars(Compress(k))
    /\ WF_vars(CacheExpires)

----------------------------------------------------------------------------
(* Properties *)

\* compressor.py 56-106: an item is marked compressed only together with a
\* summary of it, whatever was stored or grew old while the model was asked, and
\* although two runs may take the same items.
CompressedHasSummary ==
    \A i \in Items : row[i] = "compressed" => \E b \in summaries : i \in b

\* memory.py 128-137: an item is committed only after its event is out; the
\* observability service never misses one.
CommittedIsAnnounced ==
    \A i \in Items : row[i] # "absent" => i \in announced

\* memory.py 174-176 and 222-246: searches under way may cache a forgotten item
\* again, behind the invalidation and behind its expiry, but none that starts later
\* does, and hits do not keep an entry alive: at last the item is out for good.
ForgottenLeavesCache ==
    \A i \in Items : (row[i] = "gone") ~> [](\A r \in cache : i \notin r)

\* compressor.py 45-56: without a fault every old item is compressed, however
\* many older ones there are.
OldIsCompressed ==
    \A i \in Items : (row[i] = "plain" /\ age[i] > 0) ~> (row[i] # "plain" \/ faults > 0)

----------------------------------------------------------------------------
(* Strengthenings that make the safety properties inductive *)

\* The row exists from the commit of the store to the commit of the deletion.
RowFollowsClient ==
    \A i \in Items :
        /\ Exists(i) <=> client[i] \in
              {"stored", "forget: delete", "forget: invalidate", "forget: commit"}
        /\ row[i] = "gone" <=> client[i] = "forgotten"

\* A row that a compressor has locked is of its batch, and no DELETE has it.
MarkedIsHeld ==
    \A k \in Compressors : \A i \in marked[k] :
        /\ i \in batch[k]
        /\ client[i] \in {"stored", "forget: delete"}

\* The event goes out before the store commits.
PastPublish ==
    \A i \in Items :
        client[i] \notin {"new", "store: invalidate", "store: publish", "failed"}
            => i \in announced
=============================================================================
