--------------------------- MODULE HistoryIngest ---------------------------
(***************************************************************************)
(* Ingestion of market history: the handler with its early returns and its  *)
(* deferred metrics, the normalisation of the request, and the READ         *)
(* COMMITTED transaction that registers the request_id, copies the buckets  *)
(* into market_history_ingest_raw and upserts market_history_buckets        *)
(* (internal/handlers/history_ingest_handler.go,                            *)
(* internal/service/history_service.go,                                     *)
(* internal/repository/history_repository.go,                               *)
(* internal/observability/history_ingest_metrics.go).                       *)
(*                                                                          *)
(* Optional prices are sets with at most one element.  The upsert takes its *)
(* rows from a select distinct on, so it locks the keys in their order.     *)
(***************************************************************************)
EXTENDS Integers, Sequences, FiniteSets, SequencesExt

CONSTANTS Calls,        \* HTTP calls
          Input(_),     \* Input(c): what c sends: [front, id, server, entries]
          Uuid(_),      \* the UUID a text stands for, or NoUuid
          NoUuid,
          MaxEntries,   \* maxHistoryIngestEntries
          MaxBuckets    \* maxHistoryIngestBuckets

VARIABLES requests,   \* market_history_ingest_requests, committed, by UUID
          raw,        \* market_history_ingest_raw, committed, by UUID
          buckets,    \* market_history_buckets, committed
          call,       \* the progress and the answer of each call
          metrics,    \* the counters of HistoryIngestMetrics, in buckets
          log         \* history: the calls whose transaction committed

vars == <<requests, raw, buckets, call, metrics, log>>

Servers == 1..3

\* A bucket row; nothing is older than observed = 1.
NoBucket == [observed |-> 0, count |-> 0, price |-> {}]

-----------------------------------------------------------------------------
(* The request.                                                             *)

\* What the decoder makes of a bucket and of an entry; at = 0 and observed = 0
\* stand for a missing time.
BucketType == [at : Nat, count : Int, price : {p \in SUBSET Int : \A x, y \in p : x = y}]

EntryType == [location : Int, item : Nat, quality : Int, observed : Nat, history : Seq(BucketType)]

\* A zero price is a missing price.
NormalizeBucket(b) == IF b.price = {0} THEN [b EXCEPT !.price = {}] ELSE b

BucketsIn(entries) == FoldSeq(LAMBDA e, n : n + Len(e.history), 0, entries)

ValidBucket(b) == b.at # 0 /\ b.count >= 0 /\ \A p \in b.price : p >= 0

ValidEntry(e) ==
    /\ e.observed # 0 /\ e.location > 0 /\ e.item # 0 /\ e.quality \in 1..5
    /\ e.history # <<>>
    /\ \A n \in DOMAIN e.history : ValidBucket(e.history[n])

\* normalizeHistoryIngestRequest: what is accepted ...
Valid(q) ==
    /\ Uuid(q.id) # NoUuid
    /\ q.server \in Servers
    /\ Len(q.entries) \in 1..MaxEntries
    /\ BucketsIn(q.entries) <= MaxBuckets
    /\ \A n \in DOMAIN q.entries : ValidEntry(q.entries[n])

\* ... and what becomes of it; its JSON is what canonicalHistoryRequestHash
\* hashes, the spelling of the identifier included.
Normalized(q) ==
    [id |-> q.id, server |-> q.server,
     entries |-> [n \in DOMAIN q.entries |->
                    [q.entries[n] EXCEPT !.history =
                        [m \in DOMAIN @ |-> NormalizeBucket(@[m])]]]]

\* rawHistoryCopySource: the nested buckets in order, one row each.
CopyRows(q) ==
    FlattenSeq([n \in DOMAIN q.entries |->
        LET e == q.entries[n] IN
        [m \in DOMAIN e.history |->
            [key |-> <<q.server, e.location, e.item, e.quality, e.history[m].at>>,
             observed |-> e.observed,
             count |-> e.history[m].count, price |-> e.history[m].price]]])

\* The UUID and the number of buckets of a request.
Id == [c \in Calls |-> Uuid(Input(c).id)]
Received == [c \in Calls |-> BucketsIn(Input(c).entries)]

\* The calls that get past the decoder and the service's checks.
Sound == {c \in Calls : Input(c).front = "ok" /\ Valid(Input(c))}

\* What the repository is given, and the rows it copies.
Request == [c \in Sound |-> Normalized(Input(c))]

Rows == [c \in Sound |-> CopyRows(Request[c])]

Ids == {Id[c] : c \in Sound}

KeysOf == [c \in Sound |-> {Rows[c][n].key : n \in DOMAIN Rows[c]}]

Keys == UNION {KeysOf[c] : c \in Sound}

ASSUME HistoryAssumption ==
    /\ MaxEntries \in Nat /\ MaxBuckets \in Nat
    /\ \A c \in Calls :
          /\ Input(c).front \in {"ok", "method", "insecure", "auth", "media", "large", "json"}
          /\ Input(c).entries \in Seq(EntryType)

-----------------------------------------------------------------------------
(* The upsert.                                                              *)

Values(r) == [observed |-> r.observed, count |-> r.count, price |-> r.price]

\* latest_buckets: order by observed_at desc, id desc.
LatestRow(c, k) ==
    LET rows == {n \in DOMAIN Rows[c] : Rows[c][n].key = k}
        After(m, n) == \/ Rows[c][m].observed > Rows[c][n].observed
                       \/ Rows[c][m].observed = Rows[c][n].observed /\ m >= n
    IN  Values(Rows[c][CHOOSE m \in rows : \A n \in rows : After(m, n)])

Latest == [c \in Sound |-> [k \in KeysOf[c] |-> LatestRow(c, k)]]

\* Plausible bug: the statement only replaces older captures.
TouchesOlder(old, new) == new.observed > old.observed

\* insert ... on conflict do update ... where: newer, or a correction of the
\* same capture.
Touches(old, new) ==
    \/ new.observed > old.observed
    \/ new.observed = old.observed /\ new # old

-----------------------------------------------------------------------------
(* The calls.                                                               *)

NewCall == [pc |-> "new", status |-> 0, locks |-> {}, writes |-> [k \in {} |-> NoBucket],
            accepted |-> 0, touched |-> 0, duplicate |-> FALSE]

NoMetrics == [requests |-> 0, inFlight |-> 0, succeeded |-> 0, errors |-> 0,
              duplicates |-> 0, received |-> 0, stored |-> 0, rejected |-> 0,
              duplicated |-> 0, touched |-> 0]

NoRequest == [status |-> "none", hash |-> <<>>, accepted |-> 0, touched |-> 0]

Init ==
    /\ requests = [i \in Ids |-> NoRequest]
    /\ raw = [i \in Ids |-> <<>>]
    /\ buckets = [k \in Keys |-> NoBucket]
    /\ call = [c \in Calls |-> NewCall]
    /\ metrics = NoMetrics
    /\ log = <<>>

Open(c) == call[c].pc \in {"registered", "merging", "completed"}

\* The response is written; the deferred function has not run yet.
Respond(c, status) == call' = [call EXCEPT ![c] = [NewCall EXCEPT !.pc = "responded", !.status = status]]

FrontStatus(front) == CASE front = "method"    -> 405
                        [] front = "insecure"  -> 426
                        [] front = "auth"      -> 401
                        [] front = "media"     -> 415
                        [] front = "large"     -> 413
                        [] OTHER               -> 400

\* RequestStarted, then the checks of the handler and of the service.
Arrive(c) ==
    /\ call[c].pc = "new"
    /\ IF c \in Sound THEN call' = [call EXCEPT ![c].pc = "arrived"]
                      ELSE Respond(c, FrontStatus(Input(c).front))
    /\ metrics' = [metrics EXCEPT !.requests = @ + 1, !.inFlight = @ + 1]
    /\ UNCHANGED <<requests, raw, buckets, log>>

\* Plausible bug: the identifier is looked up before it is inserted.
NobodyRegisters(c) == TRUE

\* The insert of the request waits for an open transaction with the same id.
IdFree(c) == ~\E d \in Calls : Open(d) /\ Id[d] = Id[c]

Register(c) ==
    /\ call[c].pc = "arrived"
    /\ IdFree(c)
    /\ requests[Id[c]].status = "none"
    /\ call' = [call EXCEPT ![c].pc = "registered"]
    /\ UNCHANGED <<requests, raw, buckets, metrics, log>>

\* existingHistoryIngestResult and the handler's status codes.
Existing(c) ==
    LET r == requests[Id[c]] IN
    /\ call[c].pc = "arrived"
    /\ r.status # "none"
    /\ IF r.hash = Request[c] /\ r.status = "completed"
       THEN call' = [call EXCEPT ![c].pc = "responded", ![c].status = 200,
                                 ![c].duplicate = TRUE, ![c].accepted = r.accepted,
                                 ![c].touched = r.touched]
       ELSE Respond(c, 409)
    /\ UNCHANGED <<requests, raw, buckets, metrics, log>>

\* CopyFrom, whose row count is compared with acceptedBuckets.
Copy(c) ==
    /\ call[c].pc = "registered"
    /\ IF Len(Rows[c]) = Received[c]
       THEN call' = [call EXCEPT ![c].pc = "merging"]
       ELSE Respond(c, 500)
    /\ UNCHANGED <<requests, raw, buckets, metrics, log>>

Pending(c) == IF c \in Sound THEN KeysOf[c] \ call[c].locks ELSE {}

\* Plausible bug: the rows come in the order of the payload.
LockAnywhere(c, k) == TRUE

\* The rows of latest_buckets come sorted by the columns of the key.
LockNext(c, k) ==
    \A l \in Pending(c) \ {k} :
        \E n \in 1..5 : k[n] < l[n] /\ \A m \in 1..(n - 1) : k[m] = l[m]

\* No other open transaction has inserted, changed or locked the row.
Free(c, k) == \A d \in Calls \ {c} : k \notin call[d].locks

UpsertKey(c, k) ==
    LET new == Latest[c][k] IN
    /\ call[c].pc = "merging"
    /\ LockNext(c, k)
    /\ Free(c, k)
    /\ call' = [call EXCEPT
          ![c].locks = @ \cup {k},
          ![c].writes = [x \in DOMAIN @ \cup {y \in {k} : Touches(buckets[y], new)} |->
                            IF x = k THEN new ELSE @[x]]]
    /\ UNCHANGED <<requests, raw, buckets, metrics, log>>

\* completeRequest.
Complete(c) ==
    /\ call[c].pc = "merging"
    /\ Pending(c) = {}
    /\ call' = [call EXCEPT ![c].pc = "completed", ![c].accepted = Received[c],
                            ![c].touched = Cardinality(DOMAIN call[c].writes)]
    /\ UNCHANGED <<requests, raw, buckets, metrics, log>>

\* COMMIT; its reply may be lost, and the handler then answers 500.
Commit(c) ==
    LET i == Id[c]
        w == call[c].writes IN
    /\ call[c].pc = "completed"
    /\ requests' = [requests EXCEPT ![i] =
          [status |-> "completed", hash |-> Request[c],
           accepted |-> call[c].accepted, touched |-> call[c].touched]]
    /\ raw' = [raw EXCEPT ![i] = @ \o Rows[c]]
    /\ buckets' = [k \in Keys |-> IF k \in DOMAIN w THEN w[k] ELSE buckets[k]]
    /\ log' = Append(log, c)
    /\ \/ Respond(c, 500)
       \/ call' = [call EXCEPT ![c] = [NewCall EXCEPT !.pc = "responded", !.status = 202,
                       !.accepted = call[c].accepted, !.touched = call[c].touched]]
    /\ UNCHANGED metrics

\* A statement fails or times out: the transaction is rolled back.
Fail(c) ==
    /\ call[c].pc = "arrived" \/ Open(c)
    /\ Respond(c, 500)
    /\ UNCHANGED <<requests, raw, buckets, metrics, log>>

Succeeded(c) == call[c].status \in 200..299

\* Plausible bug: a duplicate is counted like an accepted request.
CountsDuplicateAsStored(c) ==
    LET ok == Succeeded(c) IN
    [metrics EXCEPT
        !.inFlight = IF @ > 0 THEN @ - 1 ELSE @,
        !.received = @ + Received[c],
        !.rejected = IF ok THEN @ ELSE @ + Received[c],
        !.succeeded = IF ok THEN @ + 1 ELSE @,
        !.errors = IF ok THEN @ ELSE @ + 1,
        !.stored = IF ok THEN @ + call[c].accepted ELSE @]

\* RequestFinished with the observation the deferred function makes: buckets
\* count as received, and as rejected, only once the body was decoded.
Counted(c) ==
    LET ok == Succeeded(c)
        dup == call[c].duplicate
        decoded == IF Input(c).front = "ok" THEN Received[c] ELSE 0 IN
    [metrics EXCEPT
        !.inFlight = IF @ > 0 THEN @ - 1 ELSE @,
        !.received = @ + decoded,
        !.rejected = @ + (CASE dup -> 0 [] ok -> decoded - call[c].accepted [] OTHER -> decoded),
        !.succeeded = IF ok THEN @ + 1 ELSE @,
        !.errors = IF ok THEN @ ELSE @ + 1,
        !.duplicates = IF dup THEN @ + 1 ELSE @,
        !.duplicated = IF dup THEN @ + call[c].accepted ELSE @,
        !.stored = IF ok /\ ~dup THEN @ + call[c].accepted ELSE @,
        !.touched = IF ok /\ ~dup THEN @ + call[c].touched ELSE @]

\* The deferred function of the handler.
Finish(c) ==
    /\ call[c].pc = "responded"
    /\ call' = [call EXCEPT ![c].pc = "done"]
    /\ metrics' = Counted(c)
    /\ UNCHANGED <<requests, raw, buckets, log>>

Step(c) ==
    \/ Register(c)
    \/ Existing(c)
    \/ Copy(c)
    \/ \E k \in Pending(c) : UpsertKey(c, k)
    \/ Complete(c)
    \/ Commit(c)
    \/ Finish(c)

Next == \E c \in Calls : Arrive(c) \/ Step(c) \/ Fail(c)

Spec == Init /\ [][Next]_vars

\* The database goes on with every statement and the handler returns.
FairSpec == Spec /\ WF_vars(\E c \in Calls : Step(c))

-----------------------------------------------------------------------------
(* Properties.                                                              *)

\* Type correctness: only open transactions hold row locks and writes.
TypeOK ==
    /\ \A i \in Ids : requests[i].status \in {"none", "completed"}
    /\ DOMAIN buckets = Keys
    /\ \A c \in Calls :
          /\ call[c].pc \in {"new", "arrived", "registered", "merging", "completed",
                             "responded", "done"}
          /\ call[c].status \in {0, 200, 202, 400, 401, 405, 409, 413, 415, 426, 500}
          /\ DOMAIN call[c].writes \subseteq call[c].locks
          /\ call[c].locks # {} => Open(c)

\* The committed rows of key k: <<observed, commit, position>>.
Captures(k) ==
    LET places == {x \in (1..Len(log)) \X (1..MaxBuckets) :
                      x[2] \in DOMAIN Rows[log[x[1]]] /\ Rows[log[x[1]]][x[2]].key = k}
    IN  {<<Rows[log[x[1]]][x[2]].observed, x[1], x[2]>> : x \in places}

\* The read model is what replaying the committed batches one after the other
\* gives: the newest capture of every bucket, and among equally new ones the
\* correction that was committed last, although the batches overlap.
BucketsReplayLog ==
    \A k \in Keys :
        IF Captures(k) = {} THEN buckets[k] = NoBucket
        ELSE LET last == CHOOSE x \in Captures(k) : \A y \in Captures(k) :
                            \/ x[1] > y[1]
                            \/ x[1] = y[1] /\ x[2] > y[2]
                            \/ x[1] = y[1] /\ x[2] = y[2] /\ x[3] >= y[3]
             IN  buckets[k] = Values(Rows[log[last[2]]][last[3]])

\* Two requests that mean the same: no price is as good as a price of zero.
Meaning(q) ==
    <<q.id, q.server,
      [n \in DOMAIN q.entries |->
          <<q.entries[n].location, q.entries[n].item, q.entries[n].quality, q.entries[n].observed,
            [m \in DOMAIN q.entries[n].history |->
                LET b == q.entries[n].history[m] IN <<b.at, b.count, b.price \ {0}>>]>>]>>

\* A request_id takes effect once: at most one call of it commits, its rows
\* are the audit trail, and who else gets an answer to it gets the counts of
\* that call when both mean the same request, and 409 when they do not.
OneEffectPerRequest ==
    /\ TypeOK
    /\ \A i \in Ids :
          LET winners == {n \in DOMAIN log : Id[log[n]] = i} IN
          /\ Cardinality(winners) <= 1
          /\ raw[i] = IF winners = {} THEN <<>> ELSE Rows[log[CHOOSE n \in winners : TRUE]]
    /\ \A c \in {log[n] : n \in DOMAIN log} : \A d \in Calls \ {c} :
          Id[d] = Id[c] =>
              /\ call[d].duplicate =>
                    /\ call[d].accepted = Len(Rows[c])
                    /\ Rows[d] = Rows[c]
                    /\ call[c].status = 202 => call[d].touched = call[c].touched
              /\ call[d].status = 409 => Meaning(Input(d)) # Meaning(Input(c))

\* The rows of some commits; OneEffectPerRequest says they are the raw table.
StoredRows(commits) == UNION {{<<n, m>> : m \in DOMAIN Rows[log[n]]} : n \in commits}

Unconfirmed == {n \in DOMAIN log : call[log[n]].pc # "done" \/ call[log[n]].status = 500}

\* The counters account for every request and every bucket: what was received
\* is stored, rejected or duplicate, and the buckets in the audit trail are
\* the stored ones plus those of the requests that have not returned or whose
\* commit was not confirmed.
MetricsConserve ==
    /\ metrics.requests = metrics.inFlight + metrics.succeeded + metrics.errors
    /\ metrics.received = metrics.stored + metrics.rejected + metrics.duplicated
    /\ Cardinality(StoredRows(DOMAIN log)) =
          metrics.stored + Cardinality(StoredRows(Unconfirmed))

\* Every request is answered and counted although the database breaks no
\* cycle here: the transactions lock the buckets in one order.
EveryCallAnswered ==
    []<>(\A c \in Calls : call[c].pc \in {"new", "done"})
=============================================================================
