---------------------------- MODULE PriceIngest ----------------------------
(***************************************************************************)
(* Idempotent ingestion of market prices: the handler with its early        *)
(* returns and its deferred metrics, the checks of the service, and the     *)
(* READ COMMITTED transaction that registers the request_id, copies the     *)
(* entries into market_ingest_raw, merges them into current_market_prices   *)
(* and completes (internal/handlers/ingest_handler.go,                      *)
(* internal/service/market_service.go,                                      *)
(* internal/repository/market_repository.go,                                *)
(* internal/observability/ingest_metrics.go).                               *)
(*                                                                          *)
(* Several calls may carry the same request_id: retries after a lost reply, *)
(* overlapping retries, or a reused identifier with another payload.  The   *)
(* upsert statement takes its row locks one key after the other.            *)
(***************************************************************************)
EXTENDS Integers, Sequences, FiniteSets

CONSTANTS Calls,       \* HTTP calls
          Ids,         \* UUIDs
          Uuid(_),     \* pgtype.UUID.Scan: the UUID a text spells, if any
          Keys,        \* (server, location, item, quality)
          Request(_)   \* what a call sends: [front, id, server, entries]

VARIABLES requests,    \* market_ingest_requests, committed
          raw,         \* market_ingest_raw, committed: <<id, position, entry>>
          current,     \* current_market_prices, committed
          call,        \* the progress and the answer of each call
          metrics      \* the counters of IngestMetrics

vars == <<requests, raw, current, call, metrics>>

Sides == {"sell", "buy"}

\* A price with its own timestamp; at = 0 is a null timestamp.
QuoteType == [at : Nat, price : Nat]
NoQuote == [at |-> 0, price |-> 0]

EntryType == [key : Keys, observed : Nat, sell : QuoteType, buy : QuoteType]

Servers == {"west", "east", "europe"}

Fronts == {"ok", "method", "insecure", "auth", "media", "encoding", "large", "json"}

ASSUME IngestAssumption ==
    \A c \in Calls : /\ Request(c).front \in Fronts
                     /\ Request(c).entries \in Seq(EntryType)

\* The server of a request is part of the keys of its entries.
ASSUME ServerAssumption ==
    \A c, d \in Calls :
        Request(c).entries = Request(d).entries /\ Request(c).entries # <<>> =>
            Request(c).server = Request(d).server

\* The key of a request: the UUID, whatever its spelling (letter case, with or
\* without hyphens).
RequestId(c) == Uuid(Request(c).id)

\* The checks of MarketService.IngestPrices.
Valid(c) ==
    /\ Request(c).id # ""
    /\ Request(c).server \in Servers
    /\ Request(c).entries # <<>>

\* The calls that get past the decoder and the service and whose request_id
\* is a UUID: they open a transaction.
Sound == {c \in Calls : Request(c).front = "ok" /\ Valid(c) /\ RequestId(c) \in Ids}

\* canonicalRequestHash: the JSON of the request, with the request_id as the
\* client spelled it.
Hash(c) == <<Request(c).id, Request(c).server, Request(c).entries>>

NoPrice == [there |-> FALSE, sell |-> NoQuote, buy |-> NoQuote]

NoRequest == [status |-> "none", hash |-> <<>>, accepted |-> 0, touched |-> 0]

\* A call that has not been sent yet.  locks are the keys its transaction has
\* locked, writes the uncommitted rows; committed, a history of the run, says
\* that the transaction took effect.
NewCall == [pc |-> "new", status |-> 0, locks |-> {},
            writes |-> [k \in {} |-> NoPrice], touched |-> 0,
            accepted |-> 0, duplicate |-> FALSE, committed |-> FALSE]

NoMetrics == [requests |-> 0, inFlight |-> 0, succeeded |-> 0, errors |-> 0,
              duplicates |-> 0, received |-> 0, stored |-> 0, rejected |-> 0,
              duplicated |-> 0, touched |-> 0]

Init ==
    /\ requests = [i \in Ids |-> NoRequest]
    /\ raw = {}
    /\ current = [k \in Keys |-> NoPrice]
    /\ call = [c \in Calls |-> NewCall]
    /\ metrics = NoMetrics

-----------------------------------------------------------------------------
(* The reduction of a request to one row per key, and the merge.            *)

\* request_keys: the keys named by the entries.
KeysOf ==
    [c \in Sound |-> {Request(c).entries[n].key : n \in DOMAIN Request(c).entries}]

\* order by at desc, observed_at desc, id desc.
Precedes(entries, s, m, n) ==
    \/ entries[m][s].at > entries[n][s].at
    \/ /\ entries[m][s].at = entries[n][s].at
       /\ \/ entries[m].observed > entries[n].observed
          \/ entries[m].observed = entries[n].observed /\ m >= n

\* latest_sell and latest_buy: entries without a timestamp are left out.
Latest(c, k, s) ==
    LET entries == Request(c).entries
        rows == {n \in DOMAIN entries : entries[n].key = k /\ entries[n][s].at # 0}
    IN  IF rows = {} THEN NoQuote
        ELSE entries[CHOOSE m \in rows : \A n \in rows : Precedes(entries, s, m, n)][s]

Excluded ==
    [c \in Sound |-> [k \in KeysOf[c] |->
        [there |-> TRUE, sell |-> Latest(c, k, "sell"), buy |-> Latest(c, k, "buy")]]]

\* Plausible bug: a side is replaced whenever the request names it.
MergeSideLastWriter(old, new) == IF new.at # 0 THEN new ELSE old

\* The case expressions of one side: newer or equally new quotes replace.
MergeSide(old, new) == IF new.at # 0 /\ new.at >= old.at THEN new ELSE old

\* Plausible bug: an equally new quote always counts as a change.
TouchesSideOnTie(old, new) == new.at # 0 /\ new.at >= old.at

\* The where clause of one side: newer, or equally new with another price.
TouchesSide(old, new) ==
    /\ new.at # 0
    /\ new.at > old.at \/ (new.at = old.at /\ new.price # old.price)

\* insert ... on conflict do update where ...
Touches(old, new) ==
    \/ ~old.there
    \/ \E s \in Sides : TouchesSide(old[s], new[s])

Merge(old, new) ==
    [there |-> TRUE,
     sell |-> MergeSide(old.sell, new.sell),
     buy |-> MergeSide(old.buy, new.buy)]

-----------------------------------------------------------------------------
(* The calls.                                                               *)

Open(c) == call[c].pc \in {"registered", "merging", "completed"}

Pending(c) == IF c \in Sound THEN KeysOf[c] \ call[c].locks ELSE {}

\* The response is written; the deferred function has not run yet.
Respond(c, status) ==
    call' = [call EXCEPT ![c] = [NewCall EXCEPT !.pc = "responded", !.status = status]]

\* Why a call is refused before the transaction: the handler's own checks and
\* the service's; that the request_id is no UUID is an internal error.
Refusal(c) ==
    LET front == Request(c).front IN
    CASE front = "method"                -> 405
      [] front = "insecure"              -> 426
      [] front = "auth"                  -> 401
      [] front \in {"media", "encoding"} -> 415
      [] front = "large"                 -> 413
      [] front = "ok" /\ Valid(c)        -> 500
      [] OTHER                           -> 400

\* RequestStarted, then the checks of the handler and of the service.
Arrive(c) ==
    /\ call[c].pc = "new"
    /\ IF c \in Sound THEN call' = [call EXCEPT ![c].pc = "arrived"]
                      ELSE Respond(c, Refusal(c))
    /\ metrics' = [metrics EXCEPT !.requests = @ + 1, !.inFlight = @ + 1]
    /\ UNCHANGED <<requests, raw, current>>

\* Plausible bug: the identifier is not unique, so nobody waits.
RegisterWithoutWaiting(c) ==
    /\ call[c].pc = "arrived"
    /\ requests[RequestId(c)].status = "none"
    /\ call' = [call EXCEPT ![c].pc = "registered"]
    /\ UNCHANGED <<requests, raw, current, metrics>>

\* registerRequest: the insert waits while an open transaction holds the same
\* request_id in the primary key, and registers when there is no row.
Register(c) ==
    /\ call[c].pc = "arrived"
    /\ ~\E d \in Calls : Open(d) /\ RequestId(d) = RequestId(c)
    /\ requests[RequestId(c)].status = "none"
    /\ call' = [call EXCEPT ![c].pc = "registered"]
    /\ UNCHANGED <<requests, raw, current, metrics>>

\* existingIngestResult, on conflict do nothing having affected no row: equal
\* payloads repeat the stored answer.
Existing(c) ==
    LET r == requests[RequestId(c)] IN
    /\ call[c].pc = "arrived"
    /\ r.status # "none"
    /\ IF r.hash = Hash(c) /\ r.status = "completed"
       THEN call' = [call EXCEPT ![c] = [NewCall EXCEPT
                        !.pc = "responded", !.status = 200, !.duplicate = TRUE,
                        !.accepted = r.accepted, !.touched = r.touched]]
       ELSE Respond(c, 409)
    /\ UNCHANGED <<requests, raw, current, metrics>>

\* CopyFrom fills market_ingest_raw inside the transaction.
Copy(c) ==
    /\ call[c].pc = "registered"
    /\ call' = [call EXCEPT ![c].pc = "merging",
                            ![c].accepted = Len(Request(c).entries)]
    /\ UNCHANGED <<requests, raw, current, metrics>>

\* No other open transaction has the row of k locked.
Free(c, k) == \A d \in Calls \ {c} : k \notin call[d].locks

\* upsertCurrent for one key: the row is locked, changed or not.  The plan of
\* the statement fixes no order of the keys.
MergeKey(c, k) ==
    LET old == current[k]
        new == Excluded[c][k] IN
    /\ call[c].pc = "merging"
    /\ k \in Pending(c)
    /\ Free(c, k)
    /\ IF Touches(old, new)
       THEN call' = [call EXCEPT
                       ![c].locks = @ \cup {k},
                       ![c].touched = @ + 1,
                       ![c].writes = [x \in DOMAIN @ \cup {k} |->
                                        IF x = k THEN Merge(old, new) ELSE @[x]]]
       ELSE call' = [call EXCEPT ![c].locks = @ \cup {k}]
    /\ UNCHANGED <<requests, raw, current, metrics>>

\* The request row: what registerRequest inserted and completeRequest set.
CompletedRow(c) ==
    [status |-> "completed", hash |-> Hash(c),
     accepted |-> call[c].accepted, touched |-> call[c].touched]

\* completeRequest is executed.
Complete(c) ==
    /\ call[c].pc = "merging"
    /\ Pending(c) = {}
    /\ call' = [call EXCEPT ![c].pc = "completed"]
    /\ UNCHANGED <<requests, raw, current, metrics>>

\* The commit; its reply may be lost, and the handler then answers 500.
Commit(c) ==
    /\ call[c].pc = "completed"
    /\ requests' = [requests EXCEPT ![RequestId(c)] = CompletedRow(c)]
    /\ raw' = raw \cup {<<RequestId(c), n, Request(c).entries[n]>> :
                          n \in DOMAIN Request(c).entries}
    /\ current' = [k \in Keys |-> IF k \in DOMAIN call[c].writes
                                  THEN call[c].writes[k] ELSE current[k]]
    /\ \/ call' = [call EXCEPT ![c] = [NewCall EXCEPT
                      !.pc = "responded", !.status = 202, !.committed = TRUE,
                      !.accepted = call[c].accepted, !.touched = call[c].touched]]
       \/ call' = [call EXCEPT ![c] = [NewCall EXCEPT
                      !.pc = "responded", !.status = 500, !.committed = TRUE]]
    /\ UNCHANGED metrics

\* Plausible bug: the error return leaves the transaction open, row locks and
\* all.
FailWithoutRollback(c) ==
    /\ call[c].pc = "arrived" \/ Open(c)
    /\ call' = [call EXCEPT ![c].pc = "responded", ![c].status = 500]
    /\ UNCHANGED <<requests, raw, current, metrics>>

\* A statement fails (timeout, lost connection) and the transaction rolls back.
Fail(c) ==
    /\ call[c].pc = "arrived" \/ Open(c)
    /\ Respond(c, 500)
    /\ UNCHANGED <<requests, raw, current, metrics>>

\* c is one of a set of transactions that wait for each other's row locks.
Deadlocked(c) ==
    \E group \in SUBSET {d \in Calls : call[d].pc = "merging" /\ Pending(d) # {}} :
        /\ c \in group
        /\ \A d \in group : \A k \in Pending(d) : \E h \in group \ {d} : k \in call[h].locks

\* PostgreSQL ends a deadlock by failing one of its transactions.
DeadlockVictim(c) ==
    /\ Deadlocked(c)
    /\ Respond(c, 500)
    /\ UNCHANGED <<requests, raw, current, metrics>>

Succeeded(c) == call[c].status \in 200..299

\* RequestFinished with the observation the deferred function makes: entries
\* count as received, and as rejected, only once the body was decoded.
Counted(c) ==
    LET ok == Succeeded(c)
        dup == call[c].duplicate
        decoded == IF Request(c).front = "ok" THEN Len(Request(c).entries) ELSE 0 IN
    [metrics EXCEPT
        !.inFlight = IF @ > 0 THEN @ - 1 ELSE @,
        !.received = @ + decoded,
        !.rejected = @ + (CASE dup -> 0 [] ok -> decoded - call[c].accepted [] OTHER -> decoded),
        !.succeeded = IF ok THEN @ + 1 ELSE @,
        !.errors = IF ok THEN @ ELSE @ + 1,
        !.duplicates = IF dup THEN @ + 1 ELSE @,
        !.duplicated = IF dup THEN @ + call[c].accepted ELSE @,
        !.stored = IF ok /\ ~dup THEN @ + call[c].accepted ELSE @,
        !.touched = IF ok /\ ~dup THEN @ + call[c].touched ELSE @]

\* The deferred function of the handler.
Finish(c) ==
    /\ call[c].pc = "responded"
    /\ call' = [call EXCEPT ![c].pc = "done"]
    /\ metrics' = Counted(c)
    /\ UNCHANGED <<requests, raw, current>>

Step(c) ==
    \/ Register(c)
    \/ Existing(c)
    \/ Copy(c)
    \/ \E k \in Keys : MergeKey(c, k)
    \/ Complete(c)
    \/ Commit(c)
    \/ DeadlockVictim(c)
    \/ Finish(c)

Next == \E c \in Calls : Arrive(c) \/ Step(c) \/ Fail(c)

Spec == Init /\ [][Next]_vars

\* The database goes on with some statement it has received and the handlers
\* return; each call has a bounded number of steps.
FairSpec == Spec /\ WF_vars(\E c \in Calls : Step(c))

-----------------------------------------------------------------------------
(* Properties.                                                              *)

PriceType == [there : BOOLEAN, sell : QuoteType, buy : QuoteType]

\* Type correctness: only open transactions hold row locks and writes.
TypeOK ==
    /\ \A i \in Ids : requests[i].status \in {"none", "completed"}
    /\ current \in [Keys -> PriceType]
    /\ \A c \in Calls :
          /\ call[c].pc \in {"new", "arrived", "registered", "merging", "completed",
                             "responded", "done"}
          /\ call[c].status \in {0, 200, 202, 400, 401, 405, 409, 413, 415, 426, 500}
          /\ DOMAIN call[c].writes \subseteq call[c].locks
          /\ call[c].locks # {} => Open(c)

Offers(k, s) == {r[3][s] : r \in {x \in raw : x[3].key = k /\ x[3][s].at # 0}}

\* The read model is the newest committed observation of every key and side,
\* whatever order, overlap or retry the batches were committed in.
CurrentIsNewest ==
    \A k \in Keys, s \in Sides :
        IF Offers(k, s) = {}
        THEN current[k][s] = NoQuote
        ELSE /\ current[k][s] \in Offers(k, s)
             /\ \A q \in Offers(k, s) : q.at <= current[k][s].at

Committed == {c \in Calls : call[c].committed}

\* A duplicate answer repeats the counts of the call that took effect, and is
\* only given for the same payload; a conflict only for other entries or for
\* another spelling of the UUID, which the hash covers.
RepliesAgree ==
    \A c \in Committed, d \in Calls : RequestId(c) = RequestId(d) =>
        /\ call[d].duplicate =>
              /\ Request(d).entries = Request(c).entries
              /\ call[d].accepted = Len(Request(c).entries)
              /\ call[c].status = 202 => call[d].touched = call[c].touched
        /\ call[d].status = 409 => \/ Request(d).entries # Request(c).entries
                                   \/ Request(d).id # Request(c).id

\* openapi.yaml of the ingest operation: "el mismo UUID con el mismo payload ya
\* completado responde `200`".
SameUuidRepeats ==
    \A c \in Committed, d \in Calls :
        RequestId(c) = RequestId(d) /\ Request(c).entries = Request(d).entries =>
            call[d].status # 409

\* The counters account for every request and every entry: what was received
\* is stored, rejected or duplicate, and the audit trail holds the stored
\* entries and those whose request has not returned or was not confirmed.
MetricsConserve ==
    LET unconfirmed == {c \in Committed : call[c].pc # "done" \/ call[c].status = 500} IN
    /\ metrics.requests = metrics.inFlight + metrics.succeeded + metrics.errors
    /\ metrics.received = metrics.stored + metrics.rejected + metrics.duplicated
    /\ Cardinality(raw) = metrics.stored
          + Cardinality(UNION {{c} \X DOMAIN Request(c).entries : c \in unconfirmed})

\* One UUID takes effect once, however it is spelled: at most one call of it
\* ever commits, with or without the client knowing, the audit trail holds
\* exactly the entries of that call, every other answer agrees with it, and the
\* metrics do.
OneEffectPerRequest ==
    /\ TypeOK
    /\ \A i \in Ids :
          LET winners == {c \in Committed : RequestId(c) = i} IN
          /\ Cardinality(winners) <= 1
          /\ {<<r[2], r[3]>> : r \in {x \in raw : x[1] = i}} =
                UNION {{<<n, Request(c).entries[n]>> : n \in DOMAIN Request(c).entries} : c \in winners}
    /\ RepliesAgree
    /\ MetricsConserve

\* current_rows_touched is the number of rows the commit really changes: the
\* where clause and the case expressions of the upsert agree, and no row moves
\* back in time.
TouchedIsChanged ==
    [][\A c \in Calls : Commit(c) =>
          /\ call[c].touched = Cardinality({k \in Keys : current'[k] # current[k]})
          /\ \A k \in Keys, s \in Sides : current'[k][s].at >= current[k][s].at]_vars

\* Every request is answered and counted: waits for a request_id and for row
\* locks end, deadlocks included.
EveryCallAnswered ==
    []<>(\A c \in Calls : call[c].pc \in {"new", "done"})
=============================================================================
