---------------------------- MODULE WebhookQueue ----------------------------
(***************************************************************************)
(* The durable queue of Lemon Squeezy webhooks: the HTTP handler that       *)
(* stores a signed body in billing_webhook_events, and the workers that     *)
(* lease a row, run the business transaction and record its outcome         *)
(* (internal/billing/webhook_queue.go, webhook_processing.go,               *)
(* webhook_types.go, handler.go).                                           *)
(*                                                                          *)
(* Time is abstracted to the two comparisons the SQL makes: whether         *)
(* next_attempt_at has been reached, and whether locked_at is older than    *)
(* the lease.  The business transaction is atomic at its commit and its     *)
(* result is nondeterministic; BillingLedger models what it writes.         *)
(***************************************************************************)
EXTENDS Naturals

CONSTANTS Events,         \* signed bodies; the row key is the body's SHA-256
          Workers,        \* one per API process: several during a rolling deploy
          MaxAttempts,    \* BILLING_WEBHOOK_MAX_ATTEMPTS
          MaxDeliveries,  \* bound on the deliveries of one event
          StatusAllowed,  \* what the check constraints on status admit
          NoWorker,       \* null locked_by
          NoEvent         \* a worker without a job

ASSUME QueueAssumption ==
    /\ MaxAttempts \in Nat \ {0}
    /\ MaxDeliveries \in Nat \ {0}
    /\ NoWorker \notin Workers
    /\ NoEvent \notin Events

\* Two check constraints restrict the status: 0008's status_allowed, with the
\* four statuses below, and 0018's status_check, with all six.  0018 does not
\* drop the older one, so the migrated schema admits their intersection; the
\* queue is specified for whatever is admitted.
ASSUME StatusAssumption ==
    {"pending", "processed", "failed", "ignored"} \subseteq StatusAllowed

VARIABLES row,      \* billing_webhook_events, one row per event
          rowLock,  \* the worker whose open transaction holds the row FOR UPDATE
          worker,   \* what each worker goroutine is doing
          applied   \* history: business transactions of e committed by w

vars == <<row, rowLock, worker, applied>>

Statuses == {"none", "pending", "processing", "processed", "ignored",
             "failed", "dead_letter"}

\* The statuses ProcessWebhookEvent answers with duplicate=true.
Finished == {"processed", "ignored"}

\* The statuses in which nothing is left for a worker to do.
Settled == Finished \cup {"dead_letter"}

Payloads == {"none", "full", "erased"}

\* lockedAt and nextAttemptAt are kept as the outcome of their comparison.
Row == [status     : Statuses,
        attempts   : 0..MaxAttempts,
        deliveries : 0..MaxDeliveries,
        payload    : Payloads,
        lockedBy   : Workers \cup {NoWorker},
        leaseOver  : BOOLEAN,
        due        : BOOLEAN,
        deadAt     : BOOLEAN]

NoRow == [status |-> "none", attempts |-> 0, deliveries |-> 0,
          payload |-> "none", lockedBy |-> NoWorker, leaseOver |-> FALSE,
          due |-> FALSE, deadAt |-> FALSE]

Worker == [pc         : {"idle", "claimed", "locked", "failing", "finalizing"},
           event      : Events \cup {NoEvent},
           payload    : Payloads,
           permanent  : BOOLEAN,
           deadLetter : BOOLEAN]

IdleWorker == [pc |-> "idle", event |-> NoEvent, payload |-> "none",
               permanent |-> FALSE, deadLetter |-> FALSE]

Init ==
    /\ row = [e \in Events |-> NoRow]
    /\ rowLock = [e \in Events |-> NoWorker]
    /\ worker = [w \in Workers |-> IdleWorker]
    /\ applied = [e \in Events |-> [w \in Workers |-> 0]]

-----------------------------------------------------------------------------
(* The HTTP side: EnqueueWebhook on a valid, correctly signed body.  A      *)
(* rejected body changes nothing and is not an action.                      *)

\* insert ... on conflict do nothing: the first delivery stores the event.
Enqueue(e) ==
    /\ row[e].status = "none"
    /\ row' = [row EXCEPT ![e] = [NoRow EXCEPT !.status = "pending",
                                               !.deliveries = 1,
                                               !.payload = "full",
                                               !.due = TRUE]]
    /\ UNCHANGED <<rowLock, worker, applied>>

\* Plausible bug: the duplicate statement also stores the body again.
TouchDuplicateRestoringPayload(e) ==
    /\ row[e].status # "none"
    /\ row[e].deliveries < MaxDeliveries
    /\ rowLock[e] = NoWorker
    /\ row' = [row EXCEPT ![e] = [row[e] EXCEPT
                  !.deliveries = @ + 1,
                  !.payload = "full",
                  !.due = IF row[e].status = "failed" THEN TRUE ELSE @]]
    /\ UNCHANGED <<rowLock, worker, applied>>

\* A later delivery of the same body counts it and brings a failed event
\* forward; the update waits for a transaction that holds the row.
TouchDuplicate(e) ==
    /\ row[e].status # "none"
    /\ row[e].deliveries < MaxDeliveries
    /\ rowLock[e] = NoWorker
    /\ row' = [row EXCEPT ![e] = [row[e] EXCEPT
                  !.deliveries = @ + 1,
                  !.due = IF row[e].status = "failed" THEN TRUE ELSE @]]
    /\ UNCHANGED <<rowLock, worker, applied>>

-----------------------------------------------------------------------------
(* The worker side.                                                         *)

\* Plausible bug: the query only looks at pending and failed events, so the
\* lease of a dead worker is never taken over.
ClaimableWithoutLeases(e) ==
    /\ rowLock[e] = NoWorker
    /\ row[e].attempts < MaxAttempts
    /\ row[e].status \in {"pending", "failed"}
    /\ row[e].due

\* Plausible bug: the attempt limit is compared with <= instead of <.
ClaimableOneTooMany(e) ==
    /\ rowLock[e] = NoWorker
    /\ row[e].attempts <= MaxAttempts
    /\ \/ row[e].status \in {"pending", "failed"} /\ row[e].due
       \/ row[e].status = "processing" /\ row[e].leaseOver

\* The candidate query, FOR UPDATE SKIP LOCKED.  Its ORDER BY is best effort
\* under SKIP LOCKED and is left open: any candidate may be taken.
Claimable(e) ==
    /\ rowLock[e] = NoWorker
    /\ row[e].attempts < MaxAttempts
    /\ \/ row[e].status \in {"pending", "failed"} /\ row[e].due
       \/ row[e].status = "processing" /\ row[e].leaseOver

\* claim: one statement leases the row and returns the payload it holds now.
\* When a check constraint refuses its status the statement fails, the worker
\* logs the error and polls again.
Claim(w) ==
    /\ worker[w].pc = "idle"
    /\ "processing" \in StatusAllowed
    /\ \E e \in Events :
         /\ Claimable(e)
         /\ row' = [row EXCEPT ![e] = [row[e] EXCEPT
                          !.status = "processing",
                          !.attempts = @ + 1,
                          !.leaseOver = FALSE,
                          !.lockedBy = w]]
         /\ worker' = [worker EXCEPT ![w] = [IdleWorker EXCEPT
                                                !.pc = "claimed",
                                                !.event = e,
                                                !.payload = row[e].payload]]
    /\ UNCHANGED <<rowLock, applied>>

\* An erased payload decodes to an envelope without an event name: the
\* "unsupported event" error, which is permanent.
RejectPayload(w) ==
    /\ worker[w].pc = "claimed"
    /\ worker[w].payload # "full"
    /\ worker' = [worker EXCEPT ![w].pc = "failing", ![w].permanent = TRUE]
    /\ UNCHANGED <<row, rowLock, applied>>

\* select status ... for update.  A finished event is only acknowledged; any
\* other status, whoever holds the lease, goes on to the business handler.
LockEvent(w) ==
    LET e == worker[w].event IN
    /\ worker[w].pc = "claimed"
    /\ worker[w].payload = "full"
    /\ rowLock[e] = NoWorker
    /\ IF row[e].status \in Finished
       THEN /\ worker' = [worker EXCEPT ![w] = IdleWorker]
            /\ UNCHANGED rowLock
       ELSE /\ worker' = [worker EXCEPT ![w].pc = "locked"]
            /\ rowLock' = [rowLock EXCEPT ![e] = w]
    /\ UNCHANGED <<row, applied>>

\* Releasing w's transaction: commit and rollback both drop its row lock.
Unlocked(w) == [e \in Events |-> IF rowLock[e] = w THEN NoWorker ELSE rowLock[e]]

\* Plausible bug: the business error returns without rolling back.
ProcessingErrorWithoutRollback(w) ==
    /\ \/ worker[w].pc = "claimed" /\ worker[w].payload = "full"
       \/ worker[w].pc = "locked"
    /\ \E permanent \in BOOLEAN :
         /\ permanent => worker[w].pc = "locked"
         /\ worker' = [worker EXCEPT ![w].pc = "failing",
                                     ![w].permanent = permanent]
    /\ UNCHANGED <<row, rowLock, applied>>

\* A database error or the job timeout (transient), or ErrInvalidWebhook from
\* a business handler (permanent); the deferred rollback drops the row lock.
ProcessingError(w) ==
    /\ \/ worker[w].pc = "claimed" /\ worker[w].payload = "full"
       \/ worker[w].pc = "locked"
    /\ \E permanent \in BOOLEAN :
         /\ permanent => worker[w].pc = "locked"
         /\ worker' = [worker EXCEPT ![w].pc = "failing",
                                     ![w].permanent = permanent]
    /\ rowLock' = Unlocked(w)
    /\ UNCHANGED <<row, applied>>

\* Plausible bug: the finished row keeps its payload.
FinishKeepingPayload(r, status) ==
    [r EXCEPT !.status = status, !.due = FALSE,
              !.lockedBy = NoWorker, !.leaseOver = FALSE]

\* finishProductionWebhook: the final status, the cleared lease and the erased
\* payload are written by the business transaction itself.
Finish(r, status) ==
    [r EXCEPT !.status = status, !.due = FALSE,
              !.lockedBy = NoWorker, !.leaseOver = FALSE,
              !.payload = "erased"]

\* The business transaction commits.  When the reply to COMMIT is lost (job
\* timeout, broken connection) the worker sees an error although every write
\* is durable.
Commit(w) ==
    LET e == worker[w].event IN
    /\ worker[w].pc = "locked"
    /\ \E status \in Finished : row' = [row EXCEPT ![e] = Finish(@, status)]
    /\ applied' = [applied EXCEPT ![e][w] = @ + 1]
    /\ rowLock' = Unlocked(w)
    /\ \/ worker' = [worker EXCEPT ![w] = IdleWorker]
       \/ worker' = [worker EXCEPT ![w].pc = "failing", ![w].permanent = FALSE]

\* finalizeFailure, first statement: the attempts are read without a lock.
FinalizeRead(w) ==
    /\ worker[w].pc = "failing"
    /\ worker' = [worker EXCEPT
                    ![w].pc = "finalizing",
                    ![w].deadLetter = \/ worker[w].permanent
                                      \/ row[worker[w].event].attempts >= MaxAttempts]
    /\ UNCHANGED <<row, rowLock, applied>>

\* Plausible bug: the failure is recorded but the lease columns are kept.
FailedKeepingLease(r, deadLetter) ==
    [r EXCEPT !.status = IF deadLetter THEN "dead_letter" ELSE "failed",
              !.due = FALSE, !.deadAt = deadLetter]

\* The outcome of the finalize statement.
Failed(r, deadLetter) ==
    [r EXCEPT !.status = IF deadLetter THEN "dead_letter" ELSE "failed",
              !.due = FALSE, !.deadAt = deadLetter,
              !.lockedBy = NoWorker, !.leaseOver = FALSE]

\* finalizeFailure, second statement: an unconditional update by event id.
\* Neither the lease owner nor the status is compared.  A status the check
\* constraints refuse fails the statement: the row stays and the worker only
\* logs the error.
FinalizeWrite(w) ==
    LET e == worker[w].event
        r == Failed(row[e], worker[w].deadLetter)
    IN
    /\ worker[w].pc = "finalizing"
    /\ rowLock[e] = NoWorker
    /\ row' = IF r.status \in StatusAllowed THEN [row EXCEPT ![e] = r] ELSE row
    /\ worker' = [worker EXCEPT ![w] = IdleWorker]
    /\ UNCHANGED <<rowLock, applied>>

\* The worker gives the job up without recording anything: the process dies,
\* the root context is cancelled at shutdown (finalizeFailure runs under it),
\* or a statement of finalizeFailure fails.  An open transaction rolls back.
Abandon(w) ==
    /\ worker[w].pc # "idle"
    /\ worker' = [worker EXCEPT ![w] = IdleWorker]
    /\ rowLock' = Unlocked(w)
    /\ UNCHANGED <<row, applied>>

-----------------------------------------------------------------------------
(* The passage of time.                                                     *)

\* now() reaches next_attempt_at of a failed event.
BackoffElapses(e) ==
    /\ row[e].status = "failed"
    /\ ~row[e].due
    /\ row' = [row EXCEPT ![e].due = TRUE]
    /\ UNCHANGED <<rowLock, worker, applied>>

\* locked_at becomes older than the lease.  Nothing ties this to the worker:
\* the reply to claim and finalizeFailure are not covered by the job timeout.
LeaseElapses(e) ==
    /\ row[e].status = "processing"
    /\ ~row[e].leaseOver
    /\ row' = [row EXCEPT ![e].leaseOver = TRUE]
    /\ UNCHANGED <<rowLock, worker, applied>>

-----------------------------------------------------------------------------
\* The steps a running worker takes by itself.
WorkerStep(w) ==
    \/ Claim(w)
    \/ RejectPayload(w)
    \/ LockEvent(w)
    \/ ProcessingError(w)
    \/ Commit(w)
    \/ FinalizeRead(w)
    \/ FinalizeWrite(w)

Next ==
    \/ \E e \in Events : \/ Enqueue(e)
                         \/ TouchDuplicate(e)
                         \/ BackoffElapses(e)
                         \/ LeaseElapses(e)
    \/ \E w \in Workers : WorkerStep(w) \/ Abandon(w)

Spec == Init /\ [][Next]_vars

\* The poll ticker keeps every worker going and clocks advance; deliveries
\* and crashes are never required to happen.
Fairness ==
    /\ \A w \in Workers : WF_vars(WorkerStep(w))
    /\ \A e \in Events : WF_vars(BackoffElapses(e)) /\ WF_vars(LeaseElapses(e))

FairSpec == Spec /\ Fairness

-----------------------------------------------------------------------------
(* Properties.                                                              *)

\* Type correctness of the row, the row locks, the workers and the history.
TypeOK ==
    /\ row \in [Events -> Row]
    /\ rowLock \in [Events -> Workers \cup {NoWorker}]
    /\ worker \in [Workers -> Worker]
    /\ applied \in [Events -> [Workers -> Nat]]

\* No worker commits the business transaction of one event twice, although
\* finalizeFailure may put a finished event back into the queue: a re-claimed
\* row only ever yields the erased payload.
AppliedOncePerWorker ==
    \A e \in Events, w \in Workers : applied[e][w] <= 1

\* The payload (and the personal data in it) is erased exactly when some
\* business transaction of the event has committed, and a finished event never
\* keeps it: no delivery, failure or retry brings it back.
ErasedWithCommit ==
    \A e \in Events :
        /\ row[e].payload = "erased" <=> \E w \in Workers : applied[e][w] > 0
        /\ row[e].status \in Finished => row[e].payload = "erased"

\* A row names a lease holder exactly while it is in processing, through
\* take-overs, late failures and commits of several workers.
LeaseIffProcessing ==
    \A e \in Events :
        row[e].status = "processing" <=> row[e].lockedBy # NoWorker

\* A leased event is never forgotten while it has attempts left, whatever
\* workers crash or lose their lease: the claim query takes expired leases
\* over until the event is settled or its attempts are used up.
LeasedNotForgotten ==
    \A e \in Events :
        row[e].status = "processing" ~>
            (row[e].status \in Settled \/ row[e].attempts = MaxAttempts)

\* Every worker gets back to its polling loop: no wait for a row lock lasts
\* for ever.
WorkerReturns ==
    \A w \in Workers : worker[w].pc # "idle" ~> worker[w].pc = "idle"

\* The inductive invariant behind the safety properties: a row lock belongs to
\* exactly the worker whose transaction is open, a job names an accepted event,
\* and a full payload in a worker's hands has not been applied by that worker.
LockOwned ==
    /\ \A e \in Events : rowLock[e] # NoWorker =>
          worker[rowLock[e]].pc = "locked" /\ worker[rowLock[e]].event = e
    /\ \A w \in Workers : worker[w].pc = "locked" =>
          worker[w].payload = "full" /\ rowLock[worker[w].event] = w

JobAccepted ==
    /\ \A w \in Workers : worker[w].pc # "idle" =>
          worker[w].event \in Events /\ row[worker[w].event].status # "none"
    /\ \A e \in Events : row[e].status = "none" => row[e].payload = "none"

FullMeansUnapplied ==
    \A w \in Workers :
        worker[w].pc \in {"claimed", "locked"} /\ worker[w].payload = "full" =>
            applied[worker[w].event][w] = 0

QueueInv ==
    /\ TypeOK
    /\ LockOwned
    /\ JobAccepted
    /\ FullMeansUnapplied
    /\ AppliedOncePerWorker
    /\ ErasedWithCommit
    /\ LeaseIffProcessing

\* docs/billing-production.md: a worker processes the event with lease,
\* backoff and dead-letter - every accepted event ends processed, ignored or
\* as a dead letter.
EveryEventSettles ==
    \A e \in Events : row[e].status # "none" ~> row[e].status \in Settled

\* The queue implements the promise of WebhookInbox.
Inbox == INSTANCE WebhookInbox
            WITH accepted <- {e \in Events : row[e].status # "none"}

\* Refinement: accept before apply, and one application per worker.
ImplementsInbox == Inbox!InboxSpec
=============================================================================
