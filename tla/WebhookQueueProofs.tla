------------------------- MODULE WebhookQueueProofs -------------------------
(***************************************************************************)
(* Machine-checked safety of the webhook queue, for any set of events, any  *)
(* number of workers, any attempt limit and any check constraint on the     *)
(* status: QueueInv is inductive, it implies the properties of              *)
(* WebhookQueue, and every step of the queue is a step or a stutter of      *)
(* WebhookInbox.                                                            *)
(***************************************************************************)
EXTENDS WebhookQueue, TLAPS

\* No row, lock, job or application exists before the first delivery.
LEMMA InitQueueInv == Init => QueueInv
<1> SUFFICES ASSUME Init PROVE QueueInv
    OBVIOUS
<1> USE QueueAssumption
<1>1. TypeOK
    BY DEF Init, TypeOK, Row, NoRow, Statuses, Payloads, Worker, IdleWorker
<1>2. LockOwned
    BY DEF Init, LockOwned, IdleWorker
<1>3. JobAccepted
    BY DEF Init, JobAccepted, IdleWorker, NoRow
<1>4. FullMeansUnapplied /\ AppliedOncePerWorker
    BY DEF Init, FullMeansUnapplied, AppliedOncePerWorker, IdleWorker
<1>5. ErasedWithCommit
  <2>1. \A e \in Events, w \in Workers : ~(applied[e][w] > 0)
      BY DEF Init
  <2>2. \A e \in Events : row[e].payload = "none" /\ row[e].status = "none"
      BY DEF Init, NoRow
  <2> QED
      BY <2>1, <2>2 DEF ErasedWithCommit, Finished
<1>6. LeaseIffProcessing
    BY DEF Init, LeaseIffProcessing, NoRow
<1> QED
    BY <1>1, <1>2, <1>3, <1>4, <1>5, <1>6 DEF QueueInv

-----------------------------------------------------------------------------
(* One lemma per operation: it preserves the inductive invariant.           *)

\* The first delivery of an event.
LEMMA EnqueueInv ==
    ASSUME QueueInv, NEW e \in Events, Enqueue(e)
    PROVE  QueueInv'
<1> USE QueueAssumption DEF QueueInv, Enqueue
<1>1. TypeOK'
  <2>1. 1 \in 0..MaxDeliveries /\ 0 \in 0..MaxAttempts
      OBVIOUS
  <2>2. [NoRow EXCEPT !.status = "pending", !.deliveries = 1,
                      !.payload = "full", !.due = TRUE] \in Row
      BY <2>1 DEF Row, NoRow, Statuses, Payloads
  <2> QED
      BY <2>2 DEF TypeOK
<1>2. LockOwned'
    BY DEF LockOwned
<1>3. JobAccepted'
    BY DEF TypeOK, Row, NoRow, JobAccepted
<1>4. FullMeansUnapplied' /\ AppliedOncePerWorker'
    BY DEF FullMeansUnapplied, AppliedOncePerWorker
<1>5. ErasedWithCommit'
    BY DEF TypeOK, NoRow, ErasedWithCommit, JobAccepted, Finished
<1>6. LeaseIffProcessing'
    BY DEF TypeOK, NoRow, LeaseIffProcessing
<1> QED
    BY <1>1, <1>2, <1>3, <1>4, <1>5, <1>6

\* A step that changes only clocks and counters of one row: its status,
\* payload and lease owner stay as they are.
LEMMA TouchInv ==
    ASSUME QueueInv, NEW e \in Events, NEW r \in Row,
           row' = [row EXCEPT ![e] = r],
           r.status = row[e].status,
           r.payload = row[e].payload,
           r.lockedBy = row[e].lockedBy,
           UNCHANGED <<rowLock, worker, applied>>
    PROVE  QueueInv'
<1> USE QueueAssumption DEF QueueInv
<1>1. TypeOK'
    BY DEF TypeOK
<1>2. \A f \in Events : /\ row'[f].status = row[f].status
                        /\ row'[f].payload = row[f].payload
                        /\ row'[f].lockedBy = row[f].lockedBy
    BY DEF TypeOK
<1>3. LockOwned' /\ FullMeansUnapplied' /\ AppliedOncePerWorker'
    BY DEF LockOwned, FullMeansUnapplied, AppliedOncePerWorker
<1>4. JobAccepted' /\ ErasedWithCommit' /\ LeaseIffProcessing'
    BY <1>2 DEF JobAccepted, ErasedWithCommit, LeaseIffProcessing
<1> QED
    BY <1>1, <1>3, <1>4

\* Duplicate deliveries and the two clocks are such steps.
LEMMA TouchShape ==
    ASSUME QueueInv, NEW e \in Events,
           TouchDuplicate(e) \/ BackoffElapses(e) \/ LeaseElapses(e)
    PROVE  \E r \in Row : /\ row' = [row EXCEPT ![e] = r]
                          /\ r.status = row[e].status
                          /\ r.payload = row[e].payload
                          /\ r.lockedBy = row[e].lockedBy
                          /\ UNCHANGED <<rowLock, worker, applied>>
<1>1. row[e] \in Row
    BY DEF QueueInv, TypeOK
<1>2. CASE TouchDuplicate(e)
  <2> DEFINE r == [row[e] EXCEPT
                     !.deliveries = @ + 1,
                     !.due = IF row[e].status = "failed" THEN TRUE ELSE @]
  <2>1. row[e].deliveries + 1 \in 0..MaxDeliveries
      BY <1>1, <1>2, QueueAssumption DEF TouchDuplicate, Row
  <2>2. (IF row[e].status = "failed" THEN TRUE ELSE row[e].due) \in BOOLEAN
      BY <1>1 DEF Row
  <2>3. \A d \in 0..MaxDeliveries, b \in BOOLEAN :
           [row[e] EXCEPT !.deliveries = d, !.due = b] \in Row
      BY <1>1 DEF Row
  <2>4. r \in Row
      BY <2>1, <2>2, <2>3
  <2>5. /\ r.status = row[e].status
        /\ r.payload = row[e].payload
        /\ r.lockedBy = row[e].lockedBy
      BY <1>1 DEF Row
  <2>6. row' = [row EXCEPT ![e] = r] /\ UNCHANGED <<rowLock, worker, applied>>
      BY <1>2, Zenon DEF TouchDuplicate
  <2> HIDE DEF r
  <2> QED
      BY <2>4, <2>5, <2>6
<1>3. CASE BackoffElapses(e)
  <2> DEFINE r == [row[e] EXCEPT !.due = TRUE]
  <2>1. /\ r \in Row
        /\ r.status = row[e].status
        /\ r.payload = row[e].payload
        /\ r.lockedBy = row[e].lockedBy
      BY <1>1 DEF Row
  <2>2. row' = [row EXCEPT ![e] = r] /\ UNCHANGED <<rowLock, worker, applied>>
      BY <1>3 DEF BackoffElapses, QueueInv, TypeOK
  <2> HIDE DEF r
  <2> QED
      BY <2>1, <2>2
<1>4. CASE LeaseElapses(e)
  <2> DEFINE r == [row[e] EXCEPT !.leaseOver = TRUE]
  <2>1. /\ r \in Row
        /\ r.status = row[e].status
        /\ r.payload = row[e].payload
        /\ r.lockedBy = row[e].lockedBy
      BY <1>1 DEF Row
  <2>2. row' = [row EXCEPT ![e] = r] /\ UNCHANGED <<rowLock, worker, applied>>
      BY <1>4 DEF LeaseElapses, QueueInv, TypeOK
  <2> HIDE DEF r
  <2> QED
      BY <2>1, <2>2
<1> QED
    BY <1>2, <1>3, <1>4

\* A claim hands out the payload the row holds: it is full only when nobody
\* has committed the event.
LEMMA ClaimInv ==
    ASSUME QueueInv, NEW w \in Workers, Claim(w)
    PROVE  QueueInv'
<1> USE QueueAssumption DEF QueueInv
<1>1. PICK e \in Events :
        /\ Claimable(e)
        /\ row' = [row EXCEPT ![e] = [row[e] EXCEPT !.status = "processing",
                                               !.attempts = @ + 1,
                                               !.leaseOver = FALSE,
                                               !.lockedBy = w]]
        /\ worker' = [worker EXCEPT ![w] = [IdleWorker EXCEPT
                                               !.pc = "claimed",
                                               !.event = e,
                                               !.payload = row[e].payload]]
    BY DEF Claim
<1>2. worker[w].pc = "idle" /\ UNCHANGED <<rowLock, applied>>
    BY DEF Claim
<1>3. row[e].status # "none" /\ row[e].status \notin Finished
      /\ row[e].attempts < MaxAttempts
    BY <1>1 DEF Claimable, Finished
<1>4. row[e] \in Row
    BY DEF TypeOK
<1>5. /\ row'[e].status = "processing"
      /\ row'[e].payload = row[e].payload
      /\ row'[e].lockedBy = w
      /\ \A f \in Events \ {e} : row'[f] = row[f]
    BY <1>1, <1>4 DEF TypeOK, Row
<1>6. /\ worker'[w].pc = "claimed"
      /\ worker'[w].event = e
      /\ worker'[w].payload = row[e].payload
      /\ \A v \in Workers \ {w} : worker'[v] = worker[v]
    BY <1>1 DEF TypeOK, Worker, IdleWorker
<1>7. TypeOK'
  <2>1. [row[e] EXCEPT !.status = "processing", !.attempts = @ + 1,
                       !.leaseOver = FALSE, !.lockedBy = w] \in Row
    <3>1. row[e].attempts + 1 \in 0..MaxAttempts
        BY <1>3, <1>4 DEF Row
    <3>2. \A a \in 0..MaxAttempts :
             [row[e] EXCEPT !.status = "processing", !.attempts = a,
                            !.leaseOver = FALSE, !.lockedBy = w] \in Row
        BY <1>4 DEF Row, Statuses
    <3> QED
        BY <3>1, <3>2
  <2>2. row' \in [Events -> Row]
    <3> DEFINE r == [row[e] EXCEPT !.status = "processing", !.attempts = @ + 1,
                                   !.leaseOver = FALSE, !.lockedBy = w]
    <3>1. row' = [row EXCEPT ![e] = r]
        BY <1>1, Zenon
    <3>2. r \in Row
        BY <2>1
    <3> HIDE DEF r
    <3> QED
        BY <3>1, <3>2 DEF TypeOK
  <2>3. worker' \in [Workers -> Worker]
      BY <1>1, <1>4 DEF TypeOK, Worker, IdleWorker, Row
  <2> QED
      BY <1>2, <2>2, <2>3 DEF TypeOK
<1>8. LockOwned'
    BY <1>2, <1>6 DEF LockOwned, TypeOK
<1>9. JobAccepted'
    BY <1>3, <1>5, <1>6 DEF JobAccepted
<1>10. FullMeansUnapplied' /\ AppliedOncePerWorker'
  <2>1. row[e].payload = "full" => applied[e][w] = 0
      BY DEF ErasedWithCommit, TypeOK
  <2> QED
      BY <1>2, <1>6, <2>1 DEF FullMeansUnapplied, AppliedOncePerWorker
<1>11. ErasedWithCommit'
    BY <1>2, <1>5 DEF ErasedWithCommit, Finished
<1>12. LeaseIffProcessing'
    BY <1>5 DEF LeaseIffProcessing
<1> QED
    BY <1>7, <1>8, <1>9, <1>10, <1>11, <1>12

\* Steps that leave the rows alone and move one worker to a state in which it
\* holds no transaction: rejections, errors, the read of finalizeFailure and
\* abandoned jobs.
LEMMA LeaveTransactionInv ==
    ASSUME QueueInv, NEW w \in Workers, NEW x \in Worker,
           worker' = [worker EXCEPT ![w] = x],
           x.pc \in {"idle", "failing", "finalizing"},
           x.pc # "idle" => x.event = worker[w].event /\ worker[w].pc # "idle",
           rowLock' = Unlocked(w),
           UNCHANGED <<row, applied>>
    PROVE  QueueInv'
<1> USE QueueAssumption DEF QueueInv
<1>1. worker'[w] = x /\ \A v \in Workers \ {w} : worker'[v] = worker[v]
    BY DEF TypeOK
<1>2. TypeOK'
    BY DEF TypeOK, Unlocked
<1>3. LockOwned'
  <2>1. \A f \in Events : rowLock'[f] = IF rowLock[f] = w THEN NoWorker
                                                         ELSE rowLock[f]
      BY DEF Unlocked
  <2>2. \A f \in Events : rowLock'[f] # NoWorker =>
           worker'[rowLock'[f]].pc = "locked" /\ worker'[rowLock'[f]].event = f
      BY <1>1, <2>1 DEF LockOwned, TypeOK
  <2>3. \A v \in Workers : worker'[v].pc = "locked" =>
           worker'[v].payload = "full" /\ rowLock'[worker'[v].event] = v
    <3> SUFFICES ASSUME NEW v \in Workers, worker'[v].pc = "locked"
                 PROVE  worker'[v].payload = "full" /\ rowLock'[worker'[v].event] = v
        OBVIOUS
    <3>1. v # w /\ worker'[v] = worker[v]
        BY <1>1
    <3>2. worker[v].event \in Events
        BY <3>1 DEF JobAccepted
    <3> QED
        BY <2>1, <3>1, <3>2 DEF LockOwned
  <2> QED
      BY <2>2, <2>3 DEF LockOwned
<1>4. JobAccepted'
    BY <1>1 DEF JobAccepted
<1>5. FullMeansUnapplied' /\ AppliedOncePerWorker'
    BY <1>1 DEF FullMeansUnapplied, AppliedOncePerWorker
<1>6. ErasedWithCommit' /\ LeaseIffProcessing'
    BY DEF ErasedWithCommit, LeaseIffProcessing
<1> QED
    BY <1>2, <1>3, <1>4, <1>5, <1>6

\* A worker outside its transaction holds no row lock.
LEMMA NoLockOutside ==
    ASSUME QueueInv, NEW w \in Workers, worker[w].pc # "locked"
    PROVE  Unlocked(w) = rowLock
<1>1. \A f \in Events : rowLock[f] # w
    BY QueueAssumption DEF QueueInv, LockOwned
<1> QED
    BY <1>1 DEF Unlocked, QueueInv, TypeOK

\* The permanent rejection of an erased payload.
LEMMA RejectPayloadInv ==
    ASSUME QueueInv, NEW w \in Workers, RejectPayload(w)
    PROVE  QueueInv'
<1> DEFINE x == [worker[w] EXCEPT !.pc = "failing", !.permanent = TRUE]
<1>1. worker[w] \in Worker /\ worker[w].pc = "claimed"
    BY DEF QueueInv, TypeOK, RejectPayload
<1>2. x \in Worker /\ x.pc = "failing" /\ x.event = worker[w].event
    BY <1>1 DEF Worker
<1>3. worker' = [worker EXCEPT ![w] = x]
    BY <1>1 DEF RejectPayload, QueueInv, TypeOK
<1>4. rowLock' = Unlocked(w)
    BY <1>1, NoLockOutside DEF RejectPayload
<1>5. UNCHANGED <<row, applied>>
    BY DEF RejectPayload
<1> HIDE DEF x
<1> QED
    BY <1>1, <1>2, <1>3, <1>4, <1>5, LeaveTransactionInv

\* A finished event sends the worker back to polling; any other event opens
\* the business transaction.
LEMMA LockEventInv ==
    ASSUME QueueInv, NEW w \in Workers, LockEvent(w)
    PROVE  QueueInv'
<1> USE QueueAssumption DEF QueueInv
<1> DEFINE e == worker[w].event
<1>1. /\ worker[w] \in Worker /\ worker[w].pc = "claimed"
      /\ worker[w].payload = "full" /\ rowLock[e] = NoWorker
      /\ UNCHANGED <<row, applied>>
    BY DEF TypeOK, LockEvent
<1>2. e \in Events /\ row[e].status # "none"
    BY <1>1 DEF JobAccepted
<1>3. CASE row[e].status \in Finished
  <2>1. worker' = [worker EXCEPT ![w] = IdleWorker] /\ rowLock' = Unlocked(w)
      BY <1>1, <1>3, NoLockOutside DEF LockEvent
  <2>2. IdleWorker \in Worker /\ IdleWorker.pc = "idle"
      BY DEF Worker, IdleWorker, Payloads
  <2> QED
      BY <1>1, <2>1, <2>2, LeaveTransactionInv
<1>4. CASE row[e].status \notin Finished
  <2>1. /\ worker' = [worker EXCEPT ![w].pc = "locked"]
        /\ rowLock' = [rowLock EXCEPT ![e] = w]
      BY <1>4 DEF LockEvent
  <2>2. /\ worker'[w].pc = "locked" /\ worker'[w].event = e
        /\ worker'[w].payload = "full"
        /\ \A v \in Workers \ {w} : worker'[v] = worker[v]
      BY <1>1, <2>1 DEF TypeOK, Worker
  <2>3. rowLock'[e] = w /\ \A f \in Events \ {e} : rowLock'[f] = rowLock[f]
      BY <1>2, <2>1 DEF TypeOK
  <2>4. TypeOK'
    <3>1. worker' \in [Workers -> Worker]
        BY <1>1, <2>1 DEF TypeOK, Worker
    <3>2. rowLock' \in [Events -> Workers \cup {NoWorker}]
        BY <2>1 DEF TypeOK
    <3> QED
        BY <1>1, <3>1, <3>2 DEF TypeOK
  <2>5. LockOwned'
    <3>1. \A f \in Events : rowLock'[f] # NoWorker =>
             worker'[rowLock'[f]].pc = "locked" /\ worker'[rowLock'[f]].event = f
        BY <1>1, <2>2, <2>3 DEF LockOwned, TypeOK
    <3>2. \A v \in Workers : worker'[v].pc = "locked" =>
             worker'[v].payload = "full" /\ rowLock'[worker'[v].event] = v
        BY <1>1, <1>2, <2>2, <2>3 DEF LockOwned, JobAccepted
    <3> QED
        BY <3>1, <3>2 DEF LockOwned
  <2>6. JobAccepted' /\ FullMeansUnapplied'
      BY <1>1, <1>2, <2>2 DEF JobAccepted, FullMeansUnapplied
  <2>7. AppliedOncePerWorker' /\ ErasedWithCommit' /\ LeaseIffProcessing'
      BY <1>1 DEF AppliedOncePerWorker, ErasedWithCommit, LeaseIffProcessing
  <2> QED
      BY <2>4, <2>5, <2>6, <2>7
<1> QED
    BY <1>3, <1>4

\* Errors before or inside the business transaction.
LEMMA ProcessingErrorInv ==
    ASSUME QueueInv, NEW w \in Workers, ProcessingError(w)
    PROVE  QueueInv'
<1>1. PICK permanent \in BOOLEAN :
        worker' = [worker EXCEPT ![w].pc = "failing",
                                 ![w].permanent = permanent]
    BY DEF ProcessingError
<1> DEFINE x == [worker[w] EXCEPT !.pc = "failing", !.permanent = permanent]
<1>2. worker[w] \in Worker /\ worker[w].pc # "idle"
    BY DEF QueueInv, TypeOK, ProcessingError
<1>3. x \in Worker /\ x.pc = "failing" /\ x.event = worker[w].event
    BY <1>2 DEF Worker
<1>4. worker' = [worker EXCEPT ![w] = x]
    BY <1>1 DEF QueueInv, TypeOK
<1>5. rowLock' = Unlocked(w) /\ UNCHANGED <<row, applied>>
    BY DEF ProcessingError
<1> HIDE DEF x
<1> QED
    BY <1>2, <1>3, <1>4, <1>5, LeaveTransactionInv

\* The commit is the one step that applies an event: its payload was full, so
\* this worker had not applied it, and the same transaction erases it.
LEMMA CommitInv ==
    ASSUME QueueInv, NEW w \in Workers, Commit(w)
    PROVE  QueueInv'
<1> USE QueueAssumption DEF QueueInv
<1> DEFINE e == worker[w].event
<1>1. worker[w] \in Worker /\ worker[w].pc = "locked"
    BY DEF TypeOK, Commit
<1>2. e \in Events /\ row[e].status # "none" /\ worker[w].payload = "full"
    BY <1>1 DEF JobAccepted, LockOwned
<1>3. applied[e][w] = 0
    BY <1>1, <1>2 DEF FullMeansUnapplied
<1>4. PICK status \in Finished : row' = [row EXCEPT ![e] = Finish(row[e], status)]
    BY DEF Commit
<1>5. row[e] \in Row
    BY <1>2 DEF TypeOK
<1>6. Finish(row[e], status) \in Row
    BY <1>5 DEF Row, Finish, Finished, Statuses, Payloads
<1>7. /\ row'[e].status \in Finished
      /\ row'[e].payload = "erased"
      /\ row'[e].lockedBy = NoWorker
      /\ \A f \in Events \ {e} : row'[f] = row[f]
    BY <1>2, <1>4, <1>5 DEF TypeOK, Row, Finish
<1>8. applied' = [applied EXCEPT ![e] = [applied[e] EXCEPT ![w] = 1]]
    BY <1>2, <1>3 DEF Commit, TypeOK
<1>9. /\ applied'[e][w] = 1
      /\ \A v \in Workers \ {w} : applied'[e][v] = applied[e][v]
      /\ \A f \in Events \ {e} : applied'[f] = applied[f]
    BY <1>2, <1>8 DEF TypeOK
<1>10. PICK x \in Worker :
         /\ worker' = [worker EXCEPT ![w] = x]
         /\ x = IdleWorker \/ (x.pc = "failing" /\ x.event = e)
  <2>1. CASE worker' = [worker EXCEPT ![w] = IdleWorker]
    <3>1. IdleWorker \in Worker
        BY DEF Worker, IdleWorker, Payloads
    <3> QED
        BY <2>1, <3>1
  <2>2. CASE worker' = [worker EXCEPT ![w].pc = "failing", ![w].permanent = FALSE]
    <3> DEFINE x == [worker[w] EXCEPT !.pc = "failing", !.permanent = FALSE]
    <3>1. x \in Worker /\ x.pc = "failing" /\ x.event = e
        BY <1>1 DEF Worker
    <3>2. worker' = [worker EXCEPT ![w] = x]
        BY <2>2 DEF TypeOK
    <3> HIDE DEF x
    <3> QED
        BY <3>1, <3>2
  <2> QED
      BY <2>1, <2>2 DEF Commit
<1>11. /\ worker'[w].pc \in {"idle", "failing"}
       /\ worker'[w].pc # "idle" => worker'[w].event = e
       /\ \A v \in Workers \ {w} : worker'[v] = worker[v]
    BY <1>10 DEF TypeOK, IdleWorker
<1>12. \A f \in Events : rowLock'[f] = IF rowLock[f] = w THEN NoWorker ELSE rowLock[f]
    BY DEF Commit, Unlocked
<1>13. TypeOK'
  <2>1. row' \in [Events -> Row]
      BY <1>4, <1>6 DEF TypeOK
  <2>2. rowLock' \in [Events -> Workers \cup {NoWorker}]
      BY DEF Commit, Unlocked, TypeOK
  <2>3. applied' \in [Events -> [Workers -> Nat]]
      BY <1>8 DEF TypeOK
  <2>4. worker' \in [Workers -> Worker]
      BY <1>10 DEF TypeOK
  <2> QED
      BY <2>1, <2>2, <2>3, <2>4 DEF TypeOK
<1>14. LockOwned'
  <2>1. \A f \in Events : rowLock'[f] # NoWorker =>
           worker'[rowLock'[f]].pc = "locked" /\ worker'[rowLock'[f]].event = f
      BY <1>11, <1>12 DEF LockOwned, TypeOK
  <2>2. \A v \in Workers : worker'[v].pc = "locked" =>
           worker'[v].payload = "full" /\ rowLock'[worker'[v].event] = v
      BY <1>11, <1>12 DEF LockOwned, JobAccepted
  <2> QED
      BY <2>1, <2>2 DEF LockOwned
<1>15. JobAccepted'
    BY <1>2, <1>7, <1>11 DEF JobAccepted, Finished
<1>16. FullMeansUnapplied'
    BY <1>9, <1>11 DEF FullMeansUnapplied, JobAccepted
<1>17. AppliedOncePerWorker'
    BY <1>9 DEF AppliedOncePerWorker
<1>18. ErasedWithCommit'
  <2>1. \E v \in Workers : applied'[e][v] > 0
      BY <1>9
  <2> QED
      BY <1>7, <1>9, <2>1 DEF ErasedWithCommit
<1>19. LeaseIffProcessing'
    BY <1>7 DEF LeaseIffProcessing, Finished
<1> QED
    BY <1>13, <1>14, <1>15, <1>16, <1>17, <1>18, <1>19

\* The read of finalizeFailure.
LEMMA FinalizeReadInv ==
    ASSUME QueueInv, NEW w \in Workers, FinalizeRead(w)
    PROVE  QueueInv'
<1> DEFINE d == \/ worker[w].permanent
                \/ row[worker[w].event].attempts >= MaxAttempts
           x == [worker[w] EXCEPT !.pc = "finalizing", !.deadLetter = d]
<1>1. worker[w] \in Worker /\ worker[w].pc = "failing"
    BY DEF QueueInv, TypeOK, FinalizeRead
<1>2. worker' = [worker EXCEPT ![w] = x]
    BY <1>1 DEF FinalizeRead, QueueInv, TypeOK
<1>3. d \in BOOLEAN
    BY <1>1 DEF Worker
<1> HIDE DEF d
<1>4. x \in Worker /\ x.pc = "finalizing" /\ x.event = worker[w].event
    BY <1>1, <1>3 DEF Worker
<1>5. rowLock' = Unlocked(w)
    BY <1>1, NoLockOutside DEF FinalizeRead
<1>6. UNCHANGED <<row, applied>>
    BY DEF FinalizeRead
<1> HIDE DEF x
<1> QED
    BY <1>1, <1>2, <1>4, <1>5, <1>6, LeaveTransactionInv

\* The unconditional update of finalizeFailure: it changes the status of the
\* event but neither its payload nor what has been applied.
LEMMA FinalizeWriteInv ==
    ASSUME QueueInv, NEW w \in Workers, FinalizeWrite(w)
    PROVE  QueueInv'
<1> USE QueueAssumption DEF QueueInv
<1> DEFINE e == worker[w].event
           r == Failed(row[e], worker[w].deadLetter)
<1>0. CASE r.status \notin StatusAllowed
  <2>1. worker[w].pc = "finalizing" /\ worker' = [worker EXCEPT ![w] = IdleWorker]
        /\ UNCHANGED <<row, rowLock, applied>>
      BY <1>0 DEF FinalizeWrite
  <2>2. IdleWorker \in Worker /\ IdleWorker.pc = "idle"
      BY DEF Worker, IdleWorker, Payloads
  <2>3. rowLock' = Unlocked(w)
      BY <2>1, NoLockOutside
  <2> QED
      BY <2>1, <2>2, <2>3, LeaveTransactionInv
<1> SUFFICES ASSUME r.status \in StatusAllowed PROVE QueueInv'
    BY <1>0
<1>1. /\ worker[w] \in Worker /\ worker[w].pc = "finalizing"
      /\ row' = [row EXCEPT ![e] = r]
      /\ worker' = [worker EXCEPT ![w] = IdleWorker]
      /\ UNCHANGED <<rowLock, applied>>
    BY DEF TypeOK, FinalizeWrite
<1>2. e \in Events /\ row[e] \in Row /\ row[e].status # "none"
    BY <1>1 DEF JobAccepted, TypeOK
<1>3. r \in Row
  <2>1. worker[w].deadLetter \in BOOLEAN
      BY <1>1 DEF Worker
  <2>2. \A b \in BOOLEAN : Failed(row[e], b) \in Row
      BY <1>2 DEF Row, Failed, Statuses
  <2> QED
      BY <2>1, <2>2
<1>4. /\ r.status \in {"failed", "dead_letter"}
      /\ r.payload = row[e].payload
      /\ r.lockedBy = NoWorker
    BY <1>2 DEF Row, Failed
<1> HIDE DEF r
<1>5. row'[e] = r /\ \A f \in Events \ {e} : row'[f] = row[f]
    BY <1>1, <1>2 DEF TypeOK
<1>6. worker'[w].pc = "idle" /\ \A v \in Workers \ {w} : worker'[v] = worker[v]
    BY <1>1 DEF TypeOK, IdleWorker
<1>7. TypeOK'
  <2>1. IdleWorker \in Worker
      BY DEF Worker, IdleWorker, Payloads
  <2> QED
      BY <1>1, <1>3, <2>1 DEF TypeOK
<1>8. LockOwned'
    BY <1>1, <1>6 DEF LockOwned, TypeOK
<1>9. JobAccepted'
    BY <1>4, <1>5, <1>6 DEF JobAccepted
<1>10. FullMeansUnapplied' /\ AppliedOncePerWorker'
    BY <1>1, <1>6 DEF FullMeansUnapplied, AppliedOncePerWorker
<1>11. ErasedWithCommit'
    BY <1>1, <1>4, <1>5 DEF ErasedWithCommit, Finished
<1>12. LeaseIffProcessing'
    BY <1>4, <1>5 DEF LeaseIffProcessing
<1> QED
    BY <1>7, <1>8, <1>9, <1>10, <1>11, <1>12

\* A crash or shutdown in the middle of a job.
LEMMA AbandonInv ==
    ASSUME QueueInv, NEW w \in Workers, Abandon(w)
    PROVE  QueueInv'
<1>1. IdleWorker \in Worker /\ IdleWorker.pc = "idle"
    BY DEF Worker, IdleWorker, Payloads
<1> QED
    BY <1>1, LeaveTransactionInv DEF Abandon

\* Every step of the queue preserves the inductive invariant.
LEMMA NextQueueInv == QueueInv /\ [Next]_vars => QueueInv'
<1> SUFFICES ASSUME QueueInv, [Next]_vars PROVE QueueInv'
    OBVIOUS
<1>1. ASSUME NEW e \in Events,
             Enqueue(e) \/ TouchDuplicate(e) \/ BackoffElapses(e) \/ LeaseElapses(e)
      PROVE  QueueInv'
    BY <1>1, EnqueueInv, TouchShape, TouchInv
<1>2. ASSUME NEW w \in Workers, WorkerStep(w)
      PROVE  QueueInv'
    BY <1>2, ClaimInv, RejectPayloadInv, LockEventInv, ProcessingErrorInv,
       CommitInv, FinalizeReadInv, FinalizeWriteInv DEF WorkerStep
<1>3. ASSUME NEW w \in Workers, Abandon(w)
      PROVE  QueueInv'
    BY <1>3, AbandonInv
<1>4. CASE UNCHANGED vars
    BY <1>4 DEF vars, QueueInv, TypeOK, LockOwned, JobAccepted,
       FullMeansUnapplied, AppliedOncePerWorker, ErasedWithCommit,
       LeaseIffProcessing
<1> QED
    BY <1>1, <1>2, <1>3, <1>4 DEF Next

\* The inductive invariant holds in every reachable state.
LEMMA QueueInvariant == Spec => []QueueInv
<1>1. QueueInv /\ [Next]_vars => QueueInv'
    BY NextQueueInv
<1> QED
    BY <1>1, InitQueueInv, PTL DEF Spec

\* Type correctness of the queue for every instance.
THEOREM TypeCorrect == Spec => []TypeOK
<1>1. QueueInv => TypeOK
    BY DEF QueueInv
<1> QED
    BY <1>1, QueueInvariant, PTL

\* For any number of workers and any attempt limit, no worker commits the
\* business transaction of ProcessWebhookEvent for one event twice.
THEOREM NoWorkerAppliesTwice == Spec => []AppliedOncePerWorker
<1>1. QueueInv => AppliedOncePerWorker
    BY DEF QueueInv
<1> QED
    BY <1>1, QueueInvariant, PTL

\* finishProductionWebhook's erasure and the business commit never come apart,
\* and no later delivery, failure or retry brings the payload back.
THEOREM PayloadErasedWithCommit == Spec => []ErasedWithCommit
<1>1. QueueInv => ErasedWithCommit
    BY DEF QueueInv
<1> QED
    BY <1>1, QueueInvariant, PTL

\* The lease columns name an owner exactly in status processing.
THEOREM LeaseMatchesStatus == Spec => []LeaseIffProcessing
<1>1. QueueInv => LeaseIffProcessing
    BY DEF QueueInv
<1> QED
    BY <1>1, QueueInvariant, PTL

-----------------------------------------------------------------------------
(* Refinement: the queue implements WebhookInbox.                           *)

\* Nothing is accepted or applied initially.
LEMMA InitInbox == Init => Inbox!InboxInit
    BY DEF Init, Inbox!InboxInit, NoRow

\* A first delivery accepts, a commit applies, every other step stutters.
LEMMA StepInbox ==
    ASSUME QueueInv, [Next]_vars
    PROVE  [Inbox!InboxNext]_(Inbox!inboxVars)
<1> DEFINE accepted == {e \in Events : row[e].status # "none"}
<1>1. ASSUME NEW e \in Events, Enqueue(e)
      PROVE  Inbox!Accept(e)
    BY <1>1 DEF Enqueue, Inbox!Accept, QueueInv, TypeOK, Row, NoRow
<1>2. ASSUME NEW e \in Events,
             TouchDuplicate(e) \/ BackoffElapses(e) \/ LeaseElapses(e)
      PROVE  accepted' = accepted /\ UNCHANGED applied
  <2>1. PICK r \in Row : row' = [row EXCEPT ![e] = r] /\ r.status = row[e].status
                         /\ UNCHANGED applied
      BY <1>2, TouchShape
  <2>2. \A f \in Events : row'[f].status = row[f].status
      BY <2>1 DEF QueueInv, TypeOK
  <2> QED
      BY <2>1, <2>2
<1>3. ASSUME NEW w \in Workers, Claim(w)
      PROVE  accepted' = accepted /\ UNCHANGED applied
  <2>1. PICK e \in Events :
          /\ Claimable(e)
          /\ row' = [row EXCEPT ![e] = [row[e] EXCEPT !.status = "processing",
                                                      !.attempts = @ + 1,
                                                      !.leaseOver = FALSE,
                                                      !.lockedBy = w]]
      BY <1>3 DEF Claim
  <2>2. row[e].status # "none" /\ row'[e].status = "processing"
        /\ \A f \in Events \ {e} : row'[f] = row[f]
      BY <2>1 DEF Claimable, QueueInv, TypeOK, Row
  <2> QED
      BY <1>3, <2>2 DEF Claim
<1>4. ASSUME NEW w \in Workers,
             \/ RejectPayload(w) \/ LockEvent(w) \/ ProcessingError(w)
             \/ FinalizeRead(w) \/ Abandon(w)
      PROVE  accepted' = accepted /\ UNCHANGED applied
    BY <1>4 DEF RejectPayload, LockEvent, ProcessingError, FinalizeRead, Abandon
<1>5. ASSUME NEW w \in Workers, FinalizeWrite(w)
      PROVE  accepted' = accepted /\ UNCHANGED applied
  <2> DEFINE e == worker[w].event
  <2>1. e \in Events /\ row[e] \in Row /\ row[e].status # "none"
      BY <1>5 DEF FinalizeWrite, QueueInv, JobAccepted, TypeOK
  <2>2. row'[e].status # "none" /\ \A f \in Events \ {e} : row'[f] = row[f]
      BY <1>5, <2>1 DEF FinalizeWrite, Failed, QueueInv, TypeOK, Row
  <2> QED
      BY <1>5, <2>1, <2>2 DEF FinalizeWrite
<1>6. ASSUME NEW w \in Workers, Commit(w)
      PROVE  \E e \in Events : Inbox!Apply(e, w)
  <2> DEFINE e == worker[w].event
  <2>1. /\ e \in Events /\ row[e] \in Row /\ row[e].status # "none"
        /\ applied[e][w] = 0
      BY <1>6 DEF Commit, QueueInv, JobAccepted, TypeOK, LockOwned, FullMeansUnapplied
  <2>2. row'[e].status # "none" /\ \A f \in Events \ {e} : row'[f] = row[f]
      BY <1>6, <2>1 DEF Commit, Finish, Finished, QueueInv, TypeOK, Row
  <2>3. accepted' = accepted
      BY <2>1, <2>2
  <2>4. applied' = [applied EXCEPT ![e][w] = 1]
      BY <1>6, <2>1 DEF Commit, QueueInv, TypeOK
  <2> QED
      BY <2>1, <2>3, <2>4 DEF Inbox!Apply
<1>7. CASE UNCHANGED vars
    BY <1>7 DEF vars, Inbox!inboxVars
<1> QED
    BY <1>1, <1>2, <1>3, <1>4, <1>5, <1>6, <1>7
    DEF Next, WorkerStep, Inbox!InboxNext, Inbox!inboxVars

\* The detailed queue, with its leases, crashes and lost replies, implements
\* the promise of WebhookInbox.
THEOREM QueueImplementsInbox == Spec => ImplementsInbox
<1>1. QueueInv /\ [Next]_vars => [Inbox!InboxNext]_(Inbox!inboxVars)
    BY StepInbox
<1> QED
    BY <1>1, InitInbox, QueueInvariant, PTL DEF Spec, ImplementsInbox, Inbox!InboxSpec

=============================================================================
