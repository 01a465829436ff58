------------------------ MODULE BillingLedgerProofs ------------------------
(***************************************************************************)
(* Machine-checked safety of the billing ledger, for every set of webhook   *)
(* envelopes, any number of workers and any clock: LedgerInv is inductive   *)
(* and implies the safety properties of BillingLedger.                      *)
(***************************************************************************)
EXTENDS BillingLedger, TLAPS

Pcs == {"idle", "order", "provision", "insert", "remove", "upsert", "pay", "commit"}

TxType == [pc : Pcs, event : made \cup {"none"}, at : Times, began : Times,
           newProv : Times, dropProv : BOOLEAN, newReal : SubType, lockReal : BOOLEAN]

\* The state has its shape.
StateTyped ==
    /\ made \subseteq EventType
    /\ now \in 1..MaxTime
    /\ orderAt \in Times
    /\ prov \in [there : BOOLEAN, until : Times]
    /\ granted \in Nat
    /\ real \in SubType
    /\ outbox \in [made -> Nat]
    /\ failures \in 0..MaxFailures
    /\ ran \subseteq made \X Workers
    /\ applied \subseteq made \X Times
    /\ tx \in [Workers -> TxType]

\* What a transaction t may have written, by the event it handles.
TxShaped(t) ==
    /\ t.pc # "idle" => t.event \in made
    /\ t.pc # "commit" => t.newProv = 0 /\ ~t.lockReal
    /\ t.newReal.there => t.lockReal
    /\ t.dropProv => t.event.kind = "subscription" /\ t.event.order
    /\ t.pc \in {"order", "provision", "insert"} => t.event.kind = "order"
    /\ t.pc \in {"remove", "upsert"} => t.event.kind = "subscription"
    /\ t.pc = "pay" => t.event.kind \in {"failed", "recovered"} /\ real.there
    /\ t.newProv # 0 => ~t.dropProv /\ ~t.lockReal

\* No committed row has the order's key while t is about to insert it; and a
\* real row with the key goes with the deletion of the provisional row.
KeyFree(t) ==
    /\ t.newProv # 0 => ~prov.there /\ ~(real.there /\ real.order)
    /\ t.newReal.there /\ t.newReal.order => ~prov.there \/ t.dropProv

SameSale(r, s) ==
    r.at = s.at /\ r.plan = s.plan /\ r.periodEnd = s.periodEnd /\ r.order = s.order

\* A subscription event about to commit is the newest, or is stale and leaves
\* the row; a payment keeps what was sold.
NewestPending(t) ==
    t.pc = "commit" =>
        /\ t.event.kind = "subscription" =>
              \/ /\ t.newReal.there
                 /\ SameSale(t.newReal, SubscriptionRow(t.event, t.at))
                 /\ real.there => real.at <= t.at
              \/ ~t.newReal.there /\ real.there /\ t.at <= real.at
        /\ t.event.kind \in {"failed", "recovered"} =>
              t.newReal.there /\ real.there /\ SameSale(t.newReal, real)
        /\ t.event.kind \in {"order", "success"} => ~t.newReal.there

\* One transaction has the real row locked.
RealLockOnce ==
    \A v, w \in Workers : v # w => ~(tx[v].lockReal /\ tx[w].lockReal)

\* One transaction has the order's key if it is to enter the provisional row.
OrderKeyOnce ==
    \A v, w \in Workers : v # w /\ tx[v].newProv # 0 =>
        tx[w].newProv = 0 /\ ~(tx[w].newReal.there /\ tx[w].newReal.order)

RealMeansApplied == real.there <=> SubscriptionEvents # {}

\* Some applied event detached the subscription from its order.
Detached == \E a \in SubscriptionEvents : ~a[1].order

\* After the first grant the order is known by the provisional row or by the
\* subscription, until an event detaches it.
GrantKnown == granted > 0 /\ ~Detached => prov.there \/ (real.there /\ real.order)

\* The inductive invariant.
LedgerInv ==
    /\ StateTyped
    /\ \A w \in Workers : TxShaped(tx[w]) /\ KeyFree(tx[w]) /\ NewestPending(tx[w])
    /\ RealLockOnce
    /\ OrderKeyOnce
    /\ ~(prov.there /\ real.there /\ real.order)
    /\ RealMeansApplied
    /\ NewestEventWins
    /\ NotifiedOnce
    /\ GrantKnown
    /\ ProvisionalOnce

-----------------------------------------------------------------------------
(* The operators.                                                           *)

\* The row of a subscription event is a row, and carries the event's time.
LEMMA SubscriptionRowType ==
    ASSUME NEW e \in EventType, NEW at \in Times
    PROVE  /\ SubscriptionRow(e, at) \in SubType
           /\ SubscriptionRow(e, at).there
           /\ SubscriptionRow(e, at).at = at
           /\ SubscriptionRow(e, at).order = e.order
<1>1. /\ e.renews \in Nat /\ e.ends \in Nat /\ at \in Nat /\ e.pro \in BOOLEAN /\ e.order \in BOOLEAN
    BY DEF EventType, Times
<1>2. AccessUntil(e, at) \in Nat
    BY <1>1, LedgerAssumption DEF AccessUntil, Max2, OrElse
<1>3. AccessStatus(e) \in {"trialing", "active", "past_due", "canceled", "expired"}
    BY DEF AccessStatus
<1>4. (IF e.pro THEN AccessUntil(e, at) ELSE at) \in Nat
    BY <1>1, <1>2
<1>5. (IF e.pro THEN AccessStatus(e) ELSE "expired")
          \in {"trialing", "active", "past_due", "canceled", "expired"}
    BY <1>3
<1>6. (IF e.pro THEN "pro" ELSE "free") \in {"pro", "free"}
    OBVIOUS
<1> QED
    BY <1>1, <1>4, <1>5, <1>6 DEF SubscriptionRow, SubType, Times

\* A payment leaves the time, plan, period and order of the row as they are.
LEMMA PaymentRowType ==
    ASSUME NEW e, NEW r \in SubType, NEW t \in Times
    PROVE  /\ PaymentRow(e, r, t) \in SubType
           /\ PaymentRow(e, r, t).there = r.there
           /\ SameSale(PaymentRow(e, r, t), r)
<1>1. r.periodEnd \in Nat /\ r.until \in Nat /\ t \in Nat
    BY DEF SubType, Times
<1>2. Max2(OrElse(r.periodEnd, t), t) + Grace \in Nat
    BY <1>1, LedgerAssumption DEF Max2, OrElse
<1>3. Max2(Max2(OrElse(r.until, t), OrElse(r.periodEnd, t)), t) \in Nat
    BY <1>1 DEF Max2, OrElse
<1>4. ASSUME NEW u \in Nat, NEW s \in {"past_due", "active"}
      PROVE  LET p == [r EXCEPT !.status = s, !.until = u] IN
             p \in SubType /\ p.there = r.there /\ SameSale(p, r)
    BY <1>4 DEF SubType, Times, SameSale
<1> QED
    BY <1>2, <1>3, <1>4 DEF PaymentRow

-----------------------------------------------------------------------------
(* The steps.                                                               *)

\* Nothing is written and nobody works at the start.
LEMMA InitLedger == Init => LedgerInv
<1> SUFFICES ASSUME Init PROVE LedgerInv
    OBVIOUS
<1> USE DEF Init
<1>1. IdleTx \in TxType /\ NoSub \in SubType
    BY DEF IdleTx, NoSub, TxType, SubType, Times, Pcs
<1>2. StateTyped
  <2>1. made \subseteq EventType
      BY LedgerAssumption
  <2>2. tx \in [Workers -> TxType] /\ real \in SubType
      BY <1>1
  <2> QED
      BY <2>1, <2>2, LedgerAssumption DEF StateTyped, Times, NoProv
<1>3. \A w \in Workers : TxShaped(tx[w]) /\ KeyFree(tx[w]) /\ NewestPending(tx[w])
  <2>1. TxShaped(IdleTx) /\ KeyFree(IdleTx) /\ NewestPending(IdleTx)
      BY DEF IdleTx, NoSub, TxShaped, KeyFree, NewestPending
  <2> QED
      BY <2>1
<1>4. RealLockOnce /\ OrderKeyOnce
    BY DEF IdleTx, RealLockOnce, OrderKeyOnce
<1>5. ~(prov.there /\ real.there /\ real.order)
    BY DEF NoProv
<1>6. RealMeansApplied /\ NewestEventWins /\ NotifiedOnce
    BY DEF RealMeansApplied, NewestEventWins, NotifiedOnce, SubscriptionEvents, NoSub
<1>7. GrantKnown /\ ProvisionalOnce
    BY DEF GrantKnown, ProvisionalOnce
<1> QED
    BY <1>2, <1>3, <1>4, <1>5, <1>6, <1>7 DEF LedgerInv

\* A statement of w's transaction changes only what w has not committed.  It
\* keeps the invariant if the new transaction record r has its shape, takes
\* the lock of the real row only when it is free, and the order's key too.
LEMMA StatementStep ==
    ASSUME LedgerInv, NEW w \in Workers, NEW r \in TxType,
           tx' = [tx EXCEPT ![w] = r],
           UNCHANGED <<made, now, orderAt, prov, granted, real, outbox, applied, ran>>,
           failures' \in 0..MaxFailures,
           TxShaped(r), KeyFree(r), NewestPending(r),
           r.lockReal => \A v \in Workers \ {w} : ~tx[v].lockReal,
           r.newProv # 0 => \A v \in Workers \ {w} :
               tx[v].newProv = 0 /\ ~(tx[v].newReal.there /\ tx[v].newReal.order),
           r.newReal.there /\ r.newReal.order =>
               \A v \in Workers \ {w} : tx[v].newProv = 0
    PROVE  LedgerInv'
<1> USE DEF LedgerInv
<1>0. tx \in [Workers -> TxType]
    BY DEF StateTyped
<1>1. tx'[w] = r /\ \A v \in Workers \ {w} : tx'[v] = tx[v]
    BY <1>0
<1>2. StateTyped'
  <2>1. TxType' = TxType
      BY DEF TxType
  <2>2. tx' \in [Workers -> TxType]
      BY <1>0
  <2> QED
      BY <2>1, <2>2 DEF StateTyped
<1>3. \A v \in Workers : (TxShaped(tx[v]) /\ KeyFree(tx[v]) /\ NewestPending(tx[v]))'
  <2> TAKE v \in Workers
  <2>2. CASE v = w
      BY <1>1, <2>2 DEF TxShaped, KeyFree, NewestPending
  <2>3. CASE v # w
      BY <1>1, <2>3 DEF TxShaped, KeyFree, NewestPending
  <2> QED
      BY <2>2, <2>3
<1>4. RealLockOnce'
    BY <1>1 DEF RealLockOnce
<1>5. OrderKeyOnce'
    BY <1>1 DEF OrderKeyOnce
<1>6. (RealMeansApplied /\ NewestEventWins /\ NotifiedOnce)'
    BY DEF RealMeansApplied, NewestEventWins, NotifiedOnce, SubscriptionEvents
<1>7. (GrantKnown /\ ProvisionalOnce)'
    BY DEF GrantKnown, ProvisionalOnce, Detached, SubscriptionEvents
<1> QED
    BY <1>2, <1>3, <1>4, <1>5, <1>6, <1>7

\* A transaction that ends leaves nothing behind but its worker, idle.
LEMMA AbortStep ==
    ASSUME LedgerInv, NEW w \in Workers, tx' = [tx EXCEPT ![w] = IdleTx],
           UNCHANGED <<made, now, orderAt, prov, granted, real, outbox, applied, ran>>,
           failures' \in 0..MaxFailures
    PROVE  LedgerInv'
<1>1. IdleTx \in TxType
    BY DEF IdleTx, NoSub, TxType, SubType, Times, Pcs
<1>2. TxShaped(IdleTx) /\ KeyFree(IdleTx) /\ NewestPending(IdleTx)
    BY DEF IdleTx, NoSub, TxShaped, KeyFree, NewestPending
<1>3. ~IdleTx.lockReal /\ IdleTx.newProv = 0 /\ ~IdleTx.newReal.there
    BY DEF IdleTx, NoSub
<1> QED
    BY <1>1, <1>2, <1>3, StatementStep

\* The handler starts with an empty transaction; a payment event has found the
\* subscription it is about.
LEMMA BeginStep ==
    ASSUME LedgerInv, NEW w \in Workers, NEW e \in made, Begin(w, e), UNCHANGED made
    PROVE  LedgerInv'
<1> DEFINE at == OrElse(e.at, now)
           pc == CASE e.kind = "order" -> "order"
                   [] e.kind = "subscription" -> "remove"
                   [] e.kind = "success" -> "commit"
                   [] OTHER -> "pay"
           r == [IdleTx EXCEPT !.pc = pc, !.event = e, !.at = at, !.began = now]
<1>1. e \in EventType /\ now \in Nat /\ failures \in 0..MaxFailures
    BY DEF LedgerInv, StateTyped
<1>2. at \in Times /\ now \in Times
    BY <1>1 DEF OrElse, EventType, Times
<1>3. pc \in Pcs
    BY DEF Pcs
<1>4. e.kind \in {"order", "subscription", "failed", "recovered", "success"}
    BY <1>1 DEF EventType
<1>5. /\ pc \in {"order", "provision", "insert"} => e.kind = "order"
      /\ pc \in {"remove", "upsert"} => e.kind = "subscription"
      /\ pc = "pay" => e.kind \in {"failed", "recovered"}
      /\ pc = "commit" => e.kind = "success"
    BY <1>4
<1>6. pc = "pay" => real.there
    BY <1>4 DEF Begin
<1>7. tx' = [tx EXCEPT ![w] = r]
    BY Zenon DEF Begin
<1> HIDE DEF at, pc
<1>8. r \in TxType
    BY <1>2, <1>3 DEF IdleTx, NoSub, TxType, SubType, Times
<1>9. /\ r.pc = pc /\ r.event = e /\ ~r.lockReal /\ r.newProv = 0
      /\ ~r.dropProv /\ ~r.newReal.there
    BY DEF IdleTx, NoSub
<1> HIDE DEF r
<1>10. TxShaped(r) /\ KeyFree(r) /\ NewestPending(r)
    BY <1>5, <1>6, <1>9 DEF TxShaped, KeyFree, NewestPending
<1>11. failures' \in 0..MaxFailures /\ UNCHANGED <<made, now, orderAt, prov, granted, real, outbox, applied, ran>>
    BY <1>1 DEF Begin
<1> QED
    BY <1>7, <1>8, <1>9, <1>10, <1>11, StatementStep

\* Steps that only go on to another statement, without a write.
LEMMA GotoStep ==
    ASSUME LedgerInv, NEW w \in Workers, NEW pc \in Pcs \ {"idle"},
           tx[w].pc \in {"order", "provision"},
           pc \in {"provision", "insert", "commit"},
           tx' = [tx EXCEPT ![w].pc = pc],
           UNCHANGED <<made, now, orderAt, prov, granted, real, outbox, applied, ran, failures>>
    PROVE  LedgerInv'
<1> DEFINE r == [tx[w] EXCEPT !.pc = pc]
<1>1. tx[w] \in TxType /\ failures \in 0..MaxFailures /\ tx \in [Workers -> TxType]
    BY DEF LedgerInv, StateTyped
<1>2. TxShaped(tx[w]) /\ KeyFree(tx[w])
    BY DEF LedgerInv
<1>3. r \in TxType
    BY <1>1 DEF TxType
<1>4. /\ r.pc = pc /\ r.event = tx[w].event /\ r.lockReal = tx[w].lockReal
      /\ r.newProv = tx[w].newProv /\ r.dropProv = tx[w].dropProv
      /\ r.newReal = tx[w].newReal
    BY <1>1 DEF TxType
<1>5. tx' = [tx EXCEPT ![w] = r]
    BY <1>1
<1> HIDE DEF r
<1>6. r.event.kind = "order" /\ ~r.lockReal /\ r.newProv = 0 /\ ~r.newReal.there
    BY <1>2, <1>4 DEF TxShaped
<1>7. TxShaped(r) /\ KeyFree(r) /\ NewestPending(r)
    BY <1>2, <1>4, <1>6 DEF TxShaped, KeyFree, NewestPending
<1> QED
    BY <1>1, <1>3, <1>5, <1>6, <1>7, StatementStep

\* The order of a provisional row is in nobody's row when it is inserted.
LEMMA InsertStep ==
    ASSUME LedgerInv, NEW w \in Workers, InsertProvisional(w), UNCHANGED made
    PROVE  LedgerInv'
<1> DEFINE r == [tx[w] EXCEPT !.pc = "commit", !.newProv = now + Provisional]
<1>1. tx[w] \in TxType /\ failures \in 0..MaxFailures /\ tx \in [Workers -> TxType] /\ now \in Nat
    BY DEF LedgerInv, StateTyped
<1>2. TxShaped(tx[w]) /\ KeyFree(tx[w]) /\ tx[w].pc = "insert"
    BY DEF LedgerInv, InsertProvisional
<1>3. now + Provisional \in Times /\ now + Provisional # 0
    BY <1>1, LedgerAssumption DEF Times
<1>4. r \in TxType
    BY <1>1, <1>3 DEF TxType, Pcs
<1>5. /\ r.pc = "commit" /\ r.event = tx[w].event /\ r.lockReal = tx[w].lockReal
      /\ r.newProv # 0 /\ r.dropProv = tx[w].dropProv
      /\ r.newReal = tx[w].newReal
    BY <1>1, <1>3 DEF TxType
<1>6. tx' = [tx EXCEPT ![w] = r]
    BY <1>1 DEF InsertProvisional
<1> HIDE DEF r
<1>7. r.event.kind = "order" /\ ~r.lockReal /\ ~r.newReal.there /\ ~r.dropProv /\ r.event \in made
    BY <1>2, <1>5 DEF TxShaped
<1>8. ~prov.there /\ ~(real.there /\ real.order)
    BY <1>5, <1>7 DEF InsertProvisional, OrderKeyTaken
<1>9. TxShaped(r) /\ KeyFree(r) /\ NewestPending(r)
    BY <1>5, <1>7, <1>8 DEF TxShaped, KeyFree, NewestPending
<1>10. \A v \in Workers \ {w} : tx[v].newProv = 0 /\ ~(tx[v].newReal.there /\ tx[v].newReal.order)
    BY DEF InsertProvisional, OrderKeyPending
<1>11. UNCHANGED <<made, now, orderAt, prov, granted, real, outbox, applied, ran, failures>>
    BY DEF InsertProvisional
<1> QED
    BY <1>1, <1>4, <1>6, <1>7, <1>9, <1>10, <1>11, StatementStep

\* The deletion of the provisional row is only noted.
LEMMA RemoveStep ==
    ASSUME LedgerInv, NEW w \in Workers, RemoveProvisional(w), UNCHANGED made
    PROVE  LedgerInv'
<1> DEFINE drop == tx[w].event.order /\ prov.there
           r == [tx[w] EXCEPT !.pc = "upsert", !.dropProv = drop]
<1>1. tx[w] \in TxType /\ failures \in 0..MaxFailures /\ tx \in [Workers -> TxType]
    BY DEF LedgerInv, StateTyped
<1>2. TxShaped(tx[w]) /\ KeyFree(tx[w]) /\ tx[w].pc = "remove"
    BY DEF LedgerInv, RemoveProvisional
<1>3. drop \in BOOLEAN /\ (drop => tx[w].event.order)
    OBVIOUS
<1>4. tx' = [tx EXCEPT ![w].pc = "upsert", ![w].dropProv = drop]
    BY DEF RemoveProvisional
<1> HIDE DEF drop
<1>5. r \in TxType
    BY <1>1, <1>3 DEF TxType, Pcs
<1>6. /\ r.pc = "upsert" /\ r.event = tx[w].event /\ r.lockReal = tx[w].lockReal
      /\ r.newProv = tx[w].newProv /\ r.dropProv = drop
      /\ r.newReal = tx[w].newReal
    BY <1>1 DEF TxType
<1>7. tx' = [tx EXCEPT ![w] = r]
    BY <1>1, <1>4
<1> HIDE DEF r
<1>8. /\ r.event.kind = "subscription" /\ ~r.lockReal /\ ~r.newReal.there
      /\ r.newProv = 0 /\ r.event \in made
    BY <1>2, <1>6 DEF TxShaped
<1>9. TxShaped(r) /\ KeyFree(r) /\ NewestPending(r)
    BY <1>3, <1>6, <1>8 DEF TxShaped, KeyFree, NewestPending
<1>10. UNCHANGED <<made, now, orderAt, prov, granted, real, outbox, applied, ran, failures>>
    BY DEF RemoveProvisional
<1> QED
    BY <1>1, <1>5, <1>7, <1>8, <1>9, <1>10, StatementStep

\* The upsert writes a row that is at least as new as the committed one, and
\* enters the order's key only where nobody has it; otherwise it only locks.
LEMMA UpsertStep ==
    ASSUME LedgerInv, NEW w \in Workers, UpsertSubscription(w), UNCHANGED made
    PROVE  LedgerInv'
<1> DEFINE row == SubscriptionRow(tx[w].event, tx[w].at)
<1>1. /\ tx[w] \in TxType /\ failures \in 0..MaxFailures /\ tx \in [Workers -> TxType]
      /\ real \in SubType
    BY DEF LedgerInv, StateTyped
<1>2. TxShaped(tx[w]) /\ KeyFree(tx[w]) /\ tx[w].pc = "upsert"
    BY DEF LedgerInv, UpsertSubscription
<1>3. /\ tx[w].event.kind = "subscription" /\ ~tx[w].lockReal /\ ~tx[w].newReal.there
      /\ tx[w].newProv = 0 /\ tx[w].event \in made
    BY <1>2 DEF TxShaped
<1>4. tx[w].event \in EventType /\ tx[w].at \in Nat
    BY <1>1, <1>3 DEF LedgerInv, StateTyped, TxType, Times
<1>5. row \in SubType /\ row.there /\ row.at = tx[w].at
    BY <1>4, SubscriptionRowType DEF Times
<1>6. UNCHANGED <<made, now, orderAt, prov, granted, real, outbox, applied, ran, failures>>
    BY DEF UpsertSubscription
<1>7. \A v \in Workers \ {w} : ~tx[v].lockReal
    BY DEF UpsertSubscription, RealLocked
<1>8. CASE Accepts(tx[w].at)
  <2> DEFINE r == [tx[w] EXCEPT !.pc = "commit", !.lockReal = TRUE, !.newReal = row]
  <2>1. /\ row.order => ~OrderKeyPending(w)
        /\ ~OrderConflict(w, row)
        /\ tx' = [tx EXCEPT ![w].pc = "commit", ![w].lockReal = TRUE, ![w].newReal = row]
      BY <1>8 DEF UpsertSubscription
  <2>2. SameSale(row, SubscriptionRow(tx[w].event, tx[w].at))
      BY DEF SameSale
  <2> HIDE DEF row
  <2>3. r \in TxType
      BY <1>1, <1>5 DEF TxType, Pcs
  <2>4. /\ r.pc = "commit" /\ r.event = tx[w].event /\ r.lockReal
        /\ r.newProv = tx[w].newProv /\ r.dropProv = tx[w].dropProv
        /\ r.newReal = row /\ r.at = tx[w].at
      BY <1>1 DEF TxType
  <2>5. tx' = [tx EXCEPT ![w] = r]
      BY <1>1, <2>1
  <2> HIDE DEF r
  <2>6. row.order => ~prov.there \/ tx[w].dropProv
      BY <2>1 DEF OrderConflict, OrderKeyTaken, LedgerInv
  <2>7. real.there => real.at <= tx[w].at
      BY <1>1, <1>4, <1>8 DEF Accepts, SubType, Times
  <2>8. TxShaped(r) /\ KeyFree(r)
      BY <1>2, <1>3, <2>4, <2>6 DEF TxShaped, KeyFree
  <2>9. NewestPending(r)
      BY <1>3, <1>5, <2>2, <2>4, <2>7 DEF NewestPending
  <2>10. row.order => \A v \in Workers \ {w} : tx[v].newProv = 0
      BY <2>1 DEF OrderKeyPending
  <2> QED
      BY <1>1, <1>3, <1>6, <1>7, <2>3, <2>4, <2>5, <2>8, <2>9, <2>10, StatementStep
<1>9. CASE ~Accepts(tx[w].at)
  <2> DEFINE r == [tx[w] EXCEPT !.pc = "commit", !.lockReal = TRUE]
  <2>1. tx' = [tx EXCEPT ![w].pc = "commit", ![w].lockReal = TRUE]
      BY <1>9 DEF UpsertSubscription
  <2>2. r \in TxType
      BY <1>1 DEF TxType, Pcs
  <2>3. /\ r.pc = "commit" /\ r.event = tx[w].event /\ r.lockReal
        /\ r.newProv = tx[w].newProv /\ r.dropProv = tx[w].dropProv
        /\ r.newReal = tx[w].newReal /\ r.at = tx[w].at
      BY <1>1 DEF TxType
  <2>4. tx' = [tx EXCEPT ![w] = r]
      BY <1>1, <2>1
  <2> HIDE DEF r
  <2>5. real.there /\ tx[w].at <= real.at
      BY <1>1, <1>4, <1>9 DEF Accepts, SubType, Times
  <2>6. TxShaped(r) /\ KeyFree(r)
      BY <1>2, <1>3, <2>3 DEF TxShaped, KeyFree
  <2>7. NewestPending(r)
      BY <1>3, <2>3, <2>5 DEF NewestPending
  <2> QED
      BY <1>1, <1>3, <1>6, <1>7, <2>2, <2>3, <2>4, <2>6, <2>7, StatementStep
<1> QED
    BY <1>8, <1>9

\* A payment event rewrites the status and the access date of the row it has
\* locked.
LEMMA PaymentStep ==
    ASSUME LedgerInv, NEW w \in Workers, UpdatePayment(w), UNCHANGED made
    PROVE  LedgerInv'
<1> DEFINE row == PaymentRow(tx[w].event, real, tx[w].began)
           r == [tx[w] EXCEPT !.pc = "commit", !.lockReal = TRUE, !.newReal = row]
<1>1. /\ tx[w] \in TxType /\ failures \in 0..MaxFailures /\ tx \in [Workers -> TxType]
      /\ real \in SubType
    BY DEF LedgerInv, StateTyped
<1>2. TxShaped(tx[w]) /\ KeyFree(tx[w]) /\ tx[w].pc = "pay"
    BY DEF LedgerInv, UpdatePayment
<1>3. /\ tx[w].event.kind \in {"failed", "recovered"} /\ real.there
      /\ ~tx[w].lockReal /\ ~tx[w].newReal.there
      /\ tx[w].newProv = 0 /\ tx[w].event \in made
    BY <1>2 DEF TxShaped
<1>4. tx[w].began \in Times
    BY <1>1 DEF TxType
<1>5. row \in SubType /\ row.there /\ SameSale(row, real)
    BY <1>1, <1>3, <1>4, PaymentRowType
<1>6. UNCHANGED <<made, now, orderAt, prov, granted, real, outbox, applied, ran, failures>>
    BY DEF UpdatePayment
<1>7. \A v \in Workers \ {w} : ~tx[v].lockReal
    BY DEF UpdatePayment, RealLocked
<1>8. tx' = [tx EXCEPT ![w].pc = "commit", ![w].lockReal = TRUE, ![w].newReal = row]
    BY DEF UpdatePayment
<1> HIDE DEF row
<1>9. r \in TxType
    BY <1>1, <1>5 DEF TxType, Pcs
<1>10. /\ r.pc = "commit" /\ r.event = tx[w].event /\ r.lockReal
       /\ r.newProv = tx[w].newProv /\ r.dropProv = tx[w].dropProv
       /\ r.newReal = row /\ r.at = tx[w].at
    BY <1>1 DEF TxType
<1>11. tx' = [tx EXCEPT ![w] = r]
    BY <1>1, <1>8
<1> HIDE DEF r
<1>12. row.order => ~prov.there
    BY <1>3, <1>5 DEF LedgerInv, SameSale
<1>13. row.order => \A v \in Workers \ {w} : tx[v].newProv = 0
    BY <1>3, <1>5 DEF LedgerInv, KeyFree, SameSale
<1>14. TxShaped(r) /\ KeyFree(r)
    BY <1>2, <1>3, <1>10, <1>12 DEF TxShaped, KeyFree
<1>15. NewestPending(r)
    BY <1>3, <1>5, <1>10 DEF NewestPending
<1> QED
    BY <1>1, <1>3, <1>6, <1>7, <1>9, <1>10, <1>11, <1>13, <1>14, <1>15, StatementStep

\* The commit of w: what it publishes, for the rows and for the history.
LEMMA CommitRows ==
    ASSUME LedgerInv, NEW w \in Workers, Commit(w), UNCHANGED made
    PROVE  /\ tx[w].pc = "commit" /\ tx[w] \in TxType /\ tx[w].event \in made
           /\ real' = (IF tx[w].newReal.there THEN tx[w].newReal ELSE real)
           /\ prov' = (IF tx[w].newProv # 0 THEN [there |-> TRUE, until |-> tx[w].newProv]
                       ELSE IF tx[w].dropProv THEN NoProv ELSE prov)
           /\ real' \in SubType /\ prov' \in [there : BOOLEAN, until : Times]
           /\ real.there => real'.there /\ real.at <= real'.at
<1> DEFINE t == tx[w]
<1>1. t.pc = "commit" /\ t \in TxType /\ real \in SubType /\ prov \in [there : BOOLEAN, until : Times]
    BY DEF LedgerInv, StateTyped, Commit
<1>2. TxShaped(t) /\ NewestPending(t)
    BY DEF LedgerInv
<1>3. t.event \in made
    BY <1>1, <1>2 DEF TxShaped
<1>4. t.event \in EventType
    BY <1>3 DEF LedgerInv, StateTyped
<1>5. real' = IF t.newReal.there THEN t.newReal ELSE real
    BY DEF Commit
<1>6. prov' = (IF t.newProv # 0 THEN [there |-> TRUE, until |-> t.newProv]
               ELSE IF t.dropProv THEN NoProv ELSE prov)
  <2>1. prov' = CASE t.newProv # 0 -> [there |-> TRUE, until |-> t.newProv]
                  [] t.dropProv    -> NoProv
                  [] OTHER         -> prov
      BY DEF Commit
  <2>2. t.newProv # 0 => ~t.dropProv
      BY <1>2 DEF TxShaped
  <2> QED
      BY <2>1, <2>2
<1>7. real' \in SubType
    BY <1>1, <1>5 DEF TxType
<1>8. prov' \in [there : BOOLEAN, until : Times]
    BY <1>1, <1>6 DEF TxType, NoProv, Times
<1>9. real.there => real'.there /\ real.at <= real'.at
  <2>1. CASE ~t.newReal.there
      BY <1>1, <1>5, <2>1 DEF SubType, Times
  <2>2. CASE t.newReal.there /\ t.event.kind = "subscription"
    <3>1. SubscriptionRow(t.event, t.at).at = t.at
        BY <1>1, <1>4, SubscriptionRowType DEF TxType
    <3> QED
        BY <1>1, <1>2, <1>5, <2>2, <3>1 DEF NewestPending, SameSale
  <2>3. CASE t.newReal.there /\ t.event.kind # "subscription"
    <3>1. t.event.kind \in {"failed", "recovered"}
        BY <1>1, <1>2, <1>4, <2>3 DEF NewestPending, EventType
    <3> QED
        BY <1>1, <1>2, <1>5, <2>3, <3>1 DEF NewestPending, SameSale, SubType, Times
  <2> QED
      BY <2>1, <2>2, <2>3
<1> QED
    BY <1>1, <1>3, <1>5, <1>6, <1>7, <1>8, <1>9

\* The history of a commit: the row keeps or takes the newest timestamp.
LEMMA CommitHistory ==
    ASSUME LedgerInv, NEW w \in Workers, Commit(w), UNCHANGED made
    PROVE  (RealMeansApplied /\ NewestEventWins)'
<1> DEFINE t == tx[w]
<1>1. /\ t.pc = "commit" /\ t \in TxType /\ t.event \in made
      /\ real' = IF t.newReal.there THEN t.newReal ELSE real
      /\ real' \in SubType
      /\ real.there => real'.there /\ real.at <= real'.at
    BY CommitRows
<1>2. TxShaped(t) /\ NewestPending(t) /\ RealMeansApplied /\ NewestEventWins
    BY DEF LedgerInv
<1>3. t.event \in EventType /\ real \in SubType /\ applied \subseteq made \X Times
    BY <1>1 DEF LedgerInv, StateTyped
<1>4. t.at \in Nat /\ real.at \in Nat /\ real'.at \in Nat
    BY <1>1, <1>3 DEF TxType, SubType, Times
<1>5. applied' = applied \cup {<<t.event, t.at>>}
    BY DEF Commit
<1>6. \A a \in SubscriptionEvents : a[2] \in Nat
    BY <1>3 DEF SubscriptionEvents, Times
<1>7. CASE t.event.kind = "subscription"
  <2> DEFINE new == <<t.event, t.at>>
             row == SubscriptionRow(t.event, t.at)
  <2>1. SubscriptionEvents' = SubscriptionEvents \cup {new}
      BY <1>5, <1>7 DEF SubscriptionEvents
  <2>2. new[1] = t.event /\ new[2] = t.at
      OBVIOUS
  <2>3. row.at = t.at
      BY <1>3, <1>4, SubscriptionRowType DEF Times
  <2>4. CASE t.newReal.there
    <3>1. real' = t.newReal /\ SameSale(t.newReal, row) /\ (real.there => real.at <= t.at)
        BY <1>1, <1>2, <1>7, <2>4 DEF NewestPending
    <3>2. real'.there /\ real'.at = t.at
        BY <2>3, <2>4, <3>1 DEF SameSale
    <3>3. \A a \in SubscriptionEvents' : a[2] <= real'.at
      <4>1. \A a \in SubscriptionEvents : a[2] <= real.at /\ real.at <= t.at
          BY <1>2, <3>1 DEF NewestEventWins, RealMeansApplied
      <4> QED
          BY <1>4, <1>6, <2>1, <2>2, <3>2, <4>1
    <3>4. /\ row.at = real'.at /\ row.plan = real'.plan
          /\ row.periodEnd = real'.periodEnd /\ row.order = real'.order
        BY <3>1 DEF SameSale
    <3>5. \E a \in SubscriptionEvents' :
             LET s == SubscriptionRow(a[1], a[2]) IN
             /\ s.at = real'.at /\ s.plan = real'.plan
             /\ s.periodEnd = real'.periodEnd /\ s.order = real'.order
      <4>1. new \in SubscriptionEvents'
          BY <2>1
      <4> QED
          BY <2>2, <3>4, <4>1
    <3> QED
        BY <2>1, <3>2, <3>3, <3>5 DEF NewestEventWins, RealMeansApplied
  <2>5. CASE ~t.newReal.there
    <3>1. real' = real /\ real.there /\ t.at <= real.at
        BY <1>1, <1>2, <1>7, <2>5 DEF NewestPending
    <3>2. \A a \in SubscriptionEvents' : a[2] <= real'.at
        BY <1>2, <2>1, <2>2, <3>1 DEF NewestEventWins
    <3>3. \E a \in SubscriptionEvents' :
             LET s == SubscriptionRow(a[1], a[2]) IN
             /\ s.at = real'.at /\ s.plan = real'.plan
             /\ s.periodEnd = real'.periodEnd /\ s.order = real'.order
        BY <1>2, <2>1, <3>1 DEF NewestEventWins, RealMeansApplied
    <3> QED
        BY <2>1, <3>1, <3>2, <3>3 DEF NewestEventWins, RealMeansApplied
  <2> QED
      BY <2>4, <2>5
<1>8. CASE t.event.kind # "subscription"
  <2>1. SubscriptionEvents' = SubscriptionEvents
      BY <1>5, <1>8 DEF SubscriptionEvents
  <2>2. CASE t.newReal.there
    <3>1. real.there /\ SameSale(t.newReal, real) /\ real' = t.newReal
        BY <1>1, <1>2, <1>3, <1>8, <2>2 DEF NewestPending, EventType
    <3>2. /\ real'.there /\ real'.at = real.at /\ real'.plan = real.plan
          /\ real'.periodEnd = real.periodEnd /\ real'.order = real.order
        BY <2>2, <3>1 DEF SameSale
    <3> QED
        BY <1>2, <2>1, <3>1, <3>2 DEF NewestEventWins, RealMeansApplied
  <2>3. CASE ~t.newReal.there
    <3>1. real' = real
        BY <1>1, <2>3
    <3> QED
        BY <1>2, <2>1, <3>1 DEF NewestEventWins, RealMeansApplied
  <2> QED
      BY <2>2, <2>3
<1> QED
    BY <1>7, <1>8

\* The grant of a commit: the first one, unless the order was detached; and
\* the order stays known by a row until it is.
LEMMA CommitGrant ==
    ASSUME LedgerInv, NEW w \in Workers, Commit(w), UNCHANGED made
    PROVE  (GrantKnown /\ ProvisionalOnce)'
<1> DEFINE t == tx[w]
<1>1. /\ t.pc = "commit" /\ t.event \in made
      /\ real' = IF t.newReal.there THEN t.newReal ELSE real
      /\ prov' = (IF t.newProv # 0 THEN [there |-> TRUE, until |-> t.newProv]
                  ELSE IF t.dropProv THEN NoProv ELSE prov)
      /\ real.there => real'.there
    BY CommitRows
<1>2. TxShaped(t) /\ KeyFree(t) /\ NewestPending(t) /\ GrantKnown /\ ProvisionalOnce
    BY DEF LedgerInv
<1>3. granted \in Nat /\ granted' = IF t.newProv # 0 THEN granted + 1 ELSE granted
    BY DEF LedgerInv, StateTyped, Commit
<1>4. Detached => Detached'
    BY DEF Detached, SubscriptionEvents, Commit
<1>5. real'.there /\ ~Detached' => real'.order
  <2>1. (RealMeansApplied /\ NewestEventWins)'
      BY CommitHistory
  <2>2. \A e, at : SubscriptionRow(e, at).order = e.order
      BY DEF SubscriptionRow
  <2> QED
      BY <2>1, <2>2 DEF RealMeansApplied, NewestEventWins, Detached
<1>6. t.dropProv => real'.there
    BY <1>1, <1>2 DEF TxShaped, NewestPending
<1> HIDE DEF t
<1>7. CASE t.newProv # 0
  <2>1. prov'.there
      BY <1>1, <1>7
  <2>2. granted > 0 => Detached
      BY <1>2, <1>7 DEF KeyFree, GrantKnown
  <2> QED
      BY <1>3, <1>4, <1>7, <2>1, <2>2 DEF GrantKnown, ProvisionalOnce, Detached
<1>8. CASE t.newProv = 0
  <2>1. granted' = granted
      BY <1>3, <1>8
  <2>2. ProvisionalOnce'
      BY <1>2, <1>4, <2>1 DEF ProvisionalOnce, Detached
  <2>3. GrantKnown'
      BY <1>1, <1>2, <1>4, <1>5, <1>6, <1>8, <2>1 DEF GrantKnown
  <2> QED
      BY <2>2, <2>3
<1> QED
    BY <1>7, <1>8

\* The commit publishes the order's key once, and at most one outbox entry.
LEMMA CommitStep ==
    ASSUME LedgerInv, NEW w \in Workers, Commit(w), UNCHANGED made
    PROVE  LedgerInv'
<1> DEFINE t == tx[w]
<1>1. /\ t.pc = "commit" /\ t \in TxType /\ t.event \in made
      /\ real' = IF t.newReal.there THEN t.newReal ELSE real
      /\ prov' = (IF t.newProv # 0 THEN [there |-> TRUE, until |-> t.newProv]
                  ELSE IF t.dropProv THEN NoProv ELSE prov)
      /\ real' \in SubType /\ prov' \in [there : BOOLEAN, until : Times]
      /\ real.there => real'.there /\ real.at <= real'.at
    BY CommitRows
<1>2. TxShaped(t) /\ KeyFree(t) /\ NewestPending(t) /\ StateTyped
    BY DEF LedgerInv
<1>3. tx' = [tx EXCEPT ![w] = IdleTx] /\ tx \in [Workers -> TxType]
    BY DEF Commit, LedgerInv, StateTyped
<1>4. tx'[w] = IdleTx /\ \A v \in Workers \ {w} : tx'[v] = tx[v]
    BY <1>3
<1>5. IdleTx \in TxType /\ ~IdleTx.lockReal /\ IdleTx.newProv = 0 /\ ~IdleTx.newReal.there
    BY DEF IdleTx, NoSub, TxType, SubType, Times, Pcs
<1>6. StateTyped'
  <2>1. TxType' = TxType
      BY DEF TxType
  <2>2. tx' \in [Workers -> TxType]
      BY <1>3, <1>5
  <2>3. orderAt' \in Times
      BY <1>1, <1>2 DEF Commit, StateTyped, TxType, Times, Max2
  <2>4. outbox' \in [made -> Nat]
      BY <1>1, <1>2 DEF Commit, StateTyped, Notify, Max2
  <2>5. ran' \subseteq made \X Workers /\ applied' \subseteq made \X Times
      BY <1>1, <1>2 DEF Commit, StateTyped, TxType
  <2>6. UNCHANGED <<now, failures>>
      BY DEF Commit
  <2>7. granted' \in Nat
      BY <1>2 DEF Commit, StateTyped
  <2> QED
      BY <1>1, <1>2, <2>1, <2>2, <2>3, <2>4, <2>5, <2>6, <2>7 DEF StateTyped
<1>7. \A v \in Workers : (TxShaped(tx[v]) /\ KeyFree(tx[v]) /\ NewestPending(tx[v]))'
  <2> TAKE v \in Workers
  <2>1. CASE v = w
      BY <1>4, <2>1 DEF IdleTx, NoSub, TxShaped, KeyFree, NewestPending
  <2>2. CASE v # w
    <3> DEFINE u == tx[v]
    <3>1. tx'[v] = u /\ u \in TxType
        BY <1>3, <1>4, <2>2
    <3>2. TxShaped(u) /\ KeyFree(u) /\ NewestPending(u)
        BY DEF LedgerInv
    <3>3. /\ u.newProv # 0 => t.newProv = 0 /\ ~(t.newReal.there /\ t.newReal.order)
          /\ t.newProv # 0 => ~(u.newReal.there /\ u.newReal.order)
          /\ ~(u.lockReal /\ t.lockReal)
        BY <2>2 DEF LedgerInv, OrderKeyOnce, RealLockOnce
    <3> HIDE DEF u, t
    <3>4. TxShaped(tx[v])'
        BY <1>1, <3>1, <3>2 DEF TxShaped
    <3>5. u.newProv # 0 => ~prov'.there /\ ~(real'.there /\ real'.order)
        BY <1>1, <3>2, <3>3 DEF KeyFree, NoProv
    <3>6. u.newReal.there /\ u.newReal.order => ~prov'.there \/ u.dropProv
        BY <1>1, <3>2, <3>3 DEF KeyFree, NoProv
    <3>7. u.newReal.there => real' = real
        BY <1>1, <1>2, <3>2, <3>3 DEF TxShaped
    <3>8. u.at \in Nat /\ real.at \in Nat /\ real'.at \in Nat
        BY <1>1, <1>2, <3>1 DEF TxType, StateTyped, SubType, Times
    <3>9. NewestPending(tx[v])'
        BY <1>1, <3>1, <3>2, <3>7, <3>8 DEF NewestPending
    <3> QED
        BY <3>1, <3>4, <3>5, <3>6, <3>9 DEF KeyFree
  <2> QED
      BY <2>1, <2>2
<1>8. RealLockOnce' /\ OrderKeyOnce'
    BY <1>4, <1>5 DEF LedgerInv, RealLockOnce, OrderKeyOnce
<1>9. ~(prov'.there /\ real'.there /\ real'.order)
  <2> HIDE DEF t
  <2> QED
      BY <1>1, <1>2 DEF TxShaped, KeyFree, NoProv, LedgerInv
<1>10. (RealMeansApplied /\ NewestEventWins)'
    BY CommitHistory
<1>11. NotifiedOnce'
  <2> DEFINE new == <<t.event, t.at>>
  <2>1. applied' = applied \cup {new} /\ new[1] = t.event
      BY DEF Commit
  <2> HIDE DEF new
  <2>2. \A e \in made : (\E a \in applied' : a[1] = e) <=> (e = t.event \/ \E a \in applied : a[1] = e)
      BY <2>1
  <2>3. outbox' = IF Notifies(t.event) THEN [outbox EXCEPT ![t.event] = Notify(outbox[t.event])] ELSE outbox
      BY DEF Commit
  <2>4. NotifiedOnce /\ outbox \in [made -> Nat] /\ made' = made
      BY DEF LedgerInv, StateTyped
  <2>5. Notify(0) = 1 /\ Notify(1) = 1
      BY DEF Notify, Max2
  <2> HIDE DEF t
  <2>6. \A e \in made : outbox'[e] = IF Notifies(e) /\ \E a \in applied' : a[1] = e THEN 1 ELSE 0
    <3> TAKE e \in made
    <3>1. CASE e = t.event
        BY <1>1, <2>2, <2>3, <2>4, <2>5, <3>1 DEF NotifiedOnce
    <3>2. CASE e # t.event
        BY <1>1, <2>2, <2>3, <2>4, <3>2 DEF NotifiedOnce
    <3> QED
        BY <3>1, <3>2
  <2> QED
      BY <2>4, <2>6 DEF NotifiedOnce, Notifies
<1>12. (GrantKnown /\ ProvisionalOnce)'
    BY CommitGrant
<1> QED
    BY <1>6, <1>7, <1>8, <1>9, <1>10, <1>11, <1>12 DEF LedgerInv

\* Every step of the workers and of the clock keeps the invariant.
LEMMA NextLedger == LedgerInv /\ [Next]_vars => LedgerInv'
<1> SUFFICES ASSUME LedgerInv, [Next]_vars PROVE LedgerInv'
    OBVIOUS
<1>1. CASE UNCHANGED vars
  <2>1. TxType' = TxType
      BY <1>1 DEF vars, TxType
  <2> QED
      BY <1>1, <2>1 DEF vars, LedgerInv, StateTyped, TxShaped, KeyFree, NewestPending,
         RealLockOnce, OrderKeyOnce, RealMeansApplied, NewestEventWins, NotifiedOnce,
         SubscriptionEvents, GrantKnown, ProvisionalOnce, Detached
<1>2. CASE UNCHANGED made /\ Tick
  <2>1. TxType' = TxType
      BY <1>2 DEF TxType
  <2>2. StateTyped'
      BY <1>2, <2>1, LedgerAssumption DEF Tick, LedgerInv, StateTyped
  <2> QED
      BY <1>2, <2>2 DEF Tick, LedgerInv, TxShaped, KeyFree, NewestPending,
         RealLockOnce, OrderKeyOnce, RealMeansApplied, NewestEventWins, NotifiedOnce,
         SubscriptionEvents, GrantKnown, ProvisionalOnce, Detached
<1>3. ASSUME NEW w \in Workers, UNCHANGED made, Step(w)
      PROVE  LedgerInv'
  <2>0. failures \in 0..MaxFailures
      BY DEF LedgerInv, StateTyped
  <2>1. ASSUME NEW e \in made, Begin(w, e) PROVE LedgerInv'
      BY <1>3, <2>1, BeginStep
  <2>2. CASE UpsertOrder(w)
      BY <1>3, <2>2, GotoStep DEF UpsertOrder, Goto, Pcs
  <2>3. CASE CheckProvisional(w)
    <3> DEFINE pc == IF prov.there \/ (real.there /\ real.order) THEN "commit" ELSE "insert"
    <3>1. pc \in Pcs \ {"idle"} /\ pc \in {"provision", "insert", "commit"}
        BY DEF Pcs
    <3>2. /\ tx[w].pc = "provision"
          /\ tx' = [tx EXCEPT ![w].pc = pc]
          /\ UNCHANGED <<now, orderAt, prov, granted, real, outbox, applied, ran, failures>>
        BY <2>3 DEF CheckProvisional, Goto
    <3> HIDE DEF pc
    <3> QED
        BY <1>3, <3>1, <3>2, GotoStep
  <2>4. CASE InsertProvisional(w)
      BY <1>3, <2>4, InsertStep
  <2>5. CASE RemoveProvisional(w)
      BY <1>3, <2>5, RemoveStep
  <2>6. CASE UpsertSubscription(w)
      BY <1>3, <2>6, UpsertStep
  <2>7. CASE UpdatePayment(w)
      BY <1>3, <2>7, PaymentStep
  <2>8. CASE Commit(w)
      BY <1>3, <2>8, CommitStep
  <2>9. CASE UniqueViolation(w)
      BY <1>3, <2>0, <2>9, AbortStep DEF UniqueViolation
  <2> QED
      BY <1>3, <2>1, <2>2, <2>3, <2>4, <2>5, <2>6, <2>7, <2>8, <2>9 DEF Step
<1>4. ASSUME NEW w \in Workers, UNCHANGED made, Rollback(w)
      PROVE  LedgerInv'
  <2>1. failures' \in 0..MaxFailures
      BY <1>4, LedgerAssumption DEF LedgerInv, StateTyped, Rollback
  <2> QED
      BY <1>4, <2>1, AbortStep DEF Rollback
<1> QED
    BY <1>1, <1>2, <1>3, <1>4 DEF Next

\* LedgerInv holds in every reachable state of the ledger.
THEOREM LedgerInvariant == Spec => []LedgerInv
<1> QED
    BY InitLedger, NextLedger, PTL DEF Spec

\* However order_created, subscription_created and payment events interleave
\* on any number of workers (webhook_order.go, webhook_subscription.go), the
\* order pays for one row and the state has its types.
THEOREM OrderPaysOneRow == Spec => []OneRowPerOrder
<1>1. LedgerInv => OneRowPerOrder
  <2> SUFFICES ASSUME LedgerInv PROVE OneRowPerOrder
      OBVIOUS
  <2>1. \A w \in Workers :
          /\ tx[w].pc \in {"idle", "order", "provision", "insert", "remove",
                           "upsert", "pay", "commit"}
          /\ tx[w].newReal \in SubType
      BY DEF LedgerInv, StateTyped, TxType, Pcs
  <2>2. \A w \in Workers :
          /\ tx[w].pc # "idle" => tx[w].event \in made
          /\ tx[w].pc # "commit" => tx[w].newProv = 0 /\ ~tx[w].lockReal
          /\ tx[w].newReal.there => tx[w].lockReal
      BY DEF LedgerInv, TxShaped
  <2> QED
      BY <2>1, <2>2 DEF LedgerInv, StateTyped, OneRowPerOrder, TypeOK
<1> QED
    BY <1>1, LedgerInvariant, PTL

\* Late, repeated and reordered subscription events (the where clause of
\* upsertSubscription): the committed row always carries the newest of them.
THEOREM NewestWins == Spec => []NewestEventWins
<1>1. LedgerInv => NewestEventWins
    BY DEF LedgerInv
<1> QED
    BY <1>1, LedgerInvariant, PTL

\* An applied event leaves exactly one outbox entry although several workers
\* may apply it (enqueueProductionNotification, on conflict do nothing).
THEOREM OutboxOnce == Spec => []NotifiedOnce
<1>1. LedgerInv => NotifiedOnce
    BY DEF LedgerInv
<1> QED
    BY <1>1, LedgerInvariant, PTL

\* However often order_created is applied and however its provisional row is
\* deleted in between (the "where not exists" of webhook_order.go, the delete
\* and the upsert of webhook_subscription.go), the fifteen minutes are granted
\* once unless an applied event detached the subscription from the order.
THEOREM GrantedOnce == Spec => []ProvisionalOnce
<1>1. LedgerInv => ProvisionalOnce
    BY DEF LedgerInv
<1> QED
    BY <1>1, LedgerInvariant, PTL
=============================================================================
