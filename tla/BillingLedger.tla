--------------------------- MODULE BillingLedger ---------------------------
(***************************************************************************)
(* What the business transaction of a billing webhook writes: the order,    *)
(* the provisional and the real subscription row and the notification       *)
(* outbox (internal/billing/webhook_order.go, webhook_subscription.go,      *)
(* webhook_payment.go, webhook_user.go; migrations 0010 and 0018).          *)
(*                                                                          *)
(* The rows are those of one user, one order and the subscription bought    *)
(* with it.  Transactions of several workers interleave statement by        *)
(* statement under READ COMMITTED: a statement reads committed rows, waits  *)
(* for uncommitted writes of the rows or index keys it needs, and a unique  *)
(* key taken meanwhile aborts the transaction.  The queue in front of it    *)
(* (WebhookQueue) lets every worker commit an event at most once.           *)
(***************************************************************************)
EXTENDS Integers, FiniteSets

CONSTANTS Scenarios,    \* sets of webhook envelopes, see EventType
          Workers,      \* webhook workers
          Grace,        \* BILLING_GRACE_PERIOD
          Provisional,  \* provisionalOrderAccess
          MaxTime,      \* bound on the clock
          MaxFailures   \* bound on spurious transaction failures

VARIABLES made,      \* the envelopes of this behaviour
          now,       \* the clock
          orderAt,   \* billing_orders.provider_updated_at, 0 when there is no row
          prov,      \* the provisional row: provider_subscription_id is null
          granted,   \* history: provisional rows ever committed
          real,      \* the row with a provider_subscription_id
          outbox,    \* billing_notification_outbox: rows per event
          tx,        \* the open transaction of each worker
          applied,   \* history: <<event, effective timestamp>> committed
          ran,       \* history: <<event, worker>> committed
          failures   \* spurious failures so far

vars == <<made, now, orderAt, prov, granted, real, outbox, tx, applied, ran, failures>>

\* A time of the provider or of the clock; 0 is a missing time.
Times == Nat

EventType == [id     : STRING,
              kind   : {"order", "subscription", "failed", "recovered", "success"},
              at     : Times,       \* updated_at
              status : {"on_trial", "active", "past_due", "cancelled", "expired", "other"},
              renews : Times,
              ends   : Times,
              pro    : BOOLEAN,     \* the variant is the configured one
              order  : BOOLEAN,     \* order_id is present
              user   : BOOLEAN]     \* custom_data names a known user

ASSUME LedgerAssumption ==
    /\ \A events \in Scenarios : \A e \in events : e \in EventType
    /\ Grace \in Nat /\ Provisional \in Nat \ {0}
    /\ MaxTime \in Nat \ {0} /\ MaxFailures \in Nat

Max2(a, b) == IF a >= b THEN a ELSE b

\* coalesce(a, b) on times.
OrElse(a, b) == IF a = 0 THEN b ELSE a

NoProv == [there |-> FALSE, until |-> 0]

NoSub == [there |-> FALSE, at |-> 0, plan |-> "free", status |-> "expired",
          until |-> 0, periodEnd |-> 0, order |-> FALSE]

\* newProv is the access_until of an uncommitted provisional row, 0 for none;
\* newReal the uncommitted version of the real row; lockReal its row lock.
IdleTx == [pc |-> "idle", event |-> "none", at |-> 0, began |-> 0,
           newProv |-> 0, dropProv |-> FALSE, newReal |-> NoSub,
           lockReal |-> FALSE]

Init ==
    /\ made \in Scenarios
    /\ now = 1
    /\ orderAt = 0
    /\ prov = NoProv
    /\ granted = 0
    /\ real = NoSub
    /\ outbox = [e \in made |-> 0]
    /\ tx = [w \in Workers |-> IdleTx]
    /\ applied = {}
    /\ ran = {}
    /\ failures = 0

-----------------------------------------------------------------------------
(* What an envelope means.                                                  *)

\* The status and access date of resolveProductionAccess.
AccessStatus(e) ==
    CASE e.status = "on_trial"  -> "trialing"
      [] e.status = "active"    -> "active"
      [] e.status = "past_due"  -> "past_due"
      [] e.status = "cancelled" -> "canceled"
      [] OTHER                  -> "expired"

AccessUntil(e, at) ==
    CASE e.status \in {"on_trial", "active"} -> e.renews
      [] e.status = "past_due"               -> Max2(at, e.renews) + Grace
      [] e.status = "cancelled"              -> OrElse(e.ends, e.renews)
      [] OTHER                               -> OrElse(e.ends, at)

\* resolveProductionAccess rejects an unknown status and a missing date.
Resolvable(e, at) ==
    /\ e.status # "other"
    /\ AccessUntil(e, at) # 0

\* Plausible bug: the upsert does not store the order id, so nothing tells
\* order_created that its order already has a subscription.
SubscriptionRowWithoutOrder(e, at) ==
    [there     |-> TRUE,
     at        |-> at,
     plan      |-> IF e.pro THEN "pro" ELSE "free",
     status    |-> IF e.pro THEN AccessStatus(e) ELSE "expired",
     until     |-> IF e.pro THEN AccessUntil(e, at) ELSE at,
     periodEnd |-> e.renews,
     order     |-> FALSE]

\* The row a subscription event asks for: another variant revokes Pro.
SubscriptionRow(e, at) ==
    [there     |-> TRUE,
     at        |-> at,
     plan      |-> IF e.pro THEN "pro" ELSE "free",
     status    |-> IF e.pro THEN AccessStatus(e) ELSE "expired",
     until     |-> IF e.pro THEN AccessUntil(e, at) ELSE at,
     periodEnd |-> e.renews,
     order     |-> e.order]

\* The row after a payment event; t is now() of the transaction.
PaymentRow(e, r, t) ==
    IF e.kind = "failed"
    THEN [r EXCEPT !.status = "past_due",
                   !.until = Max2(OrElse(r.periodEnd, t), t) + Grace]
    ELSE [r EXCEPT !.status = "active",
                   !.until = Max2(Max2(OrElse(r.until, t), OrElse(r.periodEnd, t)), t)]

-----------------------------------------------------------------------------
(* Transactions.                                                            *)

Busy(e) == \E v \in Workers : tx[v].pc # "idle" /\ tx[v].event = e

\* Another open transaction has written or locked the real row.
RealLocked(w) == \E v \in Workers \ {w} : tx[v].lockReal

\* Another open transaction has deleted the provisional row.
ProvLocked(w) == \E v \in Workers \ {w} : tx[v].dropProv

\* Another open transaction holds the order's key in the unique index
\* subscriptions_provider_order_unique.
OrderKeyPending(w) ==
    \E v \in Workers \ {w} :
        tx[v].newProv # 0 \/ (tx[v].newReal.there /\ tx[v].newReal.order)

\* The order's key is taken by a committed row that w has not deleted.
OrderKeyTaken(w) ==
    \/ prov.there /\ ~tx[w].dropProv
    \/ real.there /\ real.order

Goto(w, pc) == tx' = [tx EXCEPT ![w].pc = pc]

\* The handler starts: the event row is locked, the user resolved from the
\* custom data or from the committed subscription.  An event that resolves to
\* nobody, or to no access date, fails without a trace.
Begin(w, e) ==
    LET at == OrElse(e.at, now) IN
    /\ tx[w].pc = "idle"
    /\ ~Busy(e)
    /\ <<e, w>> \notin ran
    /\ CASE e.kind = "order"        -> e.user
         [] e.kind = "subscription" -> (e.user \/ real.there) /\ Resolvable(e, at)
         [] OTHER                   -> real.there
    /\ tx' = [tx EXCEPT ![w] = [IdleTx EXCEPT
                 !.pc = CASE e.kind = "order" -> "order"
                          [] e.kind = "subscription" -> "remove"
                          [] e.kind = "success" -> "commit"
                          [] OTHER -> "pay",
                 !.event = e, !.at = at, !.began = now]]
    /\ UNCHANGED <<now, orderAt, prov, granted, real, outbox, applied, ran, failures>>

\* upsertOrder: the conflicting row is locked until the transaction ends, so
\* order transactions run one after the other.
UpsertOrder(w) ==
    /\ tx[w].pc = "order"
    /\ ~\E v \in Workers \ {w} : /\ tx[v].pc \in {"provision", "insert", "commit"}
                                 /\ tx[v].event.kind = "order"
    /\ Goto(w, "provision")
    /\ UNCHANGED <<now, orderAt, prov, granted, real, outbox, applied, ran, failures>>

\* The "where not exists" of the provisional insert, on committed rows.
CheckProvisional(w) ==
    /\ tx[w].pc = "provision"
    /\ Goto(w, IF prov.there \/ (real.there /\ real.order) THEN "commit" ELSE "insert")
    /\ UNCHANGED <<now, orderAt, prov, granted, real, outbox, applied, ran, failures>>

\* The insert itself waits for a pending key; a key taken since the check is a
\* unique violation, which aborts the transaction (see UniqueViolation).
InsertProvisional(w) ==
    /\ tx[w].pc = "insert"
    /\ ~OrderKeyPending(w)
    /\ ~OrderKeyTaken(w)
    /\ tx' = [tx EXCEPT ![w].pc = "commit", ![w].newProv = now + Provisional]
    /\ UNCHANGED <<now, orderAt, prov, granted, real, outbox, applied, ran, failures>>

\* Plausible bug: the provisional row is left in place.
KeepProvisional(w) ==
    /\ tx[w].pc = "remove"
    /\ ~(tx[w].event.order /\ ProvLocked(w))
    /\ Goto(w, "upsert")
    /\ UNCHANGED <<now, orderAt, prov, granted, real, outbox, applied, ran, failures>>

\* removeProvisional: deletes the committed provisional row of the order.
RemoveProvisional(w) ==
    /\ tx[w].pc = "remove"
    /\ ~(tx[w].event.order /\ ProvLocked(w))
    /\ tx' = [tx EXCEPT ![w].pc = "upsert",
                        ![w].dropProv = tx[w].event.order /\ prov.there]
    /\ UNCHANGED <<now, orderAt, prov, granted, real, outbox, applied, ran, failures>>

\* Plausible bug: a late event overwrites the row whatever its timestamp.
AcceptsAny(at) == TRUE

\* The where clause of the upsert, on the row's latest committed version.
Accepts(at) == ~real.there \/ at >= real.at

\* Plausible bug: the order column is not covered by a unique index.
NoOrderConflict(w, row) == FALSE

\* Writing row would put the order's key into the unique index a second time.
OrderConflict(w, row) ==
    /\ row.order
    /\ ~(real.there /\ real.order)
    /\ OrderKeyTaken(w)

\* upsertSubscription: a stale event is ignored, but locks the row and keeps
\* the deletion of the provisional row.
UpsertSubscription(w) ==
    LET row == SubscriptionRow(tx[w].event, tx[w].at) IN
    /\ tx[w].pc = "upsert"
    /\ ~RealLocked(w)
    /\ IF Accepts(tx[w].at)
       THEN /\ row.order => ~OrderKeyPending(w)
            /\ ~OrderConflict(w, row)
            /\ tx' = [tx EXCEPT ![w].pc = "commit", ![w].lockReal = TRUE,
                                ![w].newReal = row]
       ELSE tx' = [tx EXCEPT ![w].pc = "commit", ![w].lockReal = TRUE]
    /\ UNCHANGED <<now, orderAt, prov, granted, real, outbox, applied, ran, failures>>

\* markPastDue and recoverPayment: no timestamp is compared.
UpdatePayment(w) ==
    /\ tx[w].pc = "pay"
    /\ ~RealLocked(w)
    /\ tx' = [tx EXCEPT ![w].pc = "commit", ![w].lockReal = TRUE,
                        ![w].newReal = PaymentRow(tx[w].event, real, tx[w].began)]
    /\ UNCHANGED <<now, orderAt, prov, granted, real, outbox, applied, ran, failures>>

\* Plausible bug: the outbox insert has no conflict clause.
NotifyAgain(n) == n + 1

\* enqueueProductionNotification: on conflict do nothing.
Notify(n) == Max2(n, 1)

Notifies(e) == e.kind # "subscription"

\* Every write of the transaction becomes visible at once.
Commit(w) ==
    LET t == tx[w]
        e == t.event IN
    /\ t.pc = "commit"
    /\ orderAt' = IF e.kind = "order" THEN Max2(orderAt, t.at) ELSE orderAt
    /\ prov' = CASE t.newProv # 0 -> [there |-> TRUE, until |-> t.newProv]
                 [] t.dropProv    -> NoProv
                 [] OTHER         -> prov
    /\ granted' = IF t.newProv # 0 THEN granted + 1 ELSE granted
    /\ real' = IF t.newReal.there THEN t.newReal ELSE real
    /\ outbox' = IF Notifies(e) THEN [outbox EXCEPT ![e] = Notify(@)] ELSE outbox
    /\ applied' = applied \cup {<<e, t.at>>}
    /\ ran' = ran \cup {<<e, w>>}
    /\ tx' = [tx EXCEPT ![w] = IdleTx]
    /\ UNCHANGED <<now, failures>>

\* A unique violation on the order's key: the transaction rolls back and the
\* queue retries the event.  A key that a third transaction is deleting counts
\* as taken: PostgreSQL waits for that transaction, which in turn waits for the
\* real row, and breaks the deadlock by the same abort.
UniqueViolation(w) ==
    /\ \/ /\ tx[w].pc = "insert"
          /\ OrderKeyTaken(w)
       \/ /\ tx[w].pc = "upsert"
          /\ ~RealLocked(w)
          /\ Accepts(tx[w].at)
          /\ OrderConflict(w, SubscriptionRow(tx[w].event, tx[w].at))
    /\ ~OrderKeyPending(w)
    /\ tx' = [tx EXCEPT ![w] = IdleTx]
    /\ UNCHANGED <<now, orderAt, prov, granted, real, outbox, applied, ran, failures>>

\* Any other failure (timeout, connection, crash) rolls back at any point.
Rollback(w) ==
    /\ tx[w].pc # "idle"
    /\ failures < MaxFailures
    /\ failures' = failures + 1
    /\ tx' = [tx EXCEPT ![w] = IdleTx]
    /\ UNCHANGED <<now, orderAt, prov, granted, real, outbox, applied, ran>>

Tick ==
    /\ now < MaxTime
    /\ now' = now + 1
    /\ UNCHANGED <<orderAt, prov, granted, real, outbox, tx, applied, ran, failures>>

Step(w) ==
    \/ \E e \in made : Begin(w, e)
    \/ UpsertOrder(w)
    \/ CheckProvisional(w)
    \/ InsertProvisional(w)
    \/ RemoveProvisional(w)
    \/ UpsertSubscription(w)
    \/ UpdatePayment(w)
    \/ Commit(w)
    \/ UniqueViolation(w)

Next ==
    /\ UNCHANGED made
    /\ \/ Tick
       \/ \E w \in Workers : Step(w) \/ Rollback(w)

Spec == Init /\ [][Next]_vars

\* The workers keep polling and the database runs every open transaction.
FairSpec == Spec /\ \A w \in Workers : WF_vars(Step(w) /\ UNCHANGED made)

-----------------------------------------------------------------------------
(* Properties.                                                              *)

SubType == [there : BOOLEAN, at : Times, plan : {"pro", "free"},
            status : {"trialing", "active", "past_due", "canceled", "expired"},
            until : Times, periodEnd : Times, order : BOOLEAN]

\* Type correctness of the rows and of the open transactions; a transaction
\* holds uncommitted writes only between its first write and its end.
TypeOK ==
    /\ now \in 1..MaxTime
    /\ orderAt \in Times
    /\ prov \in [there : BOOLEAN, until : Times]
    /\ granted \in Nat
    /\ real \in SubType
    /\ outbox \in [made -> Nat]
    /\ failures \in 0..MaxFailures
    /\ ran \subseteq made \X Workers
    /\ \A w \in Workers :
          /\ tx[w].pc \in {"idle", "order", "provision", "insert", "remove",
                           "upsert", "pay", "commit"}
          /\ tx[w].pc # "idle" => tx[w].event \in made
          /\ tx[w].newReal \in SubType
          /\ tx[w].pc # "commit" => tx[w].newProv = 0 /\ ~tx[w].lockReal
          /\ tx[w].newReal.there => tx[w].lockReal

\* The order pays for one row: the provisional grant of order_created and the
\* real subscription never stand side by side, however the transactions of
\* order_created and subscription_created interleave; what an open transaction
\* holds goes with it.
OneRowPerOrder ==
    /\ TypeOK
    /\ ~(prov.there /\ real.there /\ real.order)

SubscriptionEvents == {a \in applied : a[1].kind = "subscription"}

\* Subscription events may arrive late, twice and in any order: the committed
\* row carries the newest timestamp of all events applied, and the plan,
\* period and order of an event with that timestamp; payment events in
\* between never change what the row was sold for.
NewestEventWins ==
    SubscriptionEvents # {} =>
        /\ \A a \in SubscriptionEvents : a[2] <= real.at
        /\ \E a \in SubscriptionEvents :
              LET row == SubscriptionRow(a[1], a[2]) IN
              /\ row.at = real.at
              /\ row.plan = real.plan
              /\ row.periodEnd = real.periodEnd
              /\ row.order = real.order

\* Applied payment and order events leave exactly one outbox entry, also when
\* a second worker applies the event again.
NotifiedOnce ==
    \A e \in made :
        outbox[e] = IF Notifies(e) /\ \E a \in applied : a[1] = e THEN 1 ELSE 0

\* An order is given its fifteen minutes of provisional access once, however
\* often order_created is applied and whatever happens to the provisional row
\* in between: a second grant takes an applied subscription event without an
\* order id, which detaches the subscription from the order (provider_order_id
\* is overwritten with null) and leaves nothing that shows the order was paid.
ProvisionalOnce ==
    granted > 1 => \E a \in SubscriptionEvents : ~a[1].order

\* Every resolvable subscription event is applied in the end: unique
\* violations against a concurrent order resolve by retrying.
SubscriptionsApplied ==
    <>(\A e \in made :
          e.kind = "subscription" /\ e.user /\ Resolvable(e, OrElse(e.at, 1)) =>
              \E a \in applied : a[1] = e)
=============================================================================
