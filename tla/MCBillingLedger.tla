-------------------------- MODULE MCBillingLedger --------------------------
(* An instance of BillingLedger for TLC. *)
EXTENDS BillingLedger

Event(id, kind, at) ==
    [id |-> id, kind |-> kind, at |-> at, status |-> "active", renews |-> 3,
     ends |-> 0, pro |-> TRUE, order |-> TRUE, user |-> TRUE]

Order     == Event("order", "order", 1)
Created   == Event("created", "subscription", 1)
Cancelled == [Event("cancelled", "subscription", 2)
                EXCEPT !.status = "cancelled", !.ends = 2, !.user = FALSE]
Moved     == [Event("moved", "subscription", 2) EXCEPT !.pro = FALSE, !.order = FALSE]
Undated   == [Event("undated", "subscription", 0) EXCEPT !.status = "past_due"]
Failed    == Event("failed", "failed", 2)
Recovered == Event("recovered", "recovered", 3)
Success   == Event("success", "success", 2)

\* A purchase racing with a later change of the subscription and an event
\* that carries no timestamp.
PurchaseEvents == {Order, Created, Moved, Undated}

\* The life of a subscription, with late and repeated payment events.
LifeEvents == {Created, Cancelled, Failed, Recovered, Success}

MCScenarios == {PurchaseEvents, LifeEvents}
=============================================================================
