------------------------------ MODULE Accounts ------------------------------
(***************************************************************************)
(* The account of one user as a request sees it: the login that refreshes   *)
(* app_users, the subscription and the entitlement that decide an access    *)
(* check, the checkout and the customer portal (internal/accounts and       *)
(* internal/billing/service.go; migration 0007).                            *)
(*                                                                          *)
(* The requests run statement by statement outside any transaction.  The    *)
(* subscription rows are written by the billing worker, whose committed     *)
(* effect on a row is ProviderEvent (BillingLedger has the detail), and by  *)
(* the administrators of AccountAdmin.                                      *)
(***************************************************************************)
EXTENDS Integers, FiniteSets

CONSTANTS Scenarios,   \* sets of calls that are made side by side, once each
          Input(_),    \* Input(c): what c asks for
          InitRows,    \* the subscription rows the user may start with
          Overrides,   \* the rows user_entitlement_overrides may hold
          Grant,       \* periods an access date may lie in the future
          MaxTime      \* bound on the clock

VARIABLES made,       \* the calls of this behaviour
          now,        \* the clock of the database
          logins,     \* version of the app_users row: completed syncs
          rows,       \* the subscription rows, by provider_subscription_id
          override,   \* the entitlement override of the user
          holder,     \* the transaction that has locked the app_users row
          call,       \* what each request has read and answered
          seen,       \* history: what was true while the call was open
          held        \* history: rows that blocked a checkout ever since

accountVars == <<made, now, logins, rows, override, holder, call, seen, held>>

Calls == made

NoHolder == "nobody"
Manual == "manual"

Checkouts == {c \in Calls : Input(c).kind = "checkout"}

\* A checkout that is paid becomes the subscription named after it.
RowIds == {Manual} \cup Checkouts

Statuses == {"trialing", "active", "past_due", "canceled", "expired"}

NoRow == [there |-> FALSE, status |-> "expired", start |-> 0, until |-> 0, ver |-> 0]

NoOverride == [there |-> FALSE, value |-> FALSE, until |-> 0]

\* A date lies on either side of the time the clock starts with.
RowType == [there : BOOLEAN, status : Statuses, start : Int, until : Int, ver : Nat]

ASSUME AccountsAssumption ==
    /\ Grant \in Nat \ {0} /\ MaxTime \in Nat \ {0}
    /\ InitRows \subseteq RowType
    /\ Overrides \subseteq [there : BOOLEAN, value : BOOLEAN, until : Int]

\* Calls are told apart from the manual row and from a free lock.
ASSUME NamesAssumption == \A s \in Scenarios : Manual \notin s /\ NoHolder \notin s

-----------------------------------------------------------------------------
(* What the rows mean.                                                      *)

\* The where clause of activeSubscription; every row has an access date.
Live(r, t) == r.there /\ r.status # "expired" /\ r.until > t

Rank(status) == CASE status = "active"   -> 1
                  [] status = "trialing" -> 2
                  [] status = "past_due" -> 3
                  [] OTHER               -> 4

\* The order by of activeSubscription.
Before(r, s) ==
    \/ Rank(r.status) < Rank(s.status)
    \/ Rank(r.status) = Rank(s.status) /\ r.until >= s.until

FreeAccess == [plan |-> "free", status |-> "none", until |-> 0]

\* The subscription that counts at time t among the rows of ids.
Effective(rs, ids, t) ==
    LET live == {i \in ids : Live(rs[i], t)} IN
    IF live = {} THEN FreeAccess
    ELSE LET best == CHOOSE i \in live : \A j \in live : Before(rs[i], rs[j])
         IN  [plan |-> "pro", status |-> rs[best].status, until |-> rs[best].until]

Plan(t) == Effective(rows, RowIds, t).plan

OverrideLive(t) == override.there /\ override.until > t

\* Plausible bug: the override is read first and the plan's value wins.
PlanBeforeOverride(plan, t) == plan = "pro"

\* The permissions query: the rows come by priority and the last one stays.
Entitlement(plan, t) == IF OverrideLive(t) THEN override.value ELSE plan = "pro"

\* Plausible bug: a subscription whose payment failed does not count.
BlockingUnlessPastDue(t) ==
    {i \in Checkouts : /\ rows[i].there
                       /\ \/ rows[i].status \in {"trialing", "active"}
                          \/ rows[i].status = "canceled" /\ rows[i].until > t}

\* The rows of the "exists" query in CreateCheckout.
Blocking(t) ==
    {i \in Checkouts : /\ rows[i].there
                       /\ \/ rows[i].status \in {"trialing", "active", "past_due"}
                          \/ rows[i].status = "canceled" /\ rows[i].until > t}

-----------------------------------------------------------------------------
(* The requests.                                                            *)

IdleCall == [pc |-> "idle", began |-> 0, plan |-> "free", answer |-> "none"]

AccountInit ==
    /\ made \in Scenarios
    /\ now = 1
    /\ logins = 0
    /\ rows \in [RowIds -> {NoRow} \cup InitRows]
    /\ \A i \in Checkouts : rows[i] = NoRow
    /\ override \in Overrides
    /\ override.there => \E c \in Calls : Input(c).kind = "access"
    /\ holder = NoHolder
    /\ call = [c \in Calls |-> IdleCall]
    /\ seen = [c \in Calls |-> {}]
    /\ held = [c \in Checkouts |-> {}]

Requests == {c \in Calls : Input(c).kind \in {"access", "checkout", "portal"}}

Answer(c, a) == call' = [call EXCEPT ![c].pc = "done", ![c].answer = a]

Step(c, from, to) ==
    /\ call[c].pc = from
    /\ call' = [call EXCEPT ![c].pc = to]

BeginRequest(c) ==
    /\ c \in Requests
    /\ call[c].pc = "idle"
    /\ call' = [call EXCEPT ![c].pc = "sync", ![c].began = now]
    /\ UNCHANGED <<now, logins, rows, override, holder>>

\* syncUser: the upsert of app_users waits for a transaction that locked it.
SyncUser(c) ==
    /\ holder = NoHolder
    /\ Step(c, "sync", "subscription")
    /\ logins' = logins + 1
    /\ UNCHANGED <<now, rows, override, holder>>

\* activeSubscription, the second statement of Current.
ReadSubscription(c) ==
    /\ call[c].pc = "subscription"
    /\ call' = [call EXCEPT ![c].pc = "permissions", ![c].plan = Plan(now)]
    /\ UNCHANGED <<now, logins, rows, override, holder>>

\* The permissions query: an access check is answered by RequireEntitlement,
\* the billing calls go on.
ReadPermissions(c) ==
    /\ call[c].pc = "permissions"
    /\ IF Input(c).kind = "access"
       THEN Answer(c, IF Entitlement(call[c].plan, now) THEN "allowed" ELSE "forbidden")
       ELSE Step(c, "permissions", Input(c).kind)
    /\ UNCHANGED <<now, logins, rows, override, holder>>

\* CreateCheckout: refused when a subscription exists, else the provider is
\* asked for a checkout; its failure is ErrProviderUnavailable.
CreateCheckout(c) ==
    /\ \/ /\ call[c].pc = "checkout"
          /\ IF Blocking(now) # {} THEN Answer(c, "subscribed")
                                   ELSE Step(c, "checkout", "provider")
       \/ /\ call[c].pc = "provider"
          /\ \E a \in {"url", "unavailable"} : Answer(c, a)
    /\ UNCHANGED <<now, logins, rows, override, holder>>

\* CustomerPortal: the latest subscription of the provider, whatever its state.
CustomerPortal(c) ==
    /\ call[c].pc = "portal"
    /\ \E a \in {"url", "unavailable"} :
          Answer(c, IF \E i \in Checkouts : rows[i].there THEN a ELSE "missing")
    /\ UNCHANGED <<now, logins, rows, override, holder>>

\* The user pays a checkout, or the provider changes a subscription: the
\* billing worker commits the row.
ProviderEvent(i) ==
    /\ call[i].answer = "url"
    /\ \E s \in Statuses :
          /\ s # rows[i].status
          /\ ~rows[i].there => s = "active"
          /\ rows' = [rows EXCEPT ![i] =
                 [there |-> TRUE, status |-> s, start |-> 0, ver |-> 0,
                  until |-> IF s = "expired" THEN now ELSE now + Grant]]
    /\ UNCHANGED <<now, logins, override, holder, call>>

RequestStep(c) ==
    \/ BeginRequest(c)
    \/ SyncUser(c)
    \/ ReadSubscription(c)
    \/ ReadPermissions(c)
    \/ CreateCheckout(c)
    \/ CustomerPortal(c)

-----------------------------------------------------------------------------
(* Properties.                                                              *)

\* The statement that reads the plan and the one that reads the override see
\* different moments, yet an access check is answered with what held at some
\* moment of the request, unless an override ran out in the middle of it.
AccessAnswerJustified ==
    \A c \in Calls :
        call[c].answer \in {"allowed", "forbidden"} =>
            \/ (call[c].answer = "allowed") \in seen[c]
            \/ /\ override.there
               /\ call[c].began < override.until
               /\ override.until <= now

\* A checkout is opened for a user who has a subscription only when the two
\* overlap: no subscription is sold next to one that was there, without
\* interruption, since before the checkout was asked for.
SecondSaleOnlyByOverlap == \A c \in Checkouts : rows[c].there => held[c] = {}
=============================================================================
