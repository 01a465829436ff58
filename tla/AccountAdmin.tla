---------------------------- MODULE AccountAdmin ----------------------------
(***************************************************************************)
(* Manual Pro grants beside the requests of Accounts: grant-pro, revoke-pro *)
(* and verify-lifecycle of the command line tool and of the admin panel     *)
(* (internal/accountadmin, internal/adminpanel; migrations 0011 and 0012).  *)
(*                                                                          *)
(* A mutation is a SERIALIZABLE transaction.  Its snapshot is taken by the  *)
(* first query, which then waits for the app_users row; what committed      *)
(* while it waited is invisible to its reads, and fails it when it locks or *)
(* writes a row that changed (SQLSTATE 40001).  now() is the time of BEGIN, *)
(* while expiry is decided with the clock of the process, which may differ. *)
(***************************************************************************)
EXTENDS Accounts, Sequences, SequencesExt

CONSTANTS Skew,           \* how far the tool's clock is ahead of the database
          MaxDuration,    \* the longest grant the service accepts
          Production,     \* APP_ENV = production
          MaxFailures     \* bound on failed statements and lost replies

VARIABLES audit,      \* account_admin_audit_events in commit order
          tx,         \* the transaction of each administrative call
          failures

vars == <<accountVars, audit, tx, failures>>

ASSUME AdminAssumption ==
    /\ Skew \in Int
    /\ MaxDuration \in Nat \ {0}
    /\ Production \in BOOLEAN
    /\ MaxFailures \in Nat

\* The manual row is only written here: by a grant or by a revoke.
ASSUME ManualAssumption == \A r \in InitRows : r.there /\ r.status \in {"active", "expired"}

\* The tool is not behind by as much as the grant that verify-lifecycle makes,
\* which would otherwise have run out when it is made.
ASSUME ClockAssumption == Skew > -Grant

AdminCalls == {c \in Calls : Input(c).kind \in {"grant", "revoke", "verify"}}

\* snap and seenLogins are the snapshot; write is the manual row to be committed
\* and at the process time it was computed with.  The transaction of a verification
\* has the row of its own user in write and counts its audit events.
NoTx == [snap |-> [i \in RowIds |-> NoRow], seenLogins |-> 0,
         write |-> NoRow, at |-> 0, before |-> FreeAccess, after |-> FreeAccess,
         events |-> 0]

Init ==
    /\ AccountInit
    /\ audit = IF rows[Manual].there
               THEN <<[action |-> IF rows[Manual].status = "active" THEN "grant" ELSE "revoke",
                       by |-> NoHolder, at |-> 0, until |-> rows[Manual].until,
                       before |-> FreeAccess, after |-> FreeAccess]>>
               ELSE <<>>
    /\ tx = [c \in AdminCalls |-> NoTx]
    /\ failures = 0

-----------------------------------------------------------------------------

\* The checks of adminpanel.Service and accountadmin.Service: the panel needs
\* an active administrator and the confirmation word, the tool needs the
\* production confirmation; a grant has a duration within the limit.
Accepted(q) ==
    /\ IF q.via = "panel" THEN q.admin /\ q.confirmed
                          ELSE ~Production \/ q.dry \/ q.confirmed
    /\ q.kind = "grant" => q.duration \in 1..MaxDuration

\* The clock of the process that runs c: the tool runs elsewhere.
Clock(c) == IF Input(c).via = "cli" THEN now + Skew ELSE now

\* activeManualGrant.
ActiveManualGrant(r, t) ==
    r.there /\ r.status \in {"active", "trialing"} /\ r.until > t

\* Plausible bug: the transaction stays open and keeps the row locked.
KeepLock(c) == UNCHANGED holder

Release(c) == holder' = IF holder = c THEN NoHolder ELSE holder

\* The call ends without a commit.
Fail(c, reason) ==
    /\ Answer(c, reason)
    /\ Release(c)
    /\ tx' = [tx EXCEPT ![c] = NoTx]
    /\ UNCHANGED <<now, logins, rows, override, audit>>

\* BEGIN: now() is fixed, no snapshot is taken yet.
BeginMutation(c) ==
    /\ Input(c).kind \in {"grant", "revoke"}
    /\ call[c].pc = "idle"
    /\ IF Accepted(Input(c))
       THEN call' = [call EXCEPT ![c].pc = "resolve", ![c].began = now]
       ELSE Answer(c, "rejected")
    /\ UNCHANGED <<now, logins, rows, override, holder, audit, tx, failures>>

\* resolveUser ... for update starts: the snapshot of the transaction.
TakeSnapshot(c) ==
    /\ Step(c, "resolve", "lock")
    /\ tx' = [tx EXCEPT ![c].snap = rows, ![c].seenLogins = logins,
                        ![c].before = Effective(rows, RowIds, call[c].began)]
    /\ UNCHANGED <<now, logins, rows, override, holder, audit, failures>>

\* The rows the transaction locks or writes changed since its snapshot.
Stale(c) ==
    \/ call[c].pc = "lock" /\ logins # tx[c].seenLogins
    \/ /\ call[c].pc = "manual" /\ tx[c].snap[Manual].there
       /\ rows[Manual].ver # tx[c].snap[Manual].ver
    \/ call[c].pc = "write" /\ rows[Manual].ver # tx[c].snap[Manual].ver

SerializationFailure(c) ==
    /\ call[c].pc = "lock" => holder = NoHolder
    /\ Stale(c)
    /\ Fail(c, "conflict")
    /\ UNCHANGED failures

LockUser(c) ==
    /\ holder = NoHolder
    /\ ~Stale(c)
    /\ Step(c, "lock", "manual")
    /\ holder' = c
    /\ UNCHANGED <<now, logins, rows, override, audit, tx, failures>>

\* A dry run computes its result and commits nothing.
AfterCheck(c) == IF Input(c).dry THEN "preview" ELSE "write"

\* resolveManualGrant ... for update, and the decision taken with it.
CheckManual(c) ==
    LET manual == tx[c].snap[Manual]
        active == ActiveManualGrant(manual, Clock(c)) IN
    /\ call[c].pc = "manual"
    /\ ~Stale(c)
    /\ Step(c, "manual", IF active = (Input(c).kind = "grant") THEN "unchanged"
                                                               ELSE AfterCheck(c))
    /\ UNCHANGED <<now, logins, rows, override, holder, audit, tx, failures>>

\* upsertManualGrant, or the update of RevokePro: the row it writes.
Mutation(c) ==
    [there  |-> TRUE,
     status |-> IF Input(c).kind = "grant" THEN "active" ELSE "expired",
     start  |-> IF Input(c).kind = "grant" THEN Clock(c) ELSE rows[Manual].start,
     until  |-> IF Input(c).kind = "grant" THEN Clock(c) + Input(c).duration ELSE Clock(c),
     ver    |-> rows[Manual].ver + 1]

\* The check subscriptions_period_order: a revoke cannot end a period before a
\* clock that was ahead has begun it.
PeriodOrdered(r) == r.start <= r.until

WriteRefused(c) ==
    /\ call[c].pc = "write"
    /\ ~Stale(c) /\ ~PeriodOrdered(Mutation(c))
    /\ Fail(c, "error")
    /\ UNCHANGED failures

\* The write and the access after it, read in the snapshot.
WriteManual(c) ==
    /\ Step(c, "write", "commit")
    /\ ~Stale(c) /\ PeriodOrdered(Mutation(c))
    /\ tx' = [tx EXCEPT ![c].write = Mutation(c), ![c].at = Clock(c),
                 ![c].after = Effective([tx[c].snap EXCEPT ![Manual] = Mutation(c)],
                                       RowIds, call[c].began)]
    /\ UNCHANGED <<now, logins, rows, override, holder, audit, failures>>

\* insertAudit.
AuditEvent(c) ==
    [action |-> Input(c).kind, by |-> c, at |-> tx[c].at,
     until  |-> tx[c].write.until,
     before |-> tx[c].before, after |-> tx[c].after]

\* Plausible bug: the audit event is written after the commit, by a process
\* that may stop in between.
CommitThenAudit(c) ==
    /\ call[c].pc = "commit"
    /\ rows' = [rows EXCEPT ![Manual] = tx[c].write]
    /\ \/ Answer(c, "changed") /\ audit' = Append(audit, AuditEvent(c)) /\ UNCHANGED failures
       \/ /\ failures < MaxFailures
          /\ failures' = failures + 1
          /\ Answer(c, "error")
          /\ UNCHANGED audit
    /\ Release(c)
    /\ tx' = [tx EXCEPT ![c] = NoTx]
    /\ UNCHANGED <<now, logins, override>>

\* COMMIT of a change and its audit event; the reply may be lost.
Commit(c) ==
    /\ call[c].pc = "commit"
    /\ rows' = [rows EXCEPT ![Manual] = tx[c].write]
    /\ audit' = Append(audit, AuditEvent(c))
    /\ \/ Answer(c, "changed") /\ UNCHANGED failures
       \/ /\ failures < MaxFailures
          /\ failures' = failures + 1
          /\ Answer(c, "error")
    /\ Release(c)
    /\ tx' = [tx EXCEPT ![c] = NoTx]
    /\ UNCHANGED <<now, logins, override>>

\* COMMIT of a transaction that wrote nothing.
CommitNothing(c) ==
    /\ call[c].pc \in {"unchanged", "preview"}
    /\ Fail(c, call[c].pc)
    /\ UNCHANGED failures

\* A statement fails or the connection breaks: everything is rolled back.
Rollback(c) ==
    /\ c \in AdminCalls /\ call[c].pc \notin {"idle", "done"}
    /\ failures < MaxFailures
    /\ failures' = failures + 1
    /\ Fail(c, "error")

(* VerifyLifecycle: a SERIALIZABLE transaction on a user of its own, whose     *)
(* manual row is tx[c].write and whose audit events are counted in tx[c].     *)

\* The row of the user the transaction has created.
OwnRow(c, status, until) ==
    [there |-> TRUE, status |-> status, start |-> tx[c].at, until |-> until, ver |-> 0]

\* resolveEffectiveAccess of that user; now() is the time of BEGIN.
OwnAccess(c) == Effective([i \in {Manual} |-> tx[c].write], {Manual}, call[c].began)

\* optimizer.liquidity in plan_entitlements, as the migrations fill it.
Liquidity(plan) == plan = "pro"

BeginVerify(c) ==
    /\ Input(c).kind = "verify"
    /\ call[c].pc = "idle"
    /\ IF Accepted(Input(c))
       THEN call' = [call EXCEPT ![c].pc = "create", ![c].began = now]
       ELSE Answer(c, "rejected")
    /\ UNCHANGED <<now, logins, rows, override, holder, audit, tx, failures>>

\* A statement that writes: t is what the transaction holds after it.
VerifyWrite(c, from, to, t) ==
    /\ Step(c, from, to)
    /\ tx' = [tx EXCEPT ![c] = t]
    /\ UNCHANGED <<now, logins, rows, override, holder, audit, failures>>

\* A statement whose result must be the expected one.
VerifyRead(c, from, to, expected) ==
    /\ call[c].pc = from
    /\ IF expected
       THEN Step(c, from, to) /\ UNCHANGED <<now, logins, rows, override, holder, audit, tx>>
       ELSE Fail(c, "mismatch")
    /\ UNCHANGED failures

\* tx.Rollback: nothing stays of what the check has written.
VerifyRolledBack(c) ==
    /\ call[c].pc = "discard"
    /\ Fail(c, "verified")
    /\ UNCHANGED failures

VerifyLifecycle(c) ==
    \/ BeginVerify(c)
    \/ VerifyWrite(c, "create", "before", [tx[c] EXCEPT !.at = Clock(c)])
    \/ VerifyRead(c, "before", "grant", OwnAccess(c).plan = "free")
    \/ VerifyWrite(c, "grant", "granted",
                   [tx[c] EXCEPT !.write = OwnRow(c, "active", tx[c].at + Grant)])
    \/ VerifyRead(c, "granted", "proValue",
                  OwnAccess(c).plan = "pro" /\ OwnAccess(c).status = "active")
    \/ VerifyRead(c, "proValue", "grantEvent", Liquidity("pro"))
    \/ VerifyWrite(c, "grantEvent", "revoke", [tx[c] EXCEPT !.events = @ + 1])
    \/ VerifyWrite(c, "revoke", "after",
                   [tx[c] EXCEPT !.write = OwnRow(c, "expired", tx[c].at + 1)])
    \/ VerifyRead(c, "after", "freeValue", OwnAccess(c).plan = "free")
    \/ VerifyRead(c, "freeValue", "revokeEvent", ~Liquidity("free"))
    \/ VerifyWrite(c, "revokeEvent", "count", [tx[c] EXCEPT !.events = @ + 1])
    \/ VerifyRead(c, "count", "discard", tx[c].events = 2)
    \/ VerifyRolledBack(c)

AdminStep(c) ==
    \/ BeginMutation(c)
    \/ TakeSnapshot(c)
    \/ SerializationFailure(c)
    \/ LockUser(c)
    \/ CheckManual(c)
    \/ WriteRefused(c)
    \/ WriteManual(c)
    \/ Commit(c)
    \/ CommitNothing(c)
    \/ VerifyLifecycle(c)

AccountStep(c) == RequestStep(c) /\ UNCHANGED <<audit, tx, failures>>

Tick ==
    /\ now < MaxTime
    /\ now' = now + 1
    /\ UNCHANGED <<logins, rows, override, holder, call, audit, tx, failures>>

-----------------------------------------------------------------------------
(* History of what a call could have seen, stated without the operators of  *)
(* the code.                                                                *)

GrantInForce(t) == LET r == rows[Manual] IN r.status = "active" /\ t < r.until

Subscribed == \E i \in RowIds : rows[i].status # "expired" /\ now < rows[i].until

Entitled == IF override.there /\ now < override.until THEN override.value ELSE Subscribed

Unended == {i \in Checkouts : /\ rows[i].status # "expired"
                              /\ rows[i].status = "canceled" => now < rows[i].until}

Observed(c) == IF c \in AdminCalls THEN GrantInForce(Clock(c)) ELSE Entitled

Open(c) == call[c].pc \notin {"idle", "done"}

Record ==
    /\ seen' = [c \in Calls |-> IF Open(c)' THEN seen[c] \cup {Observed(c)'} ELSE seen[c]]
    /\ held' = [c \in Checkouts |-> IF call[c].pc = "idle" THEN Unended'
                                    ELSE held[c] \cap Unended']

Next ==
    /\ UNCHANGED made
    /\ \/ Tick
       \/ \E c \in Calls : AdminStep(c) \/ AccountStep(c) \/ Rollback(c)
       \/ \E i \in Checkouts : ProviderEvent(i) /\ UNCHANGED <<audit, tx, failures>>
    /\ Record

Spec == Init /\ [][Next]_vars

\* Requests are served and the database runs every open transaction.
FairSpec == Spec /\ WF_vars(/\ UNCHANGED made
                            /\ \E c \in Calls : AdminStep(c) \/ AccountStep(c)
                            /\ Record)

-----------------------------------------------------------------------------
(* Properties.                                                              *)

\* Type correctness; the user row is locked by a transaction that is past
\* resolveUser, and by no other.
TypeOK ==
    /\ now \in 1..MaxTime
    /\ rows \in [RowIds -> RowType]
    /\ failures \in 0..MaxFailures
    /\ \A c \in Calls :
          (holder = c) <=> call[c].pc \in {"manual", "write", "commit", "unchanged", "preview"}

\* The audit log tells the state (docs: mutations are transactional and leave
\* append-only audit events): the manual row is what the last event says, a
\* call that reports a change has its one event, and a dry run, a no-op, a
\* conflict, a rejected call or a verification has none, whatever was rolled back.
AuditTellsState ==
    /\ rows[Manual].there <=> audit # <<>>
    /\ audit # <<>> =>
          /\ (Last(audit).action = "grant") <=> (rows[Manual].status = "active")
          /\ Last(audit).until = rows[Manual].until
    /\ \A c \in AdminCalls :
          LET events == {n \in DOMAIN audit : audit[n].by = c} IN
          /\ Cardinality(events) <= 1
          /\ call[c].answer = "changed" => events # {}
          /\ \/ Input(c).dry \/ Input(c).kind = "verify"
             \/ call[c].answer \notin {"changed", "error"}
             => events = {}

\* Grants and revokes take turns, although each decides on a snapshot that is
\* older than its lock: a revoke ends a grant, and a grant follows a grant only
\* once that one has run out on the clock of the second.
AuditAlternates ==
    /\ audit # <<>> => audit[1].by = NoHolder \/ audit[1].action = "grant"
    /\ \A n \in DOMAIN audit \ {1} :
          \/ audit[n-1].action = "revoke" /\ audit[n].action = "grant"
          \/ audit[n-1].action = "grant" /\ audit[n].action = "revoke"
          \/ /\ audit[n-1].action = "grant" /\ audit[n].action = "grant"
             /\ audit[n-1].until <= audit[n].at

\* A call answered as a no-op was one at some moment of the call: a grant was
\* in force for a second grant, and none for a second revoke (docs: both are
\* no-ops), also when the snapshot is older than the answer.
NoOpJustified ==
    \A c \in AdminCalls :
        call[c].answer = "unchanged" => (Input(c).kind = "grant") \in seen[c]

\* The lifecycle check of a sound schema finds what it expects although it
\* mixes the clock of the tool, ahead or behind, with that of the database: only
\* a statement that fails makes it fail.
LifecycleVerified == \A c \in Calls :
    Input(c).kind = "verify" => call[c].answer # "mismatch"

\* What an administrator may rely on: the audit log, the manual grant and the
\* answers of grant-pro, revoke-pro and verify-lifecycle agree, however the
\* calls overlap, fail or lose their reply (docs/guide/account-admin-cli.md).
AuditTrail ==
    /\ TypeOK
    /\ AuditTellsState
    /\ AuditAlternates
    /\ NoOpJustified
    /\ LifecycleVerified

\* Every call is answered: a login waits for a mutation that locks the user,
\* mutations wait for each other, and nobody waits for ever.
EveryCallAnswered == <>(\A c \in Calls : call[c].pc = "done")
=============================================================================
