------------------------- MODULE AccountAdminProofs -------------------------
(***************************************************************************)
(* Machine-checked safety of the account requests and of the manual grants, *)
(* for any calls, clocks and numbers of failures: AdminInv is inductive; it *)
(* implies that the audit log tells the manual grant, that an access check  *)
(* is answered with what held during the request, and that a second         *)
(* subscription is sold only by overlap.                                    *)
(***************************************************************************)
EXTENDS AccountAdmin, FiniteSetTheorems, TLAPS

LockPcs == {"manual", "write", "commit", "unchanged", "preview"}

AdminPcs == {"resolve", "lock"} \cup LockPcs

VerifyPcs == {"create", "before", "grant", "granted", "proValue", "grantEvent", "revoke",
              "after", "freeValue", "revokeEvent", "count", "discard"}

RequestPcs == {"sync", "subscription", "permissions", "checkout", "portal", "provider"}

Answers == {"none", "rejected", "conflict", "unchanged", "preview", "changed", "error",
            "verified", "allowed", "forbidden", "subscribed", "url", "unavailable", "missing"}

CallType == [pc : {"idle", "done"} \cup AdminPcs \cup VerifyPcs \cup RequestPcs, began : Nat,
             plan : {"free", "pro"}, answer : Answers]

OverrideType == [there : BOOLEAN, value : BOOLEAN, until : Int]

\* Every access an administrative call may read.
Accesses == {FreeAccess} \cup {Effective(rs, RowIds, t) : rs \in [RowIds -> RowType], t \in Nat}

TxType == [snap : [RowIds -> RowType], seenLogins : Nat, write : RowType, at : Int,
           before : Accesses, after : Accesses, events : Nat]

EventType == [action : {"grant", "revoke"}, by : AdminCalls \cup {NoHolder}, at : Int,
              until : Int, before : Accesses, after : Accesses]

StateTyped ==
    /\ made \in Scenarios
    /\ now \in 1..MaxTime
    /\ logins \in Nat
    /\ rows \in [RowIds -> RowType]
    /\ override \in OverrideType
    /\ call \in [Calls -> CallType]
    /\ tx \in [AdminCalls -> TxType]
    /\ audit \in Seq(EventType)
    /\ failures \in 0..MaxFailures

HistoryTyped ==
    /\ seen \in [Calls -> SUBSET BOOLEAN]
    /\ held \in [Checkouts -> SUBSET Checkouts]

\* What call c may be doing and may have answered; r is its record.
CallShaped(c, r) ==
    /\ r.began <= now
    /\ r.answer = "none" <=> r.pc # "done"
    /\ holder = c <=> r.pc \in LockPcs
    /\ r.pc \in AdminPcs => Input(c).kind \in {"grant", "revoke"} /\ Accepted(Input(c))
    /\ r.pc \in VerifyPcs => Input(c).kind = "verify"
    /\ r.pc \in RequestPcs => c \in Requests
    /\ r.pc \in {"checkout", "provider"} => Input(c).kind = "checkout"
    /\ r.pc = "portal" => Input(c).kind = "portal"
    /\ Input(c).kind = "verify" => r.answer \in {"none", "verified", "rejected", "error"}

\* A row that is not there is the empty one, a manual row was granted or
\* revoked, and a row of a checkout was paid for.
RowsShaped ==
    /\ \A i \in RowIds : ~rows[i].there => rows[i] = NoRow
    /\ rows[Manual].status \in {"active", "expired"}
    /\ \A i \in Checkouts : rows[i].there => call[i].answer = "url"

\* The manual row m of a snapshot is an earlier version of the stored one.
Earlier(m) ==
    /\ m.ver <= rows[Manual].ver
    /\ m.ver = rows[Manual].ver => m = rows[Manual]
    /\ m.status \in {"active", "expired"}
    /\ ~m.there => m = NoRow

\* What a verification with transaction t has written so far; its grant is in
\* force at the time of BEGIN, by the clock of the database.
VerifyShaped(c, t) ==
    LET pc == call[c].pc IN
    /\ pc \in {"idle", "create", "before", "grant"} => t.write = NoRow
    /\ pc \in {"idle", "create", "before", "grant", "granted", "proValue", "grantEvent"} => t.events = 0
    /\ pc \in {"revoke", "after", "freeValue", "revokeEvent"} => t.events = 1
    /\ pc = "count" => t.events = 2
    /\ pc \in {"before", "grant"} => t.at + Grant > call[c].began
    /\ pc = "granted" => /\ t.write.there /\ t.write.status = "active"
                         /\ t.write.until > call[c].began
    /\ pc = "after" => t.write.status = "expired"

\* What the transaction t of call c knows and may rely on, by its progress.
TxShaped(c, t) ==
    LET pc == call[c].pc
        m  == t.snap[Manual] IN
    /\ pc \in {"lock"} \cup LockPcs => Earlier(m) /\ (~m.there => FALSE \in seen[c])
    /\ pc \in {"write", "commit"} => ~Input(c).dry
    /\ pc = "write" =>
          IF Input(c).kind = "grant" THEN ~ActiveManualGrant(m, Clock(c))
                                     ELSE m.there /\ m.status = "active"
    /\ pc = "commit" =>
          /\ m = rows[Manual]
          /\ t.write.there /\ t.write.ver = rows[Manual].ver + 1
          /\ t.write.status = IF Input(c).kind = "grant" THEN "active" ELSE "expired"
          /\ IF Input(c).kind = "grant" THEN ~ActiveManualGrant(m, t.at)
                                        ELSE m.there /\ m.status = "active"
    /\ pc = "unchanged" \/ call[c].answer = "unchanged" => (Input(c).kind = "grant") \in seen[c]
    /\ VerifyShaped(c, t)

\* Who wrote the events: calls that have ended and did change something, each
\* one event.
AuditBy ==
    /\ \A n \in DOMAIN audit : audit[n].by \in AdminCalls =>
          /\ call[audit[n].by].answer \in {"changed", "error"}
          /\ ~Input(audit[n].by).dry /\ Input(audit[n].by).kind # "verify"
    /\ \A m, n \in DOMAIN audit : audit[m].by = audit[n].by /\ audit[m].by \in AdminCalls => m = n
    /\ \A c \in AdminCalls : call[c].answer = "changed" => \E n \in DOMAIN audit : audit[n].by = c

\* The last event tells the manual row.
AuditLast ==
    /\ rows[Manual].there <=> audit # <<>>
    /\ audit # <<>> =>
          /\ (Last(audit).action = "grant") <=> (rows[Manual].status = "active")
          /\ Last(audit).until = rows[Manual].until

\* An open call has seen the present.
SeenNow == \A c \in Calls : Open(c) => Observed(c) \in seen[c]

\* The plan an access check has read was right when it was read, unless an
\* override counted then.
PlanJustified ==
    \A c \in Calls : Input(c).kind = "access" /\ call[c].pc = "permissions" =>
        \/ (call[c].plan = "pro") \in seen[c]
        \/ override.there /\ call[c].began < override.until

\* No subscription has been there ever since a checkout that is opened now,
\* or was.
SaleFree ==
    \A c \in Checkouts :
        call[c].pc = "provider" \/ call[c].answer = "url" => held[c] = {}

\* The inductive invariant.
AdminInv ==
    /\ StateTyped
    /\ HistoryTyped
    /\ \A c \in Calls : CallShaped(c, call[c])
    /\ RowsShaped
    /\ \A c \in AdminCalls : TxShaped(c, tx[c])
    /\ AuditBy
    /\ AuditLast
    /\ AuditAlternates
    /\ SeenNow
    /\ PlanJustified
    /\ AccessAnswerJustified
    /\ SaleFree

-----------------------------------------------------------------------------
(* Names and types.                                                         *)

LEMMA Distinct ==
    ASSUME made \in Scenarios
    PROVE  /\ Manual \in RowIds /\ Manual \notin Checkouts /\ NoHolder \notin Calls
           /\ Checkouts \subseteq RowIds /\ Checkouts \subseteq Calls
           /\ AdminCalls \subseteq Calls /\ NoHolder \notin AdminCalls
           /\ AdminCalls \cap Requests = {} /\ Checkouts \subseteq Requests
BY NamesAssumption DEF RowIds, Checkouts, Calls, AdminCalls, Requests

\* The sets that depend on the calls of the behaviour stay what they are.
LEMMA SameSets ==
    ASSUME UNCHANGED made
    PROVE  /\ Calls' = Calls /\ Checkouts' = Checkouts /\ AdminCalls' = AdminCalls
           /\ RowIds' = RowIds /\ Requests' = Requests
           /\ Accesses' = Accesses /\ TxType' = TxType /\ EventType' = EventType
<1>1. /\ Calls' = Calls /\ Checkouts' = Checkouts /\ AdminCalls' = AdminCalls
      /\ RowIds' = RowIds /\ Requests' = Requests
    BY DEF Calls, Checkouts, AdminCalls, RowIds, Requests
<1>2. Accesses' = Accesses
    BY <1>1 DEF Accesses, Effective
<1> QED  BY <1>1, <1>2 DEF TxType, EventType

LEMMA ClockTyped ==
    ASSUME now \in 1..MaxTime, NEW c \in Calls
    PROVE  Clock(c) \in Int
BY AdminAssumption, AccountsAssumption DEF Clock

LEMMA NoRowTyped == NoRow \in RowType
BY DEF NoRow, RowType, Statuses

\* Whatever a call reads as an access is one.
LEMMA AccessRead ==
    ASSUME NEW rs \in [RowIds -> RowType], NEW t \in Nat
    PROVE  Effective(rs, RowIds, t) \in Accesses
BY DEF Accesses

LEMMA NoTxTyped == NoTx \in TxType
<1>1. [i \in RowIds |-> NoRow] \in [RowIds -> RowType]
    BY NoRowTyped
<1>2. FreeAccess \in Accesses
    BY DEF Accesses
<1> QED  BY <1>1, <1>2, NoRowTyped DEF NoTx, TxType

-----------------------------------------------------------------------------
(* The histories.                                                           *)

\* A step keeps what was seen and adds the present for the calls that are open
\* after it; it takes from what was held what has ended.
LEMMA Recorded ==
    ASSUME HistoryTyped, StateTyped', UNCHANGED made, Record
    PROVE  /\ HistoryTyped'
           /\ SeenNow'
           /\ \A c \in Calls : seen[c] \subseteq seen'[c]
           /\ \A c \in Checkouts : held'[c] \subseteq Unended'
           /\ \A c \in Checkouts : call[c].pc # "idle" => held'[c] \subseteq held[c]
<1>1. Calls' = Calls /\ Checkouts' = Checkouts
    BY SameSets
<1>2. \A c \in Calls : Observed(c)' \in BOOLEAN
  <2> TAKE c \in Calls
  <2>1. GrantInForce(Clock(c))' \in BOOLEAN
      BY DEF GrantInForce
  <2>2. Subscribed' \in BOOLEAN
      BY DEF Subscribed
  <2>3. override'.value \in BOOLEAN
      BY DEF StateTyped, OverrideType
  <2>4. Entitled' \in BOOLEAN
      BY <2>2, <2>3 DEF Entitled
  <2> QED  BY <2>1, <2>4 DEF Observed
<1>3. \A c \in Calls :
        seen'[c] = IF Open(c)' THEN seen[c] \cup {Observed(c)'} ELSE seen[c]
    BY DEF Record
<1>4. seen' \in [Calls -> SUBSET BOOLEAN]
    BY <1>2 DEF Record, HistoryTyped
<1>5. Unended' \subseteq Checkouts
    BY <1>1 DEF Unended
<1>6. held' \in [Checkouts -> SUBSET Checkouts]
    BY <1>5 DEF Record, HistoryTyped
<1>7. HistoryTyped'
    BY <1>1, <1>4, <1>6 DEF HistoryTyped
<1>8. SeenNow'
    BY <1>1, <1>3 DEF SeenNow
<1>9. \A c \in Checkouts : /\ held'[c] \subseteq Unended'
                           /\ call[c].pc # "idle" => held'[c] \subseteq held[c]
    BY DEF Record
<1> QED  BY <1>3, <1>7, <1>8, <1>9

-----------------------------------------------------------------------------
(* Steps of one call that change no row and write no event.                 *)

\* Call c moves on and nobody else does; the lock is taken or released by c.
Moves(c) ==
    /\ call[c].pc # "done"
    /\ call' \in [Calls -> CallType]
    /\ tx' \in [AdminCalls -> TxType]
    /\ logins' \in Nat
    /\ failures' \in 0..MaxFailures
    /\ \A d \in Calls \ {c} : call'[d] = call[d] /\ (holder' = d <=> holder = d)
    /\ \A d \in AdminCalls \ {c} : tx'[d] = tx[d]

\* What call c has read and answers is right.
Justified(c) ==
    /\ Input(c).kind = "access" /\ call'[c].pc = "permissions" =>
          \/ (call'[c].plan = "pro") \in seen[c]
          \/ override.there /\ call'[c].began < override.until
    /\ call'[c].answer \in {"allowed", "forbidden"} =>
          \/ (call'[c].answer = "allowed") \in seen[c]
          \/ override.there /\ call'[c].began < override.until /\ override.until <= now
    /\ c \in Checkouts /\ (call'[c].pc = "provider" \/ call'[c].answer = "url") => held'[c] = {}

LEMMA CalmStep ==
    ASSUME AdminInv, NEW c \in Calls, UNCHANGED <<made, now, rows, override, audit>>, Record,
           Moves(c), Justified(c), call'[c].answer # "changed",
           CallShaped(c, call[c])', c \in AdminCalls => TxShaped(c, tx[c])'
    PROVE  AdminInv'
<1>0. /\ Calls' = Calls /\ Checkouts' = Checkouts /\ AdminCalls' = AdminCalls
      /\ RowIds' = RowIds /\ Requests' = Requests /\ TxType' = TxType /\ EventType' = EventType
    BY SameSets
<1>1. StateTyped'
    BY <1>0 DEF AdminInv, StateTyped, Moves
<1>2. /\ HistoryTyped' /\ SeenNow'
      /\ \A d \in Calls : seen[d] \subseteq seen'[d]
      /\ \A d \in Checkouts : call[d].pc # "idle" => held'[d] \subseteq held[d]
    BY <1>1, Recorded DEF AdminInv
<1>3. AdminCalls \subseteq Calls /\ Checkouts \subseteq Calls
    BY DEF AdminCalls, Checkouts
<1>4. \A d \in Calls : CallShaped(d, call[d])'
  <2>1. ASSUME NEW d \in Calls \ {c}
        PROVE  CallShaped(d, call[d])'
    <3>1. CallShaped(d, call[d]) /\ call'[d] = call[d] /\ (holder' = d <=> holder = d)
        BY <2>1 DEF AdminInv, Moves
    <3> QED  BY <3>1, <1>0 DEF CallShaped
  <2> QED  BY <2>1
<1>5. \A d \in Calls : d # c => call'[d] = call[d]
    BY DEF Moves
<1>6. RowsShaped'
  <2>1. \A i \in Checkouts : rows[i].there => call'[i].answer = "url"
    <3>1. ASSUME NEW i \in Checkouts, rows[i].there  PROVE call[i].answer = "url" /\ call[i].pc = "done"
        BY <3>1, <1>3 DEF AdminInv, RowsShaped, CallShaped
    <3> QED  BY <3>1, <1>3, <1>5 DEF Moves
  <2> QED  BY <2>1, <1>0 DEF AdminInv, RowsShaped
<1>7. \A d \in AdminCalls : TxShaped(d, tx[d])'
  <2>1. ASSUME NEW d \in AdminCalls \ {c}
        PROVE  TxShaped(d, tx[d])'
    <3>1. TxShaped(d, tx[d]) /\ tx'[d] = tx[d] /\ call'[d] = call[d] /\ seen[d] \subseteq seen'[d]
        BY <2>1, <1>2, <1>3 DEF AdminInv, Moves
    <3>2. VerifyShaped(d, tx[d])'
        BY <3>1 DEF TxShaped, VerifyShaped
    <3> QED  BY <3>1, <3>2 DEF TxShaped, Earlier, Clock
  <2> QED  BY <2>1
<1>8. AuditBy'
  <2>1. \A d \in Calls : call[d].answer # "none" => call'[d] = call[d]
      BY <1>5 DEF AdminInv, CallShaped, Moves
  <2>2. \A d \in AdminCalls : call'[d].answer = "changed" => call[d].answer = "changed"
      BY <1>3, <1>5
  <2> QED  BY <2>1, <2>2, <1>0, <1>3 DEF AdminInv, AuditBy
<1>9. AuditLast' /\ AuditAlternates'
    BY DEF AdminInv, AuditLast, AuditAlternates
<1>10. PlanJustified'
    BY <1>0, <1>2, <1>5 DEF AdminInv, PlanJustified, Justified
<1>11. AccessAnswerJustified'
  <2>1. ASSUME NEW d \in Calls, call'[d].answer \in {"allowed", "forbidden"}
        PROVE  \/ (call'[d].answer = "allowed") \in seen[d]
               \/ override.there /\ call'[d].began < override.until /\ override.until <= now
      BY <2>1, <1>5 DEF AdminInv, AccessAnswerJustified, Justified
  <2> QED  BY <2>1, <1>0, <1>2 DEF AccessAnswerJustified
<1>12. SaleFree'
  <2>1. ASSUME NEW d \in Checkouts \ {c}, call'[d].pc = "provider" \/ call'[d].answer = "url"
        PROVE  held'[d] = {}
    <3>1. held[d] = {} /\ call[d].pc # "idle"
        BY <2>1, <1>3, <1>5 DEF AdminInv, SaleFree, CallShaped
    <3> QED  BY <3>1, <1>2
  <2> QED  BY <2>1, <1>0 DEF SaleFree, Justified
<1> QED  BY <1>0, <1>1, <1>2, <1>4, <1>6, <1>7, <1>8, <1>9, <1>10, <1>11, <1>12 DEF AdminInv

Pcs == {"idle", "done"} \cup AdminPcs \cup VerifyPcs \cup RequestPcs

\* What Step and Answer do to the record of the call.
LEMMA Stepped ==
    ASSUME call \in [Calls -> CallType], NEW c \in Calls, NEW to \in Pcs,
           call' = [call EXCEPT ![c].pc = to]
    PROVE  /\ call' \in [Calls -> CallType]
           /\ \A d \in Calls \ {c} : call'[d] = call[d]
           /\ call'[c].pc = to /\ call'[c].began = call[c].began
           /\ call'[c].plan = call[c].plan /\ call'[c].answer = call[c].answer
BY DEF CallType, Pcs

LEMMA Answered ==
    ASSUME call \in [Calls -> CallType], NEW c \in Calls, NEW a \in Answers, Answer(c, a)
    PROVE  /\ call' \in [Calls -> CallType]
           /\ \A d \in Calls \ {c} : call'[d] = call[d]
           /\ call'[c].pc = "done" /\ call'[c].began = call[c].began
           /\ call'[c].plan = call[c].plan /\ call'[c].answer = a
BY DEF CallType, Answer

LEMMA Begun ==
    ASSUME call \in [Calls -> CallType], NEW c \in Calls, NEW to \in Pcs, NEW t \in Nat,
           call' = [call EXCEPT ![c].pc = to, ![c].began = t]
    PROVE  /\ call' \in [Calls -> CallType]
           /\ \A d \in Calls \ {c} : call'[d] = call[d]
           /\ call'[c].pc = to /\ call'[c].began = t
           /\ call'[c].plan = call[c].plan /\ call'[c].answer = call[c].answer
BY DEF CallType, Pcs

\* The first statement that reads the plan.
LEMMA PlanRead ==
    ASSUME call \in [Calls -> CallType], NEW c \in Calls, NEW p \in {"free", "pro"},
           call' = [call EXCEPT ![c].pc = "permissions", ![c].plan = p]
    PROVE  /\ call' \in [Calls -> CallType]
           /\ \A d \in Calls \ {c} : call'[d] = call[d]
           /\ call'[c].pc = "permissions" /\ call'[c].began = call[c].began
           /\ call'[c].plan = p /\ call'[c].answer = call[c].answer
BY DEF CallType, Pcs, RequestPcs

\* The plan of activeSubscription is pro when some row is live.
LEMMA PlanIsSubscribed ==
    ASSUME StateTyped, RowsShaped
    PROVE  Plan(now) \in {"free", "pro"} /\ (Plan(now) = "pro" <=> Subscribed)
<1> DEFINE live == {i \in RowIds : Live(rows[i], now)}
<1>1. live = {} <=> ~Subscribed
  <2>1. ASSUME NEW i \in RowIds
        PROVE  Live(rows[i], now) <=> rows[i].status # "expired" /\ now < rows[i].until
    <3>1. ~rows[i].there => rows[i].status = "expired"
        BY DEF RowsShaped, NoRow
    <3>2. rows[i].until \in Int /\ now \in Int
        BY DEF StateTyped, RowType
    <3> QED  BY <3>1, <3>2 DEF Live
  <2> QED  BY <2>1 DEF Subscribed
<1>2. CASE live = {}
    BY <1>1, <1>2 DEF Plan, Effective, FreeAccess
<1>3. CASE live # {}
    BY <1>1, <1>3 DEF Plan, Effective
<1> QED  BY <1>2, <1>3

\* A request that has begun and not ended.
LEMMA RequestOpen ==
    ASSUME AdminInv, NEW c \in Calls, call[c].pc \in RequestPcs
    PROVE  /\ c \in Requests /\ c \notin AdminCalls /\ call[c].answer = "none"
           /\ Entitled \in seen[c] /\ holder # c
           /\ call[c].began \in Nat /\ call[c].began <= now
           /\ Input(c).kind \in {"access", "checkout", "portal"}
           /\ call[c].pc # "done" /\ call[c].pc # "idle"
<1>1. CallShaped(c, call[c]) /\ call[c] \in CallType
    BY DEF AdminInv, StateTyped
<1>2. call[c].pc \notin {"idle", "done"} \cup AdminPcs
    BY DEF RequestPcs, AdminPcs, LockPcs
<1>3. c \in Requests /\ c \notin AdminCalls
    BY <1>1 DEF CallShaped, Requests, AdminCalls
<1>4. Observed(c) \in seen[c]
    BY <1>2 DEF AdminInv, SeenNow, Open
<1> QED  BY <1>1, <1>2, <1>3, <1>4 DEF CallShaped, Observed, CallType, AdminPcs, Requests

\* A request moves on without the lock: what the step has to show.
LEMMA RequestMoves ==
    ASSUME AdminInv, NEW c \in Requests, Record, Justified(c),
           UNCHANGED <<made, now, rows, override, holder, audit, tx, failures>>, logins' \in Nat,
           call[c].pc \in {"idle"} \cup RequestPcs, call'[c].pc \in {"done"} \cup RequestPcs,
           call' \in [Calls -> CallType], \A d \in Calls \ {c} : call'[d] = call[d],
           call'[c].began <= now, call'[c].answer # "changed",
           call'[c].answer = "none" <=> call'[c].pc # "done",
           call'[c].pc \in {"checkout", "provider"} => Input(c).kind = "checkout",
           call'[c].pc = "portal" => Input(c).kind = "portal"
    PROVE  AdminInv'
<1>1. c \in Calls /\ c \notin AdminCalls /\ Input(c).kind # "verify"
    BY DEF Requests, AdminCalls
<1>2. holder # c /\ call[c].pc # "done"
  <2>1. CallShaped(c, call[c])
      BY <1>1 DEF AdminInv
  <2> QED  BY <2>1 DEF CallShaped, RequestPcs, LockPcs
<1>3. CallShaped(c, call[c])'
  <2>1. call'[c].pc \notin AdminPcs \cup VerifyPcs
      BY DEF RequestPcs, AdminPcs, LockPcs, VerifyPcs
  <2> QED  BY <1>1, <1>2, <2>1, SameSets DEF CallShaped, AdminPcs
<1>4. Moves(c)
    BY <1>1, <1>2 DEF Moves, AdminInv, StateTyped
<1> QED  BY <1>1, <1>3, <1>4, CalmStep

LEMMA BeginRequestKeeps ==
    ASSUME AdminInv, NEW c \in Calls, UNCHANGED <<made, audit, tx, failures>>, BeginRequest(c), Record
    PROVE  AdminInv'
<1>1. /\ call \in [Calls -> CallType] /\ now \in Nat /\ logins \in Nat
      /\ CallShaped(c, call[c])
    BY AccountsAssumption DEF AdminInv, StateTyped
<1>2. c \in Requests /\ call[c].pc = "idle" /\ UNCHANGED <<now, logins, rows, override, holder>>
      /\ call[c].answer = "none"
    BY <1>1 DEF BeginRequest, CallShaped
<1>3. /\ call' \in [Calls -> CallType] /\ \A d \in Calls \ {c} : call'[d] = call[d]
      /\ call'[c].pc = "sync" /\ call'[c].began = now /\ call'[c].answer = call[c].answer
    BY <1>1, Begun DEF BeginRequest, Pcs, RequestPcs
<1>4. Justified(c)
    BY <1>2, <1>3 DEF Justified
<1> QED  BY <1>1, <1>2, <1>3, <1>4, RequestMoves DEF RequestPcs

LEMMA SyncUserKeeps ==
    ASSUME AdminInv, NEW c \in Calls, UNCHANGED <<made, audit, tx, failures>>, SyncUser(c), Record
    PROVE  AdminInv'
<1>1. call \in [Calls -> CallType] /\ now \in Nat /\ logins \in Nat
    BY AccountsAssumption DEF AdminInv, StateTyped
<1>2. /\ call[c].pc = "sync" /\ UNCHANGED <<now, rows, override, holder>> /\ logins' \in Nat
      /\ call' = [call EXCEPT ![c].pc = "subscription"]
    BY <1>1 DEF SyncUser, Step
<1>3. /\ call' \in [Calls -> CallType] /\ \A d \in Calls \ {c} : call'[d] = call[d]
      /\ call'[c].pc = "subscription" /\ call'[c].began = call[c].began
      /\ call'[c].answer = call[c].answer
    BY <1>1, <1>2, Stepped DEF Pcs, RequestPcs
<1>4. c \in Requests /\ call[c].answer = "none" /\ call[c].began <= now
    BY <1>2, RequestOpen DEF RequestPcs
<1>5. Justified(c)
    BY <1>3, <1>4 DEF Justified
<1> QED  BY <1>1, <1>2, <1>3, <1>4, <1>5, RequestMoves DEF RequestPcs

LEMMA ReadSubscriptionKeeps ==
    ASSUME AdminInv, NEW c \in Calls, UNCHANGED <<made, audit, tx, failures>>,
           ReadSubscription(c), Record
    PROVE  AdminInv'
<1>1. call \in [Calls -> CallType] /\ now \in Nat /\ logins \in Nat
    BY AccountsAssumption DEF AdminInv, StateTyped
<1>2. /\ call[c].pc = "subscription" /\ UNCHANGED <<now, logins, rows, override, holder>>
      /\ call' = [call EXCEPT ![c].pc = "permissions", ![c].plan = Plan(now)]
    BY DEF ReadSubscription
<1>3. Plan(now) \in {"free", "pro"} /\ (Plan(now) = "pro" <=> Subscribed)
    BY PlanIsSubscribed DEF AdminInv
<1>4. /\ call' \in [Calls -> CallType] /\ \A d \in Calls \ {c} : call'[d] = call[d]
      /\ call'[c].pc = "permissions" /\ call'[c].began = call[c].began
      /\ call'[c].plan = Plan(now) /\ call'[c].answer = call[c].answer
    BY <1>1, <1>2, <1>3, PlanRead
<1>5. /\ c \in Requests /\ call[c].answer = "none" /\ Entitled \in seen[c]
      /\ call[c].began \in Nat /\ call[c].began <= now
    BY <1>2, RequestOpen DEF RequestPcs
<1>6. \/ (Plan(now) = "pro") \in seen[c]
      \/ override.there /\ call[c].began < override.until
  <2>1. override.until \in Int
      BY DEF AdminInv, StateTyped, OverrideType
  <2>2. CASE override.there /\ now < override.until
      BY <2>1, <2>2, <1>1, <1>5
  <2>3. CASE ~(override.there /\ now < override.until)
    <3>1. Entitled = Subscribed
        BY <2>3 DEF Entitled
    <3>2. (Plan(now) = "pro") = Subscribed
        BY <1>3 DEF Subscribed
    <3> QED  BY <3>1, <3>2, <1>5
  <2> QED  BY <2>2, <2>3
<1>7. Justified(c)
    BY <1>4, <1>5, <1>6 DEF Justified
<1> QED  BY <1>1, <1>2, <1>4, <1>5, <1>7, RequestMoves DEF RequestPcs

LEMMA ReadPermissionsKeeps ==
    ASSUME AdminInv, NEW c \in Calls, UNCHANGED <<made, audit, tx, failures>>,
           ReadPermissions(c), Record
    PROVE  AdminInv'
<1>1. call \in [Calls -> CallType] /\ now \in Nat /\ logins \in Nat
    BY AccountsAssumption DEF AdminInv, StateTyped
<1>2. call[c].pc = "permissions" /\ UNCHANGED <<now, logins, rows, override, holder>>
    BY DEF ReadPermissions
<1>3. /\ c \in Requests /\ call[c].answer = "none" /\ Entitled \in seen[c]
      /\ Input(c).kind \in {"access", "checkout", "portal"}
      /\ call[c].began \in Nat /\ call[c].began <= now
    BY <1>2, RequestOpen DEF RequestPcs
<1>4. CASE Input(c).kind = "access"
  <2> DEFINE a == IF Entitlement(call[c].plan, now) THEN "allowed" ELSE "forbidden"
  <2>1. Answer(c, a)
      BY <1>4 DEF ReadPermissions
  <2>2. a \in {"allowed", "forbidden"} /\ (a = "allowed" <=> Entitlement(call[c].plan, now))
      OBVIOUS
  <2>3. override.until \in Int /\ override.value \in BOOLEAN
      BY DEF AdminInv, StateTyped, OverrideType
  <2>4. \/ (a = "allowed") \in seen[c]
        \/ override.there /\ call[c].began < override.until /\ override.until <= now
    <3>1. CASE override.there /\ now < override.until
      <4>1. Entitled = override.value
          BY <3>1 DEF Entitled
      <4>2. OverrideLive(now)
          BY <3>1, <2>3, <1>1 DEF OverrideLive
      <4>3. (a = "allowed") = override.value
          BY <4>2, <2>2, <2>3 DEF Entitlement
      <4> QED  BY <4>1, <4>3, <1>3
    <3>2. CASE ~(override.there /\ now < override.until)
      <4>1. ~OverrideLive(now)
          BY <3>2, <2>3, <1>1 DEF OverrideLive
      <4>2. (a = "allowed") = (call[c].plan = "pro")
          BY <4>1, <2>2 DEF Entitlement
      <4>3. \/ (call[c].plan = "pro") \in seen[c]
            \/ override.there /\ call[c].began < override.until
          BY <1>2, <1>4 DEF AdminInv, PlanJustified
      <4>4. override.there => override.until <= now
          BY <3>2, <2>3, <1>1
      <4> QED  BY <4>2, <4>3, <4>4
    <3> QED  BY <3>1, <3>2
  <2> HIDE DEF a
  <2>5. a \in Answers
      BY <2>2 DEF Answers
  <2>6. /\ call' \in [Calls -> CallType] /\ \A d \in Calls \ {c} : call'[d] = call[d]
        /\ call'[c].pc = "done" /\ call'[c].began = call[c].began /\ call'[c].answer = a
      BY <1>1, <2>1, <2>5, Answered
  <2>7. Justified(c)
      BY <2>2, <2>4, <2>6 DEF Justified
  <2> QED  BY <1>1, <1>2, <1>3, <2>2, <2>6, <2>7, RequestMoves DEF RequestPcs
<1>5. CASE Input(c).kind # "access"
  <2>1. /\ call' = [call EXCEPT ![c].pc = Input(c).kind] /\ Input(c).kind \in Pcs
      BY <1>3, <1>5 DEF ReadPermissions, Step, Pcs, RequestPcs
  <2>2. /\ call' \in [Calls -> CallType] /\ \A d \in Calls \ {c} : call'[d] = call[d]
        /\ call'[c].pc = Input(c).kind /\ call'[c].began = call[c].began
        /\ call'[c].answer = call[c].answer
      BY <1>1, <2>1, Stepped
  <2>3. Justified(c)
      BY <1>3, <1>5, <2>2 DEF Justified
  <2> QED  BY <1>1, <1>2, <1>3, <1>5, <2>2, <2>3, RequestMoves DEF RequestPcs
<1> QED  BY <1>4, <1>5

\* CreateCheckout is refused unless every subscription has ended.
LEMMA BlockingIsUnended ==
    ASSUME StateTyped, RowsShaped
    PROVE  Blocking(now) = Unended
<1>1. ASSUME NEW i \in Checkouts
      PROVE  i \in Blocking(now) <=> i \in Unended
  <2>1. i \in RowIds
      BY DEF RowIds
  <2>2. ~rows[i].there => rows[i].status = "expired"
      BY <2>1 DEF RowsShaped, NoRow
  <2>3. rows[i].status \in Statuses /\ rows[i].until \in Int /\ now \in Int
      BY <2>1 DEF StateTyped, RowType
  <2> QED  BY <2>2, <2>3 DEF Blocking, Unended, Statuses
<1> QED  BY <1>1 DEF Blocking, Unended

LEMMA CreateCheckoutKeeps ==
    ASSUME AdminInv, NEW c \in Calls, UNCHANGED <<made, audit, tx, failures>>,
           CreateCheckout(c), Record
    PROVE  AdminInv'
<1>1. call \in [Calls -> CallType] /\ now \in Nat /\ logins \in Nat
    BY AccountsAssumption DEF AdminInv, StateTyped
<1>2. call[c].pc \in {"checkout", "provider"} /\ UNCHANGED <<now, logins, rows, override, holder>>
    BY DEF CreateCheckout
<1>3. /\ c \in Requests /\ call[c].answer = "none" /\ call[c].began <= now
      /\ call[c].pc # "idle"
    BY <1>2, RequestOpen DEF RequestPcs
<1>4. Input(c).kind = "checkout" /\ c \in Checkouts
    BY <1>2 DEF AdminInv, CallShaped, Checkouts
<1>5. CASE call[c].pc = "checkout" /\ Blocking(now) = {}
  <2>1. call' = [call EXCEPT ![c].pc = "provider"]
      BY <1>5 DEF CreateCheckout, Step
  <2>2. /\ call' \in [Calls -> CallType] /\ \A d \in Calls \ {c} : call'[d] = call[d]
        /\ call'[c].pc = "provider" /\ call'[c].began = call[c].began
        /\ call'[c].answer = call[c].answer
      BY <1>1, <2>1, Stepped DEF Pcs, RequestPcs
  <2>3. Unended = {} /\ Unended' = Unended
      BY <1>5, <1>2, BlockingIsUnended, SameSets DEF AdminInv, Unended
  <2>4. held'[c] = {}
      BY <2>3, <1>4 DEF Record
  <2>5. Justified(c)
      BY <1>3, <1>4, <2>2, <2>4 DEF Justified
  <2> QED  BY <1>1, <1>2, <1>3, <1>4, <2>2, <2>5, RequestMoves DEF RequestPcs
<1>6. CASE call[c].pc = "checkout" /\ Blocking(now) # {}
  <2>1. Answer(c, "subscribed")
      BY <1>6 DEF CreateCheckout
  <2>2. /\ call' \in [Calls -> CallType] /\ \A d \in Calls \ {c} : call'[d] = call[d]
        /\ call'[c].pc = "done" /\ call'[c].began = call[c].began
        /\ call'[c].answer = "subscribed"
      BY <1>1, <2>1, Answered DEF Answers
  <2>3. Justified(c)
      BY <2>2 DEF Justified
  <2> QED  BY <1>1, <1>2, <1>3, <2>2, <2>3, RequestMoves DEF RequestPcs
<1>7. CASE call[c].pc = "provider"
  <2>1. PICK a \in {"url", "unavailable"} : Answer(c, a)
      BY <1>7 DEF CreateCheckout
  <2>2. /\ call' \in [Calls -> CallType] /\ \A d \in Calls \ {c} : call'[d] = call[d]
        /\ call'[c].pc = "done" /\ call'[c].began = call[c].began /\ call'[c].answer = a
      BY <1>1, <2>1, Answered DEF Answers
  <2>3. held[c] = {}
      BY <1>4, <1>7 DEF AdminInv, SaleFree
  <2>4. held'[c] = {}
      BY <2>3, <1>3, <1>4 DEF Record
  <2>5. Justified(c)
      BY <2>2, <2>4 DEF Justified
  <2> QED  BY <1>1, <1>2, <1>3, <2>1, <2>2, <2>5, RequestMoves DEF RequestPcs
<1> QED  BY <1>2, <1>5, <1>6, <1>7

LEMMA CustomerPortalKeeps ==
    ASSUME AdminInv, NEW c \in Calls, UNCHANGED <<made, audit, tx, failures>>,
           CustomerPortal(c), Record
    PROVE  AdminInv'
<1>1. call \in [Calls -> CallType] /\ now \in Nat /\ logins \in Nat
    BY AccountsAssumption DEF AdminInv, StateTyped
<1>2. call[c].pc = "portal" /\ UNCHANGED <<now, logins, rows, override, holder>>
    BY DEF CustomerPortal
<1>3. c \in Requests /\ call[c].answer = "none" /\ call[c].began <= now
    BY <1>2, RequestOpen DEF RequestPcs
<1>4. PICK a \in {"url", "unavailable", "missing"} : Answer(c, a)
    BY DEF CustomerPortal
<1>5. /\ call' \in [Calls -> CallType] /\ \A d \in Calls \ {c} : call'[d] = call[d]
      /\ call'[c].pc = "done" /\ call'[c].began = call[c].began /\ call'[c].answer = a
    BY <1>1, <1>4, Answered DEF Answers
<1>6. c \in Checkouts => FALSE
    BY <1>2 DEF AdminInv, CallShaped, Checkouts
<1>7. Justified(c)
    BY <1>4, <1>5, <1>6 DEF Justified
<1> QED  BY <1>1, <1>2, <1>3, <1>4, <1>5, <1>7, RequestMoves DEF RequestPcs

-----------------------------------------------------------------------------
(* Administrative calls up to the commit.                                   *)

LEMMA AdminOpen ==
    ASSUME AdminInv, NEW c \in Calls, call[c].pc \in AdminPcs
    PROVE  /\ c \in AdminCalls /\ c \notin Requests /\ c \notin Checkouts
           /\ Input(c).kind \in {"grant", "revoke"} /\ Accepted(Input(c))
           /\ call[c].answer = "none" /\ call[c].pc \notin {"idle", "done"}
           /\ call[c].began \in Nat /\ call[c].began <= now
           /\ holder = c <=> call[c].pc \in LockPcs
           /\ GrantInForce(Clock(c)) \in seen[c]
           /\ tx[c] \in TxType /\ TxShaped(c, tx[c])
<1>1. CallShaped(c, call[c]) /\ call[c] \in CallType
    BY DEF AdminInv, StateTyped
<1>2. call[c].pc \notin {"idle", "done"}
    BY DEF AdminPcs, LockPcs
<1>3. Input(c).kind \in {"grant", "revoke"} /\ Accepted(Input(c))
    BY <1>1 DEF CallShaped
<1>4. c \in AdminCalls /\ c \notin Requests /\ c \notin Checkouts
    BY <1>3 DEF Requests, AdminCalls, Checkouts
<1>5. Observed(c) \in seen[c]
    BY <1>2 DEF AdminInv, SeenNow, Open
<1>6. GrantInForce(Clock(c)) \in seen[c]
    BY <1>4, <1>5 DEF Observed
<1>7. tx[c] \in TxType /\ TxShaped(c, tx[c])
    BY <1>4 DEF AdminInv, StateTyped
<1> QED  BY <1>1, <1>2, <1>3, <1>4, <1>6, <1>7 DEF CallShaped, CallType

\* The call goes on to another statement.
LEMMA AdminMoves ==
    ASSUME AdminInv, NEW c \in AdminCalls, NEW to \in AdminPcs, Record,
           UNCHANGED <<made, now, logins, rows, override, audit, failures>>,
           call[c].pc \in AdminPcs, call' = [call EXCEPT ![c].pc = to],
           holder' = c <=> to \in LockPcs,
           \A d \in Calls \ {c} : holder' = d <=> holder = d,
           tx' \in [AdminCalls -> TxType], \A d \in AdminCalls \ {c} : tx'[d] = tx[d],
           TxShaped(c, tx[c])'
    PROVE  AdminInv'
<1>1. /\ c \in Calls /\ call \in [Calls -> CallType]
      /\ logins \in Nat /\ failures \in 0..MaxFailures
    BY DEF AdminInv, StateTyped, AdminCalls
<1>2. /\ c \notin Requests /\ c \notin Checkouts /\ Accepted(Input(c))
      /\ Input(c).kind \in {"grant", "revoke"} /\ call[c].answer = "none"
      /\ call[c].pc # "done" /\ call[c].began <= now
    BY <1>1, AdminOpen
<1>3. /\ call' \in [Calls -> CallType] /\ \A d \in Calls \ {c} : call'[d] = call[d]
      /\ call'[c].pc = to /\ call'[c].began = call[c].began /\ call'[c].answer = "none"
    BY <1>1, <1>2, Stepped DEF Pcs
<1>4. to \notin RequestPcs \cup VerifyPcs /\ to \notin {"idle", "done", "checkout", "provider", "portal"}
    BY DEF RequestPcs, AdminPcs, LockPcs, VerifyPcs
<1>5. CallShaped(c, call[c])'
    BY <1>2, <1>3, <1>4, SameSets DEF CallShaped
<1>6. Justified(c)
    BY <1>2, <1>3 DEF Justified
<1>7. Moves(c)
    BY <1>1, <1>2, <1>3 DEF Moves
<1> QED  BY <1>1, <1>3, <1>5, <1>6, <1>7, CalmStep

LEMMA VerifyOpen ==
    ASSUME AdminInv, NEW c \in Calls, call[c].pc \in VerifyPcs
    PROVE  /\ c \in AdminCalls /\ c \notin Requests /\ c \notin Checkouts
           /\ Input(c).kind = "verify"
           /\ call[c].answer = "none" /\ call[c].pc \notin {"idle", "done"}
           /\ call[c].began \in Nat /\ call[c].began <= now /\ holder # c
           /\ tx[c] \in TxType /\ TxShaped(c, tx[c])
<1>1. CallShaped(c, call[c]) /\ call[c] \in CallType
    BY DEF AdminInv, StateTyped
<1>2. call[c].pc \notin {"idle", "done"} /\ call[c].pc \notin LockPcs
    BY DEF VerifyPcs, LockPcs
<1>3. Input(c).kind = "verify"
    BY <1>1 DEF CallShaped
<1>4. c \in AdminCalls /\ c \notin Requests /\ c \notin Checkouts
    BY <1>3 DEF Requests, AdminCalls, Checkouts
<1>5. tx[c] \in TxType /\ TxShaped(c, tx[c])
    BY <1>4 DEF AdminInv, StateTyped
<1> QED  BY <1>1, <1>2, <1>3, <1>4, <1>5 DEF CallShaped, CallType

\* The call ends without a commit.
LEMMA FailKeeps ==
    ASSUME AdminInv, NEW c \in Calls,
           NEW reason \in {"conflict", "error", "unchanged", "preview", "verified"},
           call[c].pc \in AdminPcs \cup VerifyPcs,
           reason = "unchanged" => call[c].pc = "unchanged",
           call[c].pc \in VerifyPcs => reason \in {"error", "verified"},
           Fail(c, reason), failures' \in 0..MaxFailures, UNCHANGED made, Record
    PROVE  AdminInv'
<1>1. call \in [Calls -> CallType] /\ logins \in Nat /\ tx \in [AdminCalls -> TxType]
    BY DEF AdminInv, StateTyped
<1>2. /\ c \in AdminCalls /\ c \notin Requests /\ c \notin Checkouts
      /\ Input(c).kind = "verify" => call[c].pc \in VerifyPcs
      /\ call[c].pc # "done" /\ call[c].began <= now /\ TxShaped(c, tx[c])
    BY AdminOpen, VerifyOpen
<1>3. /\ call' \in [Calls -> CallType] /\ \A d \in Calls \ {c} : call'[d] = call[d]
      /\ call'[c].pc = "done" /\ call'[c].began = call[c].began /\ call'[c].answer = reason
    BY <1>1, Answered DEF Fail, Answers
<1>4. UNCHANGED <<now, logins, rows, override, audit>>
    BY DEF Fail
<1>5. NoHolder \notin Calls
    BY Distinct DEF AdminInv, StateTyped
<1>6. holder' # c /\ \A d \in Calls \ {c} : holder' = d <=> holder = d
    BY <1>5 DEF Fail, Release
<1>7. tx' = [tx EXCEPT ![c] = NoTx]
    BY DEF Fail
<1>8. tx' \in [AdminCalls -> TxType] /\ \A d \in AdminCalls \ {c} : tx'[d] = tx[d]
    BY <1>1, <1>7, NoTxTyped
<1>9. CallShaped(c, call[c])'
    BY <1>2, <1>3, <1>4, <1>6, SameSets DEF CallShaped, LockPcs, AdminPcs, RequestPcs, VerifyPcs
<1>10. TxShaped(c, tx[c])'
  <2>1. seen'[c] = seen[c]
      BY <1>3 DEF Record, Open
  <2>2. reason = "unchanged" => (Input(c).kind = "grant") \in seen[c]
      BY <1>2 DEF TxShaped
  <2> QED  BY <1>3, <2>1, <2>2 DEF TxShaped, VerifyShaped, LockPcs
<1>11. Justified(c)
    BY <1>2, <1>3 DEF Justified
<1>12. Moves(c)
    BY <1>1, <1>2, <1>3, <1>4, <1>6, <1>8 DEF Moves
<1> QED  BY <1>3, <1>4, <1>9, <1>10, <1>11, <1>12, CalmStep

\* A revoke that would end a period before it began is refused.
LEMMA WriteRefusedKeeps ==
    ASSUME AdminInv, NEW c \in Calls, UNCHANGED made, WriteRefused(c), Record
    PROVE  AdminInv'
<1>1. call[c].pc \in AdminPcs /\ call[c].pc \notin VerifyPcs
    BY DEF WriteRefused, AdminPcs, LockPcs, VerifyPcs
<1>2. failures' \in 0..MaxFailures
    BY DEF WriteRefused, AdminInv, StateTyped
<1> QED  BY <1>1, <1>2, FailKeeps DEF WriteRefused

LEMMA SerializationFailureKeeps ==
    ASSUME AdminInv, NEW c \in Calls, UNCHANGED made, SerializationFailure(c), Record
    PROVE  AdminInv'
<1>1. call[c].pc \in AdminPcs /\ call[c].pc \notin VerifyPcs
    BY DEF SerializationFailure, Stale, AdminPcs, LockPcs, VerifyPcs
<1>2. failures' \in 0..MaxFailures
    BY DEF SerializationFailure, AdminInv, StateTyped
<1> QED  BY <1>1, <1>2, FailKeeps DEF SerializationFailure

LEMMA CommitNothingKeeps ==
    ASSUME AdminInv, NEW c \in Calls, UNCHANGED made, CommitNothing(c), Record
    PROVE  AdminInv'
<1>1. /\ call[c].pc \in AdminPcs /\ call[c].pc \notin VerifyPcs
      /\ call[c].pc \in {"unchanged", "preview"}
    BY DEF CommitNothing, AdminPcs, LockPcs, VerifyPcs
<1>2. failures' \in 0..MaxFailures
    BY DEF CommitNothing, AdminInv, StateTyped
<1> QED  BY <1>1, <1>2, FailKeeps DEF CommitNothing

LEMMA RollbackKeeps ==
    ASSUME AdminInv, NEW c \in Calls, UNCHANGED made, Rollback(c), Record
    PROVE  AdminInv'
<1>1. call[c].pc \in AdminPcs \cup VerifyPcs
  <2>1. c \notin Requests
      BY DEF Rollback, AdminCalls, Requests
  <2>2. CallShaped(c, call[c]) /\ call[c] \in CallType
      BY DEF AdminInv, StateTyped
  <2>3. call[c].pc \notin RequestPcs
      BY <2>1, <2>2 DEF CallShaped
  <2> QED  BY <2>2, <2>3 DEF Rollback, CallType
<1>2. failures' \in 0..MaxFailures
    BY AdminAssumption DEF Rollback, AdminInv, StateTyped
<1> QED  BY <1>1, <1>2, FailKeeps DEF Rollback

\* A call that has not begun is refused or begins.
LEMMA IdleMoves ==
    ASSUME AdminInv, NEW c \in AdminCalls, Record, call[c].pc = "idle",
           UNCHANGED <<made, now, logins, rows, override, holder, audit, tx, failures>>,
           call' \in [Calls -> CallType], \A d \in Calls \ {c} : call'[d] = call[d],
           \/ /\ call'[c].pc = "resolve" /\ call'[c].answer = "none"
              /\ Input(c).kind \in {"grant", "revoke"} /\ Accepted(Input(c))
           \/ /\ call'[c].pc = "create" /\ call'[c].answer = "none"
              /\ Input(c).kind = "verify"
           \/ call'[c].pc = "done" /\ call'[c].answer = "rejected",
           call'[c].began <= now
    PROVE  AdminInv'
<1>1. /\ c \in Calls /\ CallShaped(c, call[c]) /\ logins \in Nat /\ failures \in 0..MaxFailures
      /\ tx \in [AdminCalls -> TxType]
    BY DEF AdminInv, StateTyped, AdminCalls
<1>2. c \notin Requests /\ c \notin Checkouts /\ Input(c).kind # "access"
    BY DEF Requests, AdminCalls, Checkouts
<1>3. holder # c
    BY <1>1 DEF CallShaped, LockPcs
<1>4. CallShaped(c, call[c])'
    BY <1>2, <1>3, SameSets DEF CallShaped, AdminPcs, LockPcs, RequestPcs, VerifyPcs
<1>5. TxShaped(c, tx[c])'
  <2>1. VerifyShaped(c, tx[c])
      BY DEF AdminInv, TxShaped
  <2> QED  BY <2>1 DEF TxShaped, VerifyShaped, LockPcs
<1>6. Justified(c)
    BY <1>2 DEF Justified
<1>7. Moves(c)
    BY <1>1 DEF Moves
<1> QED  BY <1>1, <1>4, <1>5, <1>6, <1>7, CalmStep

LEMMA BeginMutationKeeps ==
    ASSUME AdminInv, NEW c \in Calls, UNCHANGED made, BeginMutation(c), Record
    PROVE  AdminInv'
<1>1. /\ call \in [Calls -> CallType] /\ now \in Nat
      /\ CallShaped(c, call[c]) /\ call[c].began <= now
    BY AccountsAssumption DEF AdminInv, StateTyped, CallShaped
<1>2. /\ call[c].pc = "idle" /\ c \in AdminCalls /\ call[c].answer = "none"
      /\ Input(c).kind \in {"grant", "revoke"}
      /\ UNCHANGED <<now, logins, rows, override, holder, audit, tx, failures>>
    BY <1>1 DEF BeginMutation, CallShaped, AdminCalls
<1>3. CASE Accepted(Input(c))
  <2>1. call' = [call EXCEPT ![c].pc = "resolve", ![c].began = now]
      BY <1>3 DEF BeginMutation
  <2>2. /\ call' \in [Calls -> CallType] /\ \A d \in Calls \ {c} : call'[d] = call[d]
        /\ call'[c].pc = "resolve" /\ call'[c].began = now /\ call'[c].answer = "none"
    <3>1. "resolve" \in Pcs
        BY DEF Pcs, AdminPcs
    <3>2. /\ call' \in [Calls -> CallType] /\ \A d \in Calls \ {c} : call'[d] = call[d]
          /\ call'[c].pc = "resolve" /\ call'[c].began = now /\ call'[c].answer = call[c].answer
        BY <1>1, <2>1, <3>1 DEF CallType, Pcs
    <3> QED  BY <1>2, <3>2
  <2> QED  BY <1>1, <1>2, <1>3, <2>2, IdleMoves
<1>4. CASE ~Accepted(Input(c))
  <2>1. Answer(c, "rejected")
      BY <1>4 DEF BeginMutation
  <2>2. /\ call' \in [Calls -> CallType] /\ \A d \in Calls \ {c} : call'[d] = call[d]
        /\ call'[c].pc = "done" /\ call'[c].began = call[c].began /\ call'[c].answer = "rejected"
      BY <1>1, <2>1, Answered DEF Answers
  <2> QED  BY <1>1, <1>2, <2>2, IdleMoves
<1> QED  BY <1>3, <1>4

-----------------------------------------------------------------------------
(* The lifecycle check.                                                     *)

LEMMA BeginVerifyKeeps ==
    ASSUME AdminInv, NEW c \in Calls, UNCHANGED made, BeginVerify(c), Record
    PROVE  AdminInv'
<1>1. /\ call \in [Calls -> CallType] /\ now \in Nat
      /\ CallShaped(c, call[c]) /\ call[c].began <= now
    BY AccountsAssumption DEF AdminInv, StateTyped, CallShaped
<1>2. /\ call[c].pc = "idle" /\ c \in AdminCalls /\ call[c].answer = "none"
      /\ Input(c).kind = "verify"
      /\ UNCHANGED <<now, logins, rows, override, holder, audit, tx, failures>>
    BY <1>1 DEF BeginVerify, CallShaped, AdminCalls
<1>3. CASE Accepted(Input(c))
  <2>1. call' = [call EXCEPT ![c].pc = "create", ![c].began = now]
      BY <1>3 DEF BeginVerify
  <2>2. "create" \in VerifyPcs
      BY DEF VerifyPcs
  <2>3. /\ call' \in [Calls -> CallType] /\ \A d \in Calls \ {c} : call'[d] = call[d]
        /\ call'[c].pc = "create" /\ call'[c].began = now /\ call'[c].answer = call[c].answer
      BY <1>1, <2>1, <2>2 DEF CallType
  <2> QED  BY <1>1, <1>2, <2>3, IdleMoves
<1>4. CASE ~Accepted(Input(c))
  <2>1. Answer(c, "rejected")
      BY <1>4 DEF BeginVerify
  <2>2. /\ call' \in [Calls -> CallType] /\ \A d \in Calls \ {c} : call'[d] = call[d]
        /\ call'[c].pc = "done" /\ call'[c].began = call[c].began /\ call'[c].answer = "rejected"
      BY <1>1, <2>1, Answered DEF Answers
  <2> QED  BY <1>1, <1>2, <2>2, IdleMoves
<1> QED  BY <1>3, <1>4

\* The verification goes on to another statement with transaction t.
LEMMA VerifyMoves ==
    ASSUME AdminInv, NEW c \in Calls, NEW to \in VerifyPcs, Record, NEW t \in TxType,
           UNCHANGED <<made, now, logins, rows, override, holder, audit, failures>>,
           call[c].pc \in VerifyPcs, call' = [call EXCEPT ![c].pc = to],
           tx' = [tx EXCEPT ![c] = t], VerifyShaped(c, tx[c])'
    PROVE  AdminInv'
<1>1. /\ call \in [Calls -> CallType] /\ tx \in [AdminCalls -> TxType]
      /\ logins \in Nat /\ failures \in 0..MaxFailures
    BY DEF AdminInv, StateTyped
<1>2. /\ c \in AdminCalls /\ c \notin Requests /\ c \notin Checkouts
      /\ Input(c).kind = "verify" /\ call[c].answer = "none" /\ holder # c
      /\ call[c].pc # "done" /\ call[c].began <= now
    BY VerifyOpen
<1>3. /\ call' \in [Calls -> CallType] /\ \A d \in Calls \ {c} : call'[d] = call[d]
      /\ call'[c].pc = to /\ call'[c].began = call[c].began /\ call'[c].answer = "none"
    BY <1>1, <1>2, Stepped DEF Pcs
<1>4. to \notin AdminPcs \cup LockPcs \cup RequestPcs \cup {"done"}
    BY DEF RequestPcs, AdminPcs, LockPcs, VerifyPcs
<1>5. CallShaped(c, call[c])'
    BY <1>2, <1>3, <1>4, SameSets DEF CallShaped, RequestPcs
<1>6. /\ tx' \in [AdminCalls -> TxType] /\ tx'[c] = t
      /\ \A d \in AdminCalls \ {c} : tx'[d] = tx[d]
    BY <1>1, <1>2
<1>7. TxShaped(c, tx[c])'
    BY <1>3, <1>4, <1>6 DEF TxShaped, LockPcs, AdminPcs
<1>8. Justified(c)
    BY <1>2, <1>3 DEF Justified
<1>9. Moves(c)
    BY <1>1, <1>2, <1>3, <1>6 DEF Moves
<1> QED  BY <1>3, <1>5, <1>7, <1>8, <1>9, CalmStep

\* A statement finds what it expects and writes nothing.
LEMMA VerifyReads ==
    ASSUME AdminInv, NEW c \in Calls, NEW from \in VerifyPcs, NEW to \in VerifyPcs,
           UNCHANGED made, Record, NEW expected, expected,
           VerifyRead(c, from, to, expected), VerifyShaped(c, tx[c])'
    PROVE  AdminInv'
<1>1. /\ call[c].pc = from /\ call' = [call EXCEPT ![c].pc = to]
      /\ UNCHANGED <<now, logins, rows, override, holder, audit, tx, failures>>
    BY DEF VerifyRead, Step
<1>2. tx[c] \in TxType /\ c \in AdminCalls
    BY <1>1, VerifyOpen
<1>3. tx' = [tx EXCEPT ![c] = tx[c]]
    BY <1>1, <1>2 DEF AdminInv, StateTyped
<1> QED  BY <1>1, <1>2, <1>3, VerifyMoves

\* The record of the call after a step to another statement.
LEMMA VerifyStepped ==
    ASSUME AdminInv, NEW c \in Calls, NEW from \in VerifyPcs, NEW to \in VerifyPcs,
           Step(c, from, to)
    PROVE  /\ call[c].pc = from /\ call'[c].pc = to /\ call'[c].began = call[c].began
           /\ call[c].began \in Nat /\ call[c].began <= now
           /\ c \in AdminCalls /\ tx[c] \in TxType /\ VerifyShaped(c, tx[c])
<1>1. call[c].pc = from /\ call \in [Calls -> CallType]
    BY DEF Step, AdminInv, StateTyped
<1>2. call'[c].pc = to /\ call'[c].began = call[c].began
    BY <1>1, Stepped DEF Step, Pcs
<1> QED  BY <1>1, <1>2, VerifyOpen DEF TxShaped

\* A user without a row has no access.
LEMMA OwnFree ==
    ASSUME NEW c, ~tx[c].write.there \/ tx[c].write.status = "expired"
    PROVE  OwnAccess(c).plan = "free"
<1> DEFINE rs == [i \in {Manual} |-> tx[c].write]
<1>1. rs[Manual] = tx[c].write
    OBVIOUS
<1>2. ~Live(rs[Manual], call[c].began)
    BY <1>1 DEF Live
<1> HIDE DEF rs
<1>3. {i \in {Manual} : Live(rs[i], call[c].began)} = {}
    BY <1>2
<1>4. Effective(rs, {Manual}, call[c].began) = FreeAccess
    BY <1>3 DEF Effective
<1> QED  BY <1>4 DEF OwnAccess, FreeAccess, rs

\* A user whose only row is a grant in force is an active Pro.
LEMMA OwnPro ==
    ASSUME NEW c, tx[c].write \in RowType, tx[c].write.there, tx[c].write.status = "active",
           tx[c].write.until > call[c].began
    PROVE  OwnAccess(c).plan = "pro" /\ OwnAccess(c).status = "active"
<1> DEFINE rs == [i \in {Manual} |-> tx[c].write]
           live == {i \in {Manual} : Live(rs[i], call[c].began)}
           best == CHOOSE i \in live : \A j \in live : Before(rs[i], rs[j])
<1>1. rs[Manual] = tx[c].write /\ rs[Manual].status = "active" /\ rs[Manual].until \in Int
    BY DEF RowType
<1>2. Live(rs[Manual], call[c].began)
    BY <1>1 DEF Live
<1> HIDE DEF rs
<1>3. live = {Manual}
    BY <1>2
<1>4. Before(rs[Manual], rs[Manual])
    BY <1>1 DEF Before
<1> HIDE DEF live
<1>5. \E i \in live : \A j \in live : Before(rs[i], rs[j])
    BY <1>3, <1>4
<1>6. best = Manual
    BY <1>3, <1>5
<1>7. Effective(rs, {Manual}, call[c].began)
        = [plan |-> "pro", status |-> rs[best].status, until |-> rs[best].until]
    BY <1>3 DEF Effective, live
<1> HIDE DEF best
<1>8. /\ Effective(rs, {Manual}, call[c].began).plan = "pro"
      /\ Effective(rs, {Manual}, call[c].began).status = "active"
    BY <1>1, <1>6, <1>7
<1> QED  BY <1>8 DEF OwnAccess, rs

\* Every expectation of the check is met, however much time passes between its
\* statements.
LEMMA VerifyLifecycleKeeps ==
    ASSUME AdminInv, NEW c \in Calls, UNCHANGED made, VerifyLifecycle(c), Record
    PROVE  AdminInv'
<1> USE DEF VerifyPcs
<1>1. CASE BeginVerify(c)
    BY <1>1, BeginVerifyKeeps
<1>2. CASE VerifyWrite(c, "create", "before", [tx[c] EXCEPT !.at = Clock(c)])
  <2> DEFINE t == [tx[c] EXCEPT !.at = Clock(c)]
  <2>1. Step(c, "create", "before") /\ tx' = [tx EXCEPT ![c] = t]
        /\ UNCHANGED <<now, logins, rows, override, holder, audit, failures>>
      BY <1>2 DEF VerifyWrite
  <2>2. /\ call[c].pc = "create" /\ call'[c].pc = "before" /\ call'[c].began = call[c].began
        /\ call[c].began \in Nat /\ call[c].began <= now
        /\ c \in AdminCalls /\ tx[c] \in TxType /\ VerifyShaped(c, tx[c])
      BY <2>1, VerifyStepped
  <2>3. Clock(c) \in Int /\ now \in Int
      BY ClockTyped DEF AdminInv, StateTyped
  <2>4. /\ t \in TxType /\ t.at = Clock(c) /\ t.write = tx[c].write /\ t.events = tx[c].events
      BY <2>2, <2>3 DEF TxType
  <2> HIDE DEF t
  <2>5. Clock(c) + Grant > call[c].began
      BY <2>2, <2>3, AdminAssumption, AccountsAssumption, ClockAssumption DEF Clock
  <2>6. tx'[c] = t
      BY <2>1, <2>2 DEF AdminInv, StateTyped
  <2>7. VerifyShaped(c, tx[c])'
      BY <2>2, <2>4, <2>5, <2>6 DEF VerifyShaped
  <2> QED  BY <2>1, <2>2, <2>4, <2>7, VerifyMoves DEF Step
<1>3. CASE VerifyRead(c, "before", "grant", OwnAccess(c).plan = "free")
  <2>1. call[c].pc = "before" /\ call[c].pc \in VerifyPcs
      BY <1>3 DEF VerifyRead
  <2>2. tx[c].write = NoRow
      BY <2>1, VerifyOpen DEF TxShaped, VerifyShaped
  <2>3. OwnAccess(c).plan = "free"
      BY <2>2, OwnFree DEF NoRow
  <2>4. Step(c, "before", "grant") /\ UNCHANGED tx
      BY <1>3, <2>3 DEF VerifyRead
  <2>5. VerifyShaped(c, tx[c])'
      BY <2>4, VerifyStepped DEF VerifyShaped
  <2> QED  BY <1>3, <2>3, <2>5, VerifyReads
<1>4. CASE VerifyWrite(c, "grant", "granted",
                       [tx[c] EXCEPT !.write = OwnRow(c, "active", tx[c].at + Grant)])
  <2> DEFINE row == OwnRow(c, "active", tx[c].at + Grant)
             t == [tx[c] EXCEPT !.write = row]
  <2>1. Step(c, "grant", "granted") /\ tx' = [tx EXCEPT ![c] = t]
        /\ UNCHANGED <<now, logins, rows, override, holder, audit, failures>>
      BY <1>4 DEF VerifyWrite
  <2>2. /\ call[c].pc = "grant" /\ call'[c].pc = "granted" /\ call'[c].began = call[c].began
        /\ call[c].began \in Nat
        /\ c \in AdminCalls /\ tx[c] \in TxType /\ VerifyShaped(c, tx[c])
      BY <2>1, VerifyStepped
  <2>3. tx[c].at \in Int /\ tx[c].at + Grant \in Int /\ tx[c].at + Grant > call[c].began
      BY <2>2, AccountsAssumption DEF TxType, VerifyShaped
  <2>4. /\ row \in RowType /\ row.there /\ row.status = "active" /\ row.until = tx[c].at + Grant
      BY <2>3 DEF OwnRow, RowType, Statuses
  <2> HIDE DEF row
  <2>5. t \in TxType /\ t.write = row /\ t.events = tx[c].events
      BY <2>2, <2>4 DEF TxType
  <2> HIDE DEF t
  <2>6. tx'[c] = t
      BY <2>1, <2>2 DEF AdminInv, StateTyped
  <2>7. VerifyShaped(c, tx[c])'
      BY <2>2, <2>3, <2>4, <2>5, <2>6 DEF VerifyShaped
  <2> QED  BY <2>1, <2>2, <2>5, <2>7, VerifyMoves DEF Step
<1>5. CASE VerifyRead(c, "granted", "proValue",
                      OwnAccess(c).plan = "pro" /\ OwnAccess(c).status = "active")
  <2>1. call[c].pc = "granted" /\ call[c].pc \in VerifyPcs
      BY <1>5 DEF VerifyRead
  <2>2. /\ tx[c].write \in RowType /\ tx[c].write.there /\ tx[c].write.status = "active"
        /\ tx[c].write.until > call[c].began
      BY <2>1, VerifyOpen DEF TxShaped, VerifyShaped, TxType
  <2>3. OwnAccess(c).plan = "pro" /\ OwnAccess(c).status = "active"
      BY <2>2, OwnPro
  <2>4. Step(c, "granted", "proValue") /\ UNCHANGED tx
      BY <1>5, <2>3 DEF VerifyRead
  <2>5. VerifyShaped(c, tx[c])'
      BY <2>4, VerifyStepped DEF VerifyShaped
  <2> QED  BY <1>5, <2>3, <2>5, VerifyReads
<1>6. CASE VerifyRead(c, "proValue", "grantEvent", Liquidity("pro"))
  <2>1. Liquidity("pro")
      BY DEF Liquidity
  <2>2. Step(c, "proValue", "grantEvent") /\ UNCHANGED tx
      BY <1>6, <2>1 DEF VerifyRead
  <2>3. VerifyShaped(c, tx[c])'
      BY <2>2, VerifyStepped DEF VerifyShaped
  <2> QED  BY <1>6, <2>1, <2>3, VerifyReads
<1>7. ASSUME NEW from \in {"grantEvent", "revokeEvent"}, NEW to \in {"revoke", "count"},
             from = "grantEvent" <=> to = "revoke",
             VerifyWrite(c, from, to, [tx[c] EXCEPT !.events = @ + 1])
      PROVE  AdminInv'
  <2> DEFINE t == [tx[c] EXCEPT !.events = @ + 1]
  <2>1. Step(c, from, to) /\ tx' = [tx EXCEPT ![c] = t]
        /\ UNCHANGED <<now, logins, rows, override, holder, audit, failures>>
      BY <1>7 DEF VerifyWrite
  <2>2. from \in VerifyPcs /\ to \in VerifyPcs
      OBVIOUS
  <2>3. /\ call[c].pc = from /\ call'[c].pc = to
        /\ c \in AdminCalls /\ tx[c] \in TxType /\ VerifyShaped(c, tx[c])
      BY <2>1, <2>2, VerifyStepped
  <2>4. t \in TxType /\ t.write = tx[c].write /\ t.events = tx[c].events + 1
      BY <2>3 DEF TxType
  <2>5. t.events = IF to = "revoke" THEN 1 ELSE 2
      BY <1>7, <2>3, <2>4 DEF VerifyShaped
  <2> HIDE DEF t
  <2>6. tx'[c] = t
      BY <2>1, <2>3 DEF AdminInv, StateTyped
  <2>7. VerifyShaped(c, tx[c])'
      BY <1>7, <2>3, <2>5, <2>6 DEF VerifyShaped
  <2> QED  BY <2>1, <2>2, <2>3, <2>4, <2>7, VerifyMoves DEF Step
<1>8. CASE VerifyWrite(c, "revoke", "after",
                       [tx[c] EXCEPT !.write = OwnRow(c, "expired", tx[c].at + 1)])
  <2> DEFINE row == OwnRow(c, "expired", tx[c].at + 1)
             t == [tx[c] EXCEPT !.write = row]
  <2>1. Step(c, "revoke", "after") /\ tx' = [tx EXCEPT ![c] = t]
        /\ UNCHANGED <<now, logins, rows, override, holder, audit, failures>>
      BY <1>8 DEF VerifyWrite
  <2>2. /\ call[c].pc = "revoke" /\ call'[c].pc = "after"
        /\ c \in AdminCalls /\ tx[c] \in TxType /\ VerifyShaped(c, tx[c])
      BY <2>1, VerifyStepped
  <2>3. tx[c].at \in Int /\ tx[c].at + 1 \in Int
      BY <2>2 DEF TxType
  <2>4. row \in RowType /\ row.status = "expired"
      BY <2>3 DEF OwnRow, RowType, Statuses
  <2> HIDE DEF row
  <2>5. t \in TxType /\ t.write = row /\ t.events = tx[c].events
      BY <2>2, <2>4 DEF TxType
  <2> HIDE DEF t
  <2>6. tx'[c] = t
      BY <2>1, <2>2 DEF AdminInv, StateTyped
  <2>7. VerifyShaped(c, tx[c])'
      BY <2>2, <2>4, <2>5, <2>6 DEF VerifyShaped
  <2> QED  BY <2>1, <2>2, <2>5, <2>7, VerifyMoves DEF Step
<1>9. CASE VerifyRead(c, "after", "freeValue", OwnAccess(c).plan = "free")
  <2>1. call[c].pc = "after" /\ call[c].pc \in VerifyPcs
      BY <1>9 DEF VerifyRead
  <2>2. tx[c].write.status = "expired"
      BY <2>1, VerifyOpen DEF TxShaped, VerifyShaped
  <2>3. OwnAccess(c).plan = "free"
      BY <2>2, OwnFree
  <2>4. Step(c, "after", "freeValue") /\ UNCHANGED tx
      BY <1>9, <2>3 DEF VerifyRead
  <2>5. VerifyShaped(c, tx[c])'
      BY <2>4, VerifyStepped DEF VerifyShaped
  <2> QED  BY <1>9, <2>3, <2>5, VerifyReads
<1>10. CASE VerifyRead(c, "freeValue", "revokeEvent", ~Liquidity("free"))
  <2>1. ~Liquidity("free")
      BY DEF Liquidity
  <2>2. Step(c, "freeValue", "revokeEvent") /\ UNCHANGED tx
      BY <1>10, <2>1 DEF VerifyRead
  <2>3. VerifyShaped(c, tx[c])'
      BY <2>2, VerifyStepped DEF VerifyShaped
  <2> QED  BY <1>10, <2>1, <2>3, VerifyReads
<1>11. CASE VerifyRead(c, "count", "discard", tx[c].events = 2)
  <2>1. call[c].pc = "count" /\ call[c].pc \in VerifyPcs
      BY <1>11 DEF VerifyRead
  <2>2. tx[c].events = 2
      BY <2>1, VerifyOpen DEF TxShaped, VerifyShaped
  <2>3. Step(c, "count", "discard") /\ UNCHANGED tx
      BY <1>11, <2>2 DEF VerifyRead
  <2>4. VerifyShaped(c, tx[c])'
      BY <2>3, VerifyStepped DEF VerifyShaped
  <2> QED  BY <1>11, <2>2, <2>4, VerifyReads
<1>12. CASE VerifyRolledBack(c)
  <2>1. call[c].pc = "discard" /\ Fail(c, "verified")
      BY <1>12 DEF VerifyRolledBack
  <2>2. failures' \in 0..MaxFailures
      BY <1>12 DEF VerifyRolledBack, AdminInv, StateTyped
  <2> QED  BY <2>1, <2>2, FailKeeps
<1> QED
    BY <1>1, <1>2, <1>3, <1>4, <1>5, <1>6, <1>7, <1>8, <1>9, <1>10, <1>11, <1>12
       DEF VerifyLifecycle

LEMMA TakeSnapshotKeeps ==
    ASSUME AdminInv, NEW c \in Calls, UNCHANGED made, TakeSnapshot(c), Record
    PROVE  AdminInv'
<1>1. /\ call[c].pc = "resolve" /\ call' = [call EXCEPT ![c].pc = "lock"]
      /\ UNCHANGED <<now, logins, rows, override, holder, audit, failures>>
    BY DEF TakeSnapshot, Step
<1>2. call[c].pc \in AdminPcs /\ call[c].pc \notin LockPcs /\ "lock" \in AdminPcs \ LockPcs
    BY <1>1 DEF AdminPcs, LockPcs
<1>3. /\ c \in AdminCalls /\ tx[c] \in TxType /\ call[c].began \in Nat /\ holder # c
      /\ GrantInForce(Clock(c)) \in seen[c] /\ call[c].answer = "none"
    BY <1>2, AdminOpen
<1>4. rows \in [RowIds -> RowType] /\ logins \in Nat /\ tx \in [AdminCalls -> TxType]
      /\ call \in [Calls -> CallType] /\ made \in Scenarios
    BY DEF AdminInv, StateTyped
<1>5. Effective(rows, RowIds, call[c].began) \in Accesses
    BY <1>3, <1>4, AccessRead
<1>6. tx' \in [AdminCalls -> TxType] /\ tx'[c].snap = rows /\ \A d \in AdminCalls \ {c} : tx'[d] = tx[d]
  <2> DEFINE e == Effective(rows, RowIds, call[c].began)
  <2>1. tx' = [tx EXCEPT ![c].snap = rows, ![c].seenLogins = logins, ![c].before = e]
      BY DEF TakeSnapshot
  <2> HIDE DEF e
  <2> QED  BY <2>1, <1>3, <1>4, <1>5 DEF TxType, e
<1>7. call'[c].pc = "lock" /\ call'[c].answer = "none"
    BY <1>1, <1>3, <1>4, Stepped DEF Pcs, AdminPcs
<1>8. ~rows[Manual].there => FALSE \in seen[c]
  <2>1. ~rows[Manual].there => GrantInForce(Clock(c)) = FALSE
      BY <1>4, Distinct DEF AdminInv, RowsShaped, GrantInForce, NoRow
  <2> QED  BY <2>1, <1>3
<1>9. TxShaped(c, tx[c])'
  <2>1. Manual \in RowIds
      BY <1>4, Distinct
  <2>2. rows[Manual].ver \in Nat /\ rows[Manual].status \in {"active", "expired"}
        /\ (~rows[Manual].there => rows[Manual] = NoRow)
      BY <2>1, <1>4 DEF RowType, AdminInv, RowsShaped
  <2>3. Earlier(rows[Manual])'
      BY <1>1, <2>2 DEF Earlier
  <2>4. seen[c] \subseteq seen'[c]
      BY DEF Record
  <2> QED  BY <1>1, <1>6, <1>7, <1>8, <2>3, <2>4 DEF TxShaped, VerifyShaped, LockPcs
<1> QED  BY <1>1, <1>2, <1>3, <1>6, <1>9, AdminMoves

LEMMA LockUserKeeps ==
    ASSUME AdminInv, NEW c \in Calls, UNCHANGED made, LockUser(c), Record
    PROVE  AdminInv'
<1>1. /\ call[c].pc = "lock" /\ call' = [call EXCEPT ![c].pc = "manual"]
      /\ UNCHANGED <<now, logins, rows, override, audit, tx, failures>>
      /\ holder = NoHolder /\ holder' = c
    BY DEF LockUser, Step
<1>2. call[c].pc \in AdminPcs /\ "manual" \in AdminPcs /\ "manual" \in LockPcs
    BY <1>1 DEF AdminPcs, LockPcs
<1>3. c \in AdminCalls /\ TxShaped(c, tx[c]) /\ call[c].answer = "none"
    BY <1>2, AdminOpen
<1>4. /\ tx \in [AdminCalls -> TxType] /\ call \in [Calls -> CallType]
      /\ NoHolder \notin Calls
    BY Distinct DEF AdminInv, StateTyped
<1>5. call'[c].pc = "manual" /\ call'[c].answer = "none"
    BY <1>1, <1>2, <1>3, <1>4, Stepped DEF Pcs
<1>6. TxShaped(c, tx[c])'
  <2>1. seen[c] \subseteq seen'[c]
      BY DEF Record
  <2> QED  BY <1>1, <1>3, <1>5, <2>1 DEF TxShaped, VerifyShaped, Earlier, LockPcs
<1> QED  BY <1>1, <1>2, <1>3, <1>4, <1>6, AdminMoves

\* The decision of CheckManual is right for the stored row: either the snapshot
\* has that row, or it has none, as the call could see when it was taken.
LEMMA CheckManualKeeps ==
    ASSUME AdminInv, NEW c \in Calls, UNCHANGED made, CheckManual(c), Record
    PROVE  AdminInv'
<1> DEFINE m == tx[c].snap[Manual]
           active == ActiveManualGrant(m, Clock(c))
           to == IF active = (Input(c).kind = "grant") THEN "unchanged" ELSE AfterCheck(c)
<1>1. /\ call[c].pc = "manual" /\ call' = [call EXCEPT ![c].pc = to] /\ ~Stale(c)
      /\ UNCHANGED <<now, logins, rows, override, holder, audit, tx, failures>>
    BY DEF CheckManual, Step
<1>2. call[c].pc \in AdminPcs /\ call[c].pc \in LockPcs
    BY <1>1 DEF AdminPcs, LockPcs
<1>3. /\ c \in AdminCalls /\ TxShaped(c, tx[c]) /\ call[c].answer = "none" /\ holder = c
      /\ Input(c).kind \in {"grant", "revoke"} /\ GrantInForce(Clock(c)) \in seen[c]
      /\ tx[c] \in TxType
    BY <1>2, AdminOpen
<1>4. /\ tx \in [AdminCalls -> TxType] /\ call \in [Calls -> CallType] /\ Manual \in RowIds
      /\ rows \in [RowIds -> RowType] /\ now \in 1..MaxTime
    BY Distinct DEF AdminInv, StateTyped
<1>5. m \in RowType /\ Clock(c) \in Int
    BY <1>3, <1>4, ClockTyped DEF TxType
<1>6. Earlier(m) /\ (~m.there => FALSE \in seen[c])
    BY <1>1, <1>3 DEF TxShaped, LockPcs
<1>7. active <=> m.there /\ m.status = "active" /\ Clock(c) < m.until
    BY <1>5, <1>6 DEF ActiveManualGrant, Earlier, RowType
<1>8. m.there => m = rows[Manual]
    BY <1>1, <1>6 DEF Stale, Earlier
<1>9. active \in seen[c]
  <2>1. CASE m.there
    <3>1. GrantInForce(Clock(c)) = active
        BY <2>1, <1>7, <1>8 DEF GrantInForce, ActiveManualGrant
    <3> QED  BY <3>1, <1>3
  <2>2. CASE ~m.there
    <3>1. active = FALSE
        BY <2>2 DEF ActiveManualGrant
    <3> QED  BY <3>1, <2>2, <1>6
  <2> QED  BY <2>1, <2>2
<1>10. active \in BOOLEAN
    BY DEF ActiveManualGrant
<1>11. to \in {"unchanged", "preview", "write"}
    BY DEF AfterCheck
<1>12. to = "unchanged" => (Input(c).kind = "grant") \in seen[c]
    BY <1>9 DEF AfterCheck
<1>13. to = "write" => /\ ~Input(c).dry
                       /\ IF Input(c).kind = "grant" THEN ~active
                                                     ELSE m.there /\ m.status = "active"
    BY <1>3, <1>7, <1>10 DEF AfterCheck
<1> HIDE DEF to, active, m
<1>14. to \in AdminPcs /\ to \in LockPcs
    BY <1>11 DEF AdminPcs, LockPcs
<1>15. call'[c].pc = to /\ call'[c].answer = "none"
    BY <1>1, <1>3, <1>4, <1>14, Stepped DEF Pcs
<1>16. TxShaped(c, tx[c])'
  <2>1. seen[c] \subseteq seen'[c]
      BY DEF Record
  <2>2. Earlier(m)' /\ Clock(c)' = Clock(c)
      BY <1>1, <1>6 DEF Earlier, m, Clock
  <2> QED  BY <1>1, <1>6, <1>11, <1>12, <1>13, <1>15, <2>1, <2>2
           DEF TxShaped, VerifyShaped, m, active
<1> QED  BY <1>1, <1>2, <1>3, <1>4, <1>14, <1>16, AdminMoves

\* The row to be committed is the next version of the one the decision was
\* taken on.
LEMMA WriteManualKeeps ==
    ASSUME AdminInv, NEW c \in Calls, UNCHANGED made, WriteManual(c), Record
    PROVE  AdminInv'
<1> DEFINE m == tx[c].snap[Manual]
           w == Mutation(c)
           e == Effective([tx[c].snap EXCEPT ![Manual] = w], RowIds, call[c].began)
<1>1. /\ call[c].pc = "write" /\ call' = [call EXCEPT ![c].pc = "commit"] /\ ~Stale(c)
      /\ UNCHANGED <<now, logins, rows, override, holder, audit, failures>>
      /\ tx' = [tx EXCEPT ![c].write = w, ![c].at = Clock(c), ![c].after = e]
    BY DEF WriteManual, Step
<1>2. call[c].pc \in AdminPcs /\ call[c].pc \in LockPcs /\ "commit" \in AdminPcs
      /\ "commit" \in LockPcs
    BY <1>1 DEF AdminPcs, LockPcs
<1>3. /\ c \in AdminCalls /\ TxShaped(c, tx[c]) /\ call[c].answer = "none" /\ holder = c
      /\ Input(c).kind \in {"grant", "revoke"} /\ Accepted(Input(c))
      /\ tx[c] \in TxType /\ call[c].began \in Nat
    BY <1>2, AdminOpen
<1>4. /\ tx \in [AdminCalls -> TxType] /\ call \in [Calls -> CallType] /\ Manual \in RowIds
      /\ rows \in [RowIds -> RowType] /\ now \in 1..MaxTime
    BY Distinct DEF AdminInv, StateTyped
<1>5. m \in RowType /\ Clock(c) \in Int /\ rows[Manual].ver \in Nat
      /\ tx[c].snap \in [RowIds -> RowType]
    BY <1>3, <1>4, ClockTyped DEF TxType, RowType
<1>6. w \in RowType
  <2>1. Input(c).kind = "grant" => Clock(c) + Input(c).duration \in Int
      BY <1>3, <1>5, AdminAssumption DEF Accepted
  <2>2. rows[Manual].start \in Int
      BY <1>4 DEF RowType
  <2> QED  BY <2>1, <2>2, <1>5 DEF Mutation, RowType, Statuses
<1>7. /\ w.there /\ w.ver = rows[Manual].ver + 1
      /\ w.status = IF Input(c).kind = "grant" THEN "active" ELSE "expired"
    BY DEF Mutation
<1>8. Earlier(m) /\ (~m.there => FALSE \in seen[c]) /\ ~Input(c).dry
      /\ IF Input(c).kind = "grant" THEN ~ActiveManualGrant(m, Clock(c))
                                    ELSE m.there /\ m.status = "active"
    BY <1>1, <1>3 DEF TxShaped, LockPcs
<1>9. m = rows[Manual]
    BY <1>1, <1>8 DEF Stale, Earlier
<1>10. e \in Accesses
    BY <1>3, <1>4, <1>5, <1>6, AccessRead
<1> HIDE DEF w, e
<1>11. /\ tx' \in [AdminCalls -> TxType] /\ \A d \in AdminCalls \ {c} : tx'[d] = tx[d]
       /\ tx'[c].snap = tx[c].snap /\ tx'[c].write = w /\ tx'[c].at = Clock(c)
    BY <1>1, <1>3, <1>4, <1>5, <1>6, <1>10 DEF TxType
<1>12. call'[c].pc = "commit" /\ call'[c].answer = "none"
    BY <1>1, <1>2, <1>3, <1>4, Stepped DEF Pcs
<1> HIDE DEF m
<1>13. TxShaped(c, tx[c])'
  <2>1. seen[c] \subseteq seen'[c]
      BY DEF Record
  <2>2. Earlier(m)'
      BY <1>1, <1>8, <1>11 DEF Earlier, m
  <2>3. tx'[c].snap[Manual] = m
      BY <1>11 DEF m
  <2> QED  BY <1>1, <1>7, <1>8, <1>9, <1>11, <1>12, <2>1, <2>2, <2>3
           DEF TxShaped, VerifyShaped, m
<1> QED  BY <1>1, <1>2, <1>3, <1>11, <1>13, AdminMoves

-----------------------------------------------------------------------------
(* Steps of the clock and of the provider.                                  *)

LEMMA ClockMonotone ==
    ASSUME now \in Int, now' \in Int, now <= now', NEW c
    PROVE  Clock(c) \in Int /\ Clock(c)' \in Int /\ Clock(c) <= Clock(c)'
<1>1. Skew \in Int
    BY AdminAssumption
<1>2. \A x, y, k \in Int : x + k \in Int /\ (x <= y => x + k <= y + k)
    OBVIOUS
<1>3. now + Skew \in Int /\ now' + Skew \in Int /\ now + Skew <= now' + Skew
    BY <1>1, <1>2, Zenon
<1> QED  BY <1>3 DEF Clock

LEMMA WorldStep ==
    ASSUME AdminInv, UNCHANGED <<made, logins, override, holder, call, audit, tx, failures>>,
           now' \in 1..MaxTime, now <= now', rows' \in [RowIds -> RowType],
           rows'[Manual] = rows[Manual], RowsShaped', Record
    PROVE  AdminInv'
<1>0. /\ Calls' = Calls /\ Checkouts' = Checkouts /\ AdminCalls' = AdminCalls
      /\ RowIds' = RowIds /\ Requests' = Requests /\ TxType' = TxType /\ EventType' = EventType
    BY SameSets
<1>1. StateTyped'
    BY <1>0 DEF AdminInv, StateTyped
<1>2. /\ HistoryTyped' /\ SeenNow'
      /\ \A d \in Calls : seen[d] \subseteq seen'[d]
      /\ \A d \in Checkouts : call[d].pc # "idle" => held'[d] \subseteq held[d]
    BY <1>1, Recorded DEF AdminInv
<1>3. /\ now \in Int /\ now' \in Int /\ override.until \in Int
      /\ Manual \in RowIds /\ Checkouts \subseteq Calls /\ AdminCalls \subseteq Calls
    BY AccountsAssumption, Distinct DEF AdminInv, StateTyped, OverrideType
<1>4. \A d \in Calls : CallShaped(d, call[d])'
  <2> TAKE d \in Calls
  <2>1. CallShaped(d, call[d]) /\ call[d].began \in Nat
      BY DEF AdminInv, StateTyped, CallType
  <2>2. call[d].began <= now'
      BY <2>1, <1>3 DEF CallShaped
  <2> QED  BY <2>1, <2>2, <1>0 DEF CallShaped
<1>5. \A d \in AdminCalls : TxShaped(d, tx[d])'
  <2> TAKE d \in AdminCalls
  <2> DEFINE m == tx[d].snap[Manual]
  <2>1. TxShaped(d, tx[d]) /\ m \in RowType /\ seen[d] \subseteq seen'[d] /\ d \in Calls
      BY <1>2, <1>3 DEF AdminInv, StateTyped, TxType
  <2>2. Clock(d) \in Int /\ Clock(d)' \in Int /\ Clock(d) <= Clock(d)'
      BY <1>3, ClockMonotone
  <2>3. ~ActiveManualGrant(m, Clock(d)) => ~ActiveManualGrant(m, Clock(d)')
      BY <2>1, <2>2 DEF ActiveManualGrant, RowType
  <2>4. Earlier(m) => Earlier(m)'
      BY DEF Earlier
  <2> HIDE DEF m
  <2>5. tx'[d] = tx[d] /\ tx[d].snap[Manual] = m
      BY DEF m
  <2> QED  BY <2>1, <2>3, <2>4, <2>5 DEF TxShaped, VerifyShaped, m
<1>6. AuditBy' /\ AuditLast' /\ AuditAlternates'
    BY <1>0 DEF AdminInv, AuditBy, AuditLast, AuditAlternates
<1>7. PlanJustified'
    BY <1>0, <1>2 DEF AdminInv, PlanJustified
<1>8. AccessAnswerJustified'
  <2>1. override.until <= now => override.until <= now'
      BY <1>3
  <2> QED  BY <1>0, <1>2, <2>1 DEF AdminInv, AccessAnswerJustified
<1>9. SaleFree'
  <2>1. \A d \in Checkouts : call[d].pc = "provider" \/ call[d].answer = "url" =>
            held[d] = {} /\ call[d].pc # "idle"
      BY <1>3 DEF AdminInv, SaleFree, CallShaped
  <2> QED  BY <1>0, <1>2, <2>1 DEF SaleFree
<1> QED  BY <1>0, <1>1, <1>2, <1>4, <1>5, <1>6, <1>7, <1>8, <1>9 DEF AdminInv

LEMMA TickKeeps ==
    ASSUME AdminInv, UNCHANGED made, Tick, Record
    PROVE  AdminInv'
<1>1. now' \in 1..MaxTime /\ now <= now' /\ rows \in [RowIds -> RowType]
    BY AccountsAssumption DEF Tick, AdminInv, StateTyped
<1>2. RowsShaped'
    BY SameSets DEF Tick, AdminInv, RowsShaped
<1> QED  BY <1>1, <1>2, WorldStep DEF Tick

LEMMA ProviderEventKeeps ==
    ASSUME AdminInv, NEW i \in Checkouts, UNCHANGED <<made, audit, tx, failures>>,
           ProviderEvent(i), Record
    PROVE  AdminInv'
<1>1. /\ now \in 1..MaxTime /\ now \in Nat /\ rows \in [RowIds -> RowType]
      /\ i \in RowIds /\ i # Manual /\ Manual \in RowIds /\ Checkouts \subseteq RowIds
    BY AccountsAssumption, Distinct DEF AdminInv, StateTyped
<1>2. PICK s \in Statuses :
        rows' = [rows EXCEPT ![i] = [there |-> TRUE, status |-> s, start |-> 0, ver |-> 0,
                                     until |-> IF s = "expired" THEN now ELSE now + Grant]]
    BY DEF ProviderEvent
<1>3. [there |-> TRUE, status |-> s, start |-> 0, ver |-> 0,
       until |-> IF s = "expired" THEN now ELSE now + Grant] \in RowType
    BY <1>1, AccountsAssumption DEF RowType
<1>4. /\ rows' \in [RowIds -> RowType] /\ rows'[i].there
      /\ \A j \in RowIds \ {i} : rows'[j] = rows[j]
    BY <1>1, <1>2, <1>3
<1>5. call[i].answer = "url" /\ UNCHANGED <<now, logins, override, holder, call>>
    BY DEF ProviderEvent
<1>6. RowsShaped'
    BY <1>1, <1>4, <1>5, SameSets DEF AdminInv, RowsShaped
<1>7. now <= now'
    BY <1>1, <1>5
<1> QED  BY <1>1, <1>4, <1>5, <1>6, <1>7, WorldStep

-----------------------------------------------------------------------------
(* The commit.                                                              *)

LEMMA Appended ==
    ASSUME NEW S, NEW s \in Seq(S), NEW e \in S
    PROVE  /\ Append(s, e) \in Seq(S) /\ Append(s, e) # <<>>
           /\ Len(s) \in Nat /\ DOMAIN s = 1..Len(s)
           /\ Len(Append(s, e)) = Len(s) + 1 /\ DOMAIN Append(s, e) = 1..(Len(s) + 1)
           /\ Append(s, e)[Len(s) + 1] = e
           /\ \A n \in 1..Len(s) : Append(s, e)[n] = s[n]
OBVIOUS

\* What a commit does, as far as the invariant is concerned.
LEMMA Committed ==
    ASSUME AdminInv, NEW c \in Calls, UNCHANGED made, Commit(c)
    PROVE  /\ c \in AdminCalls /\ call[c].pc = "commit" /\ holder = c
           /\ AuditEvent(c) \in EventType
           /\ rows' = [rows EXCEPT ![Manual] = tx[c].write] /\ tx[c].write \in RowType
           /\ audit' = Append(audit, AuditEvent(c))
           /\ call' \in [Calls -> CallType] /\ call'[c].pc = "done"
           /\ call'[c].answer \in {"changed", "error"} /\ call'[c].began = call[c].began
           /\ \A d \in Calls \ {c} : call'[d] = call[d]
           /\ tx' \in [AdminCalls -> TxType] /\ \A d \in AdminCalls \ {c} : tx'[d] = tx[d]
           /\ \A d \in Calls : holder' # d
           /\ failures' \in 0..MaxFailures
           /\ UNCHANGED <<now, logins, override>>
<1>1. call[c].pc = "commit" /\ call[c].pc \in AdminPcs /\ call[c].pc \in LockPcs
    BY DEF Commit, AdminPcs, LockPcs
<1>2. /\ c \in AdminCalls /\ holder = c /\ tx[c] \in TxType
      /\ Input(c).kind \in {"grant", "revoke"}
    BY <1>1, AdminOpen
<1>3. /\ call \in [Calls -> CallType] /\ tx \in [AdminCalls -> TxType]
      /\ failures \in 0..MaxFailures /\ NoHolder \notin Calls
    BY Distinct DEF AdminInv, StateTyped
<1>4. AuditEvent(c) \in EventType
    BY <1>2 DEF AuditEvent, EventType, TxType, RowType
<1>5. PICK a \in {"changed", "error"} : Answer(c, a)
    BY DEF Commit
<1>6. /\ call' \in [Calls -> CallType] /\ \A d \in Calls \ {c} : call'[d] = call[d]
      /\ call'[c].pc = "done" /\ call'[c].began = call[c].began /\ call'[c].answer = a
    BY <1>3, <1>5, Answered DEF Answers
<1>7. failures' \in 0..MaxFailures
    BY <1>3, AdminAssumption DEF Commit
<1>8. tx' = [tx EXCEPT ![c] = NoTx]
    BY DEF Commit
<1>9. tx' \in [AdminCalls -> TxType] /\ \A d \in AdminCalls \ {c} : tx'[d] = tx[d]
    BY <1>3, <1>8, NoTxTyped
<1>10. \A d \in Calls : holder' # d
    BY <1>2, <1>3 DEF Commit, Release
<1>11. tx[c].write \in RowType
    BY <1>2 DEF TxType
<1>12. /\ rows' = [rows EXCEPT ![Manual] = tx[c].write]
       /\ audit' = Append(audit, AuditEvent(c)) /\ UNCHANGED <<now, logins, override>>
    BY DEF Commit
<1> QED  BY <1>1, <1>2, <1>4, <1>6, <1>7, <1>9, <1>10, <1>11, <1>12

\* Who wrote the events.
LEMMA CommitAuditBy ==
    ASSUME AdminInv, NEW c \in Calls, UNCHANGED made, Commit(c)
    PROVE  AuditBy'
<1> DEFINE e == AuditEvent(c)
<1>1. /\ c \in AdminCalls /\ call[c].pc = "commit" /\ e \in EventType
      /\ audit' = Append(audit, e) /\ call'[c].answer \in {"changed", "error"}
      /\ \A d \in Calls \ {c} : call'[d] = call[d]
    BY Committed
<1>2. AdminCalls' = AdminCalls /\ AdminCalls \subseteq Calls
    BY SameSets DEF AdminCalls
<1>3. ~Input(c).dry /\ call[c].answer = "none" /\ Input(c).kind # "verify"
    BY <1>1 DEF AdminInv, TxShaped, CallShaped, AdminPcs, LockPcs
<1>4. e.by = c
    BY DEF AuditEvent
<1> HIDE DEF e
<1>5. audit \in Seq(EventType)
    BY DEF AdminInv, StateTyped
<1>6. /\ DOMAIN audit = 1..Len(audit) /\ DOMAIN audit' = 1..(Len(audit) + 1) /\ Len(audit) \in Nat
      /\ audit'[Len(audit) + 1] = e /\ \A n \in 1..Len(audit) : audit'[n] = audit[n]
    BY <1>1, <1>5, Appended
<1>7. \A n \in DOMAIN audit : audit[n].by # c
    BY <1>1, <1>3 DEF AdminInv, AuditBy
<1>8. \A n \in DOMAIN audit' : n = Len(audit) + 1 \/ n \in DOMAIN audit
    BY <1>6
<1>9. \A n \in DOMAIN audit' : audit'[n].by \in AdminCalls =>
          /\ call'[audit'[n].by].answer \in {"changed", "error"}
          /\ ~Input(audit'[n].by).dry /\ Input(audit'[n].by).kind # "verify"
  <2> TAKE n \in DOMAIN audit'
  <2>1. CASE n = Len(audit) + 1
      BY <2>1, <1>1, <1>3, <1>4, <1>6
  <2>2. CASE n \in DOMAIN audit
    <3>1. audit'[n] = audit[n] /\ audit[n].by # c
        BY <2>2, <1>6, <1>7
    <3> QED  BY <3>1, <2>2, <1>1, <1>2 DEF AdminInv, AuditBy
  <2> QED  BY <2>1, <2>2, <1>8
<1>10. \A m, n \in DOMAIN audit' :
          audit'[m].by = audit'[n].by /\ audit'[m].by \in AdminCalls => m = n
  <2>1. ASSUME NEW m \in DOMAIN audit', NEW n \in DOMAIN audit',
               audit'[m].by = audit'[n].by, audit'[m].by \in AdminCalls
        PROVE  m = n
    <3>1. CASE m \in DOMAIN audit /\ n \in DOMAIN audit
        BY <2>1, <3>1, <1>6 DEF AdminInv, AuditBy
    <3>2. CASE m = Len(audit) + 1
        BY <2>1, <3>2, <1>4, <1>6, <1>7, <1>8
    <3>3. CASE n = Len(audit) + 1
        BY <2>1, <3>3, <1>4, <1>6, <1>7, <1>8
    <3> QED  BY <3>1, <3>2, <3>3, <1>8
  <2> QED  BY <2>1
<1>11. \A d \in AdminCalls : call'[d].answer = "changed" => \E n \in DOMAIN audit' : audit'[n].by = d
  <2> TAKE d \in AdminCalls
  <2>1. CASE d = c
    <3>1. Len(audit) + 1 \in DOMAIN audit'
        BY <1>6
    <3> QED  BY <2>1, <3>1, <1>4, <1>6
  <2>2. CASE d # c
    <3>1. call'[d] = call[d]
        BY <2>2, <1>1, <1>2
    <3>2. ASSUME call[d].answer = "changed"
          PROVE  \E n \in DOMAIN audit' : audit'[n].by = d
      <4>1. PICK n \in DOMAIN audit : audit[n].by = d
          BY <3>2 DEF AdminInv, AuditBy
      <4>2. n \in DOMAIN audit' /\ audit'[n] = audit[n]
          BY <1>6
      <4> QED  BY <4>1, <4>2
    <3> QED  BY <3>1, <3>2
  <2> QED  BY <2>1, <2>2
<1> QED  BY <1>2, <1>9, <1>10, <1>11 DEF AuditBy

\* The event tells the row that is committed with it, and follows the event
\* that told the row the decision was taken on.
LEMMA CommitAuditLast ==
    ASSUME AdminInv, NEW c \in Calls, UNCHANGED made, Commit(c)
    PROVE  AuditLast' /\ AuditAlternates'
<1> DEFINE e == AuditEvent(c)
           m == rows[Manual]
           w == tx[c].write
<1>1. /\ c \in AdminCalls /\ call[c].pc = "commit" /\ e \in EventType
      /\ audit' = Append(audit, e) /\ rows' = [rows EXCEPT ![Manual] = w] /\ w \in RowType
    BY Committed
<1>2. call[c].pc \in AdminPcs
    BY <1>1 DEF AdminPcs, LockPcs
<1>3. TxShaped(c, tx[c]) /\ tx[c] \in TxType /\ Input(c).kind \in {"grant", "revoke"}
    BY <1>2, AdminOpen
<1>4. /\ Manual \in RowIds /\ rows \in [RowIds -> RowType] /\ audit \in Seq(EventType)
    BY Distinct DEF AdminInv, StateTyped
<1>5. /\ w.there /\ w.status = IF Input(c).kind = "grant" THEN "active" ELSE "expired"
      /\ IF Input(c).kind = "grant" THEN ~ActiveManualGrant(m, tx[c].at)
                                    ELSE m.there /\ m.status = "active"
    BY <1>1, <1>3 DEF TxShaped
<1>6. e.action = Input(c).kind /\ e.until = w.until /\ e.at = tx[c].at
    BY DEF AuditEvent
<1>7. m \in RowType /\ tx[c].at \in Int
    BY <1>3, <1>4 DEF TxType
<1> HIDE DEF e, w, m
<1>8. rows'[Manual] = w
    BY <1>1, <1>4
<1>9. /\ DOMAIN audit = 1..Len(audit) /\ DOMAIN audit' = 1..(Len(audit) + 1) /\ Len(audit) \in Nat
      /\ audit'[Len(audit) + 1] = e /\ \A n \in 1..Len(audit) : audit'[n] = audit[n]
      /\ audit' # <<>> /\ Len(audit') = Len(audit) + 1
    BY <1>1, <1>4, Appended
<1>10. Last(audit') = e
    BY <1>9 DEF Last
<1>11. AuditLast'
    BY <1>3, <1>5, <1>6, <1>8, <1>9, <1>10 DEF AuditLast
<1>12. audit = <<>> \/ (Len(audit) \in 1..Len(audit) /\ Last(audit) = audit[Len(audit)])
    BY <1>4 DEF Last
<1>13. audit # <<>> => /\ m.there
                       /\ (audit[Len(audit)].action = "grant") <=> (m.status = "active")
                       /\ audit[Len(audit)].until = m.until
                       /\ audit[Len(audit)].action \in {"grant", "revoke"}
  <2>1. audit # <<>> => audit[Len(audit)] \in EventType
      BY <1>4, <1>12
  <2> QED  BY <1>12, <2>1 DEF AdminInv, AuditLast, m, EventType
<1>14. audit = <<>> => ~m.there
    BY DEF AdminInv, AuditLast, m
<1>15. audit'[1].by = NoHolder \/ audit'[1].action = "grant"
  <2>1. CASE audit = <<>>
    <3>1. Len(audit) = 0
        BY <2>1
    <3> QED  BY <3>1, <2>1, <1>3, <1>5, <1>6, <1>9, <1>14
  <2>2. CASE audit # <<>>
    <3>1. audit'[1] = audit[1]
        BY <2>2, <1>4, <1>9
    <3> QED  BY <3>1, <2>2 DEF AdminInv, AuditAlternates
  <2> QED  BY <2>1, <2>2
<1>16. ASSUME NEW n \in DOMAIN audit' \ {1}
       PROVE  \/ audit'[n-1].action = "revoke" /\ audit'[n].action = "grant"
              \/ audit'[n-1].action = "grant" /\ audit'[n].action = "revoke"
              \/ /\ audit'[n-1].action = "grant" /\ audit'[n].action = "grant"
                 /\ audit'[n-1].until <= audit'[n].at
  <2>1. CASE n = Len(audit) + 1
    <3>1. n - 1 = Len(audit) /\ Len(audit) \in 1..Len(audit) /\ audit # <<>>
        BY <2>1, <1>4, <1>9
    <3>2. audit'[n] = e /\ audit'[n-1] = audit[Len(audit)]
        BY <2>1, <3>1, <1>9
    <3>3. CASE Input(c).kind = "grant"
      <4>1. m.status = "active" => m.until <= tx[c].at
          BY <3>1, <3>3, <1>5, <1>7, <1>13 DEF ActiveManualGrant, RowType
      <4> QED  BY <3>1, <3>2, <3>3, <4>1, <1>6, <1>13
    <3>4. CASE Input(c).kind = "revoke"
        BY <3>1, <3>2, <3>4, <1>5, <1>6, <1>13
    <3> QED  BY <3>3, <3>4, <1>3
  <2>2. CASE n # Len(audit) + 1
    <3>1. n \in DOMAIN audit \ {1} /\ n - 1 \in 1..Len(audit) /\ n \in 1..Len(audit)
        BY <2>2, <1>9
    <3>2. audit'[n] = audit[n] /\ audit'[n-1] = audit[n-1]
        BY <3>1, <1>9
    <3> QED  BY <3>1, <3>2 DEF AdminInv, AuditAlternates
  <2> QED  BY <2>1, <2>2
<1>17. AuditAlternates'
    BY <1>15, <1>16 DEF AuditAlternates
<1> QED  BY <1>11, <1>17

LEMMA CommitKeeps ==
    ASSUME AdminInv, NEW c \in Calls, UNCHANGED made, Commit(c), Record
    PROVE  AdminInv'
<1>0. /\ Calls' = Calls /\ Checkouts' = Checkouts /\ AdminCalls' = AdminCalls
      /\ RowIds' = RowIds /\ Requests' = Requests /\ TxType' = TxType /\ EventType' = EventType
    BY SameSets
<1>1. /\ c \in AdminCalls /\ call[c].pc = "commit" /\ holder = c
      /\ AuditEvent(c) \in EventType
      /\ rows' = [rows EXCEPT ![Manual] = tx[c].write] /\ tx[c].write \in RowType
      /\ audit' = Append(audit, AuditEvent(c))
      /\ call' \in [Calls -> CallType] /\ call'[c].pc = "done"
      /\ call'[c].answer \in {"changed", "error"} /\ call'[c].began = call[c].began
      /\ \A d \in Calls \ {c} : call'[d] = call[d]
      /\ tx' \in [AdminCalls -> TxType] /\ \A d \in AdminCalls \ {c} : tx'[d] = tx[d]
      /\ \A d \in Calls : holder' # d
      /\ failures' \in 0..MaxFailures
      /\ UNCHANGED <<now, logins, override>>
    BY Committed
<1>2. /\ Manual \in RowIds /\ Manual \notin Checkouts /\ rows \in [RowIds -> RowType]
      /\ audit \in Seq(EventType) /\ Checkouts \subseteq RowIds /\ Checkouts \subseteq Calls
      /\ AdminCalls \subseteq Calls
    BY Distinct DEF AdminInv, StateTyped
<1>3. call[c].pc \in AdminPcs
    BY <1>1 DEF AdminPcs, LockPcs
<1>4. /\ TxShaped(c, tx[c]) /\ c \notin Requests /\ c \notin Checkouts
      /\ Input(c).kind \in {"grant", "revoke"} /\ call[c].began <= now
    BY <1>3, AdminOpen
<1>5. /\ tx[c].write.there /\ tx[c].write.ver = rows[Manual].ver + 1
      /\ tx[c].write.status \in {"active", "expired"}
    BY <1>1, <1>4 DEF TxShaped
<1>6. rows' \in [RowIds -> RowType] /\ rows'[Manual] = tx[c].write
      /\ \A i \in Checkouts : rows'[i] = rows[i]
    BY <1>1, <1>2
<1>7. audit' \in Seq(EventType)
    BY <1>1, <1>2, Appended
<1>8. StateTyped'
    BY <1>0, <1>1, <1>6, <1>7 DEF AdminInv, StateTyped
<1>9. /\ HistoryTyped' /\ SeenNow'
      /\ \A d \in Calls : seen[d] \subseteq seen'[d]
      /\ \A d \in Checkouts : call[d].pc # "idle" => held'[d] \subseteq held[d]
    BY <1>8, Recorded DEF AdminInv
<1>10. \A d \in Calls : CallShaped(d, call[d])'
  <2> TAKE d \in Calls
  <2>1. CASE d = c
      BY <2>1, <1>0, <1>1, <1>4 DEF CallShaped, LockPcs, AdminPcs, RequestPcs, VerifyPcs
  <2>2. CASE d # c
    <3>1. CallShaped(d, call[d]) /\ call'[d] = call[d] /\ holder # d /\ holder' # d
        BY <2>2, <1>1 DEF AdminInv
    <3> QED  BY <3>1, <1>0, <1>1 DEF CallShaped
  <2> QED  BY <2>1, <2>2
<1>11. RowsShaped'
  <2>1. \A i \in RowIds : ~rows'[i].there => rows'[i] = NoRow
      BY <1>5, <1>6 DEF AdminInv, RowsShaped, RowIds
  <2>2. \A i \in Checkouts : rows'[i].there => call'[i].answer = "url"
    <3> TAKE i \in Checkouts
    <3>1. i # c /\ i \in Calls
        BY <1>2, <1>4
    <3> QED  BY <3>1, <1>1, <1>6 DEF AdminInv, RowsShaped
  <2> QED  BY <2>1, <2>2, <1>0, <1>5, <1>6 DEF RowsShaped
<1>12. \A d \in AdminCalls : TxShaped(d, tx[d])'
  <2> TAKE d \in AdminCalls
  <2>1. CASE d = c
      BY <2>1, <1>1 DEF TxShaped, VerifyShaped, LockPcs
  <2>2. CASE d # c
    <3>1. /\ TxShaped(d, tx[d]) /\ tx'[d] = tx[d] /\ call'[d] = call[d] /\ d \in Calls
          /\ seen[d] \subseteq seen'[d] /\ tx[d] \in TxType
        BY <2>2, <1>1, <1>2, <1>9 DEF AdminInv, StateTyped
    <3>2. call[d].pc \notin LockPcs
        BY <2>2, <3>1, <1>1 DEF AdminInv, CallShaped
    <3>3. tx[d].snap[Manual].ver \in Nat /\ rows[Manual].ver \in Nat
        BY <3>1, <1>2 DEF TxType, RowType
    <3>4. Earlier(tx[d].snap[Manual]) => Earlier(tx[d].snap[Manual])'
        BY <3>1, <3>3, <1>5, <1>6 DEF Earlier
    <3> QED  BY <3>1, <3>2, <3>4 DEF TxShaped, VerifyShaped, LockPcs
  <2> QED  BY <2>1, <2>2
<1>13. AuditBy' /\ AuditLast' /\ AuditAlternates'
    BY CommitAuditBy, CommitAuditLast
<1>14. PlanJustified'
  <2> SUFFICES ASSUME NEW d \in Calls, Input(d).kind = "access", call'[d].pc = "permissions"
               PROVE  \/ (call'[d].plan = "pro") \in seen'[d]
                      \/ override'.there /\ call'[d].began < override'.until
      BY <1>0 DEF PlanJustified
  <2>1. call'[d] = call[d] /\ override' = override
      BY <1>1
  <2> QED  BY <2>1, <1>9 DEF AdminInv, PlanJustified
<1>15. AccessAnswerJustified'
  <2> SUFFICES ASSUME NEW d \in Calls, call'[d].answer \in {"allowed", "forbidden"}
               PROVE  \/ (call'[d].answer = "allowed") \in seen'[d]
                      \/ /\ override'.there
                         /\ call'[d].began < override'.until /\ override'.until <= now'
      BY <1>0 DEF AccessAnswerJustified
  <2>1. call'[d] = call[d] /\ override' = override /\ now' = now
      BY <1>1
  <2> QED  BY <2>1, <1>9 DEF AdminInv, AccessAnswerJustified
<1>16. SaleFree'
  <2> SUFFICES ASSUME NEW d \in Checkouts, call'[d].pc = "provider" \/ call'[d].answer = "url"
               PROVE  held'[d] = {}
      BY <1>0 DEF SaleFree
  <2>1. call'[d] = call[d] /\ d \in Calls
      BY <1>1, <1>2, <1>4
  <2>2. held[d] = {} /\ call[d].pc # "idle"
      BY <2>1 DEF AdminInv, SaleFree, CallShaped
  <2> QED  BY <2>2, <1>9
<1> QED  BY <1>0, <1>8, <1>9, <1>10, <1>11, <1>12, <1>13, <1>14, <1>15, <1>16 DEF AdminInv

-----------------------------------------------------------------------------
(* The theorems.                                                            *)

LEMMA InitAdmin == Init => AdminInv
<1> SUFFICES ASSUME Init PROVE AdminInv
    OBVIOUS
<1>1. made \in Scenarios
    BY DEF Init, AccountInit
<1>2. /\ Manual \in RowIds /\ Manual \notin Checkouts /\ NoHolder \notin Calls
      /\ Checkouts \subseteq RowIds /\ Checkouts \subseteq Calls /\ AdminCalls \subseteq Calls
      /\ NoHolder \notin AdminCalls
    BY <1>1, Distinct
<1>3. /\ rows \in [RowIds -> RowType]
      /\ \A i \in RowIds : rows[i] = NoRow \/ rows[i] \in InitRows
    BY NoRowTyped, AccountsAssumption DEF Init, AccountInit
<1>4. IdleCall \in CallType /\ IdleCall.pc = "idle" /\ IdleCall.answer = "none" /\ IdleCall.began = 0
    BY DEF IdleCall, CallType, Answers
<1>5. call \in [Calls -> CallType] /\ \A c \in Calls : call[c] = IdleCall
    BY <1>4 DEF Init, AccountInit
<1>6. tx \in [AdminCalls -> TxType]
    BY NoTxTyped DEF Init
<1>7. FreeAccess \in Accesses
    BY DEF Accesses
<1> DEFINE e == [action |-> IF rows[Manual].status = "active" THEN "grant" ELSE "revoke",
                 by |-> NoHolder, at |-> 0, until |-> rows[Manual].until,
                 before |-> FreeAccess, after |-> FreeAccess]
<1>8. audit = IF rows[Manual].there THEN <<e>> ELSE <<>>
    BY DEF Init
<1>9. /\ e \in EventType /\ e.by = NoHolder /\ e.until = rows[Manual].until
      /\ e.action = "grant" <=> rows[Manual].status = "active"
    BY <1>2, <1>3, <1>7 DEF EventType, RowType
<1> HIDE DEF e
<1>10. audit \in Seq(EventType)
    BY <1>8, <1>9
<1>11. StateTyped
    BY <1>1, <1>3, <1>5, <1>6, <1>10, AccountsAssumption, AdminAssumption
       DEF StateTyped, Init, AccountInit, OverrideType
<1>12. HistoryTyped
    BY DEF HistoryTyped, Init, AccountInit
<1>13. \A c \in Calls : CallShaped(c, call[c])
  <2> TAKE c \in Calls
  <2>1. holder = NoHolder /\ now = 1
      BY DEF Init, AccountInit
  <2> QED  BY <2>1, <1>2, <1>4, <1>5 DEF CallShaped, LockPcs, AdminPcs, RequestPcs, VerifyPcs
<1>14. RowsShaped
  <2>1. \A i \in Checkouts : rows[i] = NoRow
      BY DEF Init, AccountInit
  <2> QED  BY <2>1, <1>2, <1>3, ManualAssumption DEF RowsShaped, NoRow
<1>15. \A c \in AdminCalls : TxShaped(c, tx[c])
  <2> TAKE c \in AdminCalls
  <2>1. call[c].pc = "idle" /\ call[c].answer = "none"
      BY <1>2, <1>4, <1>5
  <2>2. tx[c].write = NoRow /\ tx[c].events = 0
      BY DEF Init, NoTx
  <2>3. VerifyShaped(c, tx[c])
      BY <2>1, <2>2 DEF VerifyShaped
  <2> QED  BY <2>1, <2>3 DEF TxShaped, LockPcs
<1>16. AuditBy
  <2>1. \A n \in DOMAIN audit : audit[n].by = NoHolder
      BY <1>8, <1>9
  <2> QED  BY <2>1, <1>2, <1>4, <1>5 DEF AuditBy
<1>17. AuditLast
  <2>1. CASE rows[Manual].there
    <3>1. audit # <<>> /\ Last(audit) = e
        BY <2>1, <1>8 DEF Last
    <3> QED  BY <2>1, <3>1, <1>9 DEF AuditLast
  <2>2. CASE ~rows[Manual].there
      BY <2>2, <1>8 DEF AuditLast
  <2> QED  BY <2>1, <2>2
<1>18. AuditAlternates
  <2>1. CASE rows[Manual].there
      BY <2>1, <1>8, <1>9 DEF AuditAlternates
  <2>2. CASE ~rows[Manual].there
      BY <2>2, <1>8 DEF AuditAlternates
  <2> QED  BY <2>1, <2>2
<1>19. SeenNow /\ PlanJustified /\ AccessAnswerJustified
    BY <1>4, <1>5 DEF SeenNow, Open, PlanJustified, AccessAnswerJustified
<1>20. SaleFree
    BY <1>2, <1>4, <1>5 DEF SaleFree
<1> QED  BY <1>11, <1>12, <1>13, <1>14, <1>15, <1>16, <1>17, <1>18, <1>19, <1>20 DEF AdminInv

LEMMA NextAdmin == AdminInv /\ [Next]_vars => AdminInv'
<1> SUFFICES ASSUME AdminInv, [Next]_vars PROVE AdminInv'
    OBVIOUS
<1>1. CASE Next
  <2>1. UNCHANGED made /\ Record
      BY <1>1 DEF Next
  <2>2. CASE Tick
      BY <2>1, <2>2, TickKeeps
  <2>3. ASSUME NEW c \in Calls, AdminStep(c)  PROVE AdminInv'
      BY <2>1, <2>3, BeginMutationKeeps, TakeSnapshotKeeps, SerializationFailureKeeps,
         LockUserKeeps, CheckManualKeeps, WriteRefusedKeeps, WriteManualKeeps, CommitKeeps, CommitNothingKeeps,
         VerifyLifecycleKeeps DEF AdminStep
  <2>4. ASSUME NEW c \in Calls, AccountStep(c)  PROVE AdminInv'
      BY <2>1, <2>4, BeginRequestKeeps, SyncUserKeeps, ReadSubscriptionKeeps,
         ReadPermissionsKeeps, CreateCheckoutKeeps, CustomerPortalKeeps
         DEF AccountStep, RequestStep
  <2>5. ASSUME NEW c \in Calls, Rollback(c)  PROVE AdminInv'
      BY <2>1, <2>5, RollbackKeeps
  <2>6. ASSUME NEW i \in Checkouts, ProviderEvent(i), UNCHANGED <<audit, tx, failures>>
        PROVE  AdminInv'
      BY <2>1, <2>6, ProviderEventKeeps
  <2> QED  BY <1>1, <2>2, <2>3, <2>4, <2>5, <2>6 DEF Next
<1>2. CASE UNCHANGED vars
  <2>1. UNCHANGED <<made, now, logins, rows, override, holder, call, seen, held, audit, tx, failures>>
      BY <1>2 DEF vars, accountVars
  <2>2. /\ Calls' = Calls /\ Checkouts' = Checkouts /\ AdminCalls' = AdminCalls
        /\ RowIds' = RowIds /\ Requests' = Requests /\ TxType' = TxType /\ EventType' = EventType
      BY <2>1, SameSets
  <2>3. StateTyped' /\ HistoryTyped'
      BY <2>1, <2>2 DEF AdminInv, StateTyped, HistoryTyped
  <2>4. \A c \in Calls : CallShaped(c, call[c])'
      BY <2>1, <2>2 DEF AdminInv, CallShaped
  <2>5. RowsShaped'
      BY <2>1, <2>2 DEF AdminInv, RowsShaped
  <2>6. \A c \in AdminCalls : TxShaped(c, tx[c])'
    <3> TAKE c \in AdminCalls
    <3>1. TxShaped(c, tx[c])
        BY DEF AdminInv
    <3>2. VerifyShaped(c, tx[c])'
        BY <2>1, <3>1 DEF TxShaped, VerifyShaped
    <3> QED  BY <2>1, <3>1, <3>2 DEF TxShaped, Earlier, Clock
  <2>7. AuditBy' /\ AuditLast' /\ AuditAlternates'
      BY <2>1, <2>2 DEF AdminInv, AuditBy, AuditLast, AuditAlternates
  <2>8. SeenNow'
    <3>1. ASSUME NEW c \in Calls
          PROVE  Open(c)' = Open(c) /\ Observed(c)' = Observed(c)
        BY <2>1, <2>2 DEF Open, Observed, GrantInForce, Entitled, Subscribed, Clock
    <3> QED  BY <2>1, <2>2, <3>1 DEF AdminInv, SeenNow
  <2>9. PlanJustified' /\ AccessAnswerJustified' /\ SaleFree'
      BY <2>1, <2>2 DEF AdminInv, PlanJustified, AccessAnswerJustified, SaleFree
  <2> QED  BY <2>2, <2>3, <2>4, <2>5, <2>6, <2>7, <2>8, <2>9 DEF AdminInv
<1> QED  BY <1>1, <1>2

\* AdminInv holds in every behaviour: what each call has read, locked and may
\* write next, and what the audit events say of it (internal/accountadmin and
\* internal/accounts).
THEOREM AdminInvariant == Spec => []AdminInv
<1> QED BY InitAdmin, NextAdmin, PTL DEF Spec

\* The audit log, the manual grant and the answers of grant-pro, revoke-pro and
\* verify-lifecycle agree, although each call decides on a snapshot taken
\* before it has locked the user, and whatever fails or is answered in vain.
THEOREM AuditKept == Spec => []AuditTrail
<1>1. AdminInv => AuditTrail
  <2> SUFFICES ASSUME AdminInv PROVE AuditTrail
      OBVIOUS
  <2>1. TypeOK
      BY DEF AdminInv, StateTyped, CallShaped, TypeOK, LockPcs
  <2>2. AdminCalls \subseteq Calls
      BY DEF AdminCalls
  <2>3. AuditTellsState
    <3>1. ASSUME NEW c \in AdminCalls
          PROVE  LET events == {n \in DOMAIN audit : audit[n].by = c} IN
                 /\ Cardinality(events) <= 1
                 /\ call[c].answer = "changed" => events # {}
                 /\ \/ Input(c).dry \/ Input(c).kind = "verify"
                    \/ call[c].answer \notin {"changed", "error"}
                    => events = {}
      <4> DEFINE events == {n \in DOMAIN audit : audit[n].by = c}
      <4>1. Cardinality(events) <= 1
        <5>1. CASE events = {}
            BY <5>1, FS_EmptySet
        <5>2. CASE events # {}
          <6>1. PICK n \in events : TRUE
              BY <5>2
          <6>2. events = {n}
              BY <6>1 DEF AdminInv, AuditBy
          <6>3. Cardinality({n}) = 1
              BY FS_Singleton
          <6> HIDE DEF events
          <6> QED  BY <6>2, <6>3
        <5> QED  BY <5>1, <5>2
      <4>2. call[c].answer = "changed" => events # {}
          BY DEF AdminInv, AuditBy
      <4>3. \/ Input(c).dry \/ Input(c).kind = "verify"
            \/ call[c].answer \notin {"changed", "error"}
            => events = {}
          BY DEF AdminInv, AuditBy
      <4> QED  BY <4>1, <4>2, <4>3
    <3> QED  BY <3>1 DEF AuditTellsState, AdminInv, AuditLast
  <2>4. AuditAlternates
      BY DEF AdminInv
  <2>5. NoOpJustified
      BY DEF AdminInv, TxShaped, NoOpJustified
  <2>6. LifecycleVerified
      BY DEF AdminInv, CallShaped, LifecycleVerified
  <2> QED  BY <2>1, <2>3, <2>4, <2>5, <2>6 DEF AuditTrail
<1> QED BY <1>1, AdminInvariant, PTL

\* An access check is answered with what held at some moment of the request,
\* although Current reads the plan and the override in two statements, unless
\* an override ran out in the middle of it.
THEOREM AccessJustified == Spec => []AccessAnswerJustified
<1>1. AdminInv => AccessAnswerJustified
    BY DEF AdminInv
<1> QED BY <1>1, AdminInvariant, PTL

\* A subscription is sold next to another only when CreateCheckout and the
\* sale of the other overlap.
THEOREM SecondSale == Spec => []SecondSaleOnlyByOverlap
<1>1. AdminInv => SecondSaleOnlyByOverlap
    BY DEF AdminInv, RowsShaped, SaleFree, SecondSaleOnlyByOverlap
<1> QED BY <1>1, AdminInvariant, PTL
=============================================================================
