--------------------------- MODULE ServiceProofs ---------------------------
(***************************************************************************)
(* Machine-checked safety of one API process, for any requests, clients,    *)
(* limits, releases and start versions: the schema a probe found ready      *)
(* stays ready (ReadinessInv), the request counters tell the requests apart *)
(* (HttpInv), the rate limiter keeps its contract although the times it is  *)
(* given may go back and clients are forgotten (RateInv), and the cache of  *)
(* keys follows the provider although refreshes overlap (KeyInv).           *)
(***************************************************************************)
EXTENDS Service, FiniteSetTheorems, WellFoundedInduction, TLAPS

-----------------------------------------------------------------------------
(* Readiness and migrations.                                                *)

MigratorType == [pc : {"new", "apply", "completed", "failed"}, file : Nat \ {0}]

\* What migrator m has done; r is its record.
Migrated(m, r) ==
    /\ 1..(r.file - 1) \subseteq relations
    /\ r.file > Marker => version >= r.file - 1
    /\ lock = m <=> r.pc = "apply"
    /\ r.pc = "completed" => r.file > LastFile(m)

CheckStates == {"none", "relations", "version", "ready", "failed"}

\* What the check of probe p has found, statement by statement.
Checked(p) ==
    /\ check[p] \in {"version", "ready"} => 1..Expected \subseteq relations
    /\ check[p] = "ready" => version >= Expected

\* The inductive invariant of readiness.
ReadinessInv ==
    /\ version \in Nat
    /\ migrator \in [Migrators -> MigratorType]
    /\ check \in [Probes -> CheckStates]
    /\ \A m \in Migrators : Migrated(m, migrator[m])
    /\ \A p \in Probes : Checked(p)

LEMMA InitReadiness == Init => ReadinessInv
<1> SUFFICES ASSUME Init PROVE ReadinessInv
    OBVIOUS
<1>1. ReadinessInit(Probes)
    BY DEF Init
<1>2. version \in Nat
    BY <1>1, ReadinessAssumption DEF ReadinessInit
<1>3. migrator \in [Migrators -> MigratorType]
    BY <1>1 DEF ReadinessInit, MigratorType
<1>4. check \in [Probes -> CheckStates] /\ \A p \in Probes : check[p] = "none"
    BY <1>1 DEF ReadinessInit, CheckStates
<1>5. \A m \in Migrators : Migrated(m, migrator[m])
    BY <1>1, ReadinessAssumption DEF ReadinessInit, Migrated
<1>6. \A p \in Probes : Checked(p)
    BY <1>4 DEF Checked
<1> QED  BY <1>2, <1>3, <1>4, <1>5, <1>6 DEF ReadinessInv

\* Migrations only add: the schema of a ready instance keeps what it has.
LEMMA SchemaGrows ==
    ASSUME ReadinessInv, UNCHANGED <<made, check>>, version' \in Nat, version <= version',
           relations \subseteq relations', migrator' \in [Migrators -> MigratorType],
           NEW m \in Migrators, Migrated(m, migrator[m])',
           \A n \in Migrators \ {m} : migrator'[n] = migrator[n] /\ (lock' = n <=> lock = n)
    PROVE  ReadinessInv'
<1>1. Probes' = Probes
    BY DEF Probes
<1>2. ASSUME NEW n \in Migrators \ {m}
      PROVE  Migrated(n, migrator[n])'
  <2>1. Migrated(n, migrator[n]) /\ migrator[n] \in MigratorType
      BY DEF ReadinessInv
  <2>2. version \in Int /\ version' \in Int /\ migrator[n].file - 1 \in Int
      BY <2>1 DEF ReadinessInv, MigratorType
  <2>3. version >= migrator[n].file - 1 => version' >= migrator[n].file - 1
    <3>1. \A x, y, z \in Int : x <= y /\ x >= z => y >= z
        OBVIOUS
    <3> QED  BY <2>2, <3>1, Zenon
  <2> QED  BY <2>1, <2>3 DEF Migrated
<1>3. ASSUME NEW p \in Probes
      PROVE  Checked(p)'
  <2>1. version >= Expected => version' >= Expected
    <3>1. \A x, y, z \in Int : x <= y /\ x >= z => y >= z
        OBVIOUS
    <3>2. version \in Int /\ version' \in Int /\ Expected \in Int
        BY ReadinessAssumption DEF ReadinessInv
    <3> QED  BY <3>1, <3>2, Zenon
  <2> QED  BY <2>1 DEF ReadinessInv, Checked
<1> QED  BY <1>1, <1>2, <1>3 DEF ReadinessInv

LEMMA MigrationKeeps ==
    ASSUME ReadinessInv, NEW m \in Migrators, UNCHANGED made,
           AcquireLock(m) \/ ApplyFile(m) \/ EndMigration(m)
    PROVE  ReadinessInv'
<1> DEFINE r == migrator[m]
<1>1. /\ r \in MigratorType /\ Migrated(m, r) /\ version \in Nat /\ r.file \in Nat \ {0}
      /\ migrator \in [Migrators -> MigratorType]
    BY DEF ReadinessInv, MigratorType
<1>2. NoOne \notin Migrators
    BY ReadinessAssumption
<1>3. CASE AcquireLock(m)
  <2>1. /\ r.pc = "new" /\ lock = NoOne /\ lock' = m /\ UNCHANGED <<version, relations, check>>
        /\ migrator' = [migrator EXCEPT ![m].pc = "apply"]
      BY <1>3 DEF AcquireLock
  <2>2. /\ migrator' \in [Migrators -> MigratorType]
        /\ migrator'[m].pc = "apply" /\ migrator'[m].file = r.file
        /\ \A n \in Migrators \ {m} : migrator'[n] = migrator[n]
      BY <1>1, <2>1 DEF MigratorType
  <2>3. Migrated(m, migrator[m])'
      BY <1>1, <2>1, <2>2 DEF Migrated
  <2>4. version <= version'
      BY <1>1, <2>1
  <2> QED  BY <1>1, <1>2, <2>1, <2>2, <2>3, <2>4, SchemaGrows
<1>4. CASE ApplyFile(m)
  <2>1. /\ r.pc = "apply" /\ relations' = relations \cup {r.file}
        /\ version' = VersionAfter(r.file) /\ UNCHANGED <<lock, check>>
        /\ migrator' = [migrator EXCEPT ![m].file = r.file + 1]
      BY <1>4 DEF ApplyFile
  <2>2. /\ migrator' \in [Migrators -> MigratorType]
        /\ migrator'[m].pc = "apply" /\ migrator'[m].file = r.file + 1
        /\ \A n \in Migrators \ {m} : migrator'[n] = migrator[n]
      BY <1>1, <2>1 DEF MigratorType
  <2>3. /\ version' \in Nat /\ version <= version'
        /\ r.file >= Marker => version' >= r.file
      BY <1>1, <2>1, ReadinessAssumption DEF VersionAfter
  <2>4. 1..(migrator'[m].file - 1) \subseteq relations'
    <3>1. ASSUME NEW x \in 1..r.file  PROVE x \in relations'
      <4>1. x \in 1..(r.file - 1) \/ x = r.file
          BY <1>1, <3>1
      <4> QED  BY <4>1, <1>1, <2>1 DEF Migrated
    <3>2. migrator'[m].file - 1 = r.file
        BY <1>1, <2>2
    <3> QED  BY <3>1, <3>2
  <2>5. migrator'[m].file > Marker => version' >= migrator'[m].file - 1
      BY <1>1, <2>2, <2>3, ReadinessAssumption
  <2>6. Migrated(m, migrator[m])'
      BY <1>1, <2>1, <2>2, <2>4, <2>5 DEF Migrated
  <2> QED  BY <1>1, <2>1, <2>2, <2>3, <2>6, SchemaGrows
<1>5. CASE EndMigration(m)
  <2> DEFINE end == IF r.file > LastFile(m) THEN "completed" ELSE "failed"
  <2>1. /\ r.pc = "apply" /\ lock' = NoOne /\ UNCHANGED <<version, relations, check>>
        /\ migrator' = [migrator EXCEPT ![m].pc = end]
      BY <1>5 DEF EndMigration
  <2>2. end \in {"completed", "failed"} /\ (end = "completed" => r.file > LastFile(m))
      OBVIOUS
  <2> HIDE DEF end
  <2>3. /\ migrator' \in [Migrators -> MigratorType]
        /\ migrator'[m].pc = end /\ migrator'[m].file = r.file
        /\ \A n \in Migrators \ {m} : migrator'[n] = migrator[n]
      BY <1>1, <2>1, <2>2 DEF MigratorType
  <2>4. Migrated(m, migrator[m])'
      BY <1>1, <1>2, <2>1, <2>2, <2>3 DEF Migrated
  <2>5. lock = m
      BY <1>1, <2>1 DEF Migrated
  <2>6. version <= version'
      BY <1>1, <2>1
  <2> QED  BY <1>1, <1>2, <2>1, <2>3, <2>4, <2>5, <2>6, SchemaGrows
<1> QED  BY <1>3, <1>4, <1>5

LEMMA ProbeKeeps ==
    ASSUME ReadinessInv, NEW p \in Probes, UNCHANGED made, CheckStep(p)
    PROVE  ReadinessInv'
<1>1. Probes' = Probes
    BY DEF Probes
<1>2. UNCHANGED <<version, relations, lock, migrator>>
    BY DEF CheckStep, StartCheck, CheckRelations, CheckVersion
<1>3. PICK s \in CheckStates :
        /\ check' = [check EXCEPT ![p] = s]
        /\ s \in {"version", "ready"} => 1..Expected \subseteq relations
        /\ s = "ready" => version >= Expected
    BY DEF CheckStep, StartCheck, CheckRelations, CheckVersion, CheckStates, ReadinessInv, Checked
<1>4. check' \in [Probes -> CheckStates] /\ check'[p] = s
      /\ \A q \in Probes \ {p} : check'[q] = check[q]
    BY <1>3 DEF ReadinessInv
<1>5. \A q \in Probes : Checked(q)'
    BY <1>2, <1>3, <1>4 DEF ReadinessInv, Checked
<1>6. \A m \in Migrators : Migrated(m, migrator[m])'
    BY <1>2 DEF ReadinessInv, Migrated
<1> QED  BY <1>1, <1>2, <1>4, <1>5, <1>6 DEF ReadinessInv

LEMMA NextReadiness == ReadinessInv /\ [Next]_vars => ReadinessInv'
<1> SUFFICES ASSUME ReadinessInv, [Next]_vars PROVE ReadinessInv'
    OBVIOUS
<1>1. ASSUME UNCHANGED <<made, version, relations, lock, migrator, check>>
      PROVE  ReadinessInv'
    BY <1>1 DEF ReadinessInv, Probes, Migrated, Checked
<1>2. CASE UNCHANGED vars
    BY <1>1, <1>2 DEF vars, gatewayVars, readinessVars
<1>3. CASE Next
  <2>1. UNCHANGED made
      BY <1>3 DEF Next
  <2>2. ASSUME NEW q \in made, RequestStep(q)  PROVE ReadinessInv'
      BY <2>1, <2>2, <1>1 DEF RequestStep, readinessVars
  <2>3. ASSUME NEW p \in Probes, Probe(p)  PROVE ReadinessInv'
      BY <2>1, <2>3, ProbeKeeps DEF Probe
  <2>4. ASSUME NEW p \in Probes, AnswerProbe(p)  PROVE ReadinessInv'
      BY <2>1, <2>4, <1>1 DEF AnswerProbe, Observe
  <2>5. ASSUME NEW m \in Migrators, Migration(m)  PROVE ReadinessInv'
      BY <2>1, <2>5, MigrationKeeps DEF Migration, MigratorStep
  <2>6. CASE (Rotate \/ Tick) /\ UNCHANGED readinessVars
      BY <2>1, <2>6, <1>1 DEF readinessVars
  <2> QED  BY <1>3, <2>2, <2>3, <2>4, <2>5, <2>6 DEF Next
<1> QED  BY <1>2, <1>3

\* A schema that a probe found ready stays ready, and a migrator that reports
\* success leaves its own schema, whatever other releases migrate beside it and
\* however often their files are applied again (cmd/migrate, readiness.go).
THEOREM ReadinessSafe == Spec => []ReadinessKept
<1>1. ReadinessInv => ReadinessKept
  <2> SUFFICES ASSUME ReadinessInv PROVE ReadinessKept
      OBVIOUS
  <2>1. ReadyStaysReady
      BY DEF ReadinessInv, Checked, ReadyStaysReady
  <2>2. ASSUME NEW m \in Migrators, migrator[m].pc = "completed"
        PROVE  1..LastFile(m) \subseteq relations /\ version >= LastFile(m)
    <3>1. /\ LastFile(m) \in Nat /\ Marker <= LastFile(m) /\ Marker \in Nat
          /\ migrator[m].file \in Nat /\ Migrated(m, migrator[m]) /\ version \in Nat
        BY ReadinessAssumption DEF ReadinessInv, MigratorType
    <3>2. migrator[m].file > LastFile(m) /\ migrator[m].file > Marker
        BY <2>2, <3>1 DEF Migrated
    <3>3. version >= LastFile(m)
        BY <3>1, <3>2 DEF Migrated
    <3>4. \A x \in 1..LastFile(m) : x \in 1..(migrator[m].file - 1)
        BY <3>1, <3>2
    <3> QED  BY <3>1, <3>3, <3>4 DEF Migrated
  <2> QED  BY <2>1, <2>2 DEF ReadinessKept, CompletedMeansMigrated
<1> QED BY <1>1, InitReadiness, NextReadiness, PTL DEF Spec

-----------------------------------------------------------------------------
(* The way of a request.                                                    *)

Inside == {"limit", "token", "fetch", "install", "reread", "handler", "written"}

\* What a request may have fetched.
Docs == {{}} \cup {Publications[n] : n \in Nat}

Pcs == {"new", "done"} \cup Inside

Whys == {"", "provider", "key"}

Flags == BOOLEAN

ReqType == [pc : Pcs, status : Nat, at : Nat, start : Nat, doc : Docs,
            put : Nat, late : Flags, why : Whys, passed : Nat]

HttpType == [inFlight : Nat, requests : Nat, errors : Nat]

StateTyped ==
    /\ made \in Scenarios
    /\ now \in 1..MaxTime(made)
    /\ req \in [made -> ReqType]
    /\ http \in HttpType
    /\ pub \in Seq(Nat)

\* Request r moves and no other does.
Walks(r) ==
    /\ req' \in [made -> ReqType]
    /\ \A s \in made \ {r} : req'[s] = req[s]

LEMMA Responded ==
    ASSUME req \in [made -> ReqType], NEW r \in made, NEW status \in Nat, Respond(r, status)
    PROVE  /\ Walks(r) /\ req'[r].pc = "written" /\ req'[r].status = status
           /\ req'[r].at = req[r].at /\ req'[r].late = req[r].late
BY DEF Respond, Walks, ReqType, Pcs, Inside

LEMMA Went ==
    ASSUME req \in [made -> ReqType], NEW r \in made, NEW pc \in Inside, Goto(r, pc)
    PROVE  /\ Walks(r) /\ req'[r].pc = pc
           /\ req'[r].at = req[r].at /\ req'[r].late = req[r].late
BY DEF Goto, Walks, ReqType, Pcs

LEMMA Timed ==
    ASSUME req \in [made -> ReqType], NEW r \in made, NEW pc \in Inside, NEW t \in Nat,
           req' = [req EXCEPT ![r].pc = pc, ![r].at = t]
    PROVE  Walks(r) /\ req'[r].pc = pc /\ req'[r].at = t /\ req'[r].late = req[r].late
BY DEF Walks, ReqType, Pcs

\* Request r becomes q.
LEMMA Replaced ==
    ASSUME req \in [made -> ReqType], NEW r \in made, NEW q \in ReqType,
           req' = [req EXCEPT ![r] = q]
    PROVE  Walks(r) /\ req'[r] = q
BY DEF Walks

\* The record of a request that ends.
LEMMA EndedRecord ==
    ASSUME NEW q \in ReqType, NEW p,
           p = [q EXCEPT !.pc = "done", !.at = 0, !.start = 0, !.passed = 0]
    PROVE  p \in ReqType /\ p.pc = "done" /\ p.at = 0 /\ p.status = q.status /\ p.late = q.late
<1>1. "done" \in Pcs
    BY DEF Pcs
<1> QED  BY <1>1 DEF ReqType

\* The record of a refused request.
LEMMA RefusedType ==
    \A x \in ReqType, pc \in Pcs, status \in Nat, why \in Whys :
        [x EXCEPT !.pc = pc, !.status = status, !.why = why] \in ReqType
BY DEF ReqType

LEMMA LimitedType ==
    \A x \in ReqType, pc \in Pcs, status \in Nat, flag \in Flags :
        [x EXCEPT !.pc = pc, !.status = status, !.late = flag] \in ReqType
BY DEF ReqType

LEMMA RefusedWhy ==
    ASSUME req \in [made -> ReqType], NEW r \in made, NEW status \in Nat, NEW why \in Whys,
           req' = [req EXCEPT ![r].pc = "written", ![r].status = status, ![r].why = why]
    PROVE  /\ Walks(r) /\ req'[r].pc = "written"
           /\ req'[r].at = req[r].at /\ req'[r].late = req[r].late
<1> DEFINE q == [req[r] EXCEPT !.pc = "written", !.status = status, !.why = why]
<1>1. "written" \in Pcs /\ req[r] \in ReqType
    BY DEF Pcs, Inside
<1>2. q \in ReqType
  <2>1. ASSUME NEW x \in ReqType
        PROVE  [x EXCEPT !.pc = "written", !.status = status, !.why = why] \in ReqType
      BY <1>1, RefusedType, Zenon
  <2> QED  BY <1>1, <2>1
<1>3. q.pc = "written" /\ q.at = req[r].at
    BY <1>1 DEF ReqType
<1>4. q.late = req[r].late
    BY <1>1, Zenon DEF ReqType
<1>5. req' = [req EXCEPT ![r] = q]
    OBVIOUS
<1> HIDE DEF q
<1>6. Walks(r) /\ req'[r] = q
    BY <1>2, <1>5, Replaced
<1> QED  BY <1>3, <1>4, <1>6, Zenon

LEMMA RefusedLate ==
    ASSUME req \in [made -> ReqType], NEW r \in made, NEW status \in Nat, NEW flag \in Flags,
           req' = [req EXCEPT ![r].pc = "written", ![r].status = status, ![r].late = flag]
    PROVE  Walks(r) /\ req'[r].pc = "written" /\ req'[r].at = req[r].at /\ req'[r].late = flag
<1> DEFINE q == [req[r] EXCEPT !.pc = "written", !.status = status, !.late = flag]
<1>1. "written" \in Pcs /\ req[r] \in ReqType
    BY DEF Pcs, Inside
<1>2. q \in ReqType
  <2>1. ASSUME NEW x \in ReqType
        PROVE  [x EXCEPT !.pc = "written", !.status = status, !.late = flag] \in ReqType
      BY <1>1, LimitedType, Zenon
  <2> QED  BY <1>1, <2>1
<1>3. q.pc = "written" /\ q.at = req[r].at
    BY <1>1 DEF ReqType
<1>4. q.late = flag
    BY <1>1, Zenon DEF ReqType
<1>5. req' = [req EXCEPT ![r] = q]
    OBVIOUS
<1> HIDE DEF q
<1>6. Walks(r) /\ req'[r] = q
    BY <1>2, <1>5, Replaced
<1> QED  BY <1>3, <1>4, <1>6, Zenon

\* What the middlewares and the handler do with a request, the limiter apart:
\* it stays inside, its time and its answer to the limiter stay.
Stays(r) ==
    /\ Walks(r)
    /\ req[r].pc \in Inside /\ req'[r].pc \in Inside \ {"limit"}
    /\ req'[r].at = req[r].at /\ req'[r].late = req[r].late

LEMMA JudgeStays ==
    ASSUME StateTyped, NEW r \in made, req[r].pc \in Inside, Judge(r)
    PROVE  Stays(r)
<1>1. req \in [made -> ReqType] /\ now \in Nat
    BY ScenarioAssumption DEF StateTyped
<1>2. CASE Respond(r, 401) \/ Respond(r, 403)
    BY <1>1, <1>2, Responded DEF Stays, Inside
<1>3. CASE req' = [req EXCEPT ![r].pc = "handler", ![r].passed = now]
    BY <1>1, <1>3 DEF Stays, Walks, ReqType, Pcs, Inside
<1> QED  BY <1>2, <1>3 DEF Judge

LEMMA AuthenticateStays ==
    ASSUME StateTyped, NEW r \in made, Authenticate(r)
    PROVE  Stays(r)
<1>1. req \in [made -> ReqType] /\ now \in Nat /\ req[r].pc \in Inside
    BY ScenarioAssumption DEF StateTyped, Authenticate, Inside
<1>2. CASE Respond(r, 401) \/ Respond(r, 503)
    BY <1>1, <1>2, Responded DEF Stays, Inside
<1>3. CASE Judge(r)
    BY <1>1, <1>3, JudgeStays
<1>4. CASE req' = [req EXCEPT ![r].pc = "fetch", ![r].start = now]
    BY <1>1, <1>4 DEF Stays, Walks, ReqType, Pcs, Inside
<1> QED  BY <1>2, <1>3, <1>4 DEF Authenticate

LEMMA FetchStays ==
    ASSUME StateTyped, NEW r \in made, Fetch(r)
    PROVE  Stays(r)
<1>1. req \in [made -> ReqType] /\ req[r].pc \in Inside
    BY DEF StateTyped, Fetch, Inside
<1>2. Published \in Docs
  <2>1. Len(pub) \in Nat
      BY DEF StateTyped
  <2> QED  BY <2>1 DEF Published, Docs
<1>3. CASE req' = [req EXCEPT ![r].pc = "install", ![r].doc = Published]
    BY <1>1, <1>2, <1>3 DEF Stays, Walks, ReqType, Pcs, Inside
<1>4. CASE RefreshFailed(r)
  <2>1. PICK n \in Nat : n = 401
      OBVIOUS
  <2>2. req' = [req EXCEPT ![r].pc = "written", ![r].status = n, ![r].why = "provider"]
      BY <2>1, <1>4 DEF RefreshFailed
  <2> QED  BY <1>1, <2>2, RefusedWhy DEF Stays, Inside, Whys
<1> QED  BY <1>3, <1>4 DEF Fetch

LEMMA InstallStays ==
    ASSUME StateTyped, NEW r \in made, Install(r)
    PROVE  Stays(r)
<1>1. req \in [made -> ReqType] /\ now \in Nat /\ req[r].pc \in Inside
    BY ScenarioAssumption DEF StateTyped, Install, Inside
<1>2. req' = [req EXCEPT ![r].pc = "reread", ![r].put = now]
    BY DEF Install
<1> QED  BY <1>1, <1>2 DEF Stays, Walks, ReqType, Pcs, Inside

LEMMA RereadStays ==
    ASSUME StateTyped, NEW r \in made, Reread(r)
    PROVE  Stays(r)
<1>1. req \in [made -> ReqType] /\ req[r].pc \in Inside
    BY DEF StateTyped, Reread, Inside
<1>2. CASE Judge(r)
    BY <1>1, <1>2, JudgeStays
<1>3. CASE req' = [req EXCEPT ![r].pc = "written", ![r].status = 401, ![r].why = "key"]
  <2>1. PICK n \in Nat : n = 401
      OBVIOUS
  <2>2. req' = [req EXCEPT ![r].pc = "written", ![r].status = n, ![r].why = "key"]
      BY <2>1, <1>3
  <2> QED  BY <1>1, <2>2, RefusedWhy DEF Stays, Inside, Whys
<1> QED  BY <1>2, <1>3 DEF Reread

LEMMA HandleStays ==
    ASSUME StateTyped, NEW r \in made, Handle(r) \/ AnswerProbe(r)
    PROVE  Stays(r)
<1>1. req \in [made -> ReqType] /\ req[r].pc \in Inside
    BY DEF StateTyped, Handle, AnswerProbe, Inside
<1>2. PICK status \in Nat : Respond(r, status)
    BY DEF Handle, AnswerProbe
<1> QED  BY <1>1, <1>2, Responded DEF Stays, Inside

LEMMA ArriveEnters ==
    ASSUME StateTyped, NEW r \in made, Arrive(r)
    PROVE  /\ Walks(r) /\ req[r].pc = "new" /\ req'[r].pc \in Inside
           /\ req'[r].at \in {req[r].at, now} /\ req'[r].late = req[r].late
           /\ req'[r].pc = "limit" => req'[r].at = now
<1>1. req \in [made -> ReqType] /\ now \in Nat /\ req[r].pc = "new"
    BY ScenarioAssumption DEF StateTyped, Arrive
<1>2. ASSUME NEW status \in Nat, Respond(r, status)
      PROVE  /\ Walks(r) /\ req'[r].pc \in Inside
             /\ req'[r].at \in {req[r].at, now} /\ req'[r].late = req[r].late
             /\ req'[r].pc = "limit" => req'[r].at = now
    BY <1>1, <1>2, Responded DEF Inside
<1> DEFINE pc == IF Input(r).method = "get" /\ Input(r).route = "api" /\ Limited(made)
                 THEN "limit" ELSE AfterLimit(r)
<1>3. pc \in Inside
    BY DEF AfterLimit, Inside
<1>4. \/ \E status \in Nat : Respond(r, status)
      \/ req' = [req EXCEPT ![r].pc = pc, ![r].at = now]
    BY DEF Arrive
<1> HIDE DEF pc
<1>5. CASE req' = [req EXCEPT ![r].pc = pc, ![r].at = now]
  <2>1. Walks(r) /\ req'[r].pc = pc /\ req'[r].at = now /\ req'[r].late = req[r].late
      BY <1>1, <1>3, <1>5 DEF Walks, ReqType, Pcs
  <2> QED  BY <2>1, <1>1, <1>3
<1> QED  BY <1>1, <1>2, <1>4, <1>5

LEMMA FinishLeaves ==
    ASSUME StateTyped, NEW r \in made, Finish(r)
    PROVE  /\ Walks(r) /\ req[r].pc = "written" /\ req'[r].pc = "done"
           /\ req'[r].status = req[r].status /\ req'[r].at = 0 /\ req'[r].late = req[r].late
<1>1. req \in [made -> ReqType]
    BY DEF StateTyped
<1>2. /\ req[r].pc = "written"
      /\ req' = [req EXCEPT ![r].pc = "done", ![r].at = 0, ![r].start = 0, ![r].passed = 0]
    BY DEF Finish
<1> DEFINE q == [req[r] EXCEPT !.pc = "done", !.at = 0, !.start = 0, !.passed = 0]
<1>3. /\ q \in ReqType /\ q.pc = "done" /\ q.at = 0
      /\ q.status = req[r].status /\ q.late = req[r].late
    BY <1>1, EndedRecord
<1>4. req' = [req EXCEPT ![r] = q]
    BY <1>1, <1>2
<1> HIDE DEF q
<1>5. Walks(r) /\ req'[r] = q
    BY <1>1, <1>3, <1>4, Replaced
<1> QED  BY <1>2, <1>3, <1>5

LEMMA AllowWalks ==
    ASSUME StateTyped, NEW r \in made, Allow(r), promise[Input(r).client] \in Int
    PROVE  /\ Walks(r) /\ req[r].pc = "limit" /\ req'[r].pc \in Inside \ {"limit"}
           /\ req'[r].at = req[r].at
<1>1. req \in [made -> ReqType] /\ req[r].pc = "limit"
    BY DEF StateTyped, Allow
<1>2. AfterLimit(r) \in Inside \ {"limit"}
    BY DEF AfterLimit, Inside
<1> DEFINE late == req[r].at >= promise[Input(r).client]
<1>3. \/ Goto(r, AfterLimit(r))
      \/ req' = [req EXCEPT ![r].pc = "written", ![r].status = 429, ![r].late = late]
    BY DEF Allow
<1>4. late \in Flags
    BY DEF Flags
<1> HIDE DEF late
<1>5. CASE Goto(r, AfterLimit(r))
    BY <1>1, <1>2, <1>5, Went
<1>6. CASE req' = [req EXCEPT ![r].pc = "written", ![r].status = 429, ![r].late = late]
  <2>1. PICK n \in Nat : n = 429
      OBVIOUS
  <2>2. req' = [req EXCEPT ![r].pc = "written", ![r].status = n, ![r].late = late]
      BY <2>1, <1>6
  <2> QED  BY <1>1, <1>4, <2>2, RefusedLate DEF Inside
<1> QED  BY <1>1, <1>3, <1>5, <1>6

-----------------------------------------------------------------------------
(* The counters of the requests.                                            *)

InFlight == {r \in made : req[r].pc \notin {"new", "done"}}
Ended == {r \in made : req[r].pc = "done"}
Failed == {r \in made : req[r].pc = "done" /\ req[r].status >= 400}

\* The inductive invariant of the counters.
HttpInv == StateTyped /\ HttpCounted

LEMMA SetsFinite ==
    ASSUME StateTyped
    PROVE  /\ IsFiniteSet(made) /\ IsFiniteSet(InFlight) /\ IsFiniteSet(Ended) /\ IsFiniteSet(Failed)
           /\ Cardinality(InFlight) \in Nat /\ Cardinality(Ended) \in Nat /\ Cardinality(Failed) \in Nat
<1>1. IsFiniteSet(made)
    BY ScenarioAssumption DEF StateTyped
<1>2. InFlight \subseteq made /\ Ended \subseteq made /\ Failed \subseteq made
    BY DEF InFlight, Ended, Failed
<1>3. IsFiniteSet(InFlight) /\ IsFiniteSet(Ended) /\ IsFiniteSet(Failed)
    BY <1>1, <1>2, FS_Subset
<1> QED  BY <1>1, <1>3, FS_CardinalityType

\* A request that enters is in flight; one that moves on inside changes no set.
LEMMA EnterCounted ==
    ASSUME HttpInv, UNCHANGED made, NEW r \in made, Walks(r),
           req[r].pc = "new", req'[r].pc \in Inside, RequestStarted
    PROVE  http' \in HttpType /\ HttpCounted'
<1>1. /\ http \in HttpType /\ http.inFlight = Cardinality(InFlight)
      /\ http.requests = Cardinality(Ended) /\ http.errors = Cardinality(Failed)
    BY DEF HttpInv, StateTyped, HttpCounted, InFlight, Ended, Failed
<1>2. InFlight' = InFlight \cup {r} /\ r \notin InFlight /\ Ended' = Ended /\ Failed' = Failed
    BY DEF InFlight, Ended, Failed, Walks, Inside
<1>3. Cardinality(InFlight') = Cardinality(InFlight) + 1
    BY <1>2, SetsFinite, FS_AddElement DEF HttpInv
<1>4. /\ http' \in HttpType /\ http'.inFlight = http.inFlight + 1
      /\ http'.requests = http.requests /\ http'.errors = http.errors
    BY <1>1 DEF RequestStarted, HttpType
<1>5. /\ http'.inFlight = Cardinality(InFlight') /\ http'.requests = Cardinality(Ended')
      /\ http'.errors = Cardinality(Failed')
    BY <1>1, <1>2, <1>3, <1>4
<1> QED  BY <1>4, <1>5 DEF HttpCounted, InFlight, Ended, Failed

LEMMA StayCounted ==
    ASSUME HttpInv, UNCHANGED <<made, http>>, NEW r \in made, Walks(r),
           req[r].pc \in Inside, req'[r].pc \in Inside
    PROVE  http' \in HttpType /\ HttpCounted'
<1>1. InFlight' = InFlight /\ Ended' = Ended /\ Failed' = Failed
    BY DEF InFlight, Ended, Failed, Walks, Inside
<1>2. /\ http \in HttpType /\ http.inFlight = Cardinality(InFlight)
      /\ http.requests = Cardinality(Ended) /\ http.errors = Cardinality(Failed)
    BY DEF HttpInv, StateTyped, HttpCounted, InFlight, Ended, Failed
<1> QED  BY <1>1, <1>2 DEF HttpCounted, InFlight, Ended, Failed

\* A request that ends is in flight no longer, whatever its handler did, and
\* the counter of those in flight is never clipped.
LEMMA LeaveCounted ==
    ASSUME HttpInv, UNCHANGED made, NEW r \in made, Walks(r),
           req[r].pc = "written", req'[r].pc = "done", req'[r].status = req[r].status,
           RequestFinished(req[r].status)
    PROVE  http' \in HttpType /\ HttpCounted'
<1> DEFINE status == req[r].status
<1>1. /\ http \in HttpType /\ http.inFlight = Cardinality(InFlight)
      /\ http.requests = Cardinality(Ended) /\ http.errors = Cardinality(Failed)
    BY DEF HttpInv, StateTyped, HttpCounted, InFlight, Ended, Failed
<1>2. InFlight' = InFlight \ {r} /\ r \in InFlight /\ Ended' = Ended \cup {r} /\ r \notin Ended
    BY DEF InFlight, Ended, Walks
<1>3. r \notin Failed /\ Failed' = IF status >= 400 THEN Failed \cup {r} ELSE Failed
    BY DEF Failed, Walks
<1>4. /\ Cardinality(InFlight') = Cardinality(InFlight) - 1
      /\ Cardinality(Ended') = Cardinality(Ended) + 1
    BY <1>2, SetsFinite, FS_AddElement, FS_RemoveElement DEF HttpInv
<1>5. Cardinality(Failed \cup {r}) = Cardinality(Failed) + 1
    BY <1>3, SetsFinite, FS_AddElement DEF HttpInv
<1>6. Cardinality(Failed') = Cardinality(Failed) + (IF status >= 400 THEN 1 ELSE 0)
    BY <1>3, <1>5, SetsFinite DEF HttpInv
<1>7. /\ http' \in HttpType /\ http'.requests = http.requests + 1
      /\ http'.inFlight = IF http.inFlight > 0 THEN http.inFlight - 1 ELSE 0
      /\ http'.errors = http.errors + (IF status >= 400 THEN 1 ELSE 0)
    BY <1>1 DEF RequestFinished, HttpType
<1>8. Cardinality(InFlight') \in Nat
  <2>1. IsFiniteSet(InFlight')
      BY <1>2, SetsFinite, FS_Subset DEF HttpInv
  <2> QED  BY <2>1, FS_CardinalityType
<1> HIDE DEF status
<1>9. /\ http'.inFlight = Cardinality(InFlight') /\ http'.requests = Cardinality(Ended')
      /\ http'.errors = Cardinality(Failed')
    BY <1>1, <1>4, <1>6, <1>7, <1>8, SetsFinite DEF HttpInv
<1> QED  BY <1>7, <1>9 DEF HttpCounted, InFlight, Ended, Failed

LEMMA InitHttp == Init => HttpInv
<1> SUFFICES ASSUME Init PROVE HttpInv
    OBVIOUS
<1>1. /\ made \in Scenarios /\ now = 1 /\ req = [r \in made |-> NewReq] /\ pub = <<0>>
      /\ http = [inFlight |-> 0, requests |-> 0, errors |-> 0]
    BY DEF Init, GatewayInit
<1>2. NewReq \in ReqType
    BY DEF NewReq, ReqType, Pcs, Docs, Whys, Flags
<1>3. StateTyped
    BY <1>1, <1>2, ScenarioAssumption DEF StateTyped, HttpType
<1>4. InFlight = {} /\ Ended = {} /\ Failed = {}
    BY <1>1 DEF InFlight, Ended, Failed, NewReq
<1>5. Cardinality({}) = 0
    BY FS_EmptySet
<1> QED  BY <1>1, <1>3, <1>4, <1>5 DEF HttpInv, HttpCounted, InFlight, Ended, Failed
-----------------------------------------------------------------------------
(* The rate limiter.                                                        *)

Cap == Burst * Unit

BucketType == [tokens : Nat, updated : Nat, seen : Nat]

\* The first part of RateContract for the history g of one client.
Contract(g) ==
    \A i, j \in DOMAIN g : i <= j => (j - i + 1) * Unit <= Cap + Rate * (g[j] - g[i])

\* What is left in bucket b is no more than what the requests let through
\* since any of them have left of the burst and the refill.
Fits(b, g) ==
    \A i \in DOMAIN g :
        /\ g[i] <= b.updated
        /\ b.tokens + (Len(g) - i + 1) * Unit <= Cap + Rate * (b.updated - g[i])

\* The requests let through have been earned again at time t.
Lapsed(g, t) ==
    \A i \in DOMAIN g : g[i] <= t /\ (Len(g) - i + 1) * Unit <= Rate * (t - g[i])

\* Tokens are only left when the bucket was updated by a request let through:
\* one that comes with an earlier time is let through at that time.
Spent(b, g) == b.tokens >= Unit => g # <<>> /\ g[Len(g)] = b.updated

\* At the promised time the bucket holds a token.
Waits(b, p) == b.tokens + Rate * (p - b.updated) >= Unit

Held(b, g, p) ==
    /\ b \in BucketType /\ b.tokens <= Cap
    /\ b.updated <= now /\ b.updated <= b.seen + LockDelay
    /\ Fits(b, g) /\ Spent(b, g) /\ Waits(b, p)

ClientInv(c) ==
    /\ Contract(grants[c])
    /\ c \in DOMAIN bucket => Held(bucket[c], grants[c], promise[c])
    /\ c \notin DOMAIN bucket /\ RefillsWithinTTL => Lapsed(grants[c], now - LockDelay)

\* The inductive invariant of the limiter.
RateInv ==
    /\ grants \in [Clients -> Seq(Nat)]
    /\ promise \in [Clients -> Int]
    /\ DOMAIN bucket \subseteq Clients
    /\ \A c \in Clients : ClientInv(c)
    /\ \A r \in made : /\ req[r].at <= now /\ req[r].late = FALSE
                       /\ req[r].pc = "limit" => now <= req[r].at + LockDelay

LEMMA Scaled == \A k \in Nat : \A x, y \in Int : x <= y => k * x <= k * y
<1> SUFFICES ASSUME NEW k \in Nat, NEW x \in Int, NEW y \in Int, x <= y
             PROVE  k * x <= k * y
    OBVIOUS
<1> DEFINE d == y - x
<1>1. d \in Nat /\ y = x + d
    OBVIOUS
<1>2. k * d \in Nat
    BY <1>1
<1>3. k * (x + d) = k * x + k * d
    OBVIOUS
<1> QED  BY <1>1, <1>2, <1>3

LEMMA Spread == \A k, x, y, z \in Int : k * (x - y) + k * (z - x) = k * (z - y)
OBVIOUS

LEMMA OneMore == \A n, u \in Int : (n + 1) * u = n * u + u
OBVIOUS

LEMMA ProductInt == \A x, y \in Int : x * y \in Int
OBVIOUS

LEMMA CapHolds == /\ Cap \in Nat /\ Unit \in Nat /\ Unit > 0 /\ Rate \in Nat /\ Rate > 0
                  /\ Unit <= Cap /\ ClientTTL \in Nat /\ LockDelay \in Nat
<1>1. \A x, y \in Nat \ {0} : x * y >= y /\ x * y \in Nat
    OBVIOUS
<1> QED  BY <1>1, GatewayAssumption DEF Cap

LEMMA MinPair == \A a, b \in Int : Min({a, b}) = IF a <= b THEN a ELSE b
<1> SUFFICES ASSUME NEW a \in Int, NEW b \in Int
             PROVE  Min({a, b}) = IF a <= b THEN a ELSE b
    OBVIOUS
<1> DEFINE m == IF a <= b THEN a ELSE b
<1>1. m \in {a, b} /\ \A y \in {a, b} : m <= y
    OBVIOUS
<1>2. \A x \in {a, b} : (\A y \in {a, b} : x <= y) => x = m
    OBVIOUS
<1> HIDE DEF m
<1>3. (CHOOSE x \in {a, b} : \A y \in {a, b} : x <= y) = m
    BY <1>1, <1>2
<1> QED  BY <1>3 DEF Min, m

LEMMA MaxPair == \A a, b \in Int : Max({a, b}) = IF a >= b THEN a ELSE b
<1> SUFFICES ASSUME NEW a \in Int, NEW b \in Int
             PROVE  Max({a, b}) = IF a >= b THEN a ELSE b
    OBVIOUS
<1> DEFINE m == IF a >= b THEN a ELSE b
<1>1. m \in {a, b} /\ \A y \in {a, b} : m >= y
    OBVIOUS
<1>2. \A x \in {a, b} : (\A y \in {a, b} : x >= y) => x = m
    OBVIOUS
<1> HIDE DEF m
<1>3. (CHOOSE x \in {a, b} : \A y \in {a, b} : x >= y) = m
    BY <1>1, <1>2
<1> QED  BY <1>3 DEF Max, m

\* A refill adds what the time since the last one has earned, up to the burst,
\* and nothing for an earlier time.
RefillOf(b, t, d) ==
    /\ d \in BucketType /\ d.tokens <= Cap /\ d.seen = t
    /\ d.updated >= t /\ d.updated >= b.updated /\ d.updated \in {t, b.updated}
    /\ d.tokens >= b.tokens
    /\ d.tokens <= b.tokens + Rate * (d.updated - b.updated)
    /\ d.tokens = Cap \/ d.tokens = b.tokens + Rate * (d.updated - b.updated)
    /\ d.updated > t => d.tokens = b.tokens

LEMMA Refilled ==
    ASSUME NEW b \in BucketType, b.tokens <= Cap, NEW t \in Nat
    PROVE  RefillOf(b, t, Refill(b, t))
<1> SUFFICES ASSUME NEW d, d = Refill(b, t)  PROVE RefillOf(b, t, d)
    OBVIOUS
<1>1. b.tokens \in Nat /\ b.updated \in Nat /\ b.seen \in Nat
    BY DEF BucketType
<1>2. CASE t > b.updated
  <2> DEFINE n == b.tokens + (t - b.updated) * Rate
  <2>1. (t - b.updated) * Rate \in Nat /\ (t - b.updated) * Rate = Rate * (t - b.updated)
      BY <1>1, <1>2, CapHolds
  <2>2. n \in Nat /\ n >= b.tokens /\ n = b.tokens + Rate * (t - b.updated)
      BY <1>1, <2>1
  <2>3. d = [tokens |-> Min({Cap, n}), updated |-> t, seen |-> t]
      BY <1>2 DEF Refill, Cap
  <2> HIDE DEF n
  <2>4. Min({Cap, n}) = IF Cap <= n THEN Cap ELSE n
      BY <2>2, CapHolds, MinPair
  <2>5. d.tokens = (IF Cap <= n THEN Cap ELSE n) /\ d.updated = t /\ d.seen = t
      BY <2>3, <2>4
  <2>6. d \in BucketType
      BY <2>2, <2>3, <2>4, CapHolds DEF BucketType
  <2> QED  BY <1>1, <1>2, <2>2, <2>5, <2>6, CapHolds DEF RefillOf
<1>3. CASE ~(t > b.updated)
  <2>1. d = [b EXCEPT !.seen = t]
      BY <1>3 DEF Refill
  <2>2. d \in BucketType /\ d.tokens = b.tokens /\ d.updated = b.updated /\ d.seen = t
      BY <2>1 DEF BucketType
  <2>3. Rate * (d.updated - b.updated) = 0
      BY <1>1, <2>2, CapHolds
  <2> QED  BY <1>1, <1>3, <2>2, <2>3 DEF RefillOf
<1> QED  BY <1>2, <1>3

\* The same in numbers: tokens v, w at times u, t, and n since time x.
LEMMA RefillArith ==
    \A v, w, u, t, x, n, cap, k \in Int :
        v + n <= cap + k * (u - x) /\ w <= v + k * (t - u) => w + n <= cap + k * (t - x)
<1> SUFFICES ASSUME NEW v \in Int, NEW w \in Int, NEW u \in Int, NEW t \in Int, NEW x \in Int,
                    NEW n \in Int, NEW cap \in Int, NEW k \in Int,
                    v + n <= cap + k * (u - x), w <= v + k * (t - u)
             PROVE  w + n <= cap + k * (t - x)
    OBVIOUS
<1>1. k * (u - x) + k * (t - u) = k * (t - x)
    BY Spread
<1> QED  BY <1>1

LEMMA RefillFits ==
    ASSUME NEW b \in BucketType, NEW d \in BucketType, NEW g \in Seq(Nat), Fits(b, g),
           d.updated >= b.updated, d.tokens <= b.tokens + Rate * (d.updated - b.updated)
    PROVE  Fits(d, g)
<1> SUFFICES ASSUME NEW i \in DOMAIN g
             PROVE  /\ g[i] <= d.updated
                    /\ d.tokens + (Len(g) - i + 1) * Unit <= Cap + Rate * (d.updated - g[i])
    BY DEF Fits
<1>1. /\ g[i] \in Int /\ b.tokens \in Int /\ b.updated \in Int /\ d.tokens \in Int
      /\ d.updated \in Int /\ Rate \in Int /\ Cap \in Int
    BY CapHolds DEF BucketType
<1>2. (Len(g) - i + 1) * Unit \in Int
  <2>1. Len(g) - i + 1 \in Int /\ Unit \in Int
      BY CapHolds
  <2> QED  BY <2>1, ProductInt, Zenon
<1>3. /\ g[i] <= b.updated
      /\ b.tokens + (Len(g) - i + 1) * Unit <= Cap + Rate * (b.updated - g[i])
    BY Zenon DEF Fits
<1>4. g[i] <= d.updated
    BY <1>1, <1>3
<1>5. d.tokens + (Len(g) - i + 1) * Unit <= Cap + Rate * (d.updated - g[i])
    BY <1>1, <1>2, <1>3, RefillArith, Zenon
<1> QED  BY <1>4, <1>5

\* A request that is let through at the time of the bucket takes a token.
LEMMA GrantFits ==
    ASSUME NEW b \in BucketType, b.tokens <= Cap, NEW g \in Seq(Nat), Fits(b, g), Contract(g),
           NEW d \in BucketType, d.tokens = b.tokens - Unit, d.updated = b.updated,
           NEW h, h = Append(g, b.updated)
    PROVE  h \in Seq(Nat) /\ Fits(d, h) /\ Contract(h) /\ Spent(d, h)
<1>1. /\ b.tokens \in Int /\ b.updated \in Nat /\ d.tokens \in Nat /\ d.updated \in Nat
      /\ Rate \in Int /\ Cap \in Int /\ Unit \in Int /\ Len(g) \in Nat
    BY CapHolds DEF BucketType
<1>2. /\ h \in Seq(Nat) /\ Len(h) = Len(g) + 1 /\ h[Len(h)] = b.updated
      /\ \A i \in DOMAIN g : h[i] = g[i]
      /\ \A i \in DOMAIN h : i \in DOMAIN g \/ i = Len(h)
      /\ Len(h) \in DOMAIN h
    BY <1>1
<1>3. ASSUME NEW i \in DOMAIN h
      PROVE  /\ h[i] <= d.updated
             /\ d.tokens + (Len(h) - i + 1) * Unit <= Cap + Rate * (d.updated - h[i])
  <2>1. CASE i \in DOMAIN g
    <3>1. /\ g[i] <= b.updated /\ g[i] \in Int /\ h[i] = g[i] /\ Len(g) - i + 1 \in Int
          /\ b.tokens + (Len(g) - i + 1) * Unit <= Cap + Rate * (b.updated - g[i])
        BY <1>2, <2>1 DEF Fits
    <3>2. /\ (Len(g) - i + 1 + 1) * Unit = (Len(g) - i + 1) * Unit + Unit
          /\ (Len(g) - i + 1) * Unit \in Int
        BY <1>1, <3>1, OneMore, ProductInt, Zenon
    <3>3. Len(h) - i + 1 = Len(g) - i + 1 + 1
        BY <1>1, <1>2, <2>1
    <3>4. d.tokens + (Len(h) - i + 1) * Unit = b.tokens + (Len(g) - i + 1) * Unit
      <4> DEFINE m == (Len(g) - i + 1) * Unit
      <4>1. (Len(h) - i + 1) * Unit = m + Unit /\ m \in Int
          BY <3>2, <3>3
      <4> HIDE DEF m
      <4>2. d.tokens + (m + Unit) = b.tokens + m
          BY <1>1, <4>1
      <4> QED  BY <4>1, <4>2 DEF m
    <3> QED  BY <1>1, <3>1, <3>4
  <2>2. CASE i = Len(h)
    <3>1. (Len(h) - i + 1) * Unit = Unit /\ Rate * (d.updated - h[i]) = 0
        BY <1>1, <1>2, <2>2
    <3> QED  BY <1>1, <1>2, <2>2, <3>1
  <2> QED  BY <1>2, <1>3, <2>1, <2>2
<1>4. ASSUME NEW i \in DOMAIN h, NEW j \in DOMAIN h, i <= j
      PROVE  (j - i + 1) * Unit <= Cap + Rate * (h[j] - h[i])
  <2>1. CASE j \in DOMAIN g
    <3>1. i \in DOMAIN g
        BY <1>1, <1>2, <1>4, <2>1
    <3> QED  BY <1>2, <1>4, <2>1, <3>1 DEF Contract
  <2>2. CASE j = Len(h)
    <3>1. d.tokens + (j - i + 1) * Unit <= Cap + Rate * (h[j] - h[i])
        BY <1>2, <1>3, <2>2
    <3>2. (j - i + 1) * Unit \in Int /\ Rate * (h[j] - h[i]) \in Int
      <4>1. j - i + 1 \in Int /\ h[j] - h[i] \in Int
          BY <1>2, <1>4
      <4> QED  BY <1>1, <4>1, ProductInt, Zenon
    <3>3. \A x \in Nat : \A m, y \in Int : x + m <= y => m <= y
        OBVIOUS
    <3>4. Cap + Rate * (h[j] - h[i]) \in Int
        BY <1>1, <3>2
    <3> QED  BY <1>1, <3>1, <3>2, <3>3, <3>4, Zenon
  <2> QED  BY <1>2, <1>4, <2>1, <2>2
<1>5. Spent(d, h)
    BY <1>1, <1>2 DEF Spent
<1> QED  BY <1>2, <1>3, <1>4, <1>5 DEF Fits, Contract

\* What has been earned stays so, and a new bucket is as good as an old one.
LEMMA LapsedLater ==
    ASSUME NEW g \in Seq(Nat), NEW u \in Int, NEW t \in Int, u <= t, Lapsed(g, u)
    PROVE  Lapsed(g, t)
<1> SUFFICES ASSUME NEW i \in DOMAIN g
             PROVE  g[i] <= t /\ (Len(g) - i + 1) * Unit <= Rate * (t - g[i])
    BY DEF Lapsed
<1>1. g[i] \in Int /\ Len(g) - i + 1 \in Int /\ Unit \in Int /\ Rate \in Nat
    BY CapHolds
<1>2. g[i] <= u /\ (Len(g) - i + 1) * Unit <= Rate * (u - g[i])
    BY DEF Lapsed
<1>3. (Len(g) - i + 1) * Unit \in Int
    BY <1>1, ProductInt, Zenon
<1>4. \A m, x \in Int : \A k \in Nat : m <= k * (u - x) => m <= k * (t - x)
  <2> SUFFICES ASSUME NEW m \in Int, NEW x \in Int, NEW k \in Nat, m <= k * (u - x)
               PROVE  m <= k * (t - x)
      OBVIOUS
  <2>1. k * (u - x) <= k * (t - x)
      BY Scaled
  <2> QED  BY <2>1
<1>5. (Len(g) - i + 1) * Unit <= Rate * (t - g[i])
    BY <1>1, <1>2, <1>3, <1>4, Zenon
<1> QED  BY <1>1, <1>2, <1>5

LEMMA FullFits ==
    ASSUME NEW g \in Seq(Nat), NEW t \in Nat, Lapsed(g, t)
    PROVE  Fits(FullBucket(t), g)
<1> SUFFICES ASSUME NEW i \in DOMAIN g
             PROVE  g[i] <= t /\ Cap + (Len(g) - i + 1) * Unit <= Cap + Rate * (t - g[i])
    BY DEF Fits, FullBucket, Cap
<1>1. g[i] \in Int /\ Len(g) - i + 1 \in Int /\ Unit \in Int /\ Rate \in Int /\ Cap \in Int
    BY CapHolds
<1>2. g[i] <= t /\ (Len(g) - i + 1) * Unit <= Rate * (t - g[i])
    BY DEF Lapsed
<1>3. (Len(g) - i + 1) * Unit \in Int /\ Rate * (t - g[i]) \in Int
  <2>1. t - g[i] \in Int
      BY <1>1
  <2> QED  BY <1>1, <2>1, ProductInt, Zenon
<1>4. \A x, y, z \in Int : x <= y => z + x <= z + y
    OBVIOUS
<1> QED  BY <1>1, <1>2, <1>3, <1>4, Zenon

\* A client that is forgotten would have had a full bucket long before the
\* request that finds it forgotten, late as its own last time may have been.
LEMMA ForgottenLapsed ==
    ASSUME RefillsWithinTTL,
           NEW b \in BucketType, NEW g \in Seq(Nat), Fits(b, g), b.updated <= b.seen + LockDelay,
           NEW t \in Nat, t - b.seen >= ClientTTL, now \in Nat, t <= now
    PROVE  Lapsed(g, now - LockDelay)
<1> SUFFICES ASSUME NEW i \in DOMAIN g
             PROVE  /\ g[i] <= now - LockDelay
                    /\ (Len(g) - i + 1) * Unit <= Rate * (now - LockDelay - g[i])
    BY DEF Lapsed
<1> DEFINE spare == ClientTTL - 2 * LockDelay
           m == (Len(g) - i + 1) * Unit
<1>1. /\ g[i] \in Int /\ Len(g) - i + 1 \in Int /\ Unit \in Int /\ Rate \in Nat /\ Rate > 0
      /\ Cap \in Nat /\ Cap > 0 /\ LockDelay \in Nat /\ ClientTTL \in Nat
      /\ b.tokens \in Nat /\ b.updated \in Int /\ b.seen \in Int
    BY CapHolds DEF BucketType
<1>2. spare \in Int /\ Cap <= Rate * spare
    BY <1>1, GatewayAssumption DEF Cap, RefillsWithinTTL
<1>3. m \in Int
    BY <1>1, ProductInt, Zenon
<1>4. g[i] <= b.updated /\ b.tokens + m <= Cap + Rate * (b.updated - g[i])
    BY Zenon DEF Fits
<1>5. b.updated + spare <= now - LockDelay
  <2>1. \A x, y, z, l, c, u \in Int :
            u <= x + l /\ y - x >= c /\ y <= z => u + (c - 2 * l) <= z - l
      OBVIOUS
  <2>2. /\ b.updated \in Int /\ b.seen \in Int /\ t \in Int /\ now \in Int
        /\ LockDelay \in Int /\ ClientTTL \in Int
      BY <1>1
  <2> QED  BY <2>1, <2>2, Zenon
<1> HIDE DEF spare, m
<1>6. spare >= 0
  <2>1. \A x \in Int : x <= 0 => Rate * x <= 0
    <3>1. Rate * 0 = 0 /\ 0 \in Int
        BY <1>1
    <3>2. \A x \in Int : x <= 0 => Rate * x <= Rate * 0
        BY <1>1, <3>1, Scaled, Zenon
    <3> QED  BY <3>1, <3>2
  <2>2. Rate * spare \in Int
      BY <1>1, <1>2
  <2>3. ASSUME spare <= 0 PROVE FALSE
    <3>1. Rate * spare <= 0
        BY <1>2, <2>1, <2>3, Zenon
    <3>2. \A x, y \in Int : x > 0 /\ x <= y /\ y <= 0 => FALSE
        OBVIOUS
    <3>3. Cap \in Int /\ Cap > 0
        BY <1>1
    <3> QED  BY <1>2, <2>2, <3>1, <3>2, <3>3, Zenon
  <2> QED  BY <1>2, <2>3
<1>7. \A x, y, z, v, u, cap, n \in Int : \A k \in Nat :
        /\ v >= 0 /\ v + n <= cap + k * (u - x) /\ cap <= k * y /\ u + y <= z
        => n <= k * (z - x)
  <2> SUFFICES ASSUME NEW x \in Int, NEW y \in Int, NEW z \in Int, NEW v \in Int, NEW u \in Int,
                      NEW cap \in Int, NEW n \in Int, NEW k \in Nat, v >= 0,
                      v + n <= cap + k * (u - x), cap <= k * y, u + y <= z
               PROVE  n <= k * (z - x)
      OBVIOUS
  <2>1. k * (u - x) + k * y = k * (u - x + y)
      OBVIOUS
  <2>2. k * (u - x + y) <= k * (z - x)
      BY Scaled
  <2> QED  BY <2>1, <2>2
<1>8. now - LockDelay \in Int
    BY <1>1
<1>9. m <= Rate * (now - LockDelay - g[i])
  <2>1. b.tokens \in Int /\ b.tokens >= 0 /\ Cap \in Int
      BY <1>1
  <2> QED  BY <1>1, <1>2, <1>3, <1>4, <1>5, <1>7, <1>8, <2>1, Zenon
<1>10. g[i] <= now - LockDelay
    BY <1>1, <1>2, <1>4, <1>5, <1>6
<1> QED  BY <1>9, <1>10 DEF m

\* The bucket that a request of client c finds, fits what was let through, and
\* the time it had promised holds unless it is full.
Found(b, g, p, t) ==
    /\ b \in BucketType /\ b.tokens <= Cap /\ b.updated <= now /\ Fits(b, g)
    /\ b.updated > t => Spent(b, g)
    /\ b.tokens < Unit => Waits(b, p)

LEMMA NeverHolds ==
    ASSUME StateTyped
    PROVE  /\ Never \in Int
           /\ \A b \in BucketType : b.updated <= now => Waits(b, Never)
<1>1. /\ MaxTime(made) \in Int /\ now \in Int /\ now <= MaxTime(made) /\ Never = MaxTime(made) + Cap + 1
      /\ Cap \in Nat /\ Unit <= Cap /\ Unit \in Nat /\ Rate \in Nat /\ Rate > 0
    BY CapHolds, ScenarioAssumption DEF StateTyped, Never, Cap
<1>2. Never \in Int
    BY <1>1
<1>3. ASSUME NEW b \in BucketType, b.updated <= now  PROVE Waits(b, Never)
  <2>1. b.tokens \in Nat /\ b.updated \in Int
      BY DEF BucketType
  <2>2. Never - b.updated \in Nat /\ Never - b.updated >= Unit
      BY <1>1, <1>3, <2>1
  <2>3. \A k, x \in Nat : k > 0 => k * x >= x /\ k * x \in Nat
      OBVIOUS
  <2>4. Rate * (Never - b.updated) >= Never - b.updated /\ Rate * (Never - b.updated) \in Nat
      BY <1>1, <2>2, <2>3
  <2>5. \A x, y, z \in Nat : y >= x /\ x >= Unit => z + y >= Unit
      BY <1>1
  <2> QED  BY <2>1, <2>2, <2>4, <2>5, Zenon DEF Waits
<1> QED  BY <1>2, <1>3

\* A client that waits for Retry-After finds a token.
LEMMA RetryWaits ==
    ASSUME NEW b \in BucketType, now \in Nat, b.updated <= now
    PROVE  /\ RetryAfter(b) \in Int
           /\ Waits(b, now + RetryAfter(b))
<1> DEFINE q == (Unit - b.tokens + Rate - 1) \div Rate
           w == RetryAfter(b)
<1>1. b.tokens \in Nat /\ b.updated \in Nat /\ Rate \in Nat /\ Rate > 0 /\ Unit \in Nat
    BY CapHolds DEF BucketType
<1>2. \A x \in Int, k \in Nat \ {0} : (x + k - 1) \div k \in Int /\ k * ((x + k - 1) \div k) >= x
    OBVIOUS
<1>3. q \in Int /\ Rate * q >= Unit - b.tokens
  <2>1. Unit - b.tokens \in Int /\ Rate \in Nat \ {0}
      BY <1>1
  <2> QED  BY <1>2, <2>1, Zenon
<1>4. w = Max({1, q})
    BY DEF RetryAfter
<1> HIDE DEF q, w
<1>5. w \in Int /\ w >= q
    BY <1>3, <1>4, MaxPair
<1>6. q <= (now + w) - b.updated
    BY <1>1, <1>3, <1>5
<1>7. Rate * q <= Rate * ((now + w) - b.updated)
  <2>1. (now + w) - b.updated \in Int
      BY <1>1, <1>5
  <2> QED  BY <1>1, <1>3, <1>6, <2>1, Scaled, Zenon
<1>8. Rate * q \in Int /\ Rate * ((now + w) - b.updated) \in Int
  <2>1. (now + w) - b.updated \in Int /\ Rate \in Int
      BY <1>1, <1>5
  <2> QED  BY <1>3, <2>1, ProductInt, Zenon
<1>9. \A x, y, u, v \in Int : x >= u - v /\ x <= y => v + y >= u
    OBVIOUS
<1>10. Unit \in Int /\ b.tokens \in Int
    BY <1>1
<1>11. b.tokens + Rate * ((now + w) - b.updated) >= Unit
    BY <1>3, <1>7, <1>8, <1>9, <1>10, Zenon
<1>12. Waits(b, now + w)
    BY <1>11, Zenon DEF Waits
<1> QED  BY <1>5, <1>12 DEF w

\* Refilled with time t, the bucket is as good as before; when it lacks a token
\* the promised time has not come.
LEMMA RefillKeeps ==
    ASSUME now \in Nat, NEW t \in Nat, t <= now, NEW g \in Seq(Nat), NEW p \in Int,
           NEW b, Found(b, g, p, t), NEW d, d = Refill(b, t)
    PROVE  /\ d \in BucketType /\ d.tokens <= Cap /\ d.seen = t
           /\ t <= d.updated /\ d.updated <= now /\ Fits(d, g)
           /\ d.updated > t => Spent(d, g)
           /\ d.tokens < Unit => Waits(d, p) /\ t < p
<1>1. /\ b \in BucketType /\ b.tokens <= Cap /\ b.updated <= now /\ Fits(b, g)
      /\ b.tokens \in Nat /\ b.updated \in Nat
    BY DEF Found, BucketType
<1>2. /\ d \in BucketType /\ d.tokens <= Cap /\ d.seen = t
      /\ d.updated >= t /\ d.updated >= b.updated /\ d.updated \in {t, b.updated}
      /\ d.tokens >= b.tokens
      /\ d.tokens <= b.tokens + Rate * (d.updated - b.updated)
      /\ d.tokens = Cap \/ d.tokens = b.tokens + Rate * (d.updated - b.updated)
      /\ d.updated > t => d.tokens = b.tokens
  <2>1. RefillOf(b, t, d)
      BY <1>1, Refilled
  <2> QED  BY <2>1 DEF RefillOf
<1>3. Fits(d, g)
    BY <1>1, <1>2, RefillFits
<1>4. d.tokens \in Nat /\ d.updated \in Nat
    BY <1>2 DEF BucketType
<1>5. ASSUME d.updated > t  PROVE Spent(d, g)
  <2>1. d.updated = b.updated /\ d.tokens = b.tokens /\ b.updated > t
      BY <1>1, <1>2, <1>4, <1>5
  <2> QED  BY <2>1 DEF Found, Spent
<1>6. ASSUME d.tokens < Unit  PROVE Waits(d, p) /\ t < p
  <2>1. b.tokens < Unit /\ d.tokens # Cap
      BY <1>1, <1>2, <1>4, <1>6, CapHolds
  <2>2. b.tokens + Rate * (p - b.updated) >= Unit
      BY <2>1 DEF Found, Waits
  <2>3. d.tokens = b.tokens + Rate * (d.updated - b.updated)
      BY <1>2, <2>1
  <2>4. \A v, w, u, s, x, n, k \in Int :
            w = v + k * (s - u) /\ v + k * (x - u) >= n => w + k * (x - s) >= n
    <3> SUFFICES ASSUME NEW v \in Int, NEW w \in Int, NEW u \in Int, NEW s \in Int, NEW x \in Int,
                        NEW n \in Int, NEW k \in Int, w = v + k * (s - u), v + k * (x - u) >= n
                 PROVE  w + k * (x - s) >= n
        OBVIOUS
    <3>1. k * (s - u) + k * (x - s) = k * (x - u)
        BY Spread
    <3> QED  BY <3>1
  <2>5. /\ b.tokens \in Int /\ d.tokens \in Int /\ b.updated \in Int /\ d.updated \in Int
        /\ Unit \in Int /\ Rate \in Int
      BY <1>1, <1>4, CapHolds
  <2>6. d.tokens + Rate * (p - d.updated) >= Unit
      BY <2>2, <2>3, <2>4, <2>5, Zenon
  <2>7. \A w, x, s, n \in Int : \A k \in Nat : w + k * (x - s) >= n /\ w < n => s < x
    <3> SUFFICES ASSUME NEW w \in Int, NEW x \in Int, NEW s \in Int, NEW n \in Int, NEW k \in Nat,
                        w + k * (x - s) >= n, w < n, x <= s
                 PROVE  FALSE
        OBVIOUS
    <3>1. k * (x - s) <= k * 0 /\ k * 0 = 0
        BY Scaled
    <3> QED  BY <3>1
  <2>8. Rate \in Nat
      BY CapHolds
  <2>9. d.updated < p
      BY <1>6, <2>5, <2>6, <2>7, <2>8, Zenon
  <2> QED  BY <1>2, <1>4, <2>6, <2>9 DEF Waits
<1> QED  BY <1>1, <1>2, <1>3, <1>4, <1>5, <1>6

\* The step of one client leaves the others alone, but for those it forgets.
LEMMA AllowAssembled ==
    ASSUME RateInv, UNCHANGED <<made, now>>, NEW c \in Clients, NEW kept, NEW left,
           DOMAIN kept \subseteq DOMAIN bucket,
           \A x \in DOMAIN kept : kept[x] = bucket[x],
           \A x \in Clients \ DOMAIN kept : RefillsWithinTTL => Lapsed(grants[x], now - LockDelay),
           bucket' = [x \in DOMAIN kept \cup {c} |-> IF x = c THEN left ELSE kept[x]],
           grants' \in [Clients -> Seq(Nat)], promise' \in [Clients -> Int],
           \A x \in Clients \ {c} : grants'[x] = grants[x] /\ promise'[x] = promise[x],
           Held(left, grants'[c], promise'[c]), Contract(grants'[c]),
           \A q \in made : /\ req'[q].at <= now /\ req'[q].late = FALSE
                           /\ req'[q].pc = "limit" => now <= req'[q].at + LockDelay
    PROVE  RateInv'
<1>1. Clients' = Clients
    BY DEF Clients
<1>2. DOMAIN bucket' = DOMAIN kept \cup {c} /\ DOMAIN bucket' \subseteq Clients
    BY DEF RateInv
<1>3. ClientInv(c)'
  <2>1. c \in DOMAIN bucket' /\ bucket'[c] = left
      BY <1>2
  <2>2. Held(bucket[c], grants[c], promise[c])'
      BY <2>1 DEF Held
  <2> QED  BY <2>1, <2>2 DEF ClientInv
<1>4. ASSUME NEW x \in Clients \ {c}  PROVE ClientInv(x)'
  <2>1. ClientInv(x) /\ grants'[x] = grants[x] /\ promise'[x] = promise[x]
      BY DEF RateInv
  <2>2. CASE x \in DOMAIN kept
    <3>1. x \in DOMAIN bucket' /\ x \in DOMAIN bucket /\ bucket'[x] = bucket[x]
        BY <1>2, <1>4, <2>2
    <3> QED  BY <2>1, <3>1 DEF ClientInv, Held
  <2>3. CASE x \notin DOMAIN kept
    <3>1. x \notin DOMAIN bucket' /\ (RefillsWithinTTL => Lapsed(grants[x], now - LockDelay))
        BY <1>2, <1>4, <2>3
    <3> QED  BY <2>1, <3>1 DEF ClientInv
  <2> QED  BY <2>2, <2>3
<1> QED  BY <1>1, <1>2, <1>3, <1>4 DEF RateInv

\* The cleanup forgets whom it has not seen for the TTL.
LEMMA Cleaned ==
    ASSUME HttpInv, RateInv, NEW t \in Nat, t <= now, NEW kept, kept = Remembered(t)
    PROVE  /\ DOMAIN kept \subseteq DOMAIN bucket
           /\ \A x \in DOMAIN kept : kept[x] = bucket[x]
           /\ \A x \in Clients \ DOMAIN kept : RefillsWithinTTL => Lapsed(grants[x], now - LockDelay)
<1>1. /\ DOMAIN kept \subseteq DOMAIN bucket
      /\ \A x \in DOMAIN kept : kept[x] = bucket[x]
      /\ \A x \in DOMAIN bucket \ DOMAIN kept : ~(t - bucket[x].seen < ClientTTL)
    BY DEF Remembered
<1>2. now \in Nat
    BY ScenarioAssumption DEF HttpInv, StateTyped
<1>3. ASSUME NEW x \in Clients \ DOMAIN kept, RefillsWithinTTL
      PROVE  Lapsed(grants[x], now - LockDelay)
  <2>1. CASE x \notin DOMAIN bucket
      BY <1>3, <2>1 DEF RateInv, ClientInv
  <2>2. CASE x \in DOMAIN bucket
    <3> DEFINE b == bucket[x]
    <3>1. Held(b, grants[x], promise[x]) /\ grants[x] \in Seq(Nat)
        BY <2>2 DEF RateInv, ClientInv
    <3>2. ~(t - b.seen < ClientTTL)
        BY <1>1, <1>3, <2>2
    <3> HIDE DEF b
    <3>3. b \in BucketType /\ Fits(b, grants[x]) /\ b.updated <= b.seen + LockDelay
        BY <3>1 DEF Held
    <3>4. t - b.seen >= ClientTTL
        BY <3>2, <3>3, CapHolds DEF BucketType
    <3> QED  BY <1>2, <1>3, <3>1, <3>3, <3>4, ForgottenLapsed
  <2> QED  BY <2>1, <2>2
<1> QED  BY <1>1, <1>3

LEMMA AllowKeeps ==
    ASSUME HttpInv, RateInv, UNCHANGED made, NEW r \in made, Allow(r)
    PROVE  RateInv'
<1> DEFINE t == req[r].at
           c == Input(r).client
           p == promise[c]
           kept == Remembered(t)
           g == IF c \in DOMAIN kept \/ RefillsWithinTTL THEN grants[c] ELSE <<>>
           first == IF c \in DOMAIN kept THEN kept[c] ELSE FullBucket(t)
           b == Refill(first, t)
           left == IF b.tokens >= Unit THEN [b EXCEPT !.tokens = @ - Unit] ELSE b
           last == IF g = <<>> THEN 0 ELSE g[Len(g)]
<1>1. /\ req \in [made -> ReqType] /\ req[r].pc = "limit" /\ t \in Nat /\ now \in Nat
      /\ t <= now /\ now <= t + LockDelay /\ c \in Clients /\ g \in Seq(Nat) /\ p \in Int
      /\ \A q \in made : /\ req[q].at <= now /\ req[q].late = FALSE
                         /\ req[q].pc = "limit" => now <= req[q].at + LockDelay
  <2>1. req \in [made -> ReqType] /\ now \in Nat /\ req[r].pc = "limit"
      BY ScenarioAssumption DEF HttpInv, StateTyped, Allow
  <2>2. t \in Nat
      BY <2>1 DEF ReqType
  <2>3. c \in Clients
      BY DEF Clients
  <2> QED  BY <2>1, <2>2, <2>3 DEF RateInv
<1>2. /\ now' = now
      /\ bucket' = [x \in DOMAIN kept \cup {c} |-> IF x = c THEN left ELSE kept[x]]
    BY DEF Allow
<1>3. b.tokens >= Unit =>
        /\ Goto(r, AfterLimit(r))
        /\ grants' = [grants EXCEPT ![c] = Append(g, Max({t, last}))]
        /\ promise' = [promise EXCEPT ![c] = Never]
    BY DEF Allow
<1>4. ~(b.tokens >= Unit) =>
        /\ req' = [req EXCEPT ![r].pc = "written", ![r].status = 429, ![r].late = t >= p]
        /\ promise' = [promise EXCEPT ![c] = Min({@, now + RetryAfter(b)})]
        /\ grants' = [grants EXCEPT ![c] = g]
    BY DEF Allow
<1>5. /\ DOMAIN kept \subseteq DOMAIN bucket
      /\ \A x \in DOMAIN kept : kept[x] = bucket[x]
      /\ \A x \in Clients \ DOMAIN kept : RefillsWithinTTL => Lapsed(grants[x], now - LockDelay)
    BY <1>1, Cleaned
<1>6. Contract(g)
  <2>1. Contract(grants[c])
      BY <1>1 DEF RateInv, ClientInv
  <2>2. Contract(<<>>)
      BY DEF Contract
  <2> QED  BY <2>1, <2>2
<1>7. Found(first, g, p, t)
  <2>1. CASE c \in DOMAIN kept
    <3>1. first = bucket[c] /\ c \in DOMAIN bucket /\ g = grants[c]
        BY <1>5, <2>1
    <3>2. Held(bucket[c], g, p)
        BY <1>1, <3>1 DEF RateInv, ClientInv
    <3> QED  BY <3>1, <3>2 DEF Held, Found
  <2>2. CASE c \notin DOMAIN kept
    <3>1. first = FullBucket(t)
        BY <2>2
    <3>2. Lapsed(g, now - LockDelay)
      <4>1. CASE RefillsWithinTTL
          BY <1>1, <1>5, <2>2, <4>1
      <4>2. CASE ~RefillsWithinTTL
        <5>1. g = <<>>
            BY <2>2, <4>2
        <5> QED  BY <5>1 DEF Lapsed
      <4> QED  BY <4>1, <4>2
    <3>3. now - LockDelay \in Int /\ now - LockDelay <= t
        BY <1>1, CapHolds
    <3> HIDE DEF g
    <3>4. Lapsed(g, t)
        BY <1>1, <3>2, <3>3, LapsedLater
    <3>5. Fits(first, g)
        BY <1>1, <3>1, <3>4, FullFits
    <3>6. first \in BucketType /\ first.tokens = Cap /\ first.updated = t
        BY <1>1, <3>1, CapHolds DEF FullBucket, BucketType, Cap
    <3> HIDE DEF first
    <3> QED  BY <1>1, <3>5, <3>6, CapHolds DEF Found
  <2> QED  BY <2>1, <2>2
<1> HIDE DEF first, g
<1>8. /\ b \in BucketType /\ b.tokens <= Cap /\ b.seen = t
      /\ t <= b.updated /\ b.updated <= now /\ Fits(b, g)
      /\ b.updated > t => Spent(b, g)
      /\ b.tokens < Unit => Waits(b, p) /\ t < p
    BY <1>1, <1>7, RefillKeeps
<1> HIDE DEF b, kept
<1>9. b.tokens \in Nat /\ b.updated \in Nat /\ b.seen \in Nat
    BY <1>8 DEF BucketType
<1>10. b.updated <= t + LockDelay
    BY <1>1, <1>8, <1>9, CapHolds
<1>11. CASE b.tokens >= Unit
  <2>1. left = [b EXCEPT !.tokens = @ - Unit]
      BY <1>11
  <2>2. /\ left \in BucketType /\ left.tokens = b.tokens - Unit
        /\ left.updated = b.updated /\ left.seen = t
      BY <1>8, <1>9, <1>11, <2>1, CapHolds DEF BucketType
  <2>3. last \in Nat /\ last <= b.updated /\ (b.updated > t => last = b.updated)
    <3>1. CASE g = <<>>
      <4>1. ~(b.updated > t)
          BY <1>8, <1>11, <3>1 DEF Spent
      <4> QED  BY <1>9, <3>1, <4>1
    <3>2. CASE g # <<>>
      <4>1. Len(g) \in DOMAIN g /\ last = g[Len(g)]
          BY <1>1, <3>2
      <4>2. \A i \in DOMAIN g : g[i] <= b.updated
          BY <1>8 DEF Fits
      <4>3. g[Len(g)] \in Nat /\ g[Len(g)] <= b.updated
          BY <1>1, <4>1, <4>2
      <4> QED  BY <1>8, <1>11, <4>1, <4>3 DEF Spent
    <3> QED  BY <3>1, <3>2
  <2> HIDE DEF last, left
  <2>4. Max({t, last}) = b.updated
    <3>1. Max({t, last}) = IF t >= last THEN t ELSE last
        BY <1>1, <2>3, MaxPair
    <3> QED  BY <1>1, <1>8, <1>9, <2>3, <3>1
  <2> DEFINE h == Append(g, b.updated)
  <2>5. h \in Seq(Nat) /\ Fits(left, h) /\ Contract(h) /\ Spent(left, h)
      BY <1>1, <1>6, <1>8, <2>2, GrantFits
  <2>6. Never \in Int /\ Waits(left, Never)
      BY <1>8, <2>2, NeverHolds DEF HttpInv
  <2>7. grants' = [grants EXCEPT ![c] = h] /\ promise' = [promise EXCEPT ![c] = Never]
      BY <1>3, <1>11, <2>4
  <2> HIDE DEF h, c
  <2>8. /\ grants' \in [Clients -> Seq(Nat)] /\ promise' \in [Clients -> Int]
        /\ grants'[c] = h /\ promise'[c] = Never
        /\ \A x \in Clients \ {c} : grants'[x] = grants[x] /\ promise'[x] = promise[x]
      BY <1>1, <2>5, <2>6, <2>7 DEF RateInv
  <2>9. Held(left, h, Never)
      BY <1>1, <1>8, <1>9, <1>10, <2>2, <2>5, <2>6, CapHolds DEF Held
  <2>10. \A q \in made : /\ req'[q].at <= now /\ req'[q].late = FALSE
                         /\ req'[q].pc = "limit" => now <= req'[q].at + LockDelay
    <3>1. AfterLimit(r) \in Inside \ {"limit"}
        BY DEF AfterLimit, Inside
    <3>2. /\ Walks(r) /\ req'[r].pc = AfterLimit(r)
          /\ req'[r].at = req[r].at /\ req'[r].late = req[r].late
        BY <1>1, <1>3, <1>11, <3>1, Went
    <3>3. \A q \in made \ {r} : req'[q] = req[q]
        BY <3>2 DEF Walks
    <3>4. req'[r].late = FALSE /\ req'[r].at <= now /\ req'[r].pc # "limit"
        BY <1>1, <3>1, <3>2
    <3> QED  BY <1>1, <3>3, <3>4
  <2> QED  BY <1>1, <1>2, <1>5, <2>5, <2>8, <2>9, <2>10, AllowAssembled
<1>12. CASE ~(b.tokens >= Unit)
  <2>1. left = b /\ b.tokens < Unit
      BY <1>9, <1>12, CapHolds
  <2>2. Waits(b, p) /\ t < p
      BY <1>8, <2>1
  <2>3. (t >= p) = FALSE
      BY <1>1, <2>2
  <2> DEFINE w == RetryAfter(b)
             s == Min({p, now + w})
  <2>4. w \in Int /\ Waits(b, now + w)
      BY <1>1, <1>8, RetryWaits
  <2>5. grants' = [grants EXCEPT ![c] = g] /\ promise' = [promise EXCEPT ![c] = s]
      BY <1>4, <1>12
  <2> HIDE DEF w
  <2>6. s = IF p <= now + w THEN p ELSE now + w
      BY <1>1, <2>4, MinPair
  <2> HIDE DEF s, left, c
  <2>7. s \in Int /\ Waits(b, s)
      BY <1>1, <2>2, <2>4, <2>6
  <2>8. /\ grants' \in [Clients -> Seq(Nat)] /\ promise' \in [Clients -> Int]
        /\ grants'[c] = g /\ promise'[c] = s
        /\ \A x \in Clients \ {c} : grants'[x] = grants[x] /\ promise'[x] = promise[x]
      BY <1>1, <2>5, <2>7 DEF RateInv
  <2>9. Held(left, g, s)
    <3>1. Spent(b, g)
        BY <1>12 DEF Spent
    <3>2. Held(b, g, s)
        BY <1>8, <1>10, <2>7, <3>1 DEF Held
    <3> QED  BY <2>1, <3>2
  <2>10. \A q \in made : /\ req'[q].at <= now /\ req'[q].late = FALSE
                         /\ req'[q].pc = "limit" => now <= req'[q].at + LockDelay
    <3>1. PICK n \in Nat : n = 429
        OBVIOUS
    <3>2. req' = [req EXCEPT ![r].pc = "written", ![r].status = n, ![r].late = FALSE]
        BY <1>4, <1>12, <2>3, <3>1
    <3>3. FALSE \in Flags
        BY DEF Flags
    <3>4. Walks(r) /\ req'[r].pc = "written" /\ req'[r].at = req[r].at /\ req'[r].late = FALSE
        BY <1>1, <3>2, <3>3, RefusedLate
    <3>5. \A q \in made \ {r} : req'[q] = req[q]
        BY <3>4 DEF Walks
    <3> QED  BY <1>1, <3>4, <3>5
  <2> QED  BY <1>1, <1>2, <1>5, <1>6, <2>8, <2>9, <2>10, AllowAssembled
<1> QED  BY <1>11, <1>12

LEMMA NewReqFields == NewReq.at = 0 /\ NewReq.pc = "new" /\ NewReq.late = FALSE
<1>1. NewReq.at = 0 /\ NewReq.pc = "new"
    BY DEF NewReq
<1>2. NewReq.late = FALSE
    BY DEF NewReq
<1> QED  BY <1>1, <1>2

LEMMA InitRate == Init => RateInv
<1> SUFFICES ASSUME Init PROVE RateInv
    OBVIOUS
<1>1. StateTyped
    BY InitHttp DEF HttpInv
<1>2. /\ now = 1 /\ req = [r \in made |-> NewReq] /\ bucket = [c \in {} |-> 0]
      /\ grants = [c \in Clients |-> <<>>] /\ promise = [c \in Clients |-> Never]
    BY DEF Init, GatewayInit
<1>3. \A c \in Clients : ClientInv(c)
  <2> SUFFICES ASSUME NEW c \in Clients PROVE ClientInv(c)
      OBVIOUS
  <2>1. grants[c] = <<>> /\ DOMAIN bucket = {}
      BY <1>2
  <2>2. DOMAIN grants[c] = {}
      BY <2>1
  <2>3. Contract(grants[c]) /\ Lapsed(grants[c], now - LockDelay)
      BY <2>2 DEF Contract, Lapsed
  <2> QED  BY <2>1, <2>3 DEF ClientInv
<1>4. \A r \in made : req[r].at <= now /\ req[r].late = FALSE /\ req[r].pc # "limit"
  <2> SUFFICES ASSUME NEW r \in made
               PROVE  req[r].at <= now /\ req[r].late = FALSE /\ req[r].pc # "limit"
      OBVIOUS
  <2>1. req[r] = NewReq
      BY <1>2
  <2>2. req[r].late = FALSE
      BY <2>1, NewReqFields, Zenon
  <2>3. req[r].at = 0 /\ req[r].pc = "new"
      BY <2>1, NewReqFields, Zenon
  <2> QED  BY <1>2, <2>2, <2>3
<1> QED  BY <1>1, <1>2, <1>3, <1>4, NeverHolds DEF RateInv

\* A step that leaves the limiter and the clock alone.
LEMMA CalmRate ==
    ASSUME RateInv, UNCHANGED <<made, now, bucket, grants, promise>>,
           \A q \in made : /\ req'[q].at <= now /\ req'[q].late = FALSE
                           /\ req'[q].pc = "limit" => now <= req'[q].at + LockDelay
    PROVE  RateInv'
<1>1. Clients' = Clients
    BY DEF Clients
<1>2. \A c \in Clients : ClientInv(c)'
    BY DEF RateInv, ClientInv, Held
<1> QED  BY <1>1, <1>2 DEF RateInv

LEMMA TickRate ==
    ASSUME HttpInv, RateInv, UNCHANGED made, Tick
    PROVE  RateInv'
<1>1. /\ now \in Nat /\ now' = now + 1 /\ LockDelay \in Nat /\ req \in [made -> ReqType]
      /\ UNCHANGED <<req, bucket, grants, promise>>
    BY CapHolds, ScenarioAssumption DEF HttpInv, StateTyped, Tick
<1>2. Clients' = Clients
    BY DEF Clients
<1>3. ASSUME NEW c \in Clients  PROVE ClientInv(c)'
  <2>1. ClientInv(c) /\ grants[c] \in Seq(Nat)
      BY DEF RateInv
  <2>2. now - LockDelay \in Int /\ now' - LockDelay \in Int /\ now - LockDelay <= now' - LockDelay
      BY <1>1
  <2>3. ASSUME c \in DOMAIN bucket  PROVE Held(bucket[c], grants[c], promise[c])'
    <3> DEFINE b == bucket[c]
    <3>1. Held(b, grants[c], promise[c])
        BY <2>1, <2>3 DEF ClientInv
    <3> HIDE DEF b
    <3>2. b \in BucketType /\ b.updated <= now
        BY <3>1 DEF Held
    <3>3. b.updated <= now + 1
        BY <1>1, <3>2 DEF BucketType
    <3>4. bucket'[c] = b /\ grants'[c] = grants[c] /\ promise'[c] = promise[c]
        BY <1>1 DEF b
    <3> QED  BY <1>1, <3>1, <3>3, <3>4 DEF Held
  <2>4. ASSUME c \notin DOMAIN bucket, RefillsWithinTTL  PROVE Lapsed(grants[c], now' - LockDelay)
    <3>1. Lapsed(grants[c], now - LockDelay)
        BY <2>1, <2>4 DEF ClientInv
    <3> QED  BY <2>1, <2>2, <3>1, LapsedLater
  <2> QED  BY <1>1, <2>1, <2>3, <2>4 DEF ClientInv
<1>4. ASSUME NEW q \in made
      PROVE  /\ req'[q].at <= now' /\ req'[q].late = FALSE
             /\ req'[q].pc = "limit" => now' <= req'[q].at + LockDelay
  <2>1. req[q].at \in Nat /\ req[q].at <= now /\ req[q].late = FALSE
      BY <1>1 DEF RateInv, ReqType
  <2>2. req[q].pc = "limit" => now < req[q].at + LockDelay
      BY DEF Tick
  <2> QED  BY <1>1, <2>1, <2>2
<1> QED  BY <1>1, <1>2, <1>3, <1>4 DEF RateInv

-----------------------------------------------------------------------------
(* All steps.                                                               *)

\* The inductive invariant of the counters and the limiter.
GateInv == HttpInv /\ RateInv

\* A request that moves on inside, past the limiter.
LEMMA StayKeeps ==
    ASSUME GateInv, NEW r \in made, Stays(r),
           UNCHANGED <<made, now, bucket, grants, promise, http, pub>>
    PROVE  GateInv'
<1>1. HttpInv'
  <2>1. http' \in HttpType /\ HttpCounted'
      BY StayCounted DEF GateInv, Stays
  <2> QED  BY <2>1 DEF GateInv, HttpInv, StateTyped, Stays, Walks
<1>2. \A q \in made : /\ req'[q].at <= now /\ req'[q].late = FALSE
                      /\ req'[q].pc = "limit" => now <= req'[q].at + LockDelay
    BY DEF GateInv, RateInv, Stays, Walks
<1>3. RateInv'
    BY <1>2, CalmRate DEF GateInv
<1> QED  BY <1>1, <1>3 DEF GateInv

LEMMA NextGate == GateInv /\ [Next]_vars => GateInv'
<1> SUFFICES ASSUME GateInv, [Next]_vars PROVE GateInv'
    OBVIOUS
<1>1. StateTyped /\ HttpInv /\ RateInv /\ now \in Nat /\ req \in [made -> ReqType]
    BY ScenarioAssumption DEF GateInv, HttpInv, StateTyped
<1>2. ASSUME UNCHANGED gatewayVars  PROVE GateInv'
  <2>1. HttpInv'
      BY <1>1, <1>2 DEF HttpInv, StateTyped, HttpCounted, gatewayVars
  <2>2. RateInv'
      BY <1>1, <1>2, CalmRate DEF gatewayVars, RateInv
  <2> QED  BY <2>1, <2>2 DEF GateInv
<1>3. CASE UNCHANGED vars
    BY <1>2, <1>3 DEF vars
<1>4. CASE Next
  <2>1. UNCHANGED made
      BY <1>4 DEF Next
  <2>2. ASSUME NEW r \in made, Arrive(r)  PROVE GateInv'
    <3>1. /\ Walks(r) /\ req[r].pc = "new" /\ req'[r].pc \in Inside
          /\ req'[r].at \in {req[r].at, now} /\ req'[r].late = req[r].late
          /\ req'[r].pc = "limit" => req'[r].at = now
        BY <1>1, <2>2, ArriveEnters
    <3>2. RequestStarted /\ UNCHANGED <<now, bucket, grants, promise, pub>>
        BY <2>2 DEF Arrive
    <3>3. http' \in HttpType /\ HttpCounted'
        BY <1>1, <2>1, <2>2, <3>1, <3>2, EnterCounted
    <3>4. \A q \in made \ {r} : req'[q] = req[q]
        BY <3>1 DEF Walks
    <3>5. /\ req'[r].at <= now /\ req'[r].late = FALSE
          /\ req'[r].pc = "limit" => now <= req'[r].at + LockDelay
        BY <1>1, <2>2, <3>1, CapHolds DEF RateInv
    <3>6. RateInv'
        BY <1>1, <2>1, <3>2, <3>4, <3>5, CalmRate DEF RateInv
    <3> QED  BY <1>1, <2>1, <3>1, <3>2, <3>3, <3>6 DEF GateInv, HttpInv, StateTyped, Walks
  <2>3. ASSUME NEW r \in made, Allow(r)  PROVE GateInv'
    <3>1. promise[Input(r).client] \in Int
        BY <1>1, <2>3 DEF RateInv, Clients
    <3>2. Walks(r) /\ req[r].pc = "limit" /\ req'[r].pc \in Inside \ {"limit"}
        BY <1>1, <2>3, <3>1, AllowWalks
    <3>3. UNCHANGED <<now, http, pub>>
        BY <2>3 DEF Allow
    <3>4. http' \in HttpType /\ HttpCounted'
        BY <1>1, <2>1, <2>3, <3>2, <3>3, StayCounted DEF Inside
    <3>5. RateInv'
        BY <1>1, <2>1, <2>3, AllowKeeps
    <3> QED  BY <1>1, <2>1, <3>2, <3>3, <3>4, <3>5 DEF GateInv, HttpInv, StateTyped, Walks
  <2>4. ASSUME NEW r \in made,
               Authenticate(r) \/ Fetch(r) \/ Install(r) \/ Reread(r) \/ Handle(r) \/ AnswerProbe(r)
        PROVE  GateInv'
    <3>1. Stays(r)
        BY <1>1, <2>4, AuthenticateStays, FetchStays, InstallStays, RereadStays, HandleStays
    <3>2. UNCHANGED <<now, bucket, grants, promise, http, pub>>
        BY <2>4 DEF Authenticate, Fetch, Install, Reread, Handle, AnswerProbe
    <3> QED  BY <2>1, <2>4, <3>1, <3>2, StayKeeps
  <2>5. ASSUME NEW r \in made, Finish(r)  PROVE GateInv'
    <3>1. /\ Walks(r) /\ req[r].pc = "written" /\ req'[r].pc = "done"
          /\ req'[r].status = req[r].status /\ req'[r].at = 0 /\ req'[r].late = req[r].late
        BY <1>1, <2>5, FinishLeaves
    <3>2. RequestFinished(req[r].status) /\ UNCHANGED <<now, bucket, grants, promise, pub>>
        BY <2>5 DEF Finish
    <3>3. http' \in HttpType /\ HttpCounted'
        BY <1>1, <2>1, <2>5, <3>1, <3>2, LeaveCounted
    <3>4. \A q \in made \ {r} : req'[q] = req[q]
        BY <3>1 DEF Walks
    <3>5. req'[r].at <= now /\ req'[r].late = FALSE /\ req'[r].pc # "limit"
        BY <1>1, <2>5, <3>1 DEF RateInv
    <3>6. RateInv'
        BY <1>1, <2>1, <3>2, <3>4, <3>5, CalmRate DEF RateInv
    <3> QED  BY <1>1, <2>1, <3>1, <3>2, <3>3, <3>6 DEF GateInv, HttpInv, StateTyped, Walks
  <2>6. ASSUME NEW p \in Probes, Probe(p)  PROVE GateInv'
      BY <1>2, <2>1, <2>6 DEF Probe, gatewayVars
  <2>7. ASSUME NEW m \in Migrators, Migration(m)  PROVE GateInv'
      BY <1>2, <2>7 DEF Migration
  <2>8. CASE Rotate
    <3>1. pub' = Append(pub, now) /\ UNCHANGED <<now, req, bucket, grants, promise, http>>
        BY <2>8 DEF Rotate
    <3>2. pub' \in Seq(Nat)
        BY <1>1, <3>1 DEF StateTyped
    <3>3. HttpInv'
        BY <1>1, <2>1, <3>1, <3>2 DEF HttpInv, StateTyped, HttpCounted
    <3>4. RateInv'
        BY <1>1, <2>1, <3>1, CalmRate DEF RateInv
    <3> QED  BY <3>3, <3>4 DEF GateInv
  <2>9. CASE Tick
    <3>1. /\ now' = now + 1 /\ now < MaxTime(made)
          /\ UNCHANGED <<req, http, pub>>
        BY <2>9 DEF Tick
    <3>2. now' \in 1..MaxTime(made)
        BY <1>1, <3>1, ScenarioAssumption DEF StateTyped
    <3>3. HttpInv'
        BY <1>1, <2>1, <3>1, <3>2 DEF HttpInv, StateTyped, HttpCounted
    <3>4. RateInv'
        BY <1>1, <2>1, <2>9, TickRate
    <3> QED  BY <3>3, <3>4 DEF GateInv
  <2>10. ASSUME NEW r \in made, RequestStep(r)  PROVE GateInv'
      BY <2>2, <2>3, <2>4, <2>5, <2>10 DEF RequestStep, GatewayStep
  <2>11. ASSUME NEW p \in Probes, AnswerProbe(p)  PROVE GateInv'
      BY <2>4, <2>11 DEF Probes
  <2> QED  BY <1>4, <2>6, <2>7, <2>8, <2>9, <2>10, <2>11 DEF Next
<1> QED  BY <1>3, <1>4

\* The counters, the clock and the limiter agree in every reachable state
\* (internal/observability, internal/server).
THEOREM GateInvariant == Spec => []GateInv
<1>1. Init => GateInv
    BY InitHttp, InitRate DEF GateInv
<1> QED  BY <1>1, NextGate, PTL DEF Spec

\* The limiter keeps its contract (internal/server, allow): never more than the
\* burst and the refill between two requests let through while the client is
\* remembered, and whoever waits for Retry-After is let through, for any rate,
\* burst and TTL, with late times, any cleanup and any number of clients; where
\* RefillsWithinTTL, the same across a client's being forgotten.
THEOREM RateKept == Spec => []RateContract
<1>1. GateInv => RateContract
  <2> SUFFICES ASSUME GateInv PROVE RateContract
      OBVIOUS
  <2>1. \A c \in Clients : Contract(grants[c])
      BY DEF GateInv, RateInv, ClientInv
  <2>2. \A r \in made : ~req[r].late
      BY DEF GateInv, RateInv
  <2> QED  BY <2>1, <2>2 DEF RateContract, Contract, Cap
<1> QED  BY <1>1, GateInvariant, PTL

\* The shape of the state: the counters of the requests are exact, the bucket
\* of a client is never negative nor above the burst, and the advisory lock is
\* held by the migrator that applies files.
THEOREM ServiceTyped == Spec => []TypeOK
<1>1. GateInv /\ ReadinessInv => TypeOK
  <2> SUFFICES ASSUME GateInv, ReadinessInv PROVE TypeOK
      OBVIOUS
  <2>1. HttpCounted /\ now \in 1..MaxTime(made)
      BY DEF GateInv, HttpInv, StateTyped
  <2>2. ReadinessTypeOK
      BY DEF ReadinessInv, Migrated, ReadinessTypeOK
  <2>3. ASSUME NEW c \in DOMAIN bucket  PROVE bucket[c].tokens \in 0..(Burst * Unit)
    <3>1. bucket[c] \in BucketType /\ bucket[c].tokens <= Cap
        BY DEF GateInv, RateInv, ClientInv, Held
    <3>2. bucket[c].tokens \in Nat
        BY <3>1 DEF BucketType
    <3>3. bucket[c].tokens \in 0..Cap
        BY <3>1, <3>2, CapHolds
    <3> QED  BY <3>3 DEF Cap
  <2> QED  BY <2>1, <2>2, <2>3 DEF TypeOK
<1>2. Spec => []ReadinessInv
    BY InitReadiness, NextReadiness, PTL DEF Spec
<1> QED  BY <1>1, <1>2, GateInvariant, PTL
-----------------------------------------------------------------------------
(* The keys of the provider.                                                *)

\* The publications p after the n-th one were made at time t or later.
Since(p, n, t) == \A m \in DOMAIN p : m > n => p[m] >= t

\* A document that was current at time t, or has become so since.
Dated(p, keys, t) == \E n \in DOMAIN p : keys = Publications[n] /\ Since(p, n, t)

\* Another request installed a document at the time of request r or later.
Overwritten(r, keys) == \E s \in made \ {r} : req[s].put >= req[r].at /\ req[s].doc = keys

\* Key k was in a document that could be cached until time t.
Accepted(p, k, t) ==
    \E n \in DOMAIN p : k \in Publications[n] /\ Since(p, n, t - FetchTime - KeyTTL)

\* Why request r was refused for its key.
Explained(r) ==
    \/ \E s \in made \ {r} : req[s].put >= req[r].at /\ Input(r).token.kid \notin req[s].doc
    \/ \E n \in DOMAIN pub : Input(r).token.kid \notin Publications[n] /\ Since(pub, n, req[r].at)

Fetching == {"fetch", "install", "reread"}

KeyReq(r) ==
    /\ req[r].pc \in {"limit", "token"} \cup Fetching => req[r].at >= 1
    /\ req[r].pc \in Fetching => /\ req[r].at <= req[r].start /\ req[r].start <= now
                                 /\ now <= req[r].start + FetchTime
    /\ req[r].put <= now
    /\ req[r].pc \in {"new", "limit", "token", "fetch", "install"} => req[r].put = 0
    /\ req[r].pc = "install" => Dated(pub, req[r].doc, req[r].start)
    /\ req[r].pc = "reread" => /\ cache.expires >= req[r].start + KeyTTL
                               /\ Overwritten(r, cache.keys) \/ Dated(pub, cache.keys, req[r].at)
    /\ req[r].passed # 0 => req[r].passed <= now /\ Accepted(pub, Input(r).token.kid, req[r].passed)
    /\ req[r].why = "key" => req[r].pc \in {"written", "done"}
    /\ req[r].pc = "written" /\ req[r].why = "key" => req[r].at >= 1 /\ Explained(r)

\* The cached document may be used until it expires, and no longer than one
\* fetch and one lifetime after it was replaced.
KeyCache ==
    /\ cache.expires \in Int /\ cache.expires <= now + KeyTTL
    /\ cache.keys = {} \/ Dated(pub, cache.keys, cache.expires - FetchTime - KeyTTL)

\* The inductive invariant of the keys.
KeyInv ==
    /\ GateInv
    /\ pub # <<>> /\ \A m \in DOMAIN pub : pub[m] <= now
    /\ KeyCache
    /\ \A r \in made : KeyReq(r)

\* A non-empty set of numbers has a least, and when it is bounded a greatest one.
LEMMA LeastNatural ==
    ASSUME NEW S, S \subseteq Nat, S # {}
    PROVE  \E n \in S : \A m \in S : n <= m
<1> DEFINE R == OpToRel(<, Nat)
<1>1. IsWellFoundedOn(R, Nat)
    BY NatLessThanWellFounded
<1>2. \A x, y \in Nat : x < y => <<x, y>> \in R
    BY DEF OpToRel
<1> HIDE DEF R
<1>3. PICK x \in S : \A y \in S : ~ (<<y, x>> \in R)
    BY <1>1, WFMin
<1>4. ASSUME NEW y \in S  PROVE x <= y
  <2>1. x \in Nat /\ y \in Nat /\ ~ (<<y, x>> \in R)
      BY <1>3
  <2>2. ~ (y < x)
      BY <1>2, <2>1
  <2> QED  BY <2>1, <2>2
<1> QED  BY <1>4

LEMMA GreatestNatural ==
    ASSUME NEW S, NEW k \in Nat, S \subseteq 0..k, S # {}
    PROVE  \E n \in S : \A m \in S : m <= n
<1> DEFINE T == {k - x : x \in S}
<1>1. T \subseteq Nat
  <2>1. \A x \in S : k - x \in Nat
      OBVIOUS
  <2> QED  BY <2>1
<1>2. T # {}
    OBVIOUS
<1>3. PICK t \in T : \A u \in T : t <= u
  <2> HIDE DEF T
  <2> QED  BY <1>1, <1>2, LeastNatural
<1>4. PICK n \in S : t = k - n
    OBVIOUS
<1>5. ASSUME NEW m \in S  PROVE m <= n
  <2>1. k - m \in T
      OBVIOUS
  <2>2. k - n <= k - m
      BY <1>3, <1>4, <2>1
  <2>3. m \in Nat /\ n \in Nat
      OBVIOUS
  <2> QED  BY <2>2, <2>3
<1> QED  BY <1>5

LEMMA MinIn ==
    ASSUME NEW S, S \subseteq Nat, S # {}
    PROVE  Min(S) \in S
<1>1. \E n \in S : \A m \in S : n <= m
    BY LeastNatural
<1> QED  BY <1>1 DEF Min

LEMMA MaxIn ==
    ASSUME NEW S, NEW k \in Nat, S \subseteq 0..k, S # {}
    PROVE  Max(S) \in S /\ \A m \in S : m <= Max(S)
<1>1. \E n \in S : \A m \in S : n >= m
  <2>1. PICK n \in S : \A m \in S : m <= n
      BY GreatestNatural
  <2>2. \A m \in S : n >= m
      BY <2>1
  <2> QED  BY <2>2
<1>2. Max(S) \in S /\ \A m \in S : Max(S) >= m
    BY <1>1 DEF Max
<1> QED  BY <1>2

\* When a key was retired: it has not been published from then on.
LEMMA RetiredRun ==
    ASSUME KeyInv, NEW k
    PROVE  \/ RetiredAt(k) = Never
           \/ \E x \in DOMAIN pub : /\ RetiredAt(k) = pub[x]
                                    /\ \A m \in x..Len(pub) : k \notin Publications[m]
<1>1. pub \in Seq(Nat)
    BY DEF KeyInv, GateInv, HttpInv, StateTyped
<1>2. CASE ~(Len(pub) > 1 /\ k \notin Published)
    BY <1>2 DEF RetiredAt
<1>3. CASE Len(pub) > 1 /\ k \notin Published
  <2> DEFINE S == {x \in DOMAIN pub : \A m \in x..Len(pub) : k \notin Publications[m]}
  <2>1. RetiredAt(k) = pub[Min(S)]
      BY <1>3 DEF RetiredAt
  <2>2. S \subseteq Nat /\ Len(pub) \in S
      BY <1>1, <1>3 DEF Published
  <2>3. Min(S) \in S
    <3> HIDE DEF S
    <3> QED  BY <2>2, MinIn
  <2> QED  BY <2>1, <2>3
<1> QED  BY <1>2, <1>3

\* A key whose document was replaced at the earliest at time t is not retired
\* before.
LEMMA RetiredLater ==
    ASSUME KeyInv, NEW k
    PROVE  /\ RetiredAt(k) \in Nat
           /\ \A n \in DOMAIN pub : \A t \in Int :
                 k \in Publications[n] /\ t <= now /\ Since(pub, n, t) => RetiredAt(k) >= t
<1>1. /\ pub \in Seq(Nat) /\ now \in Nat /\ now <= MaxTime(made) /\ MaxTime(made) \in Nat
      /\ Never = MaxTime(made) + Cap + 1 /\ Cap \in Nat
    BY NeverHolds, CapHolds, ScenarioAssumption DEF KeyInv, GateInv, HttpInv, StateTyped, Never, Cap
<1>2. CASE RetiredAt(k) = Never
    BY <1>1, <1>2
<1>3. ASSUME NEW x \in DOMAIN pub, RetiredAt(k) = pub[x],
             \A m \in x..Len(pub) : k \notin Publications[m]
      PROVE  /\ RetiredAt(k) \in Nat
             /\ \A n \in DOMAIN pub : \A t \in Int :
                   k \in Publications[n] /\ t <= now /\ Since(pub, n, t) => RetiredAt(k) >= t
  <2>1. pub[x] \in Nat
      BY <1>1, <1>3
  <2>2. ASSUME NEW n \in DOMAIN pub, k \in Publications[n]  PROVE x > n
    <3>1. DOMAIN pub = 1..Len(pub) /\ Len(pub) \in Nat
        BY <1>1
    <3>2. n \in 1..Len(pub) /\ x \in 1..Len(pub)
        BY <1>3, <2>2, <3>1
    <3>3. ~(x <= n)
      <4>1. ASSUME x <= n  PROVE FALSE
        <5>1. n \in x..Len(pub)
            BY <3>1, <3>2, <4>1
        <5> QED  BY <1>3, <2>2, <5>1
      <4> QED  BY <4>1
    <3> QED  BY <3>1, <3>2, <3>3
  <2> QED  BY <1>3, <2>1, <2>2 DEF Since
<1> QED  BY <1>2, <1>3, RetiredRun

\* The last time key k was added: it has been published ever since.
LEMMA KnownRun ==
    ASSUME KeyInv, NEW k, k \in Published
    PROVE  \E x \in DOMAIN pub : /\ KnownSince(k) = pub[x]
                                 /\ \A m \in x..Len(pub) : k \in Publications[m]
<1> DEFINE S == {n \in DOMAIN pub : k \in Publications[n] /\ (n = 1 \/ k \notin Publications[n-1])}
           x == Max(S)
           G == {n \in DOMAIN pub : k \notin Publications[n]}
           len == Len(pub)
<1>1. pub \in Seq(Nat) /\ len \in Nat /\ len >= 1 /\ DOMAIN pub = 1..len
    BY DEF KeyInv, GateInv, HttpInv, StateTyped
<1>2. KnownSince(k) = pub[x]
    BY DEF KnownSince
<1>3. S \subseteq 0..len /\ G \subseteq 0..len
    BY <1>1
<1>4. \A n \in S : n \in DOMAIN pub /\ k \in Publications[n] /\ (n = 1 \/ k \notin Publications[n-1])
    OBVIOUS
<1>5. \A n \in DOMAIN pub : k \in Publications[n] /\ (n = 1 \/ k \notin Publications[n-1]) => n \in S
    OBVIOUS
<1>6. \A n \in DOMAIN pub : n \in G <=> k \notin Publications[n]
    OBVIOUS
<1>7. k \in Publications[len]
    BY DEF Published
<1> HIDE DEF S, len
<1>8. ASSUME G = {}  PROVE 1 \in S /\ \A m \in 1..len : k \in Publications[m]
    BY <1>1, <1>5, <1>6, <1>8
<1>9. ASSUME G # {}
      PROVE  \E g \in G : g + 1 \in S /\ \A m \in (g + 1)..len : k \in Publications[m]
  <2>1. PICK g \in G : \A m \in G : m <= g
    <3> HIDE DEF G
    <3> QED  BY <1>1, <1>3, <1>9, GreatestNatural
  <2>2. g \in 1..len /\ k \notin Publications[g]
      BY <1>1
  <2>3. g # len
      BY <1>7, <2>2
  <2>4. g + 1 \in DOMAIN pub /\ g + 1 - 1 = g /\ g \in Nat
      BY <1>1, <2>2, <2>3
  <2> HIDE DEF G
  <2>5. \A m \in (g + 1)..len : m \in DOMAIN pub /\ ~(m <= g)
      BY <1>1, <2>2
  <2>6. \A m \in (g + 1)..len : k \in Publications[m]
      BY <1>6, <2>1, <2>5
  <2>7. g + 1 \in (g + 1)..len
      BY <1>1, <2>2, <2>3
  <2>8. g + 1 \in S
      BY <1>5, <2>2, <2>4, <2>6, <2>7
  <2> QED  BY <2>6, <2>8
<1> HIDE DEF G
<1>10. PICK y \in S : \A m \in y..len : k \in Publications[m]
    BY <1>8, <1>9
<1>11. x \in S /\ \A m \in S : m <= x
    BY <1>1, <1>3, <1>10, MaxIn
<1>12. x \in DOMAIN pub /\ y \in DOMAIN pub /\ y <= x
    BY <1>4, <1>10, <1>11
<1> HIDE DEF x
<1>13. \A m \in x..len : m \in y..len
    BY <1>1, <1>12
<1>14. \A m \in x..len : k \in Publications[m]
    BY <1>10, <1>13
<1> QED  BY <1>2, <1>12, <1>14 DEF len

LEMMA KeysFollow == KeyInv => KeysFollowProvider
<1> SUFFICES ASSUME KeyInv PROVE KeysFollowProvider
    OBVIOUS
<1>1. /\ pub \in Seq(Nat) /\ now \in Nat /\ req \in [made -> ReqType]
      /\ FetchTime \in Nat /\ KeyTTL \in Nat
    BY ScenarioAssumption, GatewayAssumption DEF KeyInv, GateInv, HttpInv, StateTyped
<1>2. ASSUME NEW r \in made
      PROVE  req[r].passed <= RetiredAt(Input(r).token.kid) + FetchTime + KeyTTL
  <2> DEFINE k == Input(r).token.kid
             t == req[r].passed - FetchTime - KeyTTL
  <2>1. KeyReq(r) /\ req[r].passed \in Nat
      BY <1>1, <1>2 DEF KeyInv, ReqType
  <2>2. CASE req[r].passed = 0
    <3>1. RetiredAt(k) \in Nat
        BY RetiredLater
    <3> QED  BY <1>1, <2>2, <3>1
  <2>3. CASE req[r].passed # 0
    <3>1. req[r].passed <= now /\ Accepted(pub, k, req[r].passed)
        BY <2>1, <2>3 DEF KeyReq
    <3>2. PICK n \in DOMAIN pub : k \in Publications[n] /\ Since(pub, n, t)
        BY <3>1 DEF Accepted
    <3>3. t \in Int /\ t <= now
        BY <1>1, <2>1, <3>1
    <3> HIDE DEF t, k
    <3>4. RetiredAt(k) \in Nat /\ RetiredAt(k) >= t
        BY <3>2, <3>3, RetiredLater
    <3> QED  BY <1>1, <2>1, <3>4 DEF t, k
  <2> QED  BY <2>2, <2>3
<1>3. ASSUME NEW r \in made, req[r].pc = "written", req[r].why = "key",
             Input(r).token.kid \in Published, KnownSince(Input(r).token.kid) < req[r].at
      PROVE  \E s \in made \ {r} : req[s].put >= req[r].at /\ Input(r).token.kid \notin req[s].doc
  <2> DEFINE k == Input(r).token.kid
  <2>1. Explained(r) /\ req[r].at \in Nat
      BY <1>1, <1>3 DEF KeyInv, KeyReq, ReqType
  <2>2. ASSUME NEW n \in DOMAIN pub, k \notin Publications[n], Since(pub, n, req[r].at)
        PROVE  FALSE
    <3>1. PICK x \in DOMAIN pub : /\ KnownSince(k) = pub[x]
                                  /\ \A m \in x..Len(pub) : k \in Publications[m]
        BY <1>3, KnownRun
    <3>2. x > n
        BY <1>1, <2>2, <3>1
    <3>3. pub[x] >= req[r].at /\ pub[x] \in Nat
        BY <1>1, <2>2, <3>1, <3>2 DEF Since
    <3> QED  BY <1>3, <2>1, <3>1, <3>3
  <2> QED  BY <2>1, <2>2 DEF Explained
<1> QED  BY <1>2, <1>3 DEF KeysFollowProvider, RetiredKeyLapses, RefusedOnlyByOverlap

\* What a response, a refusal and a move leave of a request.
SameKeys(r) ==
    /\ Walks(r)
    /\ req'[r].at = req[r].at /\ req'[r].start = req[r].start
    /\ req'[r].doc = req[r].doc /\ req'[r].put = req[r].put

LEMMA RespondedKeys ==
    ASSUME req \in [made -> ReqType], NEW r \in made, NEW status \in Nat, Respond(r, status)
    PROVE  /\ SameKeys(r) /\ req'[r].pc = "written"
           /\ req'[r].why = req[r].why /\ req'[r].passed = req[r].passed
<1>1. Walks(r)
    BY Responded
<1> QED  BY <1>1 DEF Respond, SameKeys, ReqType

LEMMA WentKeys ==
    ASSUME req \in [made -> ReqType], NEW r \in made, NEW pc \in Inside, Goto(r, pc)
    PROVE  /\ SameKeys(r) /\ req'[r].pc = pc
           /\ req'[r].why = req[r].why /\ req'[r].passed = req[r].passed
<1>1. Walks(r)
    BY Went
<1> QED  BY <1>1 DEF Goto, SameKeys, ReqType

LEMMA RefusedKeys ==
    ASSUME req \in [made -> ReqType], NEW r \in made, NEW status \in Nat, NEW why \in Whys,
           req' = [req EXCEPT ![r].pc = "written", ![r].status = status, ![r].why = why]
    PROVE  /\ SameKeys(r) /\ req'[r].pc = "written"
           /\ req'[r].why = why /\ req'[r].passed = req[r].passed
<1>1. Walks(r)
    BY RefusedWhy, Zenon
<1> QED  BY <1>1 DEF SameKeys, ReqType

LEMMA LimitedKeys ==
    ASSUME req \in [made -> ReqType], NEW r \in made, NEW status \in Nat, NEW flag \in Flags,
           req' = [req EXCEPT ![r].pc = "written", ![r].status = status, ![r].late = flag]
    PROVE  /\ SameKeys(r) /\ req'[r].pc = "written"
           /\ req'[r].why = req[r].why /\ req'[r].passed = req[r].passed
<1>1. Walks(r)
    BY RefusedLate, Zenon
<1> QED  BY <1>1 DEF SameKeys, ReqType

LEMMA PassedKeys ==
    ASSUME StateTyped, NEW r \in made,
           req' = [req EXCEPT ![r].pc = "handler", ![r].passed = now]
    PROVE  /\ SameKeys(r) /\ req'[r].pc = "handler"
           /\ req'[r].why = req[r].why /\ req'[r].passed = now
<1>1. req \in [made -> ReqType] /\ now \in Nat
    BY ScenarioAssumption DEF StateTyped
<1>2. req[r] \in ReqType /\ "handler" \in Pcs
    BY <1>1 DEF Pcs, Inside
<1>3. [req[r] EXCEPT !.pc = "handler", !.passed = now] \in ReqType
    BY <1>1, <1>2 DEF ReqType
<1>4. Walks(r)
    BY <1>1, <1>3 DEF Walks
<1> QED  BY <1>1, <1>4 DEF SameKeys, ReqType

\* A document that is current since t is so since any earlier time.
LEMMA SinceEarlier ==
    ASSUME NEW p \in Seq(Nat), NEW n, NEW t \in Int, NEW u \in Int, u <= t, Since(p, n, t)
    PROVE  Since(p, n, u)
<1>1. \A m \in DOMAIN p : p[m] \in Nat
    OBVIOUS
<1> QED  BY <1>1 DEF Since

\* A new publication is later than every time in the past.
LEMMA SinceGrows ==
    ASSUME NEW p \in Seq(Nat), NEW n \in DOMAIN p, NEW t \in Int, NEW u \in Nat, t <= u, Since(p, n, t)
    PROVE  n \in DOMAIN Append(p, u) /\ Since(Append(p, u), n, t)
<1>1. /\ Len(p) \in Nat /\ DOMAIN p = 1..Len(p) /\ DOMAIN Append(p, u) = 1..(Len(p) + 1)
      /\ \A m \in 1..Len(p) : Append(p, u)[m] = p[m]
      /\ Append(p, u)[Len(p) + 1] = u
    OBVIOUS
<1>2. \A m \in 1..(Len(p) + 1) : m \in 1..Len(p) \/ m = Len(p) + 1
    BY <1>1
<1> QED  BY <1>1, <1>2 DEF Since

LEMMA InitKeys == Init => KeyInv
<1> SUFFICES ASSUME Init PROVE KeyInv
    OBVIOUS
<1>1. GateInv
    BY InitHttp, InitRate DEF GateInv
<1>2. pub = <<0>> /\ now = 1 /\ cache = [keys |-> {}, expires |-> 0] /\ req = [r \in made |-> NewReq]
    BY DEF Init, GatewayInit
<1>3. pub # <<>> /\ \A m \in DOMAIN pub : pub[m] <= now
    BY <1>2
<1>4. KeyCache
    BY <1>2, GatewayAssumption DEF KeyCache
<1>5. NewReq.pc = "new" /\ NewReq.put = 0 /\ NewReq.passed = 0 /\ NewReq.why # "key"
    BY Zenon DEF NewReq
<1>6. ASSUME NEW r \in made  PROVE KeyReq(r)
  <2>1. req[r] = NewReq
      BY <1>2, Zenon
  <2>2. req[r].pc = "new" /\ req[r].put = 0 /\ req[r].passed = 0 /\ req[r].why # "key"
      BY <1>5, <2>1, Zenon
  <2>3. now = 1
      BY <1>2
  <2> QED  BY <2>2, <2>3 DEF KeyReq, Fetching
<1> QED  BY <1>1, <1>3, <1>4, <1>6 DEF KeyInv

\* What request r does to its own fields concerns the others only by what it
\* installs.
LEMMA KeyOthers ==
    ASSUME KeyInv, NEW r \in made, Walks(r), UNCHANGED <<made, now, pub, cache>>,
           req[r].put = 0 \/ (req'[r].put = req[r].put /\ req'[r].doc = req[r].doc),
           GateInv', KeyReq(r)'
    PROVE  KeyInv'
<1>1. req \in [made -> ReqType]
    BY DEF KeyInv, GateInv, HttpInv, StateTyped
<1>2. KeyCache'
    BY DEF KeyInv, KeyCache
<1>3. ASSUME NEW q \in made \ {r}  PROVE KeyReq(q)'
  <2>1. req'[q] = req[q] /\ KeyReq(q)
      BY <1>3 DEF Walks, KeyInv
  <2>2. ASSUME NEW s \in made \ {q}, req[q].at >= 1, req[s].put >= req[q].at
        PROVE  req'[s].put >= req'[q].at /\ req'[s].doc = req[s].doc
    <3>1. req[q].at \in Nat /\ req[s].put \in Nat
        BY <1>1, <1>3, <2>2 DEF ReqType
    <3>2. req[s].put # 0
        BY <2>2, <3>1
    <3>3. req'[s].put = req[s].put /\ req'[s].doc = req[s].doc
        BY <2>2, <3>2 DEF Walks
    <3> QED  BY <2>1, <2>2, <3>3
  <2>3. req[q].pc = "reread" /\ Overwritten(q, cache.keys) => Overwritten(q, cache.keys)'
      BY <2>1, <2>2 DEF KeyReq, Overwritten, Fetching
  <2>4. req[q].at >= 1 /\ Explained(q) => Explained(q)'
      BY <2>1, <2>2 DEF Explained
  <2> QED  BY <2>1, <2>3, <2>4 DEF KeyReq, Fetching
<1> QED  BY <1>2, <1>3 DEF KeyInv

\* Request r is answered or goes on to the handler, and not for its key.
LEMMA KeyLeaves ==
    ASSUME KeyInv, NEW r \in made, SameKeys(r), UNCHANGED <<made, now, pub>>,
           req'[r].pc \in {"handler", "written"}, req'[r].why # "key",
           \/ req'[r].passed = req[r].passed
           \/ req'[r].passed = now /\ Accepted(pub, Input(r).token.kid, now)
    PROVE  KeyReq(r)'
<1>1. KeyReq(r) /\ now \in Nat
    BY ScenarioAssumption DEF KeyInv, GateInv, HttpInv, StateTyped
<1>2. req'[r].put <= now
    BY <1>1 DEF SameKeys, KeyReq
<1>3. req'[r].passed # 0 => req'[r].passed <= now /\ Accepted(pub, Input(r).token.kid, req'[r].passed)
    BY <1>1 DEF KeyReq
<1> QED  BY <1>2, <1>3 DEF KeyReq, Fetching

\* A cached key that has not expired may be accepted.
LEMMA CachedAccepted ==
    ASSUME KeyInv, NEW k \in cache.keys, now <= cache.expires
    PROVE  Accepted(pub, k, now)
<1>1. /\ pub \in Seq(Nat) /\ now \in Nat /\ cache.expires \in Int
      /\ FetchTime \in Nat /\ KeyTTL \in Nat
    BY ScenarioAssumption, GatewayAssumption DEF KeyInv, KeyCache, GateInv, HttpInv, StateTyped
<1>2. PICK n \in DOMAIN pub : cache.keys = Publications[n]
                             /\ Since(pub, n, cache.expires - FetchTime - KeyTTL)
    BY DEF KeyInv, KeyCache, Dated
<1>3. Since(pub, n, now - FetchTime - KeyTTL)
    BY <1>1, <1>2, SinceEarlier
<1> QED  BY <1>2, <1>3 DEF Accepted

\* Validate and RequireScope, with a key that may be accepted.
LEMMA JudgeKeys ==
    ASSUME KeyInv, NEW r \in made, Judge(r), UNCHANGED <<made, now, pub>>,
           req[r].pc \in {"token", "reread"}, Accepted(pub, Input(r).token.kid, now)
    PROVE  SameKeys(r) /\ KeyReq(r)'
<1>1. StateTyped /\ req \in [made -> ReqType] /\ req[r].why # "key"
    BY DEF KeyInv, KeyReq, GateInv, HttpInv, StateTyped
<1>2. CASE Respond(r, 401) \/ Respond(r, 403)
    BY <1>1, <1>2, RespondedKeys, KeyLeaves
<1>3. CASE req' = [req EXCEPT ![r].pc = "handler", ![r].passed = now]
  <2>1. SameKeys(r) /\ req'[r].pc = "handler" /\ req'[r].why = req[r].why /\ req'[r].passed = now
      BY <1>1, <1>3, PassedKeys, Zenon
  <2> QED  BY <1>1, <2>1, KeyLeaves
<1> QED  BY <1>2, <1>3 DEF Judge

\* What the lemmas of the single actions start from.
LEMMA KeyContext ==
    ASSUME KeyInv
    PROVE  /\ StateTyped /\ req \in [made -> ReqType] /\ pub \in Seq(Nat)
           /\ now \in Nat /\ now >= 1 /\ Len(pub) \in DOMAIN pub
           /\ FetchTime \in Nat /\ KeyTTL \in Nat /\ FetchTime <= KeyTTL
           /\ \A r \in made : KeyReq(r) /\ req[r].at \in Nat /\ req[r].start \in Nat /\ req[r].put \in Nat
           /\ \A r \in made : req[r].passed \in Nat /\ req[r].at <= now
<1>1. StateTyped /\ req \in [made -> ReqType] /\ pub \in Seq(Nat) /\ now \in Nat /\ now >= 1
    BY ScenarioAssumption DEF KeyInv, GateInv, HttpInv, StateTyped
<1>2. Len(pub) \in DOMAIN pub
    BY <1>1 DEF KeyInv
<1>3. \A r \in made : req[r].at \in Nat /\ req[r].start \in Nat /\ req[r].put \in Nat /\ req[r].passed \in Nat
    BY <1>1 DEF ReqType
<1>4. \A r \in made : req[r].at <= now
    BY DEF KeyInv, GateInv, RateInv
<1>5. FetchTime \in Nat /\ KeyTTL \in Nat /\ FetchTime <= KeyTTL
    BY GatewayAssumption
<1> QED  BY <1>1, <1>2, <1>3, <1>4, <1>5 DEF KeyInv

LEMMA ArriveKeys ==
    ASSUME KeyInv, UNCHANGED made, NEW r \in made, Arrive(r), GateInv'
    PROVE  KeyInv'
<1>1. /\ StateTyped /\ req \in [made -> ReqType] /\ KeyReq(r) /\ now \in Nat /\ now >= 1
      /\ req[r].pc = "new" /\ UNCHANGED <<made, now, pub, cache>>
    BY KeyContext DEF Arrive
<1>2. req[r].put = 0 /\ req[r].why # "key"
    BY <1>1 DEF KeyReq
<1>3. ASSUME NEW status \in Nat, Respond(r, status)  PROVE KeyInv'
  <2>1. /\ SameKeys(r) /\ req'[r].pc = "written"
        /\ req'[r].why = req[r].why /\ req'[r].passed = req[r].passed
      BY <1>1, <1>3, RespondedKeys
  <2>2. KeyReq(r)'
      BY <1>1, <1>2, <2>1, KeyLeaves
  <2> QED  BY <1>1, <1>2, <2>1, <2>2, KeyOthers DEF SameKeys
<1> DEFINE pc == IF Input(r).method = "get" /\ Input(r).route = "api" /\ Limited(made)
                 THEN "limit" ELSE AfterLimit(r)
<1>4. pc \in {"limit", "token", "handler"}
    BY DEF AfterLimit
<1>5. \/ \E status \in Nat : Respond(r, status)
      \/ req' = [req EXCEPT ![r].pc = pc, ![r].at = now]
    BY DEF Arrive
<1> HIDE DEF pc
<1>6. CASE req' = [req EXCEPT ![r].pc = pc, ![r].at = now]
  <2>1. Walks(r)
      BY <1>1, ArriveEnters
  <2>2. /\ req'[r].pc = pc /\ req'[r].at = now /\ req'[r].put = 0
        /\ req'[r].why = req[r].why /\ req'[r].passed = req[r].passed
      BY <1>1, <1>2, <1>6 DEF ReqType
  <2>3. KeyReq(r)'
      BY <1>1, <1>2, <1>4, <2>2 DEF KeyReq, Fetching
  <2> QED  BY <1>1, <1>2, <2>1, <2>3, KeyOthers
<1> QED  BY <1>3, <1>5, <1>6

LEMMA AllowKeys ==
    ASSUME KeyInv, UNCHANGED made, NEW r \in made, Allow(r), GateInv'
    PROVE  KeyInv'
<1>1. /\ StateTyped /\ req \in [made -> ReqType] /\ KeyReq(r) /\ now \in Nat
      /\ req[r].pc = "limit" /\ UNCHANGED <<made, now, pub, cache>>
    BY KeyContext DEF Allow
<1>2. req[r].put = 0 /\ req[r].why # "key" /\ req[r].at >= 1
    BY <1>1 DEF KeyReq
<1> DEFINE late == req[r].at >= promise[Input(r).client]
<1>3. \/ Goto(r, AfterLimit(r))
      \/ req' = [req EXCEPT ![r].pc = "written", ![r].status = 429, ![r].late = late]
    BY DEF Allow
<1>4. late \in Flags
  <2>1. req[r].at \in Int /\ promise[Input(r).client] \in Int
      BY <1>1 DEF KeyInv, GateInv, RateInv, Clients, ReqType
  <2> QED  BY <2>1 DEF Flags
<1> HIDE DEF late
<1>5. CASE Goto(r, AfterLimit(r))
  <2>1. AfterLimit(r) \in {"token", "handler"} /\ AfterLimit(r) \in Inside
      BY DEF AfterLimit, Inside
  <2>2. /\ SameKeys(r) /\ req'[r].pc = AfterLimit(r)
        /\ req'[r].why = req[r].why /\ req'[r].passed = req[r].passed
      BY <1>1, <1>5, <2>1, WentKeys
  <2>3. KeyReq(r)'
      BY <1>1, <1>2, <2>1, <2>2 DEF KeyReq, SameKeys, Fetching
  <2> QED  BY <1>1, <1>2, <2>2, <2>3, KeyOthers DEF SameKeys
<1>6. CASE req' = [req EXCEPT ![r].pc = "written", ![r].status = 429, ![r].late = late]
  <2>1. PICK n \in Nat : n = 429
      OBVIOUS
  <2>2. req' = [req EXCEPT ![r].pc = "written", ![r].status = n, ![r].late = late]
      BY <2>1, <1>6
  <2>3. /\ SameKeys(r) /\ req'[r].pc = "written"
        /\ req'[r].why = req[r].why /\ req'[r].passed = req[r].passed
      BY <1>1, <1>4, <2>2, LimitedKeys, Zenon
  <2>4. KeyReq(r)'
      BY <1>1, <1>2, <2>3, KeyLeaves
  <2> QED  BY <1>1, <1>2, <2>3, <2>4, KeyOthers DEF SameKeys
<1> QED  BY <1>3, <1>5, <1>6

LEMMA AuthenticateKeys ==
    ASSUME KeyInv, UNCHANGED made, NEW r \in made, Authenticate(r), GateInv'
    PROVE  KeyInv'
<1>1. /\ StateTyped /\ req \in [made -> ReqType] /\ KeyReq(r) /\ now \in Nat
      /\ req[r].pc = "token" /\ UNCHANGED <<made, now, pub, cache>>
    BY KeyContext DEF Authenticate
<1>2. req[r].put = 0 /\ req[r].why # "key" /\ req[r].at >= 1 /\ req[r].at <= now
    BY <1>1, KeyContext DEF KeyReq
<1>3. CASE Respond(r, 401) \/ Respond(r, 503)
  <2>1. /\ SameKeys(r) /\ req'[r].pc = "written"
        /\ req'[r].why = req[r].why /\ req'[r].passed = req[r].passed
      BY <1>1, <1>3, RespondedKeys
  <2>2. KeyReq(r)'
      BY <1>1, <1>2, <2>1, KeyLeaves
  <2> QED  BY <1>1, <1>2, <2>1, <2>2, KeyOthers DEF SameKeys
<1>4. CASE Cached(Input(r).token.kid) /\ Judge(r)
  <2>1. Input(r).token.kid \in cache.keys /\ now <= cache.expires
      BY <1>1, <1>4 DEF Cached, KeyInv, KeyCache
  <2>2. Accepted(pub, Input(r).token.kid, now)
      BY <2>1, CachedAccepted
  <2>3. SameKeys(r) /\ KeyReq(r)'
      BY <1>1, <1>4, <2>2, JudgeKeys
  <2> QED  BY <1>1, <1>2, <2>3, KeyOthers DEF SameKeys
<1>5. CASE req' = [req EXCEPT ![r].pc = "fetch", ![r].start = now]
  <2>1. Walks(r)
      BY <1>1, AuthenticateStays DEF Stays
  <2>2. /\ req'[r].pc = "fetch" /\ req'[r].at = req[r].at /\ req'[r].start = now /\ req'[r].put = 0
        /\ req'[r].why = req[r].why /\ req'[r].passed = req[r].passed
      BY <1>1, <1>2, <1>5 DEF ReqType
  <2>3. now <= now + FetchTime
      BY <1>1, GatewayAssumption
  <2>4. KeyReq(r)'
      BY <1>1, <1>2, <2>2, <2>3 DEF KeyReq, Fetching
  <2> QED  BY <1>1, <1>2, <2>1, <2>4, KeyOthers
<1> QED  BY <1>3, <1>4, <1>5 DEF Authenticate

LEMMA FetchKeys ==
    ASSUME KeyInv, UNCHANGED made, NEW r \in made, Fetch(r), GateInv'
    PROVE  KeyInv'
<1>1. /\ StateTyped /\ req \in [made -> ReqType] /\ KeyReq(r) /\ now \in Nat
      /\ req[r].pc = "fetch" /\ UNCHANGED <<made, now, pub, cache>>
    BY KeyContext DEF Fetch
<1>2. req[r].put = 0 /\ req[r].why # "key"
    BY <1>1 DEF KeyReq
<1>3. CASE req' = [req EXCEPT ![r].pc = "install", ![r].doc = Published]
  <2>1. Walks(r)
      BY <1>1, FetchStays DEF Stays
  <2>2. /\ req'[r].pc = "install" /\ req'[r].doc = Published /\ req'[r].at = req[r].at
        /\ req'[r].start = req[r].start /\ req'[r].put = 0
        /\ req'[r].why = req[r].why /\ req'[r].passed = req[r].passed
      BY <1>1, <1>2, <1>3 DEF ReqType
  <2>3. Since(pub, Len(pub), req[r].start) /\ Len(pub) \in DOMAIN pub
    <3>1. pub \in Seq(Nat) /\ Len(pub) \in DOMAIN pub
        BY KeyContext
    <3>2. \A m \in DOMAIN pub : ~(m > Len(pub))
        BY <3>1
    <3> QED  BY <3>1, <3>2 DEF Since
  <2>4. Dated(pub, Published, req[r].start)
      BY <2>3 DEF Dated, Published
  <2>5. KeyReq(r)'
      BY <1>1, <1>2, <2>2, <2>4 DEF KeyReq, Fetching
  <2> QED  BY <1>1, <1>2, <2>1, <2>5, KeyOthers
<1>4. CASE RefreshFailed(r)
  <2>1. PICK n \in Nat : n = 401
      OBVIOUS
  <2>2. /\ req' = [req EXCEPT ![r].pc = "written", ![r].status = n, ![r].why = "provider"]
        /\ "provider" \in Whys
      BY <2>1, <1>4, Zenon DEF RefreshFailed, Whys
  <2>3. /\ SameKeys(r) /\ req'[r].pc = "written"
        /\ req'[r].why = "provider" /\ req'[r].passed = req[r].passed
      BY <1>1, <2>2, RefusedKeys, Zenon
  <2>4. KeyReq(r)'
      BY <1>1, <2>3, KeyLeaves
  <2> QED  BY <1>1, <1>2, <2>3, <2>4, KeyOthers DEF SameKeys
<1> QED  BY <1>3, <1>4 DEF Fetch

\* The times of an installation: a document fetched from s on and installed at t.
LEMMA InstallTimes ==
    \A t, s, f, k \in Int :
        /\ t <= s + f => (t + k) - f - k \in Int /\ (t + k) - f - k <= s
        /\ s <= t => t + k >= s + k
OBVIOUS

\* The document of r is the cached one now, for r and for everybody who fetches.
LEMMA InstallKeys ==
    ASSUME KeyInv, UNCHANGED made, NEW r \in made, Install(r), GateInv'
    PROVE  KeyInv'
<1>1. /\ StateTyped /\ req \in [made -> ReqType] /\ KeyReq(r) /\ now \in Nat /\ pub \in Seq(Nat)
      /\ FetchTime \in Nat /\ KeyTTL \in Nat
      /\ req[r].pc = "install" /\ UNCHANGED <<made, now, pub>>
      /\ req' = [req EXCEPT ![r].pc = "reread", ![r].put = now]
      /\ cache' = [keys |-> req[r].doc, expires |-> now + KeyTTL]
    BY KeyContext DEF Install
<1>2. /\ req[r].put = 0 /\ req[r].why # "key" /\ req[r].at >= 1 /\ req[r].at <= req[r].start
      /\ req[r].start <= now /\ now <= req[r].start + FetchTime
      /\ Dated(pub, req[r].doc, req[r].start)
    BY <1>1 DEF KeyReq, Fetching
<1>3. /\ req[r].at \in Nat /\ req[r].start \in Nat /\ now \in Nat /\ pub \in Seq(Nat)
      /\ FetchTime \in Nat /\ KeyTTL \in Nat
    BY KeyContext
<1>4. Walks(r)
    BY <1>1, InstallStays DEF Stays
<1>5. /\ req'[r].pc = "reread" /\ req'[r].doc = req[r].doc /\ req'[r].at = req[r].at
      /\ req'[r].start = req[r].start /\ req'[r].put = now
      /\ req'[r].why = req[r].why /\ req'[r].passed = req[r].passed
    BY <1>1 DEF ReqType
<1>6. cache'.keys = req[r].doc /\ cache'.expires = now + KeyTTL
    BY <1>1
<1>7. PICK n \in DOMAIN pub : req[r].doc = Publications[n] /\ Since(pub, n, req[r].start)
    BY <1>2 DEF Dated
<1>8. Dated(pub, req[r].doc, req[r].at)
    BY <1>1, <1>2, <1>3, <1>7, SinceEarlier DEF Dated
<1>9. KeyReq(r)'
    BY <1>1, <1>2, <1>3, <1>5, <1>6, <1>8 DEF KeyReq, Fetching
<1>10. KeyCache'
  <2>1. (now + KeyTTL) - FetchTime - KeyTTL \in Int /\ (now + KeyTTL) - FetchTime - KeyTTL <= req[r].start
    <3>1. now <= req[r].start + FetchTime
        BY <1>2
    <3>2. now \in Int /\ req[r].start \in Int /\ FetchTime \in Int /\ KeyTTL \in Int
        BY <1>3
    <3> QED  BY <3>1, <3>2, InstallTimes, Zenon
  <2>2. Since(pub, n, (now + KeyTTL) - FetchTime - KeyTTL)
      BY <1>1, <1>3, <1>7, <2>1, SinceEarlier
  <2>3. Dated(pub, req[r].doc, (now + KeyTTL) - FetchTime - KeyTTL)
      BY <1>7, <2>2 DEF Dated
  <2>4. now + KeyTTL \in Int /\ now + KeyTTL <= now + KeyTTL
      BY <1>1
  <2> QED  BY <1>1, <1>6, <2>3, <2>4 DEF KeyCache
<1>11. ASSUME NEW q \in made \ {r}  PROVE KeyReq(q)'
  <2>1. req'[q] = req[q] /\ KeyReq(q) /\ req[q].at \in Nat /\ req[q].start \in Nat
      BY <1>4, <1>11, KeyContext DEF Walks
  <2>2. ASSUME req[q].pc = "reread"
        PROVE  cache'.expires >= req[q].start + KeyTTL /\ Overwritten(q, cache.keys)'
    <3>1. req[q].start <= now
        BY <2>1, <2>2 DEF KeyReq, Fetching
    <3>2. now \in Int /\ req[q].start \in Int /\ KeyTTL \in Int /\ req[q].at <= now
        BY <1>3, <2>1, KeyContext
    <3>3. now + KeyTTL >= req[q].start + KeyTTL
        BY <3>1, <3>2, InstallTimes, Zenon
    <3>4. now >= req[q].at
        BY <2>1, <3>2
    <3>5. r \in made' \ {q}
        BY <1>1
    <3> QED  BY <1>5, <1>6, <2>1, <3>3, <3>4, <3>5 DEF Overwritten
  <2>3. ASSUME NEW s \in made \ {q}, req[q].at >= 1, req[s].put >= req[q].at
        PROVE  req'[s].put >= req'[q].at /\ req'[s].doc = req[s].doc
    <3>1. req[q].at \in Nat /\ req[s].put \in Nat
        BY <2>1, KeyContext
    <3>2. s # r
        BY <1>2, <2>3, <3>1
    <3> QED  BY <1>4, <2>1, <2>3, <3>2 DEF Walks
  <2>4. req[q].at >= 1 /\ Explained(q) => Explained(q)'
      BY <1>1, <2>1, <2>3 DEF Explained
  <2> QED  BY <1>1, <2>1, <2>2, <2>4 DEF KeyReq, Fetching
<1>12. pub' # <<>> /\ \A m \in DOMAIN pub' : pub'[m] <= now'
    BY <1>1 DEF KeyInv
<1> QED  BY <1>1, <1>9, <1>10, <1>11, <1>12 DEF KeyInv

LEMMA RereadKeys ==
    ASSUME KeyInv, UNCHANGED made, NEW r \in made, Reread(r), GateInv'
    PROVE  KeyInv'
<1>1. /\ StateTyped /\ req \in [made -> ReqType] /\ KeyReq(r) /\ now \in Nat
      /\ FetchTime \in Nat /\ KeyTTL \in Nat /\ FetchTime <= KeyTTL
      /\ req[r].pc = "reread" /\ UNCHANGED <<made, now, pub, cache>>
    BY KeyContext DEF Reread
<1>2. /\ req[r].at >= 1 /\ now <= req[r].start + FetchTime
      /\ cache.expires >= req[r].start + KeyTTL
      /\ Overwritten(r, cache.keys) \/ Dated(pub, cache.keys, req[r].at)
    BY <1>1 DEF KeyReq, Fetching
<1>3. CASE Input(r).token.kid \in cache.keys /\ Judge(r)
  <2>1. req[r].start \in Nat /\ cache.expires \in Int
      BY KeyContext DEF KeyInv, KeyCache
  <2>2. now <= cache.expires
      BY <1>1, <1>2, <2>1
  <2>3. Accepted(pub, Input(r).token.kid, now)
      BY <1>3, <2>2, CachedAccepted
  <2>4. SameKeys(r) /\ KeyReq(r)'
      BY <1>1, <1>3, <2>3, JudgeKeys
  <2> QED  BY <1>1, <2>4, KeyOthers DEF SameKeys
<1>4. CASE /\ Input(r).token.kid \notin cache.keys
           /\ req' = [req EXCEPT ![r].pc = "written", ![r].status = 401, ![r].why = "key"]
  <2>1. PICK n \in Nat : n = 401
      OBVIOUS
  <2>2. /\ req' = [req EXCEPT ![r].pc = "written", ![r].status = n, ![r].why = "key"]
        /\ "key" \in Whys
      BY <2>1, <1>4, Zenon DEF Whys
  <2>3. /\ SameKeys(r) /\ req'[r].pc = "written"
        /\ req'[r].why = "key" /\ req'[r].passed = req[r].passed
      BY <1>1, <2>2, RefusedKeys, Zenon
  <2>4. \A s \in made \ {r} : req'[s] = req[s]
      BY <2>3 DEF SameKeys, Walks
  <2>5. Explained(r)'
    <3>1. CASE Overwritten(r, cache.keys)
        BY <1>1, <1>4, <2>3, <2>4, <3>1 DEF Overwritten, Explained, SameKeys
    <3>2. CASE Dated(pub, cache.keys, req[r].at)
        BY <1>1, <1>4, <2>3, <3>2 DEF Dated, Explained, SameKeys
    <3> QED  BY <1>2, <3>1, <3>2
  <2>6. KeyReq(r)'
      BY <1>1, <1>2, <2>3, <2>5 DEF KeyReq, SameKeys, Fetching
  <2> QED  BY <1>1, <2>3, <2>6, KeyOthers DEF SameKeys
<1> QED  BY <1>3, <1>4 DEF Reread

LEMMA HandleKeys ==
    ASSUME KeyInv, UNCHANGED made, NEW r \in made, Handle(r) \/ AnswerProbe(r), GateInv'
    PROVE  KeyInv'
<1>1. /\ req \in [made -> ReqType] /\ KeyReq(r)
      /\ req[r].pc = "handler" /\ UNCHANGED <<made, now, pub, cache>>
    BY KeyContext DEF Handle, AnswerProbe
<1>2. PICK status \in Nat : Respond(r, status)
    BY DEF Handle, AnswerProbe
<1>3. /\ SameKeys(r) /\ req'[r].pc = "written"
      /\ req'[r].why = req[r].why /\ req'[r].passed = req[r].passed
    BY <1>1, <1>2, RespondedKeys
<1>4. req[r].why # "key"
    BY <1>1 DEF KeyReq
<1>5. KeyReq(r)'
    BY <1>1, <1>3, <1>4, KeyLeaves
<1> QED  BY <1>1, <1>3, <1>5, KeyOthers DEF SameKeys

LEMMA EndedKeys ==
    ASSUME NEW q \in ReqType, NEW p,
           p = [q EXCEPT !.pc = "done", !.at = 0, !.start = 0, !.passed = 0]
    PROVE  p.passed = 0 /\ p.doc = q.doc /\ p.put = q.put
BY DEF ReqType

LEMMA FinishKeys ==
    ASSUME KeyInv, UNCHANGED made, NEW r \in made, Finish(r), GateInv'
    PROVE  KeyInv'
<1>1. /\ StateTyped /\ req \in [made -> ReqType] /\ KeyReq(r)
      /\ req[r].pc = "written" /\ UNCHANGED <<made, now, pub, cache>>
      /\ req' = [req EXCEPT ![r].pc = "done", ![r].at = 0, ![r].start = 0, ![r].passed = 0]
    BY KeyContext DEF Finish
<1> DEFINE q == [req[r] EXCEPT !.pc = "done", !.at = 0, !.start = 0, !.passed = 0]
<1>2. req'[r] = q
    BY <1>1, Zenon
<1>3. q.passed = 0 /\ q.doc = req[r].doc /\ q.put = req[r].put
    BY <1>1, EndedKeys, Zenon
<1> HIDE DEF q
<1>4. Walks(r) /\ req'[r].pc = "done"
    BY <1>1, FinishLeaves
<1>5. req'[r].passed = 0 /\ req'[r].doc = req[r].doc /\ req'[r].put = req[r].put
    BY <1>2, <1>3
<1>6. req[r].put <= now
    BY <1>1 DEF KeyReq
<1>7. UNCHANGED <<made, now, pub, cache>>
    BY <1>1
<1>8. KeyReq(r)'
    BY <1>4, <1>5, <1>6, <1>7 DEF KeyReq, Fetching
<1> QED  BY <1>4, <1>5, <1>7, <1>8, KeyOthers

LEMMA TickTimes ==
    \A t, s, f, k \in Int : /\ t < s + f => t + 1 <= s + f
                            /\ s <= t => s <= t + 1
                            /\ s <= t + k => s <= (t + 1) + k
OBVIOUS

LEMMA TickKeys ==
    ASSUME KeyInv, UNCHANGED made, Tick, GateInv'
    PROVE  KeyInv'
<1>1. /\ now' = now + 1 /\ UNCHANGED <<made, req, cache, pub>>
      /\ \A r \in made : req[r].pc \in Fetching => now < req[r].start + FetchTime
    BY DEF Tick, Fetching
<1>2. /\ now \in Int /\ FetchTime \in Int /\ KeyTTL \in Int /\ pub \in Seq(Nat)
      /\ cache.expires \in Int /\ cache.expires <= now + KeyTTL
    BY KeyContext DEF KeyInv, KeyCache
<1>3. KeyCache'
  <2>1. cache.expires <= (now + 1) + KeyTTL
      BY <1>2, TickTimes, Zenon
  <2> QED  BY <1>1, <1>2, <2>1 DEF KeyInv, KeyCache
<1>4. pub' # <<>> /\ \A m \in DOMAIN pub' : pub'[m] <= now'
  <2>1. \A m \in DOMAIN pub : pub[m] \in Int /\ pub[m] <= now
      BY <1>2 DEF KeyInv
  <2>2. \A m \in DOMAIN pub : pub[m] <= now + 1
      BY <1>2, <2>1, TickTimes, Zenon
  <2> QED  BY <1>1, <2>2 DEF KeyInv
<1>5. ASSUME NEW r \in made  PROVE KeyReq(r)'
  <2>1. KeyReq(r) /\ req[r].start \in Int /\ req[r].put \in Int /\ req[r].passed \in Int
      BY KeyContext
  <2>2. req[r].put <= now + 1
      BY <1>2, <2>1, TickTimes, Zenon DEF KeyReq
  <2>3. req[r].pc \in Fetching => req[r].start <= now + 1 /\ now + 1 <= req[r].start + FetchTime
      BY <1>1, <1>2, <2>1, TickTimes, Zenon DEF KeyReq
  <2>4. req[r].passed # 0 => req[r].passed <= now + 1
      BY <1>2, <2>1, TickTimes, Zenon DEF KeyReq
  <2>5. Overwritten(r, cache.keys) => Overwritten(r, cache.keys)'
      BY <1>1 DEF Overwritten
  <2>6. Explained(r) => Explained(r)'
      BY <1>1 DEF Explained
  <2> QED  BY <1>1, <2>1, <2>2, <2>3, <2>4, <2>5, <2>6 DEF KeyReq
<1> QED  BY <1>1, <1>3, <1>4, <1>5 DEF KeyInv

\* The documents so far stay as old as they are.
LEMMA RotateDates ==
    ASSUME KeyInv, pub' = Append(pub, now)
    PROVE  /\ \A keys : \A t \in Int : t <= now /\ Dated(pub, keys, t) => Dated(pub', keys, t)
           /\ \A k : \A t \in Int : t <= now /\ Accepted(pub, k, t) => Accepted(pub', k, t)
<1>1. now \in Nat /\ pub \in Seq(Nat) /\ FetchTime \in Nat /\ KeyTTL \in Nat
    BY KeyContext
<1>2. ASSUME NEW n \in DOMAIN pub, NEW t \in Int, t <= now, Since(pub, n, t)
      PROVE  n \in DOMAIN pub' /\ Since(pub', n, t)
    BY <1>1, <1>2, SinceGrows
<1>3. \A t \in Int : t <= now => t - FetchTime - KeyTTL \in Int /\ t - FetchTime - KeyTTL <= now
    BY <1>1
<1> QED  BY <1>2, <1>3 DEF Dated, Accepted

LEMMA RotateKeys ==
    ASSUME KeyInv, UNCHANGED made, Rotate, GateInv'
    PROVE  KeyInv'
<1>1. pub' = Append(pub, now) /\ UNCHANGED <<made, now, req, cache>>
    BY DEF Rotate
<1>2. now \in Nat /\ pub \in Seq(Nat) /\ FetchTime \in Nat /\ KeyTTL \in Nat
    BY KeyContext
<1>3. /\ \A keys : \A t \in Int : t <= now /\ Dated(pub, keys, t) => Dated(pub', keys, t)
      /\ \A k : \A t \in Int : t <= now /\ Accepted(pub, k, t) => Accepted(pub', k, t)
    BY <1>1, RotateDates
<1>4. pub' # <<>> /\ \A m \in DOMAIN pub' : pub'[m] <= now'
  <2>1. \A m \in DOMAIN pub' : pub'[m] = now \/ (m \in DOMAIN pub /\ pub'[m] = pub[m])
      BY <1>1, <1>2
  <2> QED  BY <1>1, <1>2, <2>1 DEF KeyInv
<1>5. KeyCache'
  <2>1. cache.expires \in Int /\ cache.expires <= now + KeyTTL
      BY DEF KeyInv, KeyCache
  <2>2. cache.expires - FetchTime - KeyTTL \in Int /\ cache.expires - FetchTime - KeyTTL <= now
      BY <1>2, <2>1
  <2>3. cache.keys = {} \/ Dated(pub', cache.keys, cache.expires - FetchTime - KeyTTL)
      BY <1>3, <2>2 DEF KeyInv, KeyCache
  <2> QED  BY <1>1, <2>1, <2>3 DEF KeyCache
<1>6. ASSUME NEW r \in made  PROVE KeyReq(r)'
  <2>1. /\ KeyReq(r) /\ req[r].at \in Int /\ req[r].start \in Int /\ req[r].passed \in Int
        /\ req[r].at <= now
      BY KeyContext
  <2>2. req[r].pc = "install" => Dated(pub', req[r].doc, req[r].start)
      BY <1>3, <2>1 DEF KeyReq, Fetching
  <2>3. Dated(pub, cache.keys, req[r].at) => Dated(pub', cache.keys, req[r].at)
      BY <1>3, <2>1
  <2>4. req[r].passed # 0 => Accepted(pub', Input(r).token.kid, req[r].passed)
      BY <1>3, <2>1 DEF KeyReq
  <2>5. Overwritten(r, cache.keys) => Overwritten(r, cache.keys)'
      BY <1>1 DEF Overwritten
  <2>6. Explained(r) => Explained(r)'
    <3>1. ASSUME NEW n \in DOMAIN pub, Since(pub, n, req[r].at)
          PROVE  n \in DOMAIN pub' /\ Since(pub', n, req[r].at)
        BY <1>1, <1>2, <2>1, <3>1, SinceGrows
    <3> QED  BY <1>1, <3>1 DEF Explained
  <2> QED  BY <1>1, <2>1, <2>2, <2>3, <2>4, <2>5, <2>6 DEF KeyReq
<1> QED  BY <1>1, <1>4, <1>5, <1>6 DEF KeyInv

LEMMA NextKeys == KeyInv /\ GateInv' /\ [Next]_vars => KeyInv'
<1> SUFFICES ASSUME KeyInv, GateInv', [Next]_vars PROVE KeyInv'
    OBVIOUS
<1>1. ASSUME UNCHANGED <<made, now, req, cache, pub>>  PROVE KeyInv'
  <2>1. KeyCache'
      BY <1>1 DEF KeyInv, KeyCache
  <2>2. \A r \in made : KeyReq(r)'
      BY <1>1 DEF KeyInv, KeyReq, Overwritten, Explained
  <2> QED  BY <1>1, <2>1, <2>2 DEF KeyInv
<1>2. CASE UNCHANGED vars
    BY <1>1, <1>2 DEF vars, gatewayVars
<1>3. CASE Next
  <2>1. UNCHANGED made
      BY <1>3 DEF Next
  <2>2. ASSUME NEW r \in made, RequestStep(r)  PROVE KeyInv'
      BY <2>1, <2>2, ArriveKeys, AllowKeys, AuthenticateKeys, FetchKeys, InstallKeys,
         RereadKeys, HandleKeys, FinishKeys DEF RequestStep, GatewayStep
  <2>3. ASSUME NEW p \in Probes, Probe(p)  PROVE KeyInv'
      BY <1>1, <2>1, <2>3 DEF Probe
  <2>4. ASSUME NEW p \in Probes, AnswerProbe(p)  PROVE KeyInv'
      BY <2>1, <2>4, HandleKeys DEF Probes
  <2>5. ASSUME NEW m \in Migrators, Migration(m)  PROVE KeyInv'
      BY <1>1, <2>5 DEF Migration, gatewayVars
  <2>6. CASE Rotate \/ Tick
      BY <2>1, <2>6, RotateKeys, TickKeys
  <2> QED  BY <1>3, <2>2, <2>3, <2>4, <2>5, <2>6 DEF Next
<1> QED  BY <1>2, <1>3

\* The cache follows the provider (internal/authn, JWKSProvider): a retired key
\* is not accepted for longer than one fetch and one lifetime, and a published
\* one is refused only because an overlapping refresh installed an outdated
\* document, for any number of requests that fetch side by side and any number
\* of rotations.
THEOREM KeysFollowed == Spec => []KeysFollowProvider
<1>1. Spec => []KeyInv
    BY InitKeys, NextKeys, GateInvariant, PTL DEF Spec
<1> QED  BY <1>1, KeysFollow, PTL
=============================================================================
