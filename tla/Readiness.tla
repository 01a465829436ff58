----------------------------- MODULE Readiness -----------------------------
(***************************************************************************)
(* Schema migrations and the readiness check that waits for them            *)
(* (cmd/migrate, internal/observability/readiness.go, migrations/).         *)
(*                                                                          *)
(* Every run of the migrator applies all its files again, each in its own   *)
(* transaction, under a session advisory lock.  The images of two releases  *)
(* may run side by side: an older one knows fewer files.  The check reads   *)
(* the relations and the version in two statements.                         *)
(***************************************************************************)
EXTENDS Integers, FiniteSets

CONSTANTS Migrators,    \* runs of cmd/migrate
          LastFile(_),  \* the number of files of a migrator's image
          Marker,       \* the file that creates app_schema_state
          Expected,     \* ExpectedSchemaVersion
          InitVersions, \* versions the database may start with
          NoOne

VARIABLES version,   \* app_schema_state.version, 0 without the row
          relations, \* the files whose relations exist
          lock,      \* holder of the advisory lock
          migrator,  \* what each migrator does: [pc, file]
          check,     \* the readiness checks in progress
          gauge      \* ReadinessMetrics: [ready, success, error]

readinessVars == <<version, relations, lock, migrator, check, gauge>>

ASSUME ReadinessAssumption ==
    /\ Marker \in Nat \ {0} /\ Expected \in Nat /\ Marker <= Expected
    /\ InitVersions \subseteq Nat
    /\ NoOne \notin Migrators
    \* The images that run are of releases that know app_schema_state.
    /\ \A m \in Migrators : LastFile(m) \in Nat /\ Marker <= LastFile(m)

ReadinessInit(probes) ==
    /\ version \in InitVersions
    /\ probes = {} => version = Expected
    /\ relations = 1..version
    /\ lock = NoOne
    /\ migrator = [m \in Migrators |-> [pc |-> "new", file |-> 1]]
    /\ check = [p \in probes |-> "none"]
    /\ gauge = [ready |-> FALSE, success |-> 0, error |-> 0]

\* select pg_advisory_lock.
AcquireLock(m) ==
    /\ migrator[m].pc = "new"
    /\ lock = NoOne
    /\ lock' = m
    /\ migrator' = [migrator EXCEPT ![m].pc = "apply"]
    /\ UNCHANGED <<version, relations, check, gauge>>

\* Plausible bug: the file writes its own number.
VersionWritten(f) == IF f < Marker THEN version ELSE f

\* The last statement of every file from the marker on: greatest(version, f).
VersionAfter(f) == IF f < Marker \/ version > f THEN version ELSE f

\* applyMigration: the transaction of one file commits; files create what is
\* not there yet.
ApplyFile(m) ==
    LET f == migrator[m].file IN
    /\ migrator[m].pc = "apply" /\ f <= LastFile(m)
    /\ relations' = relations \cup {f}
    /\ version' = VersionAfter(f)
    /\ migrator' = [migrator EXCEPT ![m].file = f + 1]
    /\ UNCHANGED <<lock, check, gauge>>

\* run returns: all files applied, or the first error.  The deferred unlock,
\* or the end of the session, releases the lock.
EndMigration(m) ==
    /\ migrator[m].pc = "apply"
    /\ lock' = NoOne
    /\ migrator' = [migrator EXCEPT ![m].pc =
                        IF migrator[m].file > LastFile(m) THEN "completed" ELSE "failed"]
    /\ UNCHANGED <<version, relations, check, gauge>>

\* Check: a connection is acquired and answers the ping.
StartCheck(p) ==
    /\ check[p] = "none"
    /\ \E s \in {"relations", "failed"} : check' = [check EXCEPT ![p] = s]
    /\ UNCHANGED <<version, relations, lock, migrator, gauge>>

\* checkSchema: the first statement.
CheckRelations(p) ==
    /\ check[p] = "relations"
    /\ \E s \in {"version", "failed"} :
          /\ s = "version" => 1..Expected \subseteq relations
          /\ check' = [check EXCEPT ![p] = s]
    /\ UNCHANGED <<version, relations, lock, migrator, gauge>>

\* checkSchema: the second statement.
CheckVersion(p) ==
    /\ check[p] = "version"
    /\ \E s \in {"ready", "failed"} :
          /\ s = "ready" => version >= Expected
          /\ check' = [check EXCEPT ![p] = s]
    /\ UNCHANGED <<version, relations, lock, migrator, gauge>>

\* The deferred Observe: the result that comes last is the gauge.
Observe(p) ==
    /\ gauge' = IF check[p] = "ready"
                THEN [gauge EXCEPT !.ready = TRUE, !.success = @ + 1]
                ELSE [gauge EXCEPT !.ready = FALSE, !.error = @ + 1]
    /\ UNCHANGED <<version, relations, lock, migrator>>

MigratorStep(m) == AcquireLock(m) \/ ApplyFile(m) \/ (EndMigration(m) /\ migrator[m].file > LastFile(m))

CheckStep(p) == StartCheck(p) \/ CheckRelations(p) \/ CheckVersion(p)

-----------------------------------------------------------------------------
(* Properties.                                                              *)

ReadinessTypeOK ==
    /\ version \in Nat
    /\ \A m \in Migrators : (lock = m) <=> (migrator[m].pc = "apply")

\* An instance that was found ready stays able to serve: the schema has every
\* relation and the version it asks for from then on, although an older or a
\* repeated migration runs afterwards, and the check read them one by one.
ReadyStaysReady ==
    \A p \in DOMAIN check : check[p] = "ready" =>
        version >= Expected /\ 1..Expected \subseteq relations

\* A migrator that reports success leaves at least its own schema.
CompletedMeansMigrated ==
    \A m \in Migrators : migrator[m].pc = "completed" =>
        1..LastFile(m) \subseteq relations /\ version >= LastFile(m)
=============================================================================
