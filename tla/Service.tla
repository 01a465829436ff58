------------------------------ MODULE Service ------------------------------
(***************************************************************************)
(* One API process: the requests of Gateway, whose /readyz is answered by   *)
(* the check of Readiness while migrators run (internal/server/router.go,   *)
(* internal/handlers/health_handler.go).                                    *)
(***************************************************************************)
EXTENDS Gateway, Readiness

vars == <<gatewayVars, readinessVars>>

Probes == {r \in made : IsProbe(r)}

Init == GatewayInit /\ ReadinessInit(Probes)

\* Readyz calls Check, one statement at a time.
Probe(p) ==
    /\ req[p].pc = "handler"
    /\ CheckStep(p)
    /\ UNCHANGED <<now, req, bucket, cleanup, cache, pub, http, grants, promise>>

\* Check has returned: its deferred Observe, then the response.
AnswerProbe(p) ==
    /\ req[p].pc = "handler"
    /\ check[p] \in {"ready", "failed"}
    /\ Observe(p)
    /\ UNCHANGED check
    /\ Respond(p, IF check[p] = "ready" THEN 200 ELSE 503)
    /\ UNCHANGED <<now, bucket, cleanup, cache, pub, http, grants, promise>>

RequestStep(r) == GatewayStep(r) /\ UNCHANGED readinessVars

Migration(m) ==
    /\ Probes # {}
    /\ MigratorStep(m) \/ EndMigration(m)
    /\ UNCHANGED gatewayVars

Next ==
    /\ UNCHANGED made
    /\ \/ \E r \in made : RequestStep(r)
       \/ \E p \in Probes : Probe(p) \/ AnswerProbe(p)
       \/ \E m \in Migrators : Migration(m)
       \/ (Rotate \/ Tick) /\ UNCHANGED readinessVars

Spec == Init /\ [][Next]_vars

-----------------------------------------------------------------------------
(* Properties.                                                              *)

\* The shape of the state; the counters tell the requests apart, and the
\* advisory lock is held by the one migrator that applies files.
TypeOK ==
    /\ HttpCounted
    /\ ReadinessTypeOK
    /\ now \in 1..MaxTime(made)
    /\ \A c \in DOMAIN bucket : bucket[c].tokens \in 0..(Burst * Unit)

\* What readiness promises, to the probe and to the migrators.
ReadinessKept == ReadyStaysReady /\ CompletedMeansMigrated
=============================================================================
