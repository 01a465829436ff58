----------------------------- MODULE MCService -----------------------------
(* An instance of Service for TLC. *)
EXTENDS Service

NoToken == [kid |-> "k1", signer |-> "k1", formed |-> FALSE, claims |-> TRUE, scope |-> TRUE,
            iat |-> 1, exp |-> 9]

Token(kid) == [NoToken EXCEPT !.kid = kid, !.signer = kid, !.formed = TRUE]

Public(client) == [client |-> client, origin |-> "none", method |-> "get", route |-> "api",
                   auth |-> "public", token |-> NoToken, panics |-> FALSE]

\* A request of a client of its own with a token.
Bearer(client, token) == [Public(client) EXCEPT !.auth = "bearer", !.token = token]

MCInput(r) ==
    CASE r \in {"get1", "get2", "get3"} -> Public("c1")
      [] r = "other"    -> [Public("c2") EXCEPT !.panics = TRUE]
      [] r = "old1"     -> Bearer("c1", Token("k1"))
      [] r = "old2"     -> Bearer("c2", Token("k1"))
      [] r = "new1"     -> Bearer("c3", Token("k2"))
      [] r = "forged"   -> Bearer("c2", [Token("k1") EXCEPT !.signer = "k2"])
      [] r = "expired"  -> Bearer("c2", [Token("k1") EXCEPT !.exp = 0])
      [] r = "unscoped" -> Bearer("c3", [Token("k1") EXCEPT !.scope = FALSE])
      [] r = "anonymous" -> Bearer("c4", NoToken)
      [] r = "foreign"  -> [Public("c1") EXCEPT !.origin = "other"]
      [] r = "preflight" -> [Public("c1") EXCEPT !.origin = "allowed", !.method = "preflight"]
      [] r = "badpreflight" -> [Public("c1") EXCEPT !.origin = "allowed", !.method = "badpreflight"]
      [] r = "options"  -> [Public("c1") EXCEPT !.method = "preflight"]
      [] r = "disabled" -> Bearer("c2", Token("k1"))
      [] r \in {"ready1", "ready2"} -> [Public("c1") EXCEPT !.route = "readyz"]

\* A client at its limit, late and forgotten, with one that makes it forgotten;
\* tokens during a rotation; the requests that are refused; probes during
\* migrations.
MCScenarios ==
    {{"get1", "get2", "get3", "other"}, {"old1", "old2"},
     {"old1", "new1"}, {"forged", "anonymous"}, {"expired", "unscoped"},
     {"foreign", "preflight", "badpreflight"}, {"options", "disabled"}, {"ready1", "ready2"}}

MCLimited(requests) == requests \cap {"get1", "foreign", "ready1", "forged"} # {}

MCAuthEnabled(requests) == "disabled" \notin requests

\* A client takes longer to be forgotten than a key.
MCMaxTime(requests) == IF "get1" \in requests THEN 5 ELSE 4

\* A key is added before the old one is retired.
MCPublications == <<{"k1"}, {"k1", "k2"}, {"k2"}>>

\* The image of the release before knows one file less.
MCLastFile(m) == IF m = "old" THEN 2 ELSE 3
=============================================================================
