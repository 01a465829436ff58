--------------------------- MODULE MCAccountAdmin ---------------------------
(* Instances of AccountAdmin for TLC. *)
EXTENDS AccountAdmin

Mutate(kind, via, dry) ==
    [kind |-> kind, via |-> via, dry |-> dry, admin |-> TRUE, confirmed |-> ~dry, duration |-> 1]

Request(kind) == [kind |-> kind, dry |-> FALSE]

MCInput(c) ==
    CASE c = "grant1"  -> Mutate("grant", "cli", FALSE)
      [] c = "grant2"  -> Mutate("grant", "panel", FALSE)
      [] c = "preview" -> Mutate("grant", "cli", TRUE)
      [] c = "refused" -> [Mutate("revoke", "panel", FALSE) EXCEPT !.admin = FALSE]
      [] c = "revoke1" -> Mutate("revoke", "panel", FALSE)
      [] c = "revoke2" -> Mutate("revoke", "cli", FALSE)
      [] c = "verify"  -> Mutate("verify", "cli", FALSE)
      [] c \in {"buy1", "buy2"} -> Request("checkout")
      [] c = "access"  -> Request("access")
      [] c = "portal"  -> Request("portal")

\* Mutations that race each other, an access check or a purchase; two
\* purchases; the calls that change nothing.
MCScenarios ==
    {{"grant1", "grant2", "revoke1"}, {"grant1", "revoke1", "revoke2"},
     {"preview", "grant2", "access"}, {"revoke1", "buy1"}, {"buy1", "access"},
     {"buy1", "buy2"}, {"portal", "buy1"}, {"verify", "refused"}}

MCRows == {[there |-> TRUE, status |-> "active", start |-> 1, until |-> 2, ver |-> 1],
           [there |-> TRUE, status |-> "expired", start |-> 1, until |-> 1, ver |-> 1]}

\* An override that allows or denies until time 2.
MCOverrides == {NoOverride, [there |-> TRUE, value |-> TRUE, until |-> 2],
                [there |-> TRUE, value |-> FALSE, until |-> 2]}
=============================================================================
