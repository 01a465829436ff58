-------------------------- MODULE MCPlayerProfile --------------------------
(* Instances of PlayerProfile for TLC. *)
EXTENDS PlayerProfile

Weapon == [slots |-> 1, opponent |-> 0, weapon |-> TRUE]
Typed == [slots |-> 0, opponent |-> 0, weapon |-> TRUE]
Full == [slots |-> 6, opponent |-> 5, weapon |-> TRUE]

MCKind(c) ==
    CASE c \in {"refreshA", "refreshB"} -> "refresh"
      [] c = "link"    -> "link"
      [] c = "current" -> "current"
      [] c = "delete"  -> "delete"

MCTarget(c) == "p2"

\* Activity with full equipment, and caches that only know the weapon or mix.
MCActivity == {{Full}}
Legacy == {{Weapon, Typed}, {Typed}, {Weapon, Full}}

\* Writers that race for the row; a repairing read beside a link while the
\* provider resolves ids to any player.
MCScenarios ==
    {[calls |-> {"refreshA", "refreshB", "link", "delete"}, foreign |-> FALSE, cached |-> {{Full}}],
     [calls |-> {"refreshA", "link", "current"}, foreign |-> TRUE, cached |-> Legacy]}

UnlinkScenarios == {[calls |-> {"refreshA", "delete"}, foreign |-> FALSE, cached |-> {{Full}}]}
=============================================================================
