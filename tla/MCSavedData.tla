---------------------------- MODULE MCSavedData ----------------------------
(* Instances of SavedData for TLC. *)
EXTENDS SavedData, TLC

\* One preset, which is not the default.
NoDefault == "p1" :> [name |-> "x", default |-> FALSE]

Preset(op, id, name, default) == [op |-> op, id |-> id, name |-> name, default |-> default]

\* Three creates that want the default, two of them with the same name, an
\* update that makes the old preset the default, a delete, calculations.
MCInput(c) ==
    CASE c = "create1"  -> Preset("create", c, "z", TRUE)
      [] c = "create2"  -> Preset("create", c, "w", TRUE)
      [] c = "create3"  -> Preset("create", c, "z", TRUE)
      [] c = "promote1" -> Preset("update", "p1", "x", TRUE)
      [] c = "delete1"  -> [op |-> "delete", id |-> "p1"]
      [] c \in {"save1", "save2"} -> [op |-> "save"]
      [] c = "drop1"    -> [op |-> "drop", id |-> "save1"]

\* Presets that race for the name and the default; limits.
MCScenarios == {{"create1", "create3", "promote1", "delete1"},
                {"create1", "create2", "save1", "save2", "drop1"}}
=============================================================================
