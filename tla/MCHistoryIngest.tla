-------------------------- MODULE MCHistoryIngest --------------------------
(* An instance of HistoryIngest for TLC. *)
EXTENDS HistoryIngest

Bucket(at, count, price) == [at |-> at, count |-> count, price |-> price]

Entry(item, seen, history) ==
    [location |-> 1, item |-> item, quality |-> 1, observed |-> seen, history |-> history]

Batch(id, entries) == [front |-> "ok", id |-> id, server |-> 1, entries |-> entries]

\* Two items, the first with a bucket that is captured twice, the older last.
First == << Entry(2, 2, <<Bucket(1, 5, {7}), Bucket(2, 4, {0})>>),
            Entry(1, 2, <<Bucket(1, 1, {3})>>),
            Entry(2, 1, <<Bucket(1, 9, {9})>>) >>

\* The same request with the missing price left out.
Again == << Entry(2, 2, <<Bucket(1, 5, {7}), Bucket(2, 4, {})>>),
            Entry(1, 2, <<Bucket(1, 1, {3})>>),
            Entry(2, 1, <<Bucket(1, 9, {9})>>) >>

\* A correction of the same capture of one key and an older one of the other.
Corrects == << Entry(1, 2, <<Bucket(1, 2, {3})>>), Entry(2, 1, <<Bucket(1, 6, {6})>>) >>

\* A request one bucket too large.
TooMany == First \o Corrects

MCInput(c) ==
    CASE c = "first"   -> Batch("r1", First)
      [] c = "again"   -> Batch("r1", Again)
      [] c = "spelled" -> Batch("R1", First)
      [] c = "correct" -> Batch("r2", Corrects)
      [] c = "toomany" -> Batch("r3", TooMany)
      [] c = "denied"  -> [Batch("r3", Corrects) EXCEPT !.front = "auth"]

MCUuid(id) == CASE id \in {"r1", "R1"} -> "r1" [] id = "" -> "none" [] OTHER -> id
=============================================================================
