--------------------------- MODULE MCPriceIngest ---------------------------
(* Instances of PriceIngest for TLC. *)
EXTENDS PriceIngest

Entry(k, seen, sell, buy) == [key |-> k, observed |-> seen, sell |-> sell, buy |-> buy]
Quote(at, price) == [at |-> at, price |-> price]

\* Both keys; the first key twice, the older quote last, one side unknown.
BatchA == << Entry("k1", 2, Quote(2, 5), NoQuote),
             Entry("k2", 2, NoQuote, Quote(2, 7)),
             Entry("k1", 1, Quote(1, 9), Quote(1, 4)) >>

\* Overlaps BatchA on both keys: one side older and the other newer, and an
\* equal quote.
BatchB == << Entry("k2", 3, NoQuote, Quote(2, 7)),
             Entry("k1", 3, Quote(1, 3), Quote(3, 2)) >>

\* As new as BatchB on one side, with another price.
BatchC == << Entry("k1", 2, Quote(2, 6), Quote(3, 9)) >>

Send(id, entries) == [front |-> "ok", id |-> id, server |-> "europe", entries |-> entries]

\* Two retries of one batch, one of them in another spelling, a second batch,
\* a reused request_id and a call whose request_id is no UUID.
MCRequest(c) ==
    CASE c = "first"  -> Send("r1", BatchA)
      [] c = "retry"  -> Send("r1", BatchA)
      [] c = "spelled" -> Send("R1", BatchA)
      [] c = "other"  -> Send("r2", BatchB)
      [] c = "reused" -> Send("r1", BatchC)
      [] c = "refused" -> [Send("r2", BatchC) EXCEPT !.id = "no uuid"]

MCUuid(id) == IF id \in {"r1", "R1"} THEN "r1" ELSE id
=============================================================================
