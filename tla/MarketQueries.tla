--------------------------- MODULE MarketQueries ---------------------------
(***************************************************************************)
(* The public reads of the market: current prices with their seven-day      *)
(* evidence, and history (internal/service, internal/repository,            *)
(* internal/marketcatalog).                                                 *)
(*                                                                          *)
(* Identifiers are numbers in the order of their text.  A text as a caller  *)
(* writes it is [name, spelling]: trimming and lower case leave the name.   *)
(* In the tables a price, a time or a median of 0 is NULL.                  *)
(***************************************************************************)
EXTENDS Integers, Sequences, FiniteSets, FiniteSetsExt, SequencesExt

CONSTANTS Catalog,      \* market key -> [location, enabled]
          Servers,
          MaxMarkets,   \* maxPriceQueryMarkets, maxHistoryQueryMarkets
          MaxEntries,   \* maxPriceQueryEntries, maxHistoryQueryEntries
          MaxDays,      \* maxHistoryQueryDays
          Day, Week     \* in units of time

VARIABLES prices,    \* current_market_prices: a set of rows
          buckets,   \* market_history_buckets: a set of rows
          now,
          answer     \* the last answer, with the request it is for

NoAnswer == [kind |-> "none"]

-----------------------------------------------------------------------------
(* Helpers.                                                                 *)

\* The lexicographic order of tuples of numbers.
Less(a, b) == \E i \in DOMAIN a : a[i] < b[i] /\ \A j \in 1..(i-1) : a[j] = b[j]

\* The elements of S by their keys, which are different.
Ordered(S, Key(_)) ==
    [i \in 1..Cardinality(S) |->
        CHOOSE x \in S : Cardinality({y \in S : Less(Key(y), Key(x))}) = i - 1]

\* A stable sort of a sequence by the keys of its elements.
StableSort(s, Key(_)) ==
    LET at(i) == Append(Key(s[i]), i)
        perm == Ordered(DOMAIN s, at) IN
    [k \in DOMAIN s |-> s[perm[k]]]

-----------------------------------------------------------------------------
(* The catalog and the request.                                             *)

NormalizeKey(raw) == raw.name

\* Plausible bug: what was seen is not remembered.
KeepDuplicates(s) == s

\* The seen maps: the first occurrence of every value.
Deduplicated(s) == FoldLeft(LAMBDA acc, x : IF x \in ToSet(acc) THEN acc ELSE Append(acc, x), <<>>, s)

Keys(q) == Deduplicated([i \in DOMAIN q.markets |-> NormalizeKey(q.markets[i])])

Entries(q) ==
    Deduplicated([i \in DOMAIN q.entries |->
                     [item |-> q.entries[i].item.name, quality |-> q.entries[i].quality]])

\* ResolveEnabled: every key is known and enabled, or there is an error.
Resolvable(keys) ==
    \A i \in DOMAIN keys :
        /\ keys[i] \in DOMAIN Catalog
        /\ Catalog[keys[i]].enabled /\ Catalog[keys[i]].location # 0

Locations(keys) == {Catalog[keys[i]].location : i \in DOMAIN keys}

\* keysByLocation.
KeyAt(keys, location) == CHOOSE k \in ToSet(keys) : Catalog[k].location = location

\* marketOrder: the rank of a market is that of its first mention.
Rank(keys, key) == CHOOSE i \in DOMAIN keys : keys[i] = key

\* normalizePriceQuery, and what normalizeHistoryQuery shares with it.
ValidLookup(q) ==
    /\ q.server \in Servers
    /\ Len(q.markets) \in 1..MaxMarkets /\ Len(q.entries) \in 1..MaxEntries
    /\ Resolvable(Keys(q))
    /\ \A i \in DOMAIN q.entries : q.entries[i].item.name # 0 /\ q.entries[i].quality \in 1..5

\* The rows a statement finds that joins a table with the requested entries:
\* a row comes once for each entry that matches it.
Joined(table, q) ==
    LET es == Entries(q) IN
    {<<r, i>> \in table \X DOMAIN es :
        /\ r.server = q.server /\ r.loc \in Locations(Keys(q))
        /\ r.item = es[i].item /\ r.quality = es[i].quality}

-----------------------------------------------------------------------------
(* Current prices.                                                          *)

HalfEven(twice) ==
    LET down == twice \div 2 IN
    IF twice % 2 = 0 \/ down % 2 = 0 THEN down ELSE down + 1

\* round(percentile_cont(0.5)) of a sorted sequence.
Median(s) ==
    LET n == Len(s) IN
    IF n = 0 THEN 0 ELSE HalfEven(s[(n + 1) \div 2] + s[n \div 2 + 1])

\* history_stats: observations, volume and median of the last seven days.
HistoryStats(found) ==
    LET known == {p \in found : p[1].price # 0}
        byPrice == Ordered(known, LAMBDA p : <<p[1].price, p[1].at, p[2]>>) IN
    [observations |-> Cardinality(found),
     volume |-> MapThenSumSet(LAMBDA p : p[1].count, found),
     median |-> Median([i \in DOMAIN byPrice |-> byPrice[i][1].price])]

\* The buckets of the row's series in the last seven days.
Recent(q, r) ==
    {p \in Joined(buckets, q) : /\ p[1].at >= now - Week
                                /\ p[1].loc = r.loc /\ p[1].item = r.item /\ p[1].quality = r.quality}

\* QueryCurrentPricesWithTrust: one statement.
PriceRows(q) ==
    LET rows == Ordered(Joined(prices, q), LAMBDA p : <<p[1].loc, p[1].item, p[1].quality, p[2]>>) IN
    [i \in DOMAIN rows |-> [row |-> rows[i][1], trust |-> HistoryStats(Recent(q, rows[i][1]))]]

Refused(kind, q, status) == answer' = [kind |-> kind, input |-> q, status |-> status]

\* QueryCurrentPrices and its handler: 400, 500 when the statement fails, or
\* the rows with their market in the order asked for.
QueryCurrentPrices(q) ==
    /\ \/ ~ValidLookup(q) /\ Refused("prices", q, 400)
       \/ ValidLookup(q) /\ Refused("prices", q, 500)
       \/ /\ ValidLookup(q)
          /\ LET ks == Keys(q) IN
             answer' = [kind |-> "prices", input |-> q, status |-> 200,
                        data |-> StableSort(PriceRows(q), LAMBDA p :
                                    <<Rank(ks, KeyAt(ks, p.row.loc)), p.row.item, p.row.quality>>)]
    /\ UNCHANGED <<prices, buckets, now>>

-----------------------------------------------------------------------------
(* History.                                                                 *)

\* resolveHistoryGETRange: without a range, whole days up to yesterday.
GetRange(period) ==
    LET today == now \div Day IN
    CASE period = "7-days"        -> <<today - 7, today - 1>>
      [] period \in {"", "4-weeks"} -> <<today - 28, today - 1>>
      [] OTHER                    -> <<0, 0>>

\* A range is <<first day, last day>>; 0 is a day that is missing or malformed.
RangeOf(q) == IF q.range = <<>> THEN GetRange(q.period) ELSE q.range

\* parseHistoryRange.
ValidRange(range) ==
    /\ range[1] # 0 /\ range[2] # 0
    /\ range[1] <= range[2] /\ range[2] - range[1] + 1 <= MaxDays

\* rangeEndExclusive.
RangeEnd(range) == (range[2] + 1) * Day

\* The order by of the statement, on which the grouping relies.
RowOrder(r) == <<r.loc, r.item, r.quality, r.at>>

\* QueryMarketHistory of the repository: the statement.
HistoryRows(q) ==
    LET es == Entries(q)
        range == RangeOf(q) IN
    Ordered({r \in buckets :
                /\ r.server = q.server /\ r.loc \in Locations(Keys(q))
                /\ \E i \in DOMAIN es : r.item = es[i].item /\ r.quality = es[i].quality
                /\ range[1] * Day <= r.at /\ r.at < RangeEnd(range)}, RowOrder)

\* The loop over the rows: a row extends the last series or starts one.
AddPoint(series, r) ==
    LET point == [at |-> r.at, count |-> r.count, price |-> r.price]
        n == Len(series) IN
    IF n > 0 /\ series[n].loc = r.loc /\ series[n].item = r.item /\ series[n].quality = r.quality
    THEN [series EXCEPT ![n].points = Append(@, point)]
    ELSE Append(series, [loc |-> r.loc, item |-> r.item, quality |-> r.quality, points |-> <<point>>])

\* normalizeHistoryQuery.
ValidHistoryQuery(q) == ValidLookup(q) /\ ValidRange(RangeOf(q))

\* QueryMarketHistory of the service and its handler.
QueryMarketHistory(q) ==
    /\ \/ ~ValidHistoryQuery(q) /\ Refused("history", q, 400)
       \/ ValidHistoryQuery(q) /\ Refused("history", q, 500)
       \/ /\ ValidHistoryQuery(q)
          /\ LET ks == Keys(q)
                 series == FoldLeft(AddPoint, <<>>, HistoryRows(q)) IN
             answer' = [kind |-> "history", input |-> q, status |-> 200,
                        data |-> StableSort(series, LAMBDA s :
                                    <<Rank(ks, KeyAt(ks, s.loc)), s.item, s.quality>>),
                        bucketCount |-> FoldLeft(LAMBDA n, s : n + Len(s.points), 0, series)]
    /\ UNCHANGED <<prices, buckets, now>>

-----------------------------------------------------------------------------
(* The properties' own definitions, over the request as it was made.        *)

\* The first mention of the market of a location.
FirstAsked(q, loc) ==
    Min({i \in DOMAIN q.markets : Catalog[q.markets[i].name].location = loc})

Asked(q, r) ==
    /\ r.server = q.server
    /\ \E i \in DOMAIN q.markets : Catalog[q.markets[i].name].location = r.loc
    /\ \E i \in DOMAIN q.entries : q.entries[i].item.name = r.item /\ q.entries[i].quality = r.quality

SameSeries(a, b) == a.loc = b.loc /\ a.item = b.item /\ a.quality = b.quality

\* An answer to a price query is exactly the stored rows that were asked for,
\* each once although keys and entries repeat, in the order of the markets in
\* the request; the evidence counts every recent bucket once, and at least
\* half of the known prices are on either side of the median.
PricesExact ==
    answer.kind = "prices" /\ answer.status = 200 =>
        LET q == answer.input
            d == answer.data IN
        /\ ToSet([i \in DOMAIN d |-> d[i].row]) = {r \in prices : Asked(q, r)}
        /\ \A i, j \in DOMAIN d : i < j =>
              Less(<<FirstAsked(q, d[i].row.loc), d[i].row.item, d[i].row.quality>>,
                   <<FirstAsked(q, d[j].row.loc), d[j].row.item, d[j].row.quality>>)
        /\ \A i \in DOMAIN d :
              LET t == d[i].trust
                  recent == {b \in buckets : b.server = q.server /\ SameSeries(b, d[i].row) /\ b.at >= now - Week}
                  known == {b \in recent : b.price # 0} IN
              /\ t.observations = Cardinality(recent)
              /\ t.volume = MapThenSumSet(LAMBDA b : b.count, recent)
              /\ 2 * Cardinality({b \in known : b.price <= t.median}) >= Cardinality(known)
              /\ 2 * Cardinality({b \in known : b.price >= t.median}) >= Cardinality(known)

\* An answer to a history query has every bucket of the days asked for, the
\* last day included, once, in one series for each market, item and quality,
\* by time, and the series in the order of the request.
HistoryExact ==
    answer.kind = "history" /\ answer.status = 200 =>
        LET q == answer.input
            d == answer.data
            range == RangeOf(q)
            wanted == {r \in buckets : Asked(q, r) /\ r.at \div Day \in range[1]..range[2]} IN
        /\ answer.bucketCount = Cardinality(wanted)
        /\ \A r \in wanted : \E i \in DOMAIN d : SameSeries(d[i], r) /\
              \E k \in DOMAIN d[i].points : d[i].points[k] = [at |-> r.at, count |-> r.count, price |-> r.price]
        /\ \A i \in DOMAIN d : \A k \in DOMAIN d[i].points : k > 1 => d[i].points[k-1].at < d[i].points[k].at
        /\ \A i, j \in DOMAIN d : i < j =>
              Less(<<FirstAsked(q, d[i].loc), d[i].item, d[i].quality>>,
                   <<FirstAsked(q, d[j].loc), d[j].item, d[j].quality>>)

\* Price and history queries answer exactly what was asked for: duplicates in
\* the request multiply nothing and adjacent grouping splits no series.
QueriesExact == PricesExact /\ HistoryExact
=============================================================================
