---------------------------- MODULE BlackMarket ----------------------------
(***************************************************************************)
(* The analytics of the black market: the economics of one trade, and the   *)
(* list of opportunities, which a client reads page by page while prices    *)
(* arrive and grow old (internal/blackmarket).                              *)
(*                                                                          *)
(* Money has the width of an int64, here -MaxInt-1..MaxInt, and a float64   *)
(* keeps the digits of a number below Mantissa.  A rate is a fraction       *)
(* <<n, d>>, and so is the value of a float.                                *)
(***************************************************************************)
EXTENDS MarketQueries

CONSTANTS BlackMarketLoc, CaerleonLoc,
          DefaultMarkets,  \* defaultOpportunityMarkets
          Item(_),         \* Item(i): [tier, enchantment, body] of an identifier
          MaxInt,
          Mantissa,        \* 2^53: a float64 has the digits of a number below it
          Binary,          \* powers of two that are exponents of a float
          MaxMoney,        \* the limits on minimum profit and transport cost
          MaxOffset,       \* maximumOpportunityOffset
          Minute,          \* in units of time
          Arrivals,        \* rows that may arrive
          Queries,         \* requests, by kind
          Tables,          \* [prices, buckets] to start with
          MaxTime

VARIABLE walk   \* a client that reads the opportunities

vars == <<prices, buckets, now, answer, walk>>

-----------------------------------------------------------------------------
(* Integers and floating point.                                             *)

Wrap(x) == ((x + MaxInt + 1) % (2 * (MaxInt + 1))) - MaxInt - 1

Abs(x) == IF x < 0 THEN -x ELSE x

Ceiling(a, b) == -((-a) \div b)

\* Division of Go, towards zero.
Quotient(a, b) == IF a >= 0 THEN a \div b ELSE -((-a) \div b)

\* The integer nearest to a / b, of two the even one: round of a double precision.
RoundEven(a, b) ==
    LET down == a \div b
        rest == 2 * (a % b) IN
    IF rest > b \/ (rest = b /\ down % 2 = 1) THEN down + 1 ELSE down

\* math.Round, halves up.
Round(x) == (2 * x[1] + x[2]) \div (2 * x[2])

\* The float64 nearest to the fraction <<n, d>>, of two the even one.
Float(n, d) ==
    LET a == Abs(n)
        sign == IF n < 0 THEN -1 ELSE 1
        finer == Max({1} \cup {b \in Binary : b <= (Mantissa * d - 1) \div a})
        coarser == Min({b \in Binary : a \div b < Mantissa * d}) IN
    CASE n = 0            -> <<0, 1>>
      [] a \div d < Mantissa /\ n # 0 -> <<sign * RoundEven(a * finer, d), finer>>
      [] OTHER            -> <<sign * RoundEven(a, d * coarser) * coarser, 1>>

\* The operations of float64: the exact result, rounded.
Whole(n) == Float(n, 1)
Times(x, y) == Float(x[1] * y[1], x[2] * y[2])
Over(x, y) == Float(x[1] * y[2], x[2] * y[1])
OneMinus(x) == Float(x[2] - x[1], x[2])

\* multiply: no product beyond an int64.
Fits(left, right) == left >= 0 /\ right >= 0 /\ (left > 0 => right <= MaxInt \div left)

\* A float that is no int64 becomes what the machine makes of it.
ToInt64(x) == IF x \in (-MaxInt - 1)..MaxInt THEN {x} ELSE {-MaxInt - 1, MaxInt}

-----------------------------------------------------------------------------
(* The analysis of one trade.                                               *)

\* The rate of a request, as it is decoded, and the tax before it is rounded.
Rate(q) == Float(q.tax[1], q.tax[2])

Taxed(x, q) == Times(Whole(x), Rate(q))


\* ceil(cost / quantity / (1 - rate)).
BreakEven(cost, quantity, q) ==
    LET x == Over(Over(Whole(cost), Whole(quantity)), OneMinus(Rate(q))) IN Ceiling(x[1], x[2])

NotReady == [ready |-> FALSE]

\* calculateEconomics.
CalculateEconomics(q, purchase, sale) ==
    IF purchase = 0 \/ sale = 0 THEN {NotReady}
    ELSE IF ~Fits(purchase, q.quantity) \/ ~Fits(sale, q.quantity) THEN {NotReady}
    ELSE LET cost == purchase * q.quantity
             gross == sale * q.quantity
             tax == Round(Taxed(gross, q))
             net == Wrap(gross - tax - q.transport)
             profit == Wrap(net - cost)
             spent == Wrap(cost + q.transport) IN
         {[ready |-> TRUE, cost |-> cost, gross |-> gross, tax |-> tax, net |-> net,
           profit |-> profit, perUnit |-> Quotient(profit, q.quantity),
           breakEven |-> b] : b \in ToInt64(BreakEven(spent, q.quantity, q))}

Positive(price) == IF price > 0 THEN price ELSE 0

Freshness(at) ==
    CASE at = 0          -> "missing"
      [] now - at <= Day -> "fresh"
      [] OTHER           -> "stale"

\* loadPrices: the sale price where one buys, the buy order of the black market.
RowAt(q, loc) ==
    {r \in prices : r.server = q.server /\ r.loc = loc /\ r.item = q.item.name /\ r.quality = q.quality}

Snapshot(rows, side) ==
    IF rows = {} THEN [price |-> 0, freshness |-> "missing"]
    ELSE LET r == CHOOSE x \in rows : TRUE IN
         [price |-> Positive(r[side].price), freshness |-> Freshness(r[side].at)]

\* loadHistory: the buckets of the last days, today included.
HistoryPoints(q, days) ==
    {b \in buckets : /\ b.server = q.server /\ b.loc = BlackMarketLoc
                     /\ b.item = q.item.name /\ b.quality = q.quality
                     /\ b.at >= (now \div Day - (days - 1)) * Day}

\* The buckets of the weighted average: priced, and without overflow.
Weighed(points) == {b \in points : b.price > 0 /\ b.count > 0 /\ b.price <= MaxInt \div b.count}

HistorySummary(points) ==
    LET priced == {b.price : b \in {x \in points : x.price > 0}}
        w == Weighed(points)
        total == Wrap(MapThenSumSet(LAMBDA b : b.price * b.count, w))
        units == Wrap(MapThenSumSet(LAMBDA b : b.count, w)) IN
    [bucketCount |-> Cardinality(points),
     soldUnits |-> Wrap(MapThenSumSet(LAMBDA b : b.count, points)),
     lowest |-> IF priced = {} THEN 0 ELSE Min(priced),
     highest |-> IF priced = {} THEN 0 ELSE Max(priced),
     average |-> IF units > 0 THEN Quotient(total, units) ELSE 0]

Days(q) == IF q.days = 0 THEN 28 ELSE q.days

ValidRate(q) == 0 <= Rate(q)[1] /\ Rate(q)[1] < Rate(q)[2]

\* The checks of Analyze.
ValidAnalysis(q) ==
    /\ q.server \in Servers
    /\ q.item.name # 0
    /\ q.quality \in 1..5 /\ q.quantity \in 1..1000000
    /\ q.transport >= 0 /\ q.override >= 0
    /\ Days(q) \in 1..90
    /\ ValidRate(q)
    /\ Resolvable(<<NormalizeKey(q.market)>>)

\* Analyze and its handler.
Analyze(q) ==
    /\ \/ ~ValidAnalysis(q) /\ Refused("analysis", q, 400)
       \/ ValidAnalysis(q) /\ Refused("analysis", q, 500)
       \/ /\ ValidAnalysis(q)
          /\ LET purchase == Snapshot(RowAt(q, Catalog[NormalizeKey(q.market)].location), "sell")
                 black == Snapshot(RowAt(q, BlackMarketLoc), "buy")
                 sale == IF q.override > 0 THEN q.override ELSE black.price
                 history == HistorySummary(HistoryPoints(q, Days(q))) IN
             \E e \in CalculateEconomics(q, purchase.price, sale) :
                answer' = [kind |-> "analysis", input |-> q, status |-> 200,
                           purchase |-> purchase, black |-> black, sale |-> sale,
                           economics |-> e, history |-> history,
                           warnings |-> {w \in {"purchase", "black", "stale", "history"} :
                               CASE w = "purchase" -> purchase.price = 0
                                 [] w = "black" -> black.price = 0
                                 [] w = "stale" -> "stale" \in {purchase.freshness, black.freshness}
                                 [] w = "history" -> history.bucketCount = 0}]
    /\ UNCHANGED <<prices, buckets, now, walk>>

-----------------------------------------------------------------------------
(* Opportunities: the request.                                              *)

\* normalizeUniqueStrings.
UniqueNames(raw) ==
    Deduplicated(SelectSeq([i \in DOMAIN raw |-> NormalizeKey(raw[i])], LAMBDA k : k # ""))

OpportunityKeys(q) == IF q.markets = <<>> THEN DefaultMarkets ELSE UniqueNames(q.markets)

\* normalizeInt16Filter: an empty filter is the whole range.
Filter(values, range) == IF values = <<>> THEN range ELSE ToSet(values)

Categories(q) ==
    IF q.categories = <<>> THEN {"weapon", "armor", "offhand", "accessory"}
    ELSE ToSet(UniqueNames(q.categories))

OrDefault(x, default) == IF x = 0 THEN default ELSE x

CityAge(q) == OrDefault(q.cityAge, 30) * Minute
BlackAge(q) == OrDefault(q.blackAge, 20) * Minute
Limit(q) == OrDefault(q.limit, 100)
Sort(q) == IF NormalizeKey(q.sort) = "" THEN "profit" ELSE NormalizeKey(q.sort)

\* normalizeOpportunitiesRequest.
ValidOpportunities(q) ==
    /\ q.server \in Servers
    /\ Len(OpportunityKeys(q)) \in 1..7 /\ Resolvable(OpportunityKeys(q))
    /\ ToSet(q.tiers) \subseteq 4..8 /\ ToSet(q.enchantments) \subseteq 0..4
    /\ ToSet(q.qualities) \subseteq 1..5
    /\ Categories(q) # {} /\ Categories(q) \subseteq {"weapon", "armor", "offhand", "accessory"}
    /\ q.minProfit \in 0..MaxMoney /\ q.transport \in 0..MaxMoney
    /\ q.minRoi \in 0..100000
    /\ OrDefault(q.cityAge, 30) \in 1..10080 /\ OrDefault(q.blackAge, 20) \in 1..10080
    /\ ValidRate(q)
    /\ Sort(q) \in {"profit", "roi", "freshness"}
    /\ Limit(q) \in 1..500 /\ q.offset \in 0..MaxOffset

-----------------------------------------------------------------------------
(* Opportunities: the statement.                                            *)

\* The patterns of the statement on the body of an identifier.
SqlCategory(body) ==
    CASE body \in {"MAIN_", "2H_"}             -> "weapon"
      [] body \in {"HEAD_", "ARMOR_", "SHOES_"} -> "armor"
      [] body = "OFF_"                         -> "offhand"
      [] body \in {"CAPE_", "BAG_"}            -> "accessory"
      [] OTHER                                 -> ""

\* opportunityCategory: bags need no underscore here.
OpportunityCategory(body) == IF body \in {"BAG_", "BAG"} THEN "accessory" ELSE SqlCategory(body)

\* The filter on the identifier that the parts of the statement share.
Selected(q, i) ==
    /\ Item(i).tier \in Filter(q.tiers, 4..8)
    /\ Item(i).enchantment \in Filter(q.enchantments, 0..4)
    /\ SqlCategory(Item(i).body) \in Categories(q)

\* black_market.
BlackRows(q) ==
    {r \in prices : /\ r.server = q.server /\ r.loc = BlackMarketLoc
                    /\ r.buy.price > 0 /\ r.buy.at # 0 /\ r.buy.at >= now - BlackAge(q)
                    /\ Selected(q, r.item)}

\* source_market.
SourceRows(q) ==
    {r \in prices : /\ r.server = q.server /\ r.loc \in Locations(OpportunityKeys(q))
                    /\ r.sell.price > 0 /\ r.sell.at # 0 /\ r.sell.at >= now - CityAge(q)
                    /\ r.quality \in Filter(q.qualities, 1..5)
                    /\ Selected(q, r.item)}

\* candidate: an order takes its quality or a better one.
Candidates(q) ==
    {p \in SourceRows(q) \X BlackRows(q) : p[2].item = p[1].item /\ p[2].quality <= p[1].quality}

Net(q, black) ==
    LET tax == Taxed(black.buy.price, q) IN black.buy.price - RoundEven(tax[1], tax[2])

Cost(q, source) == source.sell.price + q.transport

Profit(q, p) == Net(q, p[2]) - Cost(q, p[1])

\* return_on_cost_percent.
Roi(q, p) == Times(Over(Whole(Profit(q, p)), Whole(Cost(q, p[1]))), Whole(100))

\* eligible.
Eligible(q) ==
    {p \in Candidates(q) : /\ Profit(q, p) >= q.minProfit
                           /\ Roi(q, p)[1] >= Whole(q.minRoi)[1] * Roi(q, p)[2]}

\* ranked, filtered: the best pair of a market and an item.
Filtered(q) ==
    LET key(p) == <<-Profit(q, p), p[1].quality, -p[2].quality>>
        eligible == Eligible(q) IN
    {p \in eligible : \A o \in eligible :
        o[1].loc = p[1].loc /\ o[1].item = p[1].item => ~Less(key(o), key(p))}

\* The order by clause, for comparison with another pair: the returns on cost
\* are fractions, which are compared crosswise.
SortKey(q, p, other) ==
    LET profit == -Profit(q, p)
        roi == -(Roi(q, p)[1] * Roi(q, other)[2]) IN
    CASE Sort(q) = "profit"    -> <<profit, roi, -p[2].buy.at>>
      [] Sort(q) = "roi"       -> <<roi, profit, -p[2].buy.at>>
      [] Sort(q) = "freshness" -> <<-Max({p[1].sell.at, p[2].buy.at}), profit>>

Sooner(q, a, b) == Less(SortKey(q, a, b), SortKey(q, b, a))

\* What order by leaves open: pairs that tie come in any order.
Orderings(q) ==
    LET filtered == Filtered(q)
        sooner == {<<a, b>> \in filtered \X filtered : Sooner(q, a, b)} IN
    {s \in SetToSeqs(filtered) : \A i, j \in DOMAIN s : i < j => <<s[j], s[i]>> \notin sooner}

\* The lateral join: the cheapest offer in Caerleon that fills the order.
Competitors(q, p) ==
    {r \in prices : /\ r.server = q.server /\ r.loc = CaerleonLoc
                    /\ r.item = p[1].item /\ r.quality >= p[2].quality
                    /\ r.sell.price > 0 /\ r.sell.at # 0 /\ r.sell.at >= now - Week}

\* buildOpportunityCompetition: canFillProfitably.
CanFill(q, p) ==
    LET cheapest == Min({r.sell.price : r \in Competitors(q, p)}) IN
    Competitors(q, p) # {} /\ Net(q, p[2]) - cheapest - q.transport > 0

AgeMinutes(at) == IF at > now THEN 0 ELSE (now - at) \div Minute

\* The score of one age in its window.
AgeRisk(age, maximum) ==
    CASE age * 4 >= maximum * 3 -> 2
      [] age * 2 >= maximum     -> 1
      [] OTHER                  -> 0

\* opportunityRisk.
RiskScore(q, p) ==
    AgeRisk(AgeMinutes(p[1].sell.at), OrDefault(q.cityAge, 30))
    + AgeRisk(AgeMinutes(p[2].buy.at), OrDefault(q.blackAge, 20))
    + (IF p[1].loc # CaerleonLoc /\ CanFill(q, p) THEN 2 ELSE 0)
    + (IF p[2].sell.price > 0 /\ p[2].sell.price <= p[2].buy.price THEN 2 ELSE 0)

Risk(q, p) ==
    CASE RiskScore(q, p) >= 4 -> "high"
      [] RiskScore(q, p) >= 2 -> "medium"
      [] OTHER                -> "low"

\* A row of the answer.
Opportunity(q, p) ==
    [pair |-> p, profit |-> Profit(q, p), breakEven |-> BreakEven(Cost(q, p[1]), 1, q),
     canFill |-> CanFill(q, p), risk |-> Risk(q, p)]

-----------------------------------------------------------------------------
(* Opportunities: the handler, called page by page.                         *)

NoWalk == [pc |-> "idle"]

\* A request that is refused, or the first page.
OpenWalk(q) ==
    /\ walk.pc = "idle"
    /\ \/ ~ValidOpportunities(q) /\ Refused("opportunities", q, 400) /\ UNCHANGED walk
       \/ /\ ValidOpportunities(q)
          /\ walk' = [pc |-> "load", input |-> q, offset |-> q.offset, page |-> <<>>, total |-> 0,
                      seen |-> <<>>, warnings |-> {}, read |-> 0, raced |-> FALSE, first |-> {}, stable |-> TRUE]
          /\ UNCHANGED answer
    /\ UNCHANGED <<prices, buckets, now>>

\* loadOpportunities, one statement: the page, and the count that comes with
\* its rows.  Rows without a category are skipped afterwards.
LoadOpportunities ==
    LET q == walk.input IN
    /\ walk.pc = "load"
    /\ \E s \in Orderings(q) :
          LET rows == SubSeq(s, walk.offset + 1, Min({walk.offset + Limit(q), Len(s)}))
              kept == SelectSeq(rows, LAMBDA p : OpportunityCategory(Item(p[1].item).body) # "") IN
          walk' = [walk EXCEPT !.pc = "coverage", !.raced = FALSE, !.read = now,
                       !.page = [i \in DOMAIN kept |-> Opportunity(q, kept[i])],
                       !.total = IF rows = <<>> THEN 0 ELSE Len(s),
                       !.first = IF walk.offset = q.offset THEN Filtered(q) ELSE @,
                       !.stable = walk.offset = q.offset \/ (@ /\ walk.first = Filtered(q))]
    /\ UNCHANGED <<prices, buckets, now, answer>>

\* loadOpportunityCoverage: the rows with a price, whatever their age.
CoverageBlack(q) == {r \in prices : r.server = q.server /\ r.loc = BlackMarketLoc /\ r.buy.price > 0 /\ r.buy.at # 0}

CoverageSource(q) ==
    {r \in prices : r.server = q.server /\ r.loc \in Locations(OpportunityKeys(q)) /\ r.sell.price > 0 /\ r.sell.at # 0}

\* Plausible bug: a full page is taken for the last one.
MoreByLimit(offset, returned, total) == offset + returned + 1 < total

\* int64(request.offset+returned) < totalMatching.
More(offset, returned, total) == offset + returned < total

\* The age is that of the time read before the statements.
Outdated(times, maximum) == times # {} /\ walk.read - Max(times) >= (maximum + 1) * Minute

\* opportunityWarnings.
Warnings(q) ==
    {w \in {"noBlack", "noSource", "oldBlack", "oldSource", "none", "more"} :
        CASE w = "noBlack"   -> CoverageBlack(q) = {}
          [] w = "noSource"  -> CoverageSource(q) = {}
          [] w = "oldBlack"  -> Outdated({r.buy.at : r \in CoverageBlack(q)}, OrDefault(q.blackAge, 20))
          [] w = "oldSource" -> Outdated({r.sell.at : r \in CoverageSource(q)}, OrDefault(q.cityAge, 30))
          [] w = "none"      -> walk.page = <<>> /\ CoverageBlack(q) # {} /\ CoverageSource(q) # {}
          [] w = "more"      -> More(walk.offset, Len(walk.page), walk.total)}

\* The second statement and the answer; the client goes on while it is told
\* that there is more.
LoadCoverage ==
    LET w == Warnings(walk.input) IN
    /\ walk.pc = "coverage"
    /\ walk' = [walk EXCEPT !.pc = IF "more" \in w THEN "next" ELSE "done",
                            !.offset = @ + Len(walk.page),
                            !.warnings = w,
                            !.seen = @ \o walk.page]
    /\ UNCHANGED <<prices, buckets, now, answer>>

\* The next page is a request of its own, which is checked as the first was.
NextPage ==
    LET q == [walk.input EXCEPT !.offset = walk.offset] IN
    /\ walk.pc = "next"
    /\ IF ValidOpportunities(q)
       THEN walk' = [walk EXCEPT !.pc = "load"] /\ UNCHANGED answer
       ELSE walk' = [walk EXCEPT !.pc = "refused"] /\ Refused("opportunities", q, 400)
    /\ UNCHANGED <<prices, buckets, now>>

\* Either statement fails: 500, and the client gives up.
WalkFails ==
    /\ walk.pc \in {"load", "coverage"}
    /\ Refused("opportunities", walk.input, 500)
    /\ walk' = NoWalk
    /\ UNCHANGED <<prices, buckets, now>>

-----------------------------------------------------------------------------
(* What goes on between two statements: what arrives after the check of a    *)
(* request has arrived before it.                                           *)

Newer(old, new) == IF new.at # 0 /\ new.at >= old.at THEN new ELSE old

\* An ingested row: the newer side replaces, which may take a price away.
Ingest(r) ==
    LET same == {x \in prices : x.server = r.server /\ SameSeries(x, r)}
        merged == IF same = {} THEN r
                  ELSE LET x == CHOOSE y \in same : TRUE IN
                       [x EXCEPT !.sell = Newer(x.sell, r.sell), !.buy = Newer(x.buy, r.buy)] IN
    /\ walk.pc \in {"coverage", "next"}
    /\ merged \notin prices
    /\ prices' = (prices \ same) \cup {merged}
    /\ walk' = IF walk.pc = "coverage" THEN [walk EXCEPT !.raced = TRUE] ELSE walk
    /\ answer' = NoAnswer
    /\ UNCHANGED <<buckets, now>>

Tick ==
    /\ walk.pc \in {"coverage", "next"} /\ now < MaxTime
    /\ now' = now + 1
    /\ answer' = NoAnswer
    /\ UNCHANGED <<prices, buckets, walk>>

Init ==
    /\ \E t \in Tables : prices = t.prices /\ buckets = t.buckets /\ now = t.now
    /\ answer = NoAnswer
    /\ walk = NoWalk

Ask(kind, q) ==
    /\ walk.pc = "idle" /\ answer = NoAnswer
    /\ \/ kind = "prices" /\ QueryCurrentPrices(q) /\ UNCHANGED walk
       \/ kind = "history" /\ QueryMarketHistory(q) /\ UNCHANGED walk
       \/ kind = "analysis" /\ Analyze(q)
       \/ kind = "opportunities" /\ OpenWalk(q)

Next ==
    \/ \E kind \in DOMAIN Queries : \E q \in Queries[kind] : Ask(kind, q)
    \/ LoadOpportunities
    \/ LoadCoverage
    \/ NextPage
    \/ WalkFails
    \/ \E r \in Arrivals : Ingest(r)
    \/ Tick

Spec == Init /\ [][Next]_vars

-----------------------------------------------------------------------------
(* Properties.                                                              *)

\* What is spent on a trade, which the analysis adds up unchecked.
Spent(q, e) == e.cost + q.transport

\* The figures add up without error.
ProfitExact(q, e) == e.profit = answer.sale * q.quantity - e.tax - Spent(q, e)

\* The tax is the rate of the revenue to the nearest unit, up to the error of
\* three roundings: of the revenue, of the rate and of their product.
TaxClose(q, e) ==
    LET n == q.tax[1]
        d == q.tax[2] IN
    2 * Mantissa * Abs(e.tax * d - e.gross * n) <= Mantissa * d + 8 * e.gross * n

\* The break-even price covers what is spent and the tax, and the price below it
\* does not, up to the error of the roundings; that of the rate weighs the more,
\* the less of the revenue is left.
BreakEvenClose(q, e) ==
    LET n == q.tax[1]
        d == q.tax[2]
        left == d - n IN
    Mantissa * left * Abs(e.breakEven * q.quantity * left - Spent(q, e) * d)
        <= Mantissa * left * left * q.quantity + Spent(q, e) * d * (4 * left + 2 * n)

\* Without a tax and within the digits of a float it is exact.
BreakEvenExact(q, e) ==
    q.tax[1] = 0 /\ Spent(q, e) <= Mantissa =>
        /\ e.breakEven * q.quantity >= Spent(q, e)
        /\ (e.breakEven - 1) * q.quantity < Spent(q, e)


\* The pairs that the order by clause tells apart from every other.
Untied(q, pairs) == {p \in pairs : \A o \in pairs \ {p} : Sooner(q, o, p) \/ Sooner(q, p, o)}

\* A client that follows the hint to the next page meets no opportunity before
\* a better one, none of them twice, and at the end as many as there are; one
\* whose next page is refused has seen the best ones, up to the largest offset.
\* The opportunities must not change between two pages, and of those that tie,
\* which the order by clause leaves open, some may come twice and others never.
WalkSeesAll ==
    walk.pc \in {"done", "refused"} /\ walk.stable /\ walk.input.offset = 0 =>
        LET q == walk.input
            pairs == [i \in DOMAIN walk.seen |-> walk.seen[i].pair]
            missed == Untied(q, walk.first) \ ToSet(pairs) IN
        /\ \A i, j \in DOMAIN pairs : i < j =>
              /\ ~Sooner(q, pairs[j], pairs[i])
              /\ pairs[i] = pairs[j] => pairs[i] \notin Untied(q, walk.first)
        /\ walk.pc = "done" => Len(pairs) = Cardinality(walk.first) /\ missed = {}
        /\ walk.pc = "refused" =>
              /\ Len(pairs) > MaxOffset
              /\ \A p \in missed, i \in DOMAIN pairs : Sooner(q, pairs[i], p)

\* What a pair costs is little enough for the roundings not to move its break-even
\* price by half a unit.
Small(q, p) ==
    LET n == q.tax[1]
        left == q.tax[2] - n IN
    2 * Cost(q, p[1]) * (4 * left + 2 * n) <= Mantissa * left

\* A profit is never offered below the break-even price, and a low risk means
\* that no one can profitably fill the order from Caerleon, that the orders do
\* not cross, and that no price is in the last quarter of its window.
OffersAreRight ==
    walk.pc # "idle" => \A i \in DOMAIN walk.page :
        LET o == walk.page[i]
            p == o.pair IN
        /\ Small(walk.input, p) =>
              /\ o.profit > 0 => p[2].buy.price >= o.breakEven
              /\ o.profit < 0 => p[2].buy.price <= o.breakEven
        /\ o.risk = "low" =>
              /\ p[1].loc = CaerleonLoc \/ ~o.canFill
              /\ ~(p[2].sell.price > 0 /\ p[2].sell.price <= p[2].buy.price)
              /\ walk.pc = "coverage" =>
                    4 * (walk.read - p[1].sell.at) < 3 * CityAge(walk.input) + 4 * Minute

\* The hints do not contradict the page, although they come from a second
\* statement, unless prices arrived between the two.
HintsAgree ==
    walk.pc \in {"next", "done"} /\ walk.warnings # {} /\ walk.page # <<>> /\ ~walk.raced =>
        walk.warnings \subseteq {"more"}

\* What a client that pages through the opportunities may rely on while prices
\* arrive between two pages and between the two statements of a page.
OpportunitiesKept == WalkSeesAll /\ OffersAreRight /\ HintsAgree
=============================================================================
