--------------------------- MODULE MCBlackMarket ---------------------------
(* An instance of BlackMarket for TLC. *)
EXTENDS BlackMarket

MCCatalog == [lymhurst |-> [location |-> 2, enabled |-> TRUE], caerleon |-> [location |-> 5, enabled |-> TRUE],
              thetford |-> [location |-> 1, enabled |-> TRUE], black |-> [location |-> 0, enabled |-> FALSE]]

MCDefaultMarkets == <<"lymhurst", "thetford", "caerleon">>

\* A sword, a cape, a bag and an ore.
MCItem(i) ==
    CASE i = 1 -> [tier |-> 4, enchantment |-> 0, body |-> "MAIN_"]
      [] i = 2 -> [tier |-> 5, enchantment |-> 1, body |-> "CAPE_"]
      [] i = 3 -> [tier |-> 4, enchantment |-> 0, body |-> "BAG"]
      [] i = 4 -> [tier |-> 4, enchantment |-> 0, body |-> "ORE"]

Side(price, at) == [price |-> price, at |-> at]
None == Side(0, 0)
Row(loc, item, quality, sell, buy) ==
    [server |-> "west", loc |-> loc, item |-> item, quality |-> quality, sell |-> sell, buy |-> buy]
Bucket(loc, item, quality, at, count, price) ==
    [server |-> "west", loc |-> loc, item |-> item, quality |-> quality, at |-> at, count |-> count, price |-> price]

\* The time of the tables: day 30.
T == 120

MCBuckets ==
    {Bucket(2, 1, 1, 112, 2, 8), Bucket(2, 1, 1, 116, 1, 11), Bucket(2, 1, 1, 120, 1, 0),
     Bucket(2, 1, 1, 91, 5, 20), Bucket(1, 1, 1, 116, 3, 7), Bucket(2, 2, 1, 119, 1, 9),
     Bucket(9, 1, 1, 116, 2, 30), Bucket(9, 1, 1, 117, 5, 0), Bucket(9, 1, 1, 119, 4, 12),
     Bucket(9, 1, 2, 116, 60, 14), Bucket(9, 1, 2, 119, 60, 14),
     [Bucket(2, 1, 1, 116, 7, 3) EXCEPT !.server = "east"]}

MCTables ==
    {[now |-> T, buckets |-> MCBuckets, prices |->
        {Row(2, 1, 1, Side(20, T), None), Row(1, 1, 2, Side(15, T - 3), None),
         Row(5, 1, 2, Side(28, T - 8), None), Row(9, 1, 1, Side(45, T), Side(40, T - 1)),
         Row(2, 2, 1, Side(10, T), None), Row(1, 2, 1, Side(13, T - 1), None), Row(9, 2, 1, None, Side(30, T)),
         Row(2, 3, 1, Side(10, T), None), Row(9, 3, 1, None, Side(30, T))}],
     [now |-> T, buckets |-> {}, prices |->
        {Row(2, 1, 1, Side(20, T - 1), None), Row(1, 1, 1, Side(20, T - 1), None),
         Row(9, 1, 1, Side(30, T), Side(40, T)), Row(2, 2, 2, Side(10, T), None),
         Row(9, 2, 1, None, Side(30, T)), Row(9, 2, 2, None, Side(32, T)),
         Row(2, 4, 1, Side(1, T), None), Row(9, 4, 1, None, Side(90, T))}],
     [now |-> T, buckets |-> {}, prices |->
        {Row(2, 1, 1, Side(20, T - 5), Side(12, T)), [Row(9, 1, 1, None, Side(40, T)) EXCEPT !.server = "east"]}]}

\* A price rises, a better offer appears, an order is gone.
MCArrivals ==
    {Row(2, 1, 1, Side(30, T + 1), None), Row(5, 2, 2, Side(12, T), None),
     Row(9, 1, 1, None, Side(0, T + 1)), Row(9, 1, 1, None, Side(50, T))}

MCBinary == {2^i : i \in 0..12}

Text(name) == [name |-> name, spelling |-> "plain"]
Odd(name) == [name |-> name, spelling |-> "odd"]
Entry(item, quality) == [item |-> Text(item), quality |-> quality]

Lookups ==
    [server : {"west", "moon"},
     markets : {<<>>, <<Text("lymhurst")>>, <<Text("thetford"), Odd("lymhurst"), Odd("thetford")>>,
                <<Text("lymhurst"), Text("thetford")>>, <<Text("black")>>, <<Text("atlantis")>>},
     entries : {<<>>, <<Entry(1, 1)>>, <<Entry(1, 6)>>, <<Entry(0, 1)>>,
                <<Entry(2, 1), Entry(1, 2), Entry(1, 1), [item |-> Odd(1), quality |-> 1]>>}]

MCPriceQueries == Lookups

With(q, period, range) ==
    [server |-> q.server, markets |-> q.markets, entries |-> q.entries, period |-> period, range |-> range]

MCHistoryQueries ==
    {With(q, p, <<>>) : q \in Lookups, p \in {"", "7-days", "4-weeks", "year"}}
    \cup {With(q, "", r) : q \in Lookups, r \in {<<29, 30>>, <<22, 29>>, <<30, 29>>, <<0, 29>>, <<1, 31>>}}

MCAnalyses ==
    {q \in [server : {"west"}, market : {Text("lymhurst"), Odd("thetford"), Text("black")}, item : {Text(1)}, quality : {1, 2},
            quantity : {1, 3, 0}, override : {0, 20, 401, -1},
            tax : {<<0, 1>>, <<1, 20>>, <<4, 5>>, <<999, 1000>>}, transport : {0, 1, 253, 1001}, days : {0, 2, 91}] : q.quantity = 3 => q.days = 0}

Browse(sort, limit) ==
    [server |-> "west", markets |-> <<>>, tiers |-> <<>>, enchantments |-> <<>>, qualities |-> <<>>,
     categories |-> <<>>, minProfit |-> 0, minRoi |-> 0, cityAge |-> 2, blackAge |-> 2, tax |-> <<1, 20>>,
     transport |-> 0, sort |-> Text(sort), limit |-> limit, offset |-> 0]

Plain == Browse("profit", 1)

MCOpportunities ==
    {Browse(sort, limit) : sort \in {"profit", "roi", "freshness"}, limit \in {1, 2, 3}}
    \cup {[Plain EXCEPT !.markets = <<Odd("lymhurst"), Text("lymhurst"), Text("")>>, !.cityAge = 0, !.blackAge = 0],
          [Plain EXCEPT !.tiers = <<4, 4>>, !.qualities = <<1>>, !.transport = 5, !.limit = 0],
          [Plain EXCEPT !.categories = <<Odd("weapon"), Text("accessory")>>, !.minRoi = 60, !.minProfit = 5],
          [Plain EXCEPT !.offset = 2, !.sort = Text("")],
          [Plain EXCEPT !.markets = <<Text("black")>>], [Plain EXCEPT !.markets = <<Text("")>>],
          [Plain EXCEPT !.offset = 3], [Plain EXCEPT !.tiers = <<3>>], [Plain EXCEPT !.categories = <<Text("ore")>>],
          [Plain EXCEPT !.sort = Text("age")], [Plain EXCEPT !.tax = <<1, 1>>], [Plain EXCEPT !.limit = 501]}

MCQueries == [prices |-> MCPriceQueries, history |-> MCHistoryQueries, analysis |-> MCAnalyses,
              opportunities |-> MCOpportunities]
=============================================================================
