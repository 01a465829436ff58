CONSTANTS
    Catalog <- MCCatalog
    Servers = {"west", "east", "europe"}
    MaxMarkets = 3
    MaxEntries = 4
    MaxDays = 30
    Day = 4
    Week = 28
    BlackMarketLoc = 9
    CaerleonLoc = 5
    DefaultMarkets <- MCDefaultMarkets
    Item <- MCItem
    MaxInt = 1023
    Mantissa = 256
    Binary <- MCBinary
    MaxMoney = 127
    MaxOffset = 2
    Minute = 2
    Arrivals <- MCArrivals
    Queries <- MCQueries
    Tables <- MCTables
    MaxTime = 121
SPECIFICATION Spec
INVARIANTS QueriesExact  OpportunitiesKept
CHECK_DEADLOCK FALSE
