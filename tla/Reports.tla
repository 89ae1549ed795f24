------------------------------- MODULE Reports ------------------------------
(***************************************************************************)
(* StatsService.getStats: what it computes from the daily rows of the      *)
(* subgraph.                                                               *)
(*                                                                         *)
(* The subgraph is external: its table has one row for a day on which      *)
(* something happened, and it answers the newest row first.  Each report   *)
(* reads a table of its own; as no report depends on two of them, all read *)
(* the same amounts here (a profit and a loss are the two digits of an     *)
(* amount).  Units of currency are left out, and an average is left        *)
(* undivided: {} where JavaScript has undefined or NaN.  Sorting and       *)
(* filtering are stated by ranks: the i-th is the one with i up to it.     *)
(***************************************************************************)
EXTENDS Calendar, Sequences, SequencesExt, FiniteSetsExt, Functions

CONSTANTS
    AverageDays,  \* MOVING_AVERAGE_DAYS
    MaxChange,    \* above it a change of the pool is not shown (1000)
    RowLimit,     \* rows that most queries ask for (1000)
    PoolPage      \* rows the subgraph answers when no number is asked for (100)

ASSUME ReportsAssumption ==
    /\ AverageDays \in Nat \ {0} /\ MaxChange \in Nat
    /\ RowLimit \in Nat \ {0, 1} /\ PoolPage \in Nat \ {0}

\* the i-th smallest
Ith(S, i) == CHOOSE x \in S : Cardinality({y \in S : y <= x}) = i

(***************************************************************************)
(* The queries: the rows of [from, to], the newest first, at most `first'. *)
(* A row has the totals of profit and loss up to its day.                  *)
(***************************************************************************)
Profit(amount) == amount % 2
Loss(amount)   == amount \div 2

Days(table, from, to) == {d \in DOMAIN table : from <= d * DayLength /\ d * DayLength <= to}
UpTo(table, d) == {e \in DOMAIN table : e <= d}
Profits(table) == [d \in DOMAIN table |-> Profit(table[d])]
Losses(table)  == [d \in DOMAIN table |-> Loss(table[d])]
RowOf(table, d) ==
    [timestamp |-> d * DayLength, amount |-> table[d],
     profitCumulative |-> SumFunctionOnSet(Profits(table), UpTo(table, d)),
     lossCumulative   |-> SumFunctionOnSet(Losses(table), UpTo(table, d))]

Newest(table, days, first) ==
    LET n == Cardinality(days)
    IN  SubSeq([i \in 1..n |-> RowOf(table, Ith(days, n + 1 - i))], 1, Min({n, first}))
Query(table, from, to, first) == Newest(table, Days(table, from, to), first)
QueryAll(table, first) == Newest(table, DOMAIN table, first)

\* the rows in the order of the answer
Unsorted(s) == s

\* lodash: sortBy(data, "timestamp"), which keeps the order of equals
SortBy(s) ==
    LET UpToRow(j) ==
            {k \in DOMAIN s : s[k].timestamp < s[j].timestamp
                              \/ (s[k].timestamp = s[j].timestamp /\ k <= j)}
    IN  [i \in DOMAIN s |-> s[CHOOSE j \in DOMAIN s : Cardinality(UpToRow(j)) = i]]

\* what a filter keeps
Those(s, Test(_)) ==
    LET J == {j \in DOMAIN s : Test(s[j])} IN [i \in 1..Cardinality(J) |-> s[Ith(J, i)]]

\* a loop that pushes an entry for each row
Loop(Entry(_, _), data) == FoldLeft(LAMBDA out, r : Append(out, Entry(out, r)), << >>, data)
\* a field of the entry before, where the loop keeps it in a variable of its own
Before(out, field) == IF out = << >> THEN 0 ELSE Last(out)[field]

Largest(S)  == IF S = {} THEN 0 ELSE Max(S)
Smallest(S) == IF S = {} THEN 0 ELSE Min(S)

(***************************************************************************)
(* calcFeesData and calcVolumesData.  The moving average needs the running *)
(* total that was kept for the day AverageDays earlier.  calcVolumesData   *)
(* keeps none, so its average is never defined.                            *)
(***************************************************************************)
Kept(out, timestamp) ==
    {out[j].cumulative : j \in {k \in DOMAIN out : out[k].timestamp = timestamp}}
Entry(out, r, kept) ==
    LET cumulative == Before(out, "cumulative") + r.amount
    IN  [timestamp |-> r.timestamp, amount |-> r.amount, cumulative |-> cumulative,
         average |-> {cumulative - c : c \in kept}]

FeeEntry(out, r)    == Entry(out, r, Kept(out, r.timestamp - AverageDays * DayLength))
VolumeEntry(out, r) == Entry(out, r, {})
BurnedEntry(out, r) ==
    [timestamp |-> r.timestamp, amount |-> r.amount,
     cumulative |-> Before(out, "cumulative") + r.amount]

CalcFeesData(from, raw) ==
    Those(Loop(FeeEntry, SortBy(raw)), LAMBDA r : r.timestamp >= from)
CalcVolumesData(raw) == Loop(VolumeEntry, SortBy(raw))
CalcBurned(from, raw) ==
    Those(Loop(BurnedEntry, SortBy(raw)), LAMBDA r : r.timestamp >= from)

(***************************************************************************)
(* calcTradersData and calcPayoutOverview, which is the same function of   *)
(* the rows of all time.  The cumulative profit and loss of a row are the  *)
(* subgraph's; the current ones are the totals of the rows that are read.  *)
(***************************************************************************)
TraderEntry(out, r) ==
    LET profit == Profit(r.amount)
        loss   == Loss(r.amount)
    IN  [timestamp |-> r.timestamp, profit |-> profit, loss |-> -loss, pnl |-> profit - loss,
         profitCumulative |-> r.profitCumulative, lossCumulative |-> -r.lossCumulative,
         pnlCumulative |-> r.profitCumulative - r.lossCumulative,
         currentProfitCumulative |-> Before(out, "currentProfitCumulative") + profit,
         currentLossCumulative |-> Before(out, "currentLossCumulative") - loss,
         currentPnlCumulative |-> Before(out, "currentPnlCumulative") + (profit - loss)]

CalcTradersData(raw) == Loop(TraderEntry, SortBy(raw))
CalcPayoutOverview(raw) == CalcTradersData(raw)

\* the extremes that scale the chart
TradersStats(data) ==
    LET last == Last(data)
        Abs(x) == IF x < 0 THEN -x ELSE x
        AbsMax(S) == Max({Abs(Largest(S)), Abs(Smallest(S))})
        Values(f) == {data[i][f] : i \in DOMAIN data}
        maxProfit == Largest(Values("profit"))
        maxLoss   == Smallest(Values("loss"))
    IN  [maxProfit |-> maxProfit, maxLoss |-> maxLoss,
         maxProfitLoss |-> Max({maxProfit, -maxLoss}),
         maxCurrentCumulativeProfitLoss |->
            Max({last.currentProfitCumulative, -last.currentLossCumulative}),
         maxAbsPnl |-> AbsMax(Values("pnl")),
         maxAbsCumulativePnl |-> AbsMax(Values("currentPnlCumulative"))]

(***************************************************************************)
(* calcPoolStats: the change against the last day with a supply, then      *)
(* fillNa, which repeats the last value of a field wherever it is 0.       *)
(***************************************************************************)
\* the change without the cap
ChangeUncapped(supply, last) == IF last = 0 THEN 0 ELSE supply - last

Change(supply, last) ==
    IF last = 0 \/ supply - last > MaxChange THEN 0 ELSE supply - last

\* the rows with their gaps
Unfilled(arr) == arr

Fill(out, el) == [k \in DOMAIN el |-> IF el[k] = 0 THEN Before(out, k) ELSE el[k]]
FillNa(arr) == Loop(Fill, arr)

PoolEntry(out, r) ==
    LET last   == Before(out, "prevGlpSupply")
        supply == IF r.amount = 0 THEN last ELSE r.amount
    IN  [timestamp |-> r.timestamp, supply |-> r.amount, prevGlpSupply |-> supply,
         cumulative |-> Before(out, "cumulative") + r.amount, change |-> Change(supply, last)]

CalcPoolStats(raw) == FillNa(Loop(PoolEntry, SortBy(raw)))

(***************************************************************************)
(* mappingDateArray: the rows of each day of the range, added to zeros.    *)
(***************************************************************************)
Plus(a, b) ==
    [k \in DOMAIN a |-> IF k = "average" THEN {x + y : x \in a[k], y \in b[k]} ELSE a[k] + b[k]]

MappingDateArray(data, dates, zero) ==
    LET OfDay(date) == Those(data, LAMBDA r : DayOf(r.timestamp) = DayOf(date))
    IN  [i \in DOMAIN dates |->
            [FoldLeft(Plus, zero, OfDay(dates[i])) EXCEPT !.timestamp = dates[i]]]

Zeros(fields) == [k \in fields |-> IF k = "average" THEN {0} ELSE 0]
PoolFields    == {"timestamp", "supply", "cumulative", "change"}
BurnedFields  == {"timestamp", "amount", "cumulative"}
AverageFields == {"timestamp", "amount", "cumulative", "average"}
UserFields    == {"timestamp", "existingCount", "uniqueCount", "uniqueCountCumulative"}
TraderFields  == {"timestamp", "profit", "loss", "pnl", "profitCumulative", "lossCumulative",
                  "pnlCumulative", "currentProfitCumulative", "currentLossCumulative",
                  "currentPnlCumulative"}

\* external: the rows of userStats
UserRow(r) ==
    [timestamp |-> r.timestamp, uniqueCount |-> Profit(r.amount),
     existingCount |-> Loss(r.amount), uniqueCountCumulative |-> r.profitCumulative]
UserRows(s) == [i \in DOMAIN s |-> UserRow(s[i])]

CountEntry(out, r) ==
    [cumulativeNewUserCount |-> Before(out, "cumulativeNewUserCount") + r.uniqueCount]
UsersData(s) == Loop(CountEntry, SortBy(UserRows(s)))

(***************************************************************************)
(* getStats: the figures of the overview, from the rows of all time, and   *)
(* one entry a day in each report.                                         *)
(***************************************************************************)
Overview(table) ==
    LET users  == UsersData(QueryAll(table, RowLimit))
        payout == CalcPayoutOverview(QueryAll(table, RowLimit))
        pool   == CalcPoolStats(QueryAll(table, PoolPage))
        n      == Len(QueryAll(table, RowLimit))
        Users(i) == users[i].cumulativeNewUserCount
        Pnl(i) == IF i < 1 THEN 0 ELSE payout[i].pnlCumulative
    IN  [totalUsers      |-> IF n = 0 THEN {} ELSE {Users(n)},
         totalUsersDelta |-> IF n < 2 \/ Users(n) = 0 \/ Users(n - 1) = 0 THEN {}
                             ELSE {Users(n) - Users(n - 1)},
         payout |-> Pnl(n), payoutDelta |-> Pnl(n) - Pnl(n - 1),
         totalPool      |-> IF pool = << >> THEN 0 ELSE Last(pool).supply,
         totalPoolDelta |-> IF pool = << >> THEN 0 ELSE Last(pool).change]

VolumeStats(table, from, to) ==
    MappingDateArray(CalcVolumesData(Query(table, from, to, RowLimit)),
                     Dates(from, to), Zeros(AverageFields))
BurnedETRs(table, from, to) ==
    MappingDateArray(CalcBurned(from, Query(table, from, to, RowLimit)),
                     Dates(from, to), Zeros(BurnedFields))
PoolStats(table, from, to) ==
    MappingDateArray(CalcPoolStats(Query(table, from, to, PoolPage)),
                     Dates(from, to), Zeros(PoolFields))
FeeStats(table, from, to) ==
    MappingDateArray(CalcFeesData(from, Query(table, from, to, RowLimit)),
                     Dates(from, to), Zeros(AverageFields))
TradingStats(table, from, to) ==
    MappingDateArray(CalcTradersData(Query(table, from, to, RowLimit)),
                     Dates(from, to), Zeros(TraderFields))
UserStats(table, from, to) ==
    MappingDateArray(UserRows(Query(table, from, to, RowLimit)),
                     Dates(from, to), Zeros(UserFields))
=============================================================================
