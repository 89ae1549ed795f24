----------------------------- MODULE Statistics -----------------------------
(***************************************************************************)
(* The reading side: the reports of StatsService over rows that the        *)
(* subgraph keeps changing, and which day and week the leaderboard and a   *)
(* user's statistics ask for.                                              *)
(***************************************************************************)
EXTENDS Reports, FiniteSets

CONSTANTS
    MaxAmount,    \* bound on the amount of a row
    MaxRowDay,    \* bound on the days that get a row
    Horizon       \* bound on the time

ASSUME StatisticsAssumption ==
    MaxAmount \in Nat /\ MaxRowDay \in Nat /\ Horizon \in Nat /\ WeeklyStart <= Horizon

VARIABLES
    now,   \* the time
    rows   \* the subgraph's table: the amount of each day that has a row

vars == <<now, rows>>
Amount == 0..MaxAmount

\* getStats answers a supply that was read and a change that is not above the cap
TypeOK ==
    /\ now \in 0..Horizon
    /\ DOMAIN rows \subseteq 0..DayOf(now)
    /\ \A d \in DOMAIN rows : rows[d] \in Amount
    /\ Overview(rows).totalPool \in Amount
    /\ Overview(rows).totalPoolDelta \in -MaxAmount..MaxChange

\* both tournaments have begun
Init == now = WeeklyStart /\ rows = << >>

Tick == now < Horizon /\ now' = now + 1 /\ UNCHANGED rows

\* an event of today creates or changes today's row
RowWritten ==
    /\ DayOf(now) <= MaxRowDay
    /\ \E a \in Amount :
          rows' = [d \in DOMAIN rows \cup {DayOf(now)} |-> IF d = DayOf(now) THEN a ELSE rows[d]]
    /\ UNCHANGED now

Next == Tick \/ RowWritten
Spec == Init /\ [][Next]_vars

(***************************************************************************)
(* The leaderboard and the statistics of a user: the ids they ask for.     *)
(***************************************************************************)
GetOffsets ==
    [dailyOffset |-> CurrentDayIndex(now, 0), weeklyOffset |-> CurrentWeekIndex(now, 0),
     dailyId |-> DayId(now, 0), weeklyId |-> WeekId(now, 0)]

\* IsOffsetInRange, on an offset that is not left out
DailyOffsets  == {NoOffset} \cup 1..CurrentDayIndex(now, 0)
WeeklyOffsets == {NoOffset} \cup 1..CurrentWeekIndex(now, 0)
LeaderboardDay(offset)  == DayTimestamp(now, offset)
LeaderboardWeek(offset) == WeekTimestamp(now, offset)

\* UsersService.getStats passes the number of the day to the week as well
UserStatsIds ==
    [daily  |-> DayTimestamp(now, CurrentDayIndex(now, 0)),
     weekly |-> WeekTimestamp(now, CurrentDayIndex(now, 0))]

-----------------------------------------------------------------------------
(* Properties *)

Requests == {r \in (0..now) \X (0..now) : r[1] <= r[2]}
RowsIn(from, to) == Days(rows, from, to)
\* the days whose rows a query answers: the newest
Read(from, to, first) ==
    {d \in RowsIn(from, to) : Cardinality({e \in RowsIn(from, to) : e >= d}) <= first}
SumOf(S) == SumFunctionOnSet(rows, S)
Pnls     == [d \in DOMAIN rows |-> Profit(rows[d]) - Loss(rows[d])]
PnlOf(S) == SumFunctionOnSet(Pnls, S)

\* The totals of a report (the cumulative fields of StatsService.calc...) are the sums of the
\* rows from the first day of the range; the average of the fees is the total of the last
\* AverageDays days, and is there only when the row AverageDays earlier is in the range; that
\* of the volumes is never there; and the bounds of the trading chart bound what it shows.
TotalsAddUp ==
    /\ \A r \in Requests :
        LET in      == Read(r[1], r[2], RowLimit)
            dates   == Dates(r[1], r[2])
            fees    == FeeStats(rows, r[1], r[2])
            volumes == VolumeStats(rows, r[1], r[2])
            burned  == BurnedETRs(rows, r[1], r[2])
            trading == TradingStats(rows, r[1], r[2])
            scale   == TradersStats(CalcTradersData(Query(rows, r[1], r[2], RowLimit)))
        IN  \A i \in {j \in DOMAIN dates : DayOf(dates[j]) \in in} :
              LET d    == DayOf(dates[i])
                  upTo == {e \in in : e <= d}
              IN  /\ {fees[i].cumulative, volumes[i].cumulative, burned[i].cumulative} = {SumOf(upTo)}
                  /\ fees[i].average = {SumOf({f \in upTo : f > e}) : e \in in \cap {d - AverageDays}}
                  /\ volumes[i].average = {}
                  /\ trading[i].currentPnlCumulative = PnlOf(upTo)
                  /\ trading[i].pnlCumulative = PnlOf({e \in DOMAIN rows : e <= d})
                  /\ {trading[i].pnl, -trading[i].pnl} \subseteq -scale.maxAbsPnl..scale.maxAbsPnl
                  /\ trading[i].currentPnlCumulative
                        \in -scale.maxAbsCumulativePnl..scale.maxAbsCumulativePnl
    /\ Overview(rows).payout = PnlOf(DOMAIN rows)
    /\ rows # << >> => Overview(rows).payoutDelta = PnlOf({Max(DOMAIN rows)})

\* getDates and mappingDateArray show each row of the range exactly once, on its day, except
\* that of the last day when the range ends at an earlier time of day than it begins; the
\* report of the pool shows those of the PoolPage newest rows.
EveryRowShown ==
    \A r \in Requests :
        LET dates   == Dates(r[1], r[2])
            volumes == VolumeStats(rows, r[1], r[2])
            pool    == PoolStats(rows, r[1], r[2])
        IN  \A d \in RowsIn(r[1], r[2]) :
              LET shown == {i \in DOMAIN dates : DayOf(dates[i]) = d}
              IN  /\ Cardinality(shown) =
                        IF d = DayOf(r[2]) /\ TimeOfDay(r[2]) < TimeOfDay(r[1]) THEN 0 ELSE 1
                  /\ \A i \in shown :
                        /\ volumes[i].amount = IF d \in Read(r[1], r[2], RowLimit) THEN rows[d] ELSE 0
                        /\ d \notin Read(r[1], r[2], PoolPage) => pool[i].supply = 0
                        /\ d \in Read(r[1], r[2], PoolPage) /\ rows[d] # 0 => pool[i].supply = rows[d]

\* calcPoolStats and fillNa: a day shows the last supply that is not 0, and the last change
\* that is not 0 and not above MaxChange, so that a day without change repeats an earlier one.
PoolFilled ==
    \A r \in Requests :
        LET dates == Dates(r[1], r[2])
            pool  == PoolStats(rows, r[1], r[2])
            paged == Read(r[1], r[2], PoolPage)
            Stock(d)  == {e \in paged : e <= d /\ rows[e] # 0}
            Latest(S) == IF S = {} THEN 0 ELSE rows[Max(S)]
            Moved(d)  == IF Stock(d - 1) = {} THEN 0
                         ELSE Latest(Stock(d)) - Latest(Stock(d - 1))
            moves     == {e \in paged : Moved(e) # 0 /\ Moved(e) <= MaxChange}
        IN  \A i \in {j \in DOMAIN dates : DayOf(dates[j]) \in paged} :
              LET d      == DayOf(dates[i])
                  before == {e \in moves : e <= d}
              IN  /\ pool[i].supply = Latest(Stock(d))
                  /\ pool[i].change = IF before = {} THEN 0 ELSE Moved(Max(before))

\* What getStats shows of a day that is over does not change any more, however often it is
\* asked again: today's row, the only one that is still written, has no part in it.  The
\* report of the pool is an exception when a new row pushes the oldest one off its page.
Yesterday == [d \in DOMAIN rows \ {DayOf(now)} |-> rows[d]]
Past(report) ==
    [i \in {j \in DOMAIN report : DayOf(report[j].timestamp) < DayOf(now)} |-> report[i]]
PastDaysStable ==
    \A r \in Requests :
        /\ Cardinality(RowsIn(r[1], r[2])) <= RowLimit =>
              /\ Past(FeeStats(rows, r[1], r[2])) = Past(FeeStats(Yesterday, r[1], r[2]))
              /\ Past(VolumeStats(rows, r[1], r[2])) = Past(VolumeStats(Yesterday, r[1], r[2]))
              /\ Past(BurnedETRs(rows, r[1], r[2])) = Past(BurnedETRs(Yesterday, r[1], r[2]))
              /\ Past(TradingStats(rows, r[1], r[2])) = Past(TradingStats(Yesterday, r[1], r[2]))
              /\ Past(UserStats(rows, r[1], r[2])) = Past(UserStats(Yesterday, r[1], r[2]))
        /\ Cardinality(RowsIn(r[1], r[2])) <= PoolPage =>
              Past(PoolStats(rows, r[1], r[2])) = Past(PoolStats(Yesterday, r[1], r[2]))

\* The offsets of the tournaments name consecutive days (weeks).  The last one, like a request
\* without one and the statistics of a user, names the current day (week), whose id getOffsets
\* answers.  As a tournament does not begin at midnight, offset k is read as the day on which
\* its k-th day begins or as the one after, depending on the time of day.  The time left of a
\* day, as getSummary answers it, ends with the day of the id; that of a week ends on a Sunday,
\* when the weekly id does not change (the epoch's weeks do not begin on a Monday).
OffsetsNameDays ==
    LET first(start, length) == start \div length
        Names(Id(_), current, start, length, offsets) ==
            /\ Id(NoOffset) = now \div length
            /\ Id(current) = now \div length
            /\ \A k \in offsets \ {NoOffset} :
                /\ Id(k) \in {first(start, length) + k - 1, first(start, length) + k}
                /\ k < current => Id(k + 1) = Id(k) + 1
    IN  /\ Names(LeaderboardDay, GetOffsets.dailyOffset, DailyStart, DayLength, DailyOffsets)
        /\ Names(LeaderboardWeek, GetOffsets.weeklyOffset, WeeklyStart, WeekLength, WeeklyOffsets)
        /\ DayId(EndOfDay(now), 0) = DayId(now, 0) + 1 /\ DayId(EndOfDay(now) - 1, 0) = DayId(now, 0)
        /\ EndOfWeek(now) - now \in 1..WeekLength /\ Weekday(EndOfWeek(now)) = 1
        /\ FirstWeekday # 1 => WeekId(EndOfWeek(now), 0) = WeekId(EndOfWeek(now) - 1, 0)
        /\ <<GetOffsets.dailyId, GetOffsets.weeklyId>> = <<DayOf(now), now \div WeekLength>>
        /\ <<UserStatsIds.daily, UserStatsIds.weekly>> = <<DayOf(now), now \div WeekLength>>
=============================================================================
