------------------------------ MODULE Calendar ------------------------------
(***************************************************************************)
(* Days and weeks as the reading side counts them: common/utils/date.ts,   *)
(* with the tournaments of common/constants/leaderboard.ts.                *)
(*                                                                         *)
(* Time is UTC and counted in units, DayLength of them to a day and        *)
(* WeekDays days to a week; \div rounds down, as Math.floor does.  A       *)
(* tournament's days begin at the time of day it started, not at           *)
(* midnight, while the ids of the statistics count from the epoch.         *)
(***************************************************************************)
EXTENDS Integers

CONSTANTS
    DayLength,    \* units in a day
    WeekDays,     \* days in a week
    FirstWeekday, \* the weekday of day 0, Monday being 1
    DailyStart,   \* DailyTournamentConfig[network].startTimestamp
    WeeklyStart   \* WeeklyTournamentConfig[network].startTimestamp

ASSUME CalendarAssumption ==
    /\ DayLength \in Nat \ {0} /\ WeekDays \in Nat \ {0}
    /\ FirstWeekday \in 1..WeekDays
    /\ DailyStart \in Nat /\ WeeklyStart \in Nat
    /\ DailyStart <= WeeklyStart

WeekLength == WeekDays * DayLength
DayOf(t)   == t \div DayLength
TimeOfDay(t) == t % DayLength

\* the offset when a request leaves it out
NoOffset == -1

(***************************************************************************)
(* getDayId, getWeekId: the id offset days (weeks) before now.  An offset  *)
(* that is not positive counts as none.                                    *)
(***************************************************************************)
\* without asking for the sign
BackAlways(offset, length) == offset * length

Back(offset, length) == IF offset > 0 THEN offset * length ELSE 0
DayId(now, offset)  == (now - Back(offset, DayLength)) \div DayLength
WeekId(now, offset) == (now - Back(offset, WeekLength)) \div WeekLength

DayOfTournament(now)  == (now - DailyStart) \div DayLength + 1
WeekOfTournament(now) == (now - WeeklyStart) \div WeekLength + 1

(***************************************************************************)
(* getCurrentDayIndex, getCurrentWeekIndex: how many days (weeks) of the   *)
(* tournament lie after the one that is asked for.                         *)
(***************************************************************************)
CurrentDayIndex(now, offset) ==
    DayOfTournament(now) - (IF offset = NoOffset THEN DayOfTournament(now) ELSE offset)
CurrentWeekIndex(now, offset) ==
    WeekOfTournament(now) - (IF offset = NoOffset THEN WeekOfTournament(now) ELSE offset)

DayTimestamp(now, offset)  == DayId(now, CurrentDayIndex(now, offset))
WeekTimestamp(now, offset) == WeekId(now, CurrentWeekIndex(now, offset))

(***************************************************************************)
(* getTimeLeftOfDay, getTimeLeftOfWeek: the end of the day, and of the     *)
(* Sunday of the week, that is shown next to a leaderboard.                *)
(***************************************************************************)
Weekday(t) == ((DayOf(t) + FirstWeekday - 1) % WeekDays) + 1
EndOfDay(now)  == (DayOf(now) + 1) * DayLength
EndOfWeek(now) == (DayOf(now) - Weekday(now) + WeekDays + 1) * DayLength

\* the days up to the end, which is left out
DatesBefore(from, to) ==
    [i \in 1..((to - from + DayLength - 1) \div DayLength) |-> from + (i - 1) * DayLength]

\* getDates: from the start in steps of a day, while the end is not passed
Dates(from, to) ==
    [i \in 1..(IF from <= to THEN (to - from) \div DayLength + 1 ELSE 0)
        |-> from + (i - 1) * DayLength]
=============================================================================
