-------------------------------- MODULE Calendar -------------------------------
(***************************************************************************)
(* Time as the payouts and the certificates reckon it.  An instant is a    *)
(* whole hour of UTC counted from a Monday 00:00, a date the day it falls  *)
(* on in Bishkek, counted from the same Monday; every boundary in the code *)
(* is on a whole hour.  addMonths reckons otherwise: by the UTC month, the *)
(* day of it and the millisecond of that day.                              *)
(***************************************************************************)
EXTENDS Integers

\* Asia/Bishkek is six hours ahead of UTC all year.
BISHKEK_OFFSET == 6

Local(t) == t + BISHKEK_OFFSET
DateOf(t) == Local(t) \div 24
HourOf(t) == Local(t) % 24

Mondays == {d \in Int : d % 7 = 0}

\* weekOf and currentWeek: date_trunc('week', ...); the week is named by its Monday.
WeekOf(date) == date - (date % 7)

\* IN_PERIOD: from 00:00 of one date to the end of another, both in Bishkek.
InPeriod(t, from, to) ==
  /\ t >= from * 24 - BISHKEK_OFFSET
  /\ t < (to + 1) * 24 - BISHKEK_OFFSET

\* Hours of the reminders, of the payouts' and of the certificates' ends.
DayHours == 9..20

\* The payout reminder runs on Mondays, about the week seven days ago.
ReminderTime(t) == DateOf(t) \in Mondays /\ HourOf(t) \in DayHours

\* Regression: the week is taken from today.
ReminderWeekOfToday(t) == WeekOf(DateOf(t))
ReminderWeek(t) == WeekOf(DateOf(t - 7 * 24))

-------------------------------------------------------------------------------
(* addMonths: a month is counted from January of the year 0.                 *)

IsLeap(year) == year % 4 = 0 /\ (year % 100 # 0 \/ year % 400 = 0)

MonthLength(month) ==
  CASE month % 12 = 1 -> IF IsLeap(month \div 12) THEN 29 ELSE 28
    [] month % 12 \in {3, 5, 8, 10} -> 30
    [] OTHER -> 31

DAY_MS == 24 * 60 * 60 * 1000

\* A Date, by its UTC parts.
Moments ==
  {d \in [month : Nat, day : 1..31, time : 0..(DAY_MS - 1)] : d.day <= MonthLength(d.month)}

\* How Date.UTC and setUTCFullYear carry a day that the month does not have.
Carried(month, day) ==
  IF day = 0 THEN [month |-> month - 1, day |-> MonthLength(month - 1)]
  ELSE IF day <= MonthLength(month) THEN [month |-> month, day |-> day]
  ELSE [month |-> month + 1, day |-> day - MonthLength(month)]

\* Only the month and the day are set: the time of day stays.
AddMonths(date, months) ==
  LET month == date.month + months
      lastDayOfTarget == Carried(month + 1, 0).day
      target == Carried(month, IF date.day <= lastDayOfTarget THEN date.day ELSE lastDayOfTarget)
  IN [month |-> target.month, day |-> target.day, time |-> date.time]

\* One moment is before another, or the same.
NotAfter(d, e) ==
  \/ d.month < e.month
  \/ d.month = e.month /\ d.day < e.day
  \/ d.month = e.month /\ d.day = e.day /\ d.time <= e.time

\* It is on an earlier day, or on the same one.
OnNoLaterDay(d, e) == d.month < e.month \/ (d.month = e.month /\ d.day <= e.day)
===============================================================================
