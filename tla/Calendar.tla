------------------------------ MODULE Calendar ------------------------------
(***************************************************************************)
(* Days and dates (temporal.rs, connectors.rs, timeparse.rs).  A date is a *)
(* triple <<year, month, day>> of the Gregorian calendar and a day number  *)
(* counts from 1970-01-01.  The code rounds the era of a negative year     *)
(* down by hand, which is what \div does.                                  *)
(***************************************************************************)
EXTENDS Integers, Sequences

DaysInMonth(y, m) ==
  IF m \in {1, 3, 5, 7, 8, 10, 12} THEN 31
  ELSE IF m \in {4, 6, 9, 11} THEN 30
  ELSE IF y % 4 = 0 /\ (y % 100 # 0 \/ y % 400 = 0) THEN 29
  ELSE 28

(* Seeded fault: January and February are counted in their own year. *)
DayNumberOwnYear(date) ==
  LET era == date[1] \div 400
      yoe == date[1] - era * 400
      mp == IF date[2] > 2 THEN date[2] - 3 ELSE date[2] + 9
      doy == (153 * mp + 2) \div 5 + date[3] - 1
  IN  era * 146097 + yoe * 365 + yoe \div 4 - yoe \div 100 + doy - 719468

(* day_number; epoch_from_rfc3339 for the date part.                       *)
DayNumber(date) ==
  LET y == IF date[2] <= 2 THEN date[1] - 1 ELSE date[1]
      era == y \div 400
      yoe == y - era * 400
      mp == IF date[2] > 2 THEN date[2] - 3 ELSE date[2] + 9
      doy == (153 * mp + 2) \div 5 + date[3] - 1
  IN  era * 146097 + yoe * 365 + yoe \div 4 - yoe \div 100 + doy - 719468

(* civil_date; rfc3339_from_epoch for the date part.                       *)
CivilDate(n) ==
  LET z == n + 719468
      era == z \div 146097
      doe == z - era * 146097
      yoe == (doe - doe \div 1460 + doe \div 36524 - doe \div 146096) \div 365
      doy == doe - (365 * yoe + yoe \div 4 - yoe \div 100)
      mp == (5 * doy + 2) \div 153
      d == doy - (153 * mp + 2) \div 5 + 1
      m == IF mp < 10 THEN mp + 3 ELSE mp - 9
      y == yoe + era * 400
  IN  <<IF m <= 2 THEN y + 1 ELSE y, m, d>>

(* The seconds of a connector's timestamp, and back (connectors.rs).       *)
EpochOf(date, second) == DayNumber(date) * 86400 + second

DateOfEpoch(secs) == <<CivilDate(secs \div 86400), secs % 86400>>

-----------------------------------------------------------------------------
(* Windows: inclusive spans of days, <<first, last>>.                      *)

Units == {"days", "weeks", "months"}

(* span_days *)
SpanDays(unit) == IF unit = "days" THEN 1 ELSE IF unit = "weeks" THEN 7 ELSE 30

(* Unit::from_days: whole units, rounded down.                             *)
FromDays(unit, days) == days \div SpanDays(unit)

NoWindow == <<>>

(* "in the past three weeks", "last month": no count is a count of one.    *)
PastWindow(today, count, unit) == <<today - SpanDays(unit) * count, today>>

(* Monday is 0; 1970-01-01 was a Thursday.                                 *)
Weekday(n) == (n + 3) % 7

(* Seeded fault: a day that is named on that day means today. *)
WeekdayWindowToday(today, wd) ==
  LET back == (Weekday(today) + 7 - wd) % 7
  IN  <<today - back, today - back>>

(* "last Friday": strictly before today.                                   *)
WeekdayWindow(today, wd) ==
  LET back == (Weekday(today) + 7 - wd) % 7
      day == today - (IF back = 0 THEN 7 ELSE back)
  IN  <<day, day>>

(* "in February": the most recent one, this month's included.              *)
MonthWindow(today, m) ==
  LET now == CivilDate(today)
      y == IF m > now[2] THEN now[1] - 1 ELSE now[1]
  IN  <<DayNumber(<<y, m, 1>>), DayNumber(<<y, m, DaysInMonth(y, m)>>)>>

(* "three weeks ago": a moment, with a quarter of the way as slack.        *)
AgoWindow(today, count, unit) ==
  LET span == SpanDays(unit) * count
      slack == IF span \div 4 > 2 THEN span \div 4 ELSE 2
  IN  <<today - span - slack, today - span + slack>>

(* relative_window: what a question holds, tried in this order.  A count   *)
(* that is not above zero makes no "ago".                                  *)
RelativeWindow(q, today) ==
  IF q.form = "past" THEN PastWindow(today, q.count, q.unit)
  ELSE IF q.form = "weekday" THEN WeekdayWindow(today, q.name)
  ELSE IF q.form = "month" THEN MonthWindow(today, q.name)
  ELSE IF q.form = "ago" /\ q.count > 0 THEN AgoWindow(today, q.count, q.unit)
  ELSE NoWindow

(* timeparse::date_windows: a written day, and a written month of a year.  *)
WrittenDay(date) == <<DayNumber(date), DayNumber(date)>>

WrittenMonth(y, m) == <<DayNumber(<<y, m, 1>>), DayNumber(<<y, m, DaysInMonth(y, m)>>)>>

=============================================================================
