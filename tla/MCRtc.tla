------------------------------- MODULE MCRtc -------------------------------
(* Small instances of Rtc. *)
EXTENDS Rtc

Date(sec, min, h, d, mon, y, wd, w) ==
  [second |-> sec, minute |-> min, hour |-> h, day |-> d, month |-> mon,
   year |-> y, weekday |-> wd, week |-> w]
X == MSS_RTC_CALENDAR_DONT_CARE

\* The end of a year, where every field changes, and the second after it.
YearEnd == Date(59, 59, 23, 31, 12, 12, 2, 52)
NewYear == Date(0, 0, 0, 1, 1, 13, 3, 1)
NextSecond == Date(1, 0, 0, 1, 1, 13, 3, 1)
MCInstants == <<YearEnd, NewYear, NextSecond>>

\* A second that does not exist, and a month.
MCCalendarArgs == {YearEnd, NewYear, NextSecond, [NewYear EXCEPT !.month = 13],
                   [YearEnd EXCEPT !.second = 60]}
\* A date; every minute; a weekday of a week.
MCCalendarAlarms == {NewYear, Date(59, X, X, X, X, X, X, X),
                     Date(X, X, X, X, X, X, 3, 1)}
MCBinaryArgs == {1, 2, 4}
=============================================================================
