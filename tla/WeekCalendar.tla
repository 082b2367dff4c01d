----------------------------- MODULE WeekCalendar -----------------------------
(***************************************************************************)
(* The calendar of a WeeklyNet server (internal/checkins/service.go).      *)
(*                                                                         *)
(* An instant is abstracted to its local day in the configured time zone,  *)
(* numbered from a Sunday: every decision the code takes on an instant is  *)
(* taken on its local weekday or on the local day its week starts on.      *)
(***************************************************************************)
EXTENDS Integers

\* time.Weekday: Sunday is 0.
Weekdays == 0..6

\* The weekday of local day d.
Weekday(d) == d % 7

\* Does local day d fall on the configured weekday?
IsWeekday(d, target) == Weekday(d) = target

(***************************************************************************)
(* The last day on or before d that falls on the target weekday.  AddDate  *)
(* moves by calendar days, so daylight saving does not disturb it.         *)
(***************************************************************************)
WeekStart(d, target) == d - ((Weekday(d) - target + 7) % 7)

\* The week start that is "retain" weeks before the week that holds "now".
CutoffWeekStart(now, retain, target) == WeekStart(now, target) - 7 * retain

===============================================================================
