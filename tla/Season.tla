--------------------------------- MODULE Season --------------------------------
(***************************************************************************)
(* The season figures of one user on the leaderboard: how many check-ins   *)
(* are counted since TRACK_FROM_DATE, out of how many weeks, and how full  *)
(* the ring around the avatar is drawn (internal/leaderboard/service.go,   *)
(* internal/checkins/mesh_weeks.go, internal/web/server.go).  The page is  *)
(* computed anew on every request, so the figures are operators of the     *)
(* state; what moves is the calendar and the user's check-ins.             *)
(*                                                                         *)
(* Here an instant matters: the number of weeks is taken from the time     *)
(* between two local midnights, and a zone that changes its clocks has     *)
(* days shorter and longer than 24 hours.  Time is in minutes: not every   *)
(* zone, and not every change, is one of whole hours.                      *)
(***************************************************************************)
EXTENDS WeekCalendar, FiniteSets

CONSTANTS
  LastDay,    \* bound: the last local day modelled; the first is 0
  Zones,      \* choices of TZ: minutes ahead of UTC at the midnight of each day
  TrackDays,  \* choices of TRACK_FROM_DATE
  CheckinDays \* choices of DAY_OF_WEEK

\* Week starts are looked up too, and lie up to six days before a day.  The
\* clocks of a zone never differ by a day or more (none crosses the date line).
ASSUME SeasonAssumption ==
  /\ LastDay \in Nat
  /\ Zones \subseteq [-6..LastDay -> Int]
  /\ \A z \in Zones : \A d, e \in -6..LastDay : z[d] - z[e] < 1440
  /\ TrackDays \subseteq 0..LastDay
  /\ CheckinDays \subseteq Weekdays

VARIABLES
  offset,     \* Config.TZ
  trackFrom,  \* Config.TrackFromDate
  dayOfWeek,  \* Config.DayOfWeek
  today,      \* the local day of time.Now()
  weeks       \* the week starts the user has a check-in for

vars == <<offset, trackFrom, dayOfWeek, today, weeks>>

TypeOK ==
  /\ offset \in Zones
  /\ trackFrom \in TrackDays
  /\ dayOfWeek \in CheckinDays
  /\ today \in 0..LastDay
  /\ weeks \subseteq 0..LastDay

Init ==
  /\ offset \in Zones
  /\ trackFrom \in TrackDays
  /\ dayOfWeek \in CheckinDays
  /\ today = 0
  /\ weeks = {}

\* Variant for mutation: no day-of-week guard.
CheckInAnyDay ==
  /\ weeks' = weeks \cup {WeekStart(today, dayOfWeek)}
  /\ UNCHANGED <<offset, trackFrom, dayOfWeek, today>>

\* The ingest service credits the user, once a week, on the check-in day.
CheckIn ==
  /\ IsWeekday(today, dayOfWeek)
  /\ weeks' = weeks \cup {WeekStart(today, dayOfWeek)}
  /\ UNCHANGED <<offset, trackFrom, dayOfWeek, today>>

NextDay ==
  /\ today < LastDay
  /\ today' = today + 1
  /\ UNCHANGED <<offset, trackFrom, dayOfWeek, weeks>>

Next == CheckIn \/ NextDay

Spec == Init /\ [][Next]_vars

--------------------------------------------------------------------------------
\* The instant local day d begins, in minutes.
Midnight(d) == 1440 * d - offset[d]

\* Variant for mutation: the first week is not counted.
CountWeeksBetween(from, through, target) ==
  LET start == WeekStart(from, target)
      end   == WeekStart(through, target)
  IN  IF Midnight(end) < Midnight(start) THEN 0
      ELSE ((Midnight(end) - Midnight(start)) \div 1440) \div 7

\* CountWeeklyNetWeeksInclusive: whole days of 24 hours, then whole weeks.
CountWeeks(from, through, target) ==
  LET start == WeekStart(from, target)
      end   == WeekStart(through, target)
      days  == (Midnight(end) - Midnight(start)) \div 1440
  IN  IF Midnight(end) < Midnight(start) THEN 0 ELSE days \div 7 + 1

\* Compute shows at least one week; it counts from the week of TRACK_FROM_DATE.
SeasonWeeks ==
  LET counted == CountWeeks(WeekStart(trackFrom, dayOfWeek), today, dayOfWeek)
  IN  IF counted < 1 THEN 1 ELSE counted

\* Variant for mutation: the day itself is left out.
TrackedAfter == {w \in weeks : w > trackFrom}

\* Variant for mutation: check-ins of earlier seasons count too.
TrackedEver == weeks

\* ListCheckinsSince: the check-ins dated TRACK_FROM_DATE or later.
Tracked == {w \in weeks : w >= trackFrom}

\* leaderboardRingFill, in percent; a check-in count beyond the season is capped.
RingFill(checkins) ==
  LET percent == (checkins * 100) \div SeasonWeeks
  IN  IF percent > 100 THEN 100 ELSE percent

--------------------------------------------------------------------------------
\* The week buckets from the week of TRACK_FROM_DATE to this week.
Buckets ==
  {w \in WeekStart(trackFrom, dayOfWeek)..today : IsWeekday(w, dayOfWeek)}

\* The number of buckets, by their first and last day.
TrueWeeks ==
  IF today < WeekStart(trackFrom, dayOfWeek) THEN 0
  ELSE (WeekStart(today, dayOfWeek) - WeekStart(trackFrom, dayOfWeek)) \div 7 + 1

(***************************************************************************)
(* Daylight saving never adds a week, and never costs more than one.       *)
(***************************************************************************)
SeasonOffByOneAtMost ==
  Buckets # {} => SeasonWeeks \in {TrueWeeks - 1, TrueWeeks}

(***************************************************************************)
(* A user who has checked in every week since a TRACK_FROM_DATE that is a  *)
(* check-in day has a full ring, in every zone.  If it is another day, the *)
(* week it falls into counts for the season, but that week's check-in,     *)
(* made before the date, does not: exactly one is missing.                 *)
(***************************************************************************)
PerfectRingIsFull ==
  Buckets # {} /\ Buckets \subseteq weeks =>
    IF IsWeekday(trackFrom, dayOfWeek)
    THEN RingFill(Cardinality(Tracked)) = 100
    ELSE Cardinality(Tracked) = Cardinality(Buckets) - 1

(***************************************************************************)
(* The cap at 100 percent hides no check-in that is missing, but for the   *)
(* week a clock that went forward took from the count: a full ring means   *)
(* that the user lacks one week of the season at most, and none while the  *)
(* clock stands where it stood when the season began.                      *)
(***************************************************************************)
FullRingHidesOneWeekAtMost ==
  Buckets # {} /\ RingFill(Cardinality(Tracked)) = 100 =>
    /\ Cardinality(Buckets \ Tracked) <= 1
    /\ offset[WeekStart(today, dayOfWeek)] <= offset[WeekStart(trackFrom, dayOfWeek)] =>
         Buckets \subseteq Tracked

(***************************************************************************)
(* Only a clock that went forward since the season began makes the count   *)
(* wrong: until then it is the number of buckets, also across a clock that *)
(* went back.                                                              *)
(***************************************************************************)
ExactBeforeClocksGoForward ==
  offset[WeekStart(today, dayOfWeek)] <= offset[WeekStart(trackFrom, dayOfWeek)] =>
    CountWeeks(trackFrom, today, dayOfWeek) = Cardinality(Buckets)

(***************************************************************************)
(* "CountWeeklyNetWeeksInclusive returns how many WeeklyNet week buckets   *)
(* fall between the week-start of trackFrom and the week-start of through, *)
(* inclusive" (mesh_weeks.go:5).                                           *)
(***************************************************************************)
CountsEveryBucket ==
  CountWeeks(trackFrom, today, dayOfWeek) = Cardinality(Buckets)

================================================================================
