-------------------------------- MODULE MCSeason -------------------------------
(***************************************************************************)
(* Instances of Season for TLC: ten weeks in three zones.  Day 0 is a      *)
(* Sunday; clocks change on Sundays, so the midnight after is the first    *)
(* with the new offset.                                                    *)
(***************************************************************************)
EXTENDS Season

\* Clocks go forward in the fourth week and back in the eighth.
ForwardThenBack == [d \in -6..LastDay |-> IF d \in 22..49 THEN -420 ELSE -480]

\* Southern hemisphere, by half an hour: back first, forward later.
HalfHourBackThenForward == [d \in -6..LastDay |-> IF d \in 22..49 THEN 630 ELSE 660]

\* Clocks that go forward by two hours.
TwoHoursForward == [d \in -6..LastDay |-> IF d >= 22 THEN 120 ELSE 0]

AllZones == {ForwardThenBack, HalfHourBackThenForward, TwoHoursForward}
NorthernZone == {ForwardThenBack}

Monday == {1}
SundayOrMonday == {0, 1}

\* A Sunday, a Monday and a Wednesday.
SomeTrackDays == {7, 8, 10}

FirstMonday == {1}

================================================================================
