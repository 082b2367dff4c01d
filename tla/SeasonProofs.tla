------------------------------ MODULE SeasonProofs -----------------------------
(***************************************************************************)
(* Proofs about Season, for every zone whose clocks differ by less than a  *)
(* day, every TRACK_FROM_DATE and every day of the week.                  *)
(***************************************************************************)
EXTENDS Season, FiniteSetTheorems, TLAPS

(***************************************************************************)
(* WeekStartForWeekday returns the target weekday itself, at most six days *)
(* before the day it is asked about and never after it.                    *)
(***************************************************************************)
LEMMA WeekStartSound ==
  ASSUME NEW d \in Int, NEW target \in Weekdays
  PROVE  /\ WeekStart(d, target) \in Int
         /\ WeekStart(d, target) <= d
         /\ d - WeekStart(d, target) <= 6
         /\ IsWeekday(WeekStart(d, target), target)
  BY DEF WeekStart, IsWeekday, Weekday, Weekdays

\* A check-in day is the start of its own week.
LEMMA WeekStartOfCheckinDay ==
  ASSUME NEW d \in Int, NEW target \in Weekdays, IsWeekday(d, target)
  PROVE  WeekStart(d, target) = d
  BY DEF WeekStart, IsWeekday, Weekday, Weekdays

\* A later day never lies in an earlier week.
LEMMA WeekStartMonotone ==
  ASSUME NEW d \in Int, NEW e \in Int, NEW target \in Weekdays, d <= e
  PROVE  WeekStart(d, target) <= WeekStart(e, target)
  BY DEF WeekStart, Weekday, Weekdays

--------------------------------------------------------------------------------

\* No check-in is dated ahead, nor on another day of the week.
CheckinsAreBuckets ==
  \A w \in weeks : w <= today /\ IsWeekday(w, dayOfWeek)

YInv == TypeOK /\ CheckinsAreBuckets

Start == WeekStart(trackFrom, dayOfWeek)
End   == WeekStart(today, dayOfWeek)

LEMMA YInvHolds == Spec => []YInv
<1>1. Init => YInv
  BY SeasonAssumption DEF Init, YInv, TypeOK, CheckinsAreBuckets
<1>2. ASSUME YInv, [Next]_vars PROVE YInv'
  <2> USE <1>2 DEF YInv
  <2>1. CASE CheckIn
    <3>1. today \in Int /\ dayOfWeek \in Weekdays
      BY SeasonAssumption DEF TypeOK
    <3>2. WeekStart(today, dayOfWeek) = today
      BY <2>1, <3>1, WeekStartOfCheckinDay DEF CheckIn
    <3> QED
      BY <2>1, <3>1, <3>2 DEF CheckIn, TypeOK, CheckinsAreBuckets
  <2>2. CASE NextDay
    <3>1. today \in Int /\ today + 1 \in 0..LastDay
      BY <2>2, SeasonAssumption DEF NextDay, TypeOK
    <3>2. \A w \in weeks : w \in Int
      BY DEF TypeOK
    <3> QED
      BY <2>2, <3>1, <3>2 DEF NextDay, TypeOK, CheckinsAreBuckets
  <2>3. CASE UNCHANGED vars
    BY <2>3 DEF vars, TypeOK, CheckinsAreBuckets
  <2> QED
    BY <2>1, <2>2, <2>3 DEF Next
<1> QED
  BY <1>1, <1>2, PTL DEF Spec

--------------------------------------------------------------------------------
\* The two week starts, and the minutes between their midnights.
LEMMA WeekStarts ==
  ASSUME YInv
  PROVE  /\ trackFrom \in Int /\ today \in Int /\ dayOfWeek \in Weekdays
         /\ Start \in Int /\ End \in Int
         /\ Start <= trackFrom /\ trackFrom - Start <= 6 /\ IsWeekday(Start, dayOfWeek)
         /\ End <= today /\ today - End <= 6 /\ IsWeekday(End, dayOfWeek)
         /\ WeekStart(Start, dayOfWeek) = Start
         /\ offset[Start] \in Int /\ offset[End] \in Int
         /\ offset[End] - offset[Start] < 1440 /\ offset[Start] - offset[End] < 1440
         /\ Midnight(End) - Midnight(Start) = 1440 * (End - Start) - (offset[End] - offset[Start])
<1>1. /\ trackFrom \in 0..LastDay /\ today \in 0..LastDay /\ LastDay \in Nat
      /\ dayOfWeek \in Weekdays
  BY SeasonAssumption DEF YInv, TypeOK
<1>2. trackFrom \in Int /\ today \in Int
  BY <1>1
<1>3. /\ Start \in Int /\ Start <= trackFrom /\ trackFrom - Start <= 6
      /\ IsWeekday(Start, dayOfWeek)
  BY <1>1, <1>2, WeekStartSound DEF Start
<1>4. /\ End \in Int /\ End <= today /\ today - End <= 6 /\ IsWeekday(End, dayOfWeek)
  BY <1>1, <1>2, WeekStartSound DEF End
<1>5. WeekStart(Start, dayOfWeek) = Start
  BY <1>1, <1>3, WeekStartOfCheckinDay
<1>6. Start \in -6..LastDay /\ End \in -6..LastDay
  BY <1>1, <1>3, <1>4
<1>7. /\ offset \in [-6..LastDay -> Int]
      /\ \A d, e \in -6..LastDay : offset[d] - offset[e] < 1440
  BY SeasonAssumption DEF YInv, TypeOK
<1>8. /\ offset[Start] \in Int /\ offset[End] \in Int
      /\ offset[End] - offset[Start] < 1440 /\ offset[Start] - offset[End] < 1440
  <2>1. offset[Start] \in Int /\ offset[End] \in Int
    BY <1>6, <1>7
  <2>2. offset[End] - offset[Start] < 1440 /\ offset[Start] - offset[End] < 1440
    BY <1>6, <1>7
  <2> QED
    BY <2>1, <2>2
<1>9. Midnight(End) - Midnight(Start) = 1440 * (End - Start) - (offset[End] - offset[Start])
  BY <1>3, <1>4, <1>8 DEF Midnight
<1> QED
  BY <1>1, <1>2, <1>3, <1>4, <1>5, <1>8, <1>9

\* Two check-in days lie whole weeks apart.
LEMMA WholeWeeks ==
  ASSUME NEW target \in Weekdays, NEW d \in Int, NEW e \in Int,
         IsWeekday(d, target), IsWeekday(e, target)
  PROVE  e - d = 7 * ((e - d) \div 7)
  BY DEF IsWeekday, Weekday, Weekdays

\* Buckets are the days n weeks after the first one.
LEMMA CountBuckets ==
  ASSUME YInv PROVE IsFiniteSet(Buckets) /\ Cardinality(Buckets) = TrueWeeks
<1> DEFINE m == (End - Start) \div 7
           f == [k \in 1..(m + 1) |-> Start + 7 * (k - 1)]
<1>0. /\ m \in Int /\ Start \in Int /\ End \in Int /\ today \in Int /\ dayOfWeek \in Weekdays
      /\ End - Start = 7 * m
  BY WeekStarts, WholeWeeks
<1>1. CASE today < Start
  <2>1. Buckets = {}
    BY <1>0, <1>1 DEF Buckets, Start
  <2> QED
    BY <1>1, <2>1, FS_EmptySet DEF TrueWeeks, Start
<1>2. CASE today >= Start
  <2>1. Start <= End
    BY <1>0, <1>2, WeekStarts, WeekStartMonotone DEF End
  <2>2. m \in Nat
    BY <1>0, <2>1
  <2>3. ASSUME NEW k \in 1..(m + 1) PROVE f[k] \in Buckets
    <3>1. f[k] = Start + 7 * (k - 1) /\ k \in Int
      BY <1>0
    <3>2. f[k] \in Start..today
      BY <1>0, <3>1, WeekStarts
    <3>3. IsWeekday(f[k], dayOfWeek)
      BY <1>0, <3>1, WeekStarts DEF IsWeekday, Weekday, Weekdays
    <3> QED
      BY <3>2, <3>3 DEF Buckets, Start
  <2>4. ASSUME NEW w \in Buckets PROVE \E k \in 1..(m + 1) : f[k] = w
    <3>1. w \in Start..today /\ IsWeekday(w, dayOfWeek)
      BY DEF Buckets, Start
    <3>2. w - Start = 7 * ((w - Start) \div 7) /\ w \in Int
      BY <1>0, <3>1, WholeWeeks, WeekStarts
    <3>3. w <= End
      BY <1>0, <3>1, <3>2, WeekStartOfCheckinDay, WeekStartMonotone DEF End
    <3>4. (w - Start) \div 7 + 1 \in 1..(m + 1)
      BY <1>0, <3>1, <3>2, <3>3
    <3>5. f[(w - Start) \div 7 + 1] = w
      BY <1>0, <3>2, <3>4
    <3> QED
      BY <3>4, <3>5
  <2>5. \A j, k \in 1..(m + 1) : f[j] = f[k] => j = k
    BY <1>0
  <2>6. f \in Bijection(1..(m + 1), Buckets)
    <3>1. f \in [1..(m + 1) -> Buckets]
      BY <2>3
    <3> QED
      BY <2>4, <2>5, <3>1 DEF Bijection, Injection, Surjection, IsInjective
  <2>7. ExistsBijection(1..(m + 1), Buckets)
    BY <2>6 DEF ExistsBijection
  <2>8. m + 1 \in Nat /\ IsFiniteSet(1..(m + 1))
    <3>1. m + 1 \in Nat /\ m + 1 \in Int /\ 1 \in Int
      BY <2>2
    <3> HIDE DEF m
    <3> QED
      BY <3>1, FS_Interval
  <2>9. IsFiniteSet(Buckets) /\ Cardinality(Buckets) = m + 1
    BY <2>7, <2>8, FS_CountingElements, FS_Bijection
  <2> QED
    BY <1>0, <1>2, <2>9 DEF TrueWeeks, Start, End
<1> QED
  BY <1>0, <1>1, <1>2

\* The count of weeks, by the minutes the clocks differ.
LEMMA CountedWeeks ==
  ASSUME YInv
  PROVE  /\ CountWeeks(trackFrom, today, dayOfWeek) \in Int
         /\ CountWeeks(Start, today, dayOfWeek) = CountWeeks(trackFrom, today, dayOfWeek)
         /\ today < Start => CountWeeks(trackFrom, today, dayOfWeek) = 0
         /\ today >= Start =>
              /\ TrueWeeks \in Nat \ {0}
              /\ offset[End] <= offset[Start] =>
                   CountWeeks(trackFrom, today, dayOfWeek) = TrueWeeks
              /\ CountWeeks(trackFrom, today, dayOfWeek) \in {TrueWeeks - 1, TrueWeeks}
              /\ TrueWeeks = 1 => CountWeeks(trackFrom, today, dayOfWeek) = 1
<1> DEFINE m     == (End - Start) \div 7
           delta == offset[End] - offset[Start]
           minutes == Midnight(End) - Midnight(Start)
<1>0. /\ m \in Int /\ Start \in Int /\ End \in Int /\ today \in Int /\ trackFrom \in Int
      /\ dayOfWeek \in Weekdays
      /\ End - Start = 7 * m /\ End <= today /\ today - End <= 6
  BY WeekStarts, WholeWeeks
<1>1. /\ delta \in Int /\ delta < 1440 /\ -1440 < delta
      /\ minutes = 10080 * m - delta
      /\ m = 0 => delta = 0
  <2>1. /\ delta \in Int /\ delta < 1440 /\ -1440 < delta
        /\ minutes = 1440 * (End - Start) - delta
    BY WeekStarts
  <2>2. m = 0 => End = Start
    BY <1>0
  <2>3. Start = End => delta = 0
    BY WeekStarts
  <2> QED
    BY <1>0, <2>1, <2>2, <2>3
<1>2. CountWeeks(trackFrom, today, dayOfWeek) =
        IF minutes < 0 THEN 0 ELSE (minutes \div 1440) \div 7 + 1
  <2>1. Midnight(End) \in Int /\ Midnight(Start) \in Int
    BY WeekStarts DEF Midnight
  <2> QED
    BY <2>1 DEF CountWeeks, Start, End
<1>3. CountWeeks(Start, today, dayOfWeek) = CountWeeks(trackFrom, today, dayOfWeek)
  <2>1. WeekStart(Start, dayOfWeek) = WeekStart(trackFrom, dayOfWeek)
    BY WeekStarts DEF Start
  <2> QED
    BY <2>1 DEF CountWeeks
<1>4. today < Start => m < 0
  BY <1>0
<1>5. today >= Start => m >= 0
  <2>1. today >= Start => End >= Start
    BY <1>0, WeekStarts, WeekStartMonotone DEF End
  <2> QED
    BY <1>0, <2>1
<1>6. today >= Start => TrueWeeks = m + 1
  BY <1>0 DEF TrueWeeks, Start, End
<1> HIDE DEF m, delta, minutes
<1>7. m < 0 => minutes < 0
  BY <1>0, <1>1
<1>8. m >= 0 =>
        /\ minutes >= 0
        /\ (minutes \div 1440) \div 7 \in {m - 1, m}
        /\ delta <= 0 => (minutes \div 1440) \div 7 = m
        /\ m = 0 => (minutes \div 1440) \div 7 = 0
  BY <1>0, <1>1
<1>9. delta <= 0 <=> offset[End] <= offset[Start]
  BY WeekStarts DEF delta
<1>10. minutes \in Int
  BY <1>0, <1>1
<1> QED
  BY <1>0, <1>2, <1>3, <1>4, <1>5, <1>6, <1>7, <1>8, <1>9, <1>10

\* Is there a bucket at all?
LEMMA SomeBucket == ASSUME YInv, Buckets # {} PROVE today >= Start
  BY WeekStarts DEF Buckets, Start

LEMMA SeasonCount ==
  ASSUME YInv, Buckets # {}
  PROVE  /\ TrueWeeks \in Nat \ {0} /\ SeasonWeeks \in Nat \ {0}
         /\ SeasonWeeks \in {TrueWeeks - 1, TrueWeeks}
  BY CountedWeeks, SomeBucket DEF SeasonWeeks, Start

--------------------------------------------------------------------------------
\* The types of the calendar and the check-ins.
THEOREM SeasonTypes == Spec => []TypeOK
<1>1. YInv => TypeOK
  BY DEF YInv
<1> QED
  BY <1>1, YInvHolds, PTL

\* SeasonOffByOneAtMost, for every zone, season and day.
THEOREM SeasonOffByOne == Spec => []SeasonOffByOneAtMost
<1>1. YInv => SeasonOffByOneAtMost
  BY SeasonCount DEF SeasonOffByOneAtMost
<1> QED
  BY <1>1, YInvHolds, PTL

\* ExactBeforeClocksGoForward, also for a day before the season.
THEOREM ExactCount == Spec => []ExactBeforeClocksGoForward
<1>1. ASSUME YInv PROVE ExactBeforeClocksGoForward
  <2>1. CASE today < Start
    BY <1>1, <2>1, CountBuckets, CountedWeeks DEF TrueWeeks, Start, ExactBeforeClocksGoForward
  <2>2. CASE today >= Start
    BY <1>1, <2>2, CountBuckets, CountedWeeks DEF Start, End, ExactBeforeClocksGoForward
  <2> QED
    BY <1>1, <2>1, <2>2, WeekStarts
<1> QED
  BY <1>1, YInvHolds, PTL

\* At least as many check-ins as weeks fill the ring.
LEMMA RingFull ==
  ASSUME NEW checkins \in Nat, SeasonWeeks \in Nat \ {0}, checkins >= SeasonWeeks
  PROVE  RingFill(checkins) = 100
<1>1. (checkins * 100) \div SeasonWeeks >= 100 /\ (checkins * 100) \div SeasonWeeks \in Int
  OBVIOUS
<1> QED
  BY <1>1 DEF RingFill

\* PerfectRingIsFull, for every zone and every TRACK_FROM_DATE.
THEOREM PerfectRing == Spec => []PerfectRingIsFull
<1>1. ASSUME YInv, Buckets # {}, Buckets \subseteq weeks
      PROVE  IF IsWeekday(trackFrom, dayOfWeek)
             THEN RingFill(Cardinality(Tracked)) = 100
             ELSE Cardinality(Tracked) = Cardinality(Buckets) - 1
  <2> USE <1>1
  <2>1. \A w \in weeks : w \in Int /\ w <= today /\ IsWeekday(w, dayOfWeek)
    BY DEF YInv, TypeOK, CheckinsAreBuckets
  <2>2. Tracked = {w \in Buckets : w >= trackFrom}
    <3>1. \A w \in weeks : w >= trackFrom => w \in Buckets
      BY <2>1, WeekStarts DEF Buckets, Start
    <3> QED
      BY <3>1 DEF Tracked
  <2>3. CASE IsWeekday(trackFrom, dayOfWeek)
    <3>1. Start = trackFrom
      BY <2>3, WeekStarts, WeekStartOfCheckinDay DEF Start
    <3>2. Tracked = Buckets
      BY <2>2, <3>1 DEF Buckets, Start
    <3>3. Cardinality(Tracked) = TrueWeeks
      BY <3>2, CountBuckets
    <3> QED
      BY <2>3, <3>3, SeasonCount, RingFull
  <2>4. CASE ~IsWeekday(trackFrom, dayOfWeek)
    <3>1. Start < trackFrom
      BY <2>4, WeekStarts
    <3>2. Start \in Buckets
      BY WeekStarts, SomeBucket DEF Buckets, Start
    <3>3. \A w \in Buckets : w = Start \/ w >= trackFrom
      <4> TAKE w \in Buckets
      <4>1. w \in Start..today /\ IsWeekday(w, dayOfWeek)
        BY DEF Buckets, Start
      <4>2. w - Start = 7 * ((w - Start) \div 7)
        BY <4>1, WeekStarts, WholeWeeks
      <4> QED
        BY <4>1, <4>2, WeekStarts
    <3>4. Tracked = Buckets \ {Start}
      BY <2>2, <3>1, <3>3, WeekStarts
    <3> QED
      BY <2>4, <3>2, <3>4, CountBuckets, FS_RemoveElement
  <2> QED
    BY <2>3, <2>4
<1>2. YInv => PerfectRingIsFull
  BY <1>1 DEF PerfectRingIsFull
<1> QED
  BY <1>2, YInvHolds, PTL

\* A check-in that is counted lies in a bucket of the season.
LEMMA TrackedAreBuckets == ASSUME YInv PROVE Tracked \subseteq Buckets
<1>1. \A w \in weeks : w \in Int /\ w <= today /\ IsWeekday(w, dayOfWeek)
  BY DEF YInv, TypeOK, CheckinsAreBuckets
<1> QED
  BY <1>1, WeekStarts DEF Tracked, Buckets, Start

\* A ring is full only with as many check-ins as weeks.
LEMMA FullRing ==
  ASSUME NEW checkins \in Nat, SeasonWeeks \in Nat \ {0}, RingFill(checkins) = 100
  PROVE  checkins >= SeasonWeeks
<1>1. (checkins * 100) \div SeasonWeeks >= 100
  <2>1. (checkins * 100) \div SeasonWeeks \in Int
    OBVIOUS
  <2> QED
    BY <2>1 DEF RingFill
<1> QED
  BY <1>1

\* FullRingHidesOneWeekAtMost, for every zone and every TRACK_FROM_DATE.
THEOREM FullRingMeaning == Spec => []FullRingHidesOneWeekAtMost
<1>1. ASSUME YInv, Buckets # {}, RingFill(Cardinality(Tracked)) = 100
      PROVE  /\ Cardinality(Buckets \ Tracked) <= 1
             /\ offset[End] <= offset[Start] => Buckets \subseteq Tracked
  <2> USE <1>1
  <2>1. /\ IsFiniteSet(Buckets) /\ Cardinality(Buckets) = TrueWeeks
        /\ Tracked \subseteq Buckets
    BY CountBuckets, TrackedAreBuckets
  <2>2. IsFiniteSet(Tracked) /\ Cardinality(Tracked) \in Nat
    BY <2>1, FS_Subset, FS_CardinalityType
  <2>3. /\ SeasonWeeks \in Nat \ {0} /\ TrueWeeks \in Nat
        /\ Cardinality(Tracked) >= SeasonWeeks /\ SeasonWeeks >= TrueWeeks - 1
    BY <2>2, SeasonCount, FullRing
  <2>4. Cardinality(Buckets \ Tracked) = TrueWeeks - Cardinality(Tracked)
    <3>1. Buckets \cap Tracked = Tracked
      BY <2>1
    <3>2. Cardinality(Buckets \ Tracked) =
            Cardinality(Buckets) - Cardinality(Buckets \cap Tracked)
      BY <2>1, FS_Difference
    <3> QED
      BY <2>1, <3>1, <3>2
  <2>5. ASSUME offset[End] <= offset[Start] PROVE Buckets \subseteq Tracked
    <3>1. SeasonWeeks = TrueWeeks
      BY <2>3, <2>5, CountedWeeks, SomeBucket DEF SeasonWeeks, Start
    <3>2. Cardinality(Tracked) <= Cardinality(Buckets)
      BY <2>1, FS_Subset
    <3>3. Cardinality(Tracked) = Cardinality(Buckets)
      BY <2>1, <2>2, <2>3, <3>1, <3>2
    <3> QED
      BY <2>1, <3>3, FS_Subset
  <2> QED
    BY <2>2, <2>3, <2>4, <2>5
<1>2. YInv => FullRingHidesOneWeekAtMost
  BY <1>1 DEF FullRingHidesOneWeekAtMost, Start, End
<1> QED
  BY <1>2, YInvHolds, PTL

================================================================================
