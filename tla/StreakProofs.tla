------------------------------ MODULE StreakProofs -----------------------------
(***************************************************************************)
(* Proofs about StreakScan, for every sorted slice of week starts: the     *)
(* first loop loses no day, and the second finds the longest streak.       *)
(***************************************************************************)
EXTENDS StreakScan, SequenceTheorems, TLAPS

\* n weeks in a row from w on, in a set of days.
StreakIn(D, w, n) ==
  {d \in D : w <= d /\ d <= w + 7 * (n - 1)} = {w + 7 * k : k \in 0..(n - 1)}

\* The same, day by day.
DayByDay(D, w, n) ==
  /\ \A k \in 0..(n - 1) : w + 7 * k \in D
  /\ \A d \in D : w <= d /\ d <= w + 7 * (n - 1) => \E k \in 0..(n - 1) : d = w + 7 * k

Kept == {weeks[k] : k \in 1..kept}

\* The days the second loop has looked at.
Seen == {weeks[k] : k \in 1..(i - 1)}

Increasing == \A a, b \in 1..kept : a < b => weeks[a] < weeks[b]

Shape ==
  /\ input \in Seq(WeekStarts) /\ Len(input) \in Nat \ {0} /\ Sorted(input)
  /\ weeks \in Seq(WeekStarts) /\ Len(weeks) = Len(input)
  /\ kept \in 1..Len(input)
  /\ loop \in {"dedup", "scan", "done"}
  /\ Increasing

\* The first loop: where it still reads, it has not written.
DedupInv ==
  loop = "dedup" =>
    /\ i \in (kept + 1)..(Len(input) + 1)
    /\ \A k \in (i - 1)..Len(input) : weeks[k] = input[k]
    /\ weeks[kept] = input[i - 1]
    /\ Kept = {input[k] : k \in 1..(i - 1)}
    /\ best = 1 /\ current = 1
    /\ bestStart = input[1] /\ currentStart = input[1] /\ weeks[1] = input[1]

\* The current run ends with the last day seen and is the longest that does;
\* the best is the longest so far, and the first of its length.
Figured(D, last, length, start, longest, first) ==
  /\ length \in 1..longest
  /\ start \in D /\ first \in D
  /\ StreakIn(D, start, length)
  /\ start + 7 * (length - 1) = last
  /\ \A w \in D, n \in Nat \ {0} : StreakIn(D, w, n) /\ w + 7 * (n - 1) = last => n <= length
  /\ StreakIn(D, first, longest)
  /\ \A w \in D : ~StreakIn(D, w, longest + 1)
  /\ \A w \in D : StreakIn(D, w, longest) => first <= w

ScanInv ==
  loop # "dedup" =>
    /\ i \in 2..(kept + 1)
    /\ Kept = Days(input)
    /\ best \in 1..(i - 1)
    /\ Figured(Seen, weeks[i - 1], current, currentStart, best, bestStart)

Done == loop = "done" => i = kept + 1

SInv == Shape /\ DedupInv /\ ScanInv /\ Done

--------------------------------------------------------------------------------
LEMMA DayNumbers == \A w \in WeekStarts : w \in Int
<1> TAKE w \in WeekStarts
<1> QED
  BY ScanAssumption

LEMMA StreakDays ==
  ASSUME NEW D \in SUBSET Int, NEW w \in Int, NEW n \in Nat
  PROVE  StreakIn(D, w, n) <=> DayByDay(D, w, n)
<1> DEFINE between == {d \in D : w <= d /\ d <= w + 7 * (n - 1)}
           row     == {w + 7 * k : k \in 0..(n - 1)}
<1>1. \A k \in 0..(n - 1) : w <= w + 7 * k /\ w + 7 * k <= w + 7 * (n - 1)
  OBVIOUS
<1>2. row \subseteq between <=> \A k \in 0..(n - 1) : w + 7 * k \in D
  BY <1>1
<1>3. between \subseteq row <=>
        \A d \in D : w <= d /\ d <= w + 7 * (n - 1) => \E k \in 0..(n - 1) : d = w + 7 * k
  OBVIOUS
<1> QED
  BY <1>2, <1>3 DEF StreakIn, DayByDay

\* Without its last week it is a streak of one week less.
LEMMA StreakPrefix ==
  ASSUME NEW D \in SUBSET Int, NEW w \in Int, NEW n \in Nat, StreakIn(D, w, n + 1)
  PROVE  StreakIn(D, w, n)
<1>1. DayByDay(D, w, n + 1)
  BY StreakDays
<1>2. DayByDay(D, w, n)
  BY <1>1 DEF DayByDay
<1> QED
  BY <1>2, StreakDays

\* A later day changes nothing for a streak that ends before it, ...
LEMMA StreakBefore ==
  ASSUME NEW D \in SUBSET Int, NEW x \in Int, NEW w \in Int, NEW n \in Nat,
         w + 7 * (n - 1) < x
  PROVE  StreakIn(D \cup {x}, w, n) <=> StreakIn(D, w, n)
  BY DEF StreakIn

\* ... and a streak that reaches it ends with it, a week after the last day before.
LEMMA StreakToLast ==
  ASSUME NEW D \in SUBSET Int, NEW x \in Int, NEW m \in D,
         \A d \in D : d <= m, m < x,
         NEW w \in D \cup {x}, NEW n \in Nat \ {0},
         StreakIn(D \cup {x}, w, n), w + 7 * (n - 1) >= x
  PROVE  /\ w + 7 * (n - 1) = x
         /\ n > 1 => w \in D /\ m = x - 7 /\ StreakIn(D, w, n - 1)
<1> DEFINE E == D \cup {x}
<1>0. E \in SUBSET Int /\ w \in Int /\ n \in Nat /\ StreakIn(E, w, n)
  OBVIOUS
<1>1. DayByDay(E, w, n)
  BY <1>0, StreakDays
<1>2. w + 7 * (n - 1) = x
  <2>1. w + 7 * (n - 1) \in E
    BY <1>0, <1>1 DEF DayByDay
  <2> QED
    BY <1>0, <2>1
<1>3. ASSUME n > 1 PROVE w \in D /\ m = x - 7 /\ StreakIn(D, w, n - 1)
  <2>1. w \in D
    BY <1>2, <1>3
  <2>2. w + 7 * (n - 2) \in D
    <3>1. n - 2 \in 0..(n - 1) /\ w + 7 * (n - 2) # x
      BY <1>2, <1>3
    <3> QED
      BY <1>1, <3>1 DEF DayByDay
  <2>3. x - 7 <= m /\ w <= m /\ m <= w + 7 * (n - 1)
    BY <1>2, <2>1, <2>2
  <2>4. PICK k \in 0..(n - 1) : m = w + 7 * k
    BY <1>1, <2>3 DEF DayByDay
  <2>5. m = x - 7
    BY <1>2, <2>3, <2>4
  <2>6. StreakIn(E, w, n - 1)
    <3>1. n - 1 \in Nat /\ (n - 1) + 1 = n
      BY <1>3
    <3> HIDE DEF E
    <3> QED
      BY <1>0, <3>1, StreakPrefix
  <2>7. StreakIn(D, w, n - 1)
    <3>1. n - 1 \in Nat /\ w + 7 * ((n - 1) - 1) < x
      BY <1>2, <1>3
    <3> QED
      BY <1>0, <2>6, <3>1, StreakBefore
  <2> QED
    BY <2>1, <2>5, <2>7
<1> QED
  BY <1>2, <1>3

\* A day a week after the last one extends the streak that ends there.
LEMMA StreakGrows ==
  ASSUME NEW D \in SUBSET Int, NEW x \in Int, NEW w \in D, NEW n \in Nat \ {0},
         \A d \in D : d <= x - 7,
         StreakIn(D, w, n), w + 7 * (n - 1) = x - 7
  PROVE  StreakIn(D \cup {x}, w, n + 1)
<1> DEFINE E == D \cup {x}
<1>0. E \in SUBSET Int /\ w \in Int /\ n \in Nat /\ n + 1 \in Nat /\ (n + 1) - 1 = n
  OBVIOUS
<1>1. DayByDay(D, w, n)
  BY <1>0, StreakDays
<1>2. \A k \in 0..n : w + 7 * k \in E
  <2> TAKE k \in 0..n
  <2>1. CASE k = n
    BY <1>0, <2>1
  <2>2. CASE k \in 0..(n - 1)
    BY <1>1, <2>2 DEF DayByDay
  <2> QED
    BY <2>1, <2>2
<1>3. \A d \in E : w <= d /\ d <= w + 7 * n => \E k \in 0..n : d = w + 7 * k
  <2> TAKE d \in E
  <2> HAVE w <= d /\ d <= w + 7 * n
  <2>1. CASE d = x
    <3>1. n \in 0..n /\ d = w + 7 * n
      BY <1>0, <2>1
    <3> QED
      BY <3>1
  <2>2. CASE d \in D
    <3>1. PICK k \in 0..(n - 1) : d = w + 7 * k
      BY <1>1, <2>2 DEF DayByDay
    <3> QED
      BY <3>1
  <2> QED
    BY <2>1, <2>2
<1>4. DayByDay(E, w, n + 1)
  BY <1>0, <1>2, <1>3 DEF DayByDay
<1> HIDE DEF E
<1>5. StreakIn(E, w, n + 1)
  BY <1>0, <1>4, StreakDays
<1> QED
  BY <1>5 DEF E

\* A day alone.
LEMMA StreakOfOne ==
  ASSUME NEW D \in SUBSET Int, NEW x \in D
  PROVE  StreakIn(D, x, 1)
<1>1. DayByDay(D, x, 1)
  BY DEF DayByDay
<1> QED
  BY <1>1, StreakDays

--------------------------------------------------------------------------------
LEMMA InitEstablishes == Init => SInv
<1> SUFFICES ASSUME Init PROVE SInv
  OBVIOUS
<1>1. PICK n \in 0..MaxWeeks : input \in [1..n -> WeekStarts]
  BY ScanAssumption DEF Init, BoundedSeq, SeqOf
<1>2. input \in Seq(WeekStarts) /\ Len(input) \in Nat \ {0}
  <2>1. n \in Nat
    BY ScanAssumption
  <2>2. input \in Seq(WeekStarts) /\ Len(input) = n
    BY <1>1, <2>1
  <2>3. n # 0
    BY <2>2 DEF Init
  <2> QED
    BY <2>1, <2>2, <2>3
<1>3. Shape
  BY <1>2 DEF Init, Shape, Increasing
<1>4. DedupInv
  BY <1>2 DEF Init, DedupInv, Kept
<1> QED
  BY <1>3, <1>4 DEF Init, SInv, ScanInv, Done

LEMMA KeepKeeps == ASSUME SInv, KeepNewDay PROVE SInv'
<1> USE DEF SInv
<1>1. /\ i \in (kept + 1)..Len(input) /\ kept + 1 \in 1..Len(input)
      /\ weeks[i] = input[i] /\ weeks[i - 1] = input[i - 1]
      /\ weeks[kept] = input[i - 1]
      /\ i \in 1..Len(input) /\ i - 1 \in 1..Len(input)
  <2>1. /\ Len(input) \in Nat /\ kept \in 1..Len(input) /\ i \in (kept + 1)..(Len(input) + 1)
        /\ i <= Len(input)
    BY DEF KeepNewDay, Shape, DedupInv
  <2>2. \A k \in (i - 1)..Len(input) : weeks[k] = input[k]
    BY DEF KeepNewDay, DedupInv
  <2>3. /\ i \in (kept + 1)..Len(input) /\ kept + 1 \in 1..Len(input)
        /\ i \in 1..Len(input) /\ i - 1 \in 1..Len(input)
        /\ i \in (i - 1)..Len(input) /\ i - 1 \in (i - 1)..Len(input)
    BY <2>1
  <2>4. weeks[kept] = input[i - 1]
    BY DEF KeepNewDay, DedupInv
  <2> QED
    BY <2>2, <2>3, <2>4
<1>2. input[i] \in WeekStarts /\ input[i - 1] \in WeekStarts
  BY <1>1, ElementOfSeq DEF Shape
<1>3. input[i - 1] < input[i]
  <2>1. input[i - 1] <= input[i]
    BY <1>1 DEF Shape, Sorted
  <2> QED
    BY <1>1, <1>2, <2>1, ScanAssumption DEF KeepNewDay
<1>4. /\ weeks' \in Seq(WeekStarts) /\ Len(weeks') = Len(input)
      /\ \A k \in 1..Len(input) : weeks'[k] = IF k = kept + 1 THEN input[i] ELSE weeks[k]
  BY <1>1, <1>2, ExceptSeq DEF KeepNewDay, Shape
<1>5. Shape'
  <2>1. ASSUME NEW a \in 1..(kept + 1), NEW b \in 1..(kept + 1), a < b
        PROVE  weeks'[a] < weeks'[b]
    <3>0. a \in 1..kept /\ kept \in 1..Len(input) /\ a \in 1..Len(input) /\ b \in 1..Len(input)
      BY <1>1, <2>1 DEF Shape
    <3>1. weeks'[a] = weeks[a] /\ weeks[a] \in WeekStarts
      BY <1>4, <3>0, ElementOfSeq DEF Shape
    <3>2. CASE b = kept + 1
      <4>0. weeks[a] \in Int /\ weeks[kept] \in Int /\ input[i] \in Int
        BY <1>1, <1>2, <3>1, DayNumbers
      <4>1. weeks[a] <= weeks[kept]
        <5>1. a = kept \/ (a < kept /\ kept \in 1..kept)
          BY <3>0
        <5> QED
          BY <3>0, <4>0, <5>1 DEF Shape, Increasing
      <4>2. weeks'[b] = input[i]
        BY <1>4, <3>0, <3>2
      <4>3. weeks[kept] < input[i]
        BY <1>1, <1>3
      <4> QED
        BY <3>1, <4>0, <4>1, <4>2, <4>3
    <3>3. CASE b \in 1..kept
      <4>1. weeks'[b] = weeks[b]
        BY <1>4, <3>0, <3>3
      <4> QED
        BY <2>1, <3>0, <3>1, <3>3, <4>1 DEF Shape, Increasing
    <3>4. b = kept + 1 \/ b \in 1..kept
      BY <1>1, <3>0
    <3> QED
      BY <3>2, <3>3, <3>4
  <2>2. kept' = kept + 1 /\ loop' = loop /\ input' = input
    BY DEF KeepNewDay
  <2>3. Increasing'
    BY <2>1, <2>2 DEF Increasing
  <2> QED
    BY <1>1, <1>4, <2>2, <2>3 DEF Shape
<1>6. DedupInv'
  <2>1. kept' = kept + 1 /\ i' = i + 1 /\ input' = input /\ loop = "dedup"
    BY DEF KeepNewDay
  <2>2. \A k \in i..Len(input) : weeks'[k] = input[k]
    BY <1>1, <1>4 DEF DedupInv, KeepNewDay
  <2>3. weeks'[kept + 1] = input[i]
    BY <1>1, <1>4
  <2>4. Kept' = {input[k] : k \in 1..i}
    <3>1. \A k \in 1..kept : weeks'[k] = weeks[k]
      BY <1>1, <1>4 DEF Shape
    <3>2. Kept' = Kept \cup {input[i]}
      BY <2>1, <2>3, <3>1 DEF Kept, Shape
    <3>3. Kept = {input[k] : k \in 1..(i - 1)}
      BY <2>1 DEF DedupInv
    <3> QED
      BY <1>1, <3>2, <3>3
  <2>5. weeks'[1] = weeks[1]
    BY <1>1, <1>4 DEF Shape
  <2> QED
    BY <1>1, <2>1, <2>2, <2>3, <2>4, <2>5 DEF DedupInv, KeepNewDay, Figures
<1> QED
  BY <1>5, <1>6 DEF KeepNewDay, ScanInv, Done

LEMMA DropKeeps == ASSUME SInv, DropRepeatedDay PROVE SInv'
<1> USE DEF SInv
<1>1. Shape'
  BY DEF DropRepeatedDay, Shape, Increasing
<1>2. DedupInv'
  <2>0. kept \in 1..Len(input) /\ i \in (kept + 1)..Len(input) /\ Len(input) \in Nat
    BY DEF DropRepeatedDay, Shape, DedupInv
  <2>1. weeks[i] = input[i] /\ weeks[i - 1] = input[i - 1]
    BY <2>0 DEF DropRepeatedDay, DedupInv
  <2>2. {input[k] : k \in 1..(i - 1)} = {input[k] : k \in 1..i}
    <3>1. input[i] = input[i - 1] /\ i - 1 \in 1..(i - 1) /\ i \in Nat
      <4>1. weeks[i] = weeks[i - 1]
        BY DEF DropRepeatedDay
      <4> QED
        BY <2>0, <2>1, <4>1
    <3>2. \A k \in 1..i : k = i \/ k \in 1..(i - 1)
      BY <3>1
    <3> QED
      BY <3>1, <3>2
  <2>3. Kept' = Kept
    BY DEF DropRepeatedDay, Kept
  <2> QED
    <3>1. /\ i' = i + 1 /\ loop = "dedup"
          /\ UNCHANGED <<input, weeks, kept, loop, best, current, bestStart, currentStart>>
      BY DEF DropRepeatedDay, Figures
    <3>2. /\ \A k \in i..Len(input) : weeks[k] = input[k]
          /\ weeks[kept] = input[i]
      <4>1. weeks[i] = weeks[i - 1]
        BY DEF DropRepeatedDay
      <4> QED
        BY <2>0, <2>1, <3>1, <4>1 DEF DedupInv
    <3>3. i + 1 \in (kept + 1)..(Len(input) + 1) /\ (i + 1) - 1 = i
      BY <2>0
    <3> QED
      BY <2>2, <2>3, <3>1, <3>2, <3>3 DEF DedupInv
<1> QED
  BY <1>1, <1>2 DEF DropRepeatedDay, ScanInv, Done

LEMMA BeginKeeps == ASSUME SInv, BeginScan PROVE SInv'
<1> USE DEF SInv
<1>1. Shape'
  BY DEF BeginScan, Shape, Increasing
<1>2. i = Len(input) + 1 /\ kept \in 1..Len(input) /\ Len(input) \in Nat
  <2>1. Len(weeks) = Len(input) /\ kept \in 1..Len(input) /\ Len(input) \in Nat
    BY DEF Shape
  <2>2. i \in (kept + 1)..(Len(input) + 1) /\ i > Len(input)
    BY <2>1 DEF BeginScan, DedupInv
  <2> QED
    BY <2>1, <2>2
<1>3. Kept = Days(input)
  BY <1>2 DEF BeginScan, DedupInv, Days
<1>4. weeks[1] = input[1] /\ input[1] \in Int
  <2>1. input[1] \in WeekStarts
    BY <1>2, ElementOfSeq DEF Shape
  <2>2. weeks[1] = input[1]
    BY DEF BeginScan, DedupInv
  <2> QED
    BY <2>1, <2>2, DayNumbers
<1>5. Seen' = {input[1]}
  BY <1>4 DEF BeginScan, Seen
<1>6. /\ best' = 1 /\ current' = 1 /\ bestStart' = input[1] /\ currentStart' = input[1]
      /\ i' = 2 /\ kept' = kept /\ weeks' = weeks /\ loop' = "scan" /\ input' = input
  BY DEF BeginScan, DedupInv, Figures
<1>7. StreakIn({input[1]}, input[1], 1)
  BY <1>4, StreakOfOne
<1>8. ASSUME NEW n \in Nat \ {0}, input[1] + 7 * (n - 1) = input[1] PROVE n <= 1
  BY <1>4, <1>8
<1>9. ~StreakIn({input[1]}, input[1], 2)
  <2>1. input[1] + 7 * 1 \notin {input[1]} /\ 1 \in 0..(2 - 1)
    BY <1>4
  <2>2. {input[1]} \in SUBSET Int
    BY <1>4
  <2> QED
    BY <1>4, <2>1, <2>2, StreakDays DEF DayByDay
<1>10. Figured({input[1]}, input[1], 1, input[1], 1, input[1])
  BY <1>4, <1>7, <1>8, <1>9 DEF Figured
<1>11. ScanInv'
  BY <1>2, <1>3, <1>4, <1>5, <1>6, <1>10 DEF ScanInv, Kept
<1> QED
  BY <1>1, <1>6, <1>11 DEF DedupInv, Done

LEMMA ScanKeeps == ASSUME SInv, Scan PROVE SInv'
<1> USE DEF SInv
<1> DEFINE m == weeks[i - 1]
           x == weeks[i]
           D == Seen
           E == D \cup {x}
<1>1. Shape'
  BY DEF Scan, Shape, Increasing
<1>2. /\ i \in 2..kept /\ kept \in 1..Len(input) /\ Len(input) \in Nat
      /\ i \in 1..Len(input) /\ i - 1 \in 1..Len(input)
  <2>1. kept \in 1..Len(input) /\ Len(input) \in Nat
    BY DEF Shape
  <2>2. i \in 2..(kept + 1) /\ i <= kept
    BY DEF Scan, ScanInv
  <2> QED
    BY <2>1, <2>2
<1>3. D \subseteq Int /\ x \in Int /\ m \in D /\ m < x /\ \A d \in D : d <= m
  <2>1. \A k \in 1..Len(input) : weeks[k] \in Int
    <3>1. \A k \in 1..Len(input) : weeks[k] \in WeekStarts
      BY ElementOfSeq DEF Shape
    <3> QED
      BY <3>1, DayNumbers
  <2>2. \A k \in 1..(i - 1) : weeks[k] <= m
    BY <1>2, <2>1 DEF Shape, Increasing
  <2>3. m < x
    BY <1>2 DEF Shape, Increasing
  <2> QED
    BY <1>2, <2>1, <2>2, <2>3 DEF Seen
<1>4. Seen' = E
  BY <1>2 DEF Scan, Seen
<1>5. /\ i' = i + 1 /\ weeks' = weeks /\ kept' = kept /\ input' = input /\ loop' = loop
      /\ loop = "scan"
  BY DEF Scan
<1>6. /\ current \in 1..best /\ best \in 1..(i - 1)
      /\ currentStart \in D /\ bestStart \in D
      /\ StreakIn(D, currentStart, current)
      /\ currentStart + 7 * (current - 1) = m
      /\ \A w \in D, n \in Nat \ {0} : StreakIn(D, w, n) /\ w + 7 * (n - 1) = m => n <= current
      /\ StreakIn(D, bestStart, best)
      /\ \A w \in D : ~StreakIn(D, w, best + 1)
      /\ \A w \in D : StreakIn(D, w, best) => bestStart <= w
      /\ Kept = Days(input)
  BY <1>5 DEF ScanInv, Figured
<1>7. /\ current \in Nat \ {0} /\ best \in Nat \ {0}
      /\ currentStart \in Int /\ bestStart \in Int /\ m \in Int
  BY <1>2, <1>3, <1>6
\* What streaks there are once x has been seen.
<1>8. ASSUME NEW w \in E, NEW n \in Nat \ {0}, StreakIn(E, w, n)
      PROVE  \/ w \in D /\ w + 7 * (n - 1) < x /\ StreakIn(D, w, n)
             \/ w = x /\ n = 1
             \/ /\ n > 1 /\ w \in D /\ m = x - 7 /\ StreakIn(D, w, n - 1)
                /\ w + 7 * (n - 1) = x
  <2>0. w \in Int
    BY <1>3
  <2>1. CASE w + 7 * (n - 1) < x
    <3>1. StreakIn(D, w, n)
      BY <1>3, <1>8, <2>0, <2>1, StreakBefore
    <3>2. w # x
      BY <1>3, <2>1
    <3> QED
      BY <2>1, <3>1, <3>2
  <2>2. CASE w + 7 * (n - 1) >= x
    <3>1. /\ w + 7 * (n - 1) = x
          /\ n > 1 => w \in D /\ m = x - 7 /\ StreakIn(D, w, n - 1)
      <4>1. D \in SUBSET Int
        BY <1>3
      <4>2. /\ x \in Int /\ m \in D /\ m < x /\ \A d \in D : d <= m
            /\ w \in D \cup {x} /\ n \in Nat \ {0} /\ StreakIn(D \cup {x}, w, n)
            /\ w + 7 * (n - 1) >= x
        BY <1>3, <1>8, <2>2
      <4> HIDE DEF D, m, x
      <4> QED
        BY <4>1, <4>2, StreakToLast
    <3>2. n = 1 => w = x
      BY <1>3, <2>0, <3>1
    <3> QED
      BY <3>1, <3>2
  <2> QED
    BY <1>3, <2>0, <2>1, <2>2
<1>9. \A w \in E, n \in Nat \ {0} : StreakIn(E, w, n) => w + 7 * (n - 1) <= x
  BY <1>3, <1>8
<1>10. bestStart + 7 * (best - 1) <= m
  <2>1. D \in SUBSET Int /\ best \in Nat /\ best - 1 \in 0..(best - 1)
    BY <1>3, <1>7
  <2>2. \A k \in 0..(best - 1) : bestStart + 7 * k \in D
    BY <1>6, <1>7, <2>1, StreakDays DEF DayByDay
  <2> QED
    BY <1>3, <2>1, <2>2
<1>11. StreakIn(E, bestStart, best)
  BY <1>3, <1>6, <1>7, <1>10, StreakBefore
<1>12. Kept' = Kept
  BY <1>5 DEF Kept
<1>13. CASE x - m = 7
  <2>1. current' = current + 1 /\ currentStart' = currentStart
    BY <1>13 DEF Scan
  <2>2. StreakIn(E, currentStart, current + 1)
    BY <1>3, <1>6, <1>7, <1>13, StreakGrows
  <2>3. currentStart + 7 * current = x
    <3>1. currentStart + 7 * (current - 1) = m
      BY <1>6
    <3> QED
      BY <1>3, <1>7, <1>13, <3>1
  <2>4. ASSUME NEW w \in E, NEW n \in Nat \ {0}, StreakIn(E, w, n), w + 7 * (n - 1) = x
        PROVE  n <= current + 1
    <3>1. CASE n = 1
      BY <1>7, <3>1
    <3>2. CASE n > 1
      <4>1. w \in D /\ StreakIn(D, w, n - 1)
        BY <1>3, <1>8, <2>4, <3>2
      <4>2. n - 1 \in Nat \ {0} /\ w + 7 * ((n - 1) - 1) = m
        BY <1>3, <1>7, <1>13, <2>4, <3>2, <4>1
      <4>3. n - 1 <= current
        BY <1>6, <4>1, <4>2
      <4> QED
        BY <1>7, <4>3
    <3> QED
      BY <3>1, <3>2
  <2>5. CASE current + 1 > best
    <3>1. best = current /\ best' = current + 1 /\ bestStart' = currentStart
      BY <1>6, <1>7, <1>13, <2>5 DEF Scan
    <3>2. ASSUME NEW w \in E, StreakIn(E, w, current + 2) PROVE FALSE
      <4>1. CASE w + 7 * (current + 1) = x
        <5>1. current + 2 \in Nat \ {0} /\ w + 7 * ((current + 2) - 1) = x
          BY <1>7, <4>1
        <5>2. current + 2 <= current + 1
          BY <2>4, <3>2, <5>1
        <5> QED
          BY <1>7, <5>2
      <4>2. CASE w + 7 * (current + 1) # x
        <5>1. w \in D /\ StreakIn(D, w, current + 2) /\ w \in Int
          BY <1>3, <1>7, <1>8, <3>2, <4>2
        <5>2. StreakIn(D, w, current + 1)
          BY <1>3, <1>7, <5>1, StreakPrefix
        <5> QED
          BY <1>6, <3>1, <5>1, <5>2
      <4> QED
        BY <4>1, <4>2
    <3>3. ASSUME NEW w \in E, StreakIn(E, w, current + 1) PROVE currentStart <= w
      <4>1. CASE w + 7 * current = x
        BY <1>3, <1>7, <2>3, <4>1
      <4>2. CASE w + 7 * current # x
        <5>1. w \in D /\ StreakIn(D, w, current + 1)
          BY <1>3, <1>7, <1>8, <3>3, <4>2
        <5> QED
          BY <1>6, <3>1, <5>1
      <4> QED
        BY <4>1, <4>2
    <3>4. (current + 1) + 1 = current + 2
      BY <1>7
    <3>5. Figured(E, x, current + 1, currentStart, current + 1, currentStart)
      <4>1. /\ currentStart \in E /\ current + 1 \in 1..(current + 1)
            /\ currentStart + 7 * ((current + 1) - 1) = x
        BY <1>6, <1>7, <2>3
      <4>2. \A w \in E : ~StreakIn(E, w, (current + 1) + 1)
        BY <3>2, <3>4
      <4> HIDE DEF E, x
      <4> QED
        BY <2>2, <2>4, <3>3, <4>1, <4>2 DEF Figured
    <3>6. current + 1 \in 1..i
      BY <1>2, <1>6, <1>7, <3>1
    <3> QED
      BY <1>1, <1>2, <1>4, <1>5, <1>6, <1>12, <2>1, <3>1, <3>5, <3>6 DEF ScanInv, DedupInv, Done
  <2>6. CASE current + 1 <= best
    <3>1. best' = best /\ bestStart' = bestStart
      BY <1>7, <1>13, <2>6 DEF Scan
    <3>2. ASSUME NEW w \in E, StreakIn(E, w, best + 1) PROVE FALSE
      <4>1. CASE w + 7 * best = x
        <5>1. best + 1 \in Nat \ {0} /\ w + 7 * ((best + 1) - 1) = x
          BY <1>7, <4>1
        <5>2. best + 1 <= current + 1
          BY <2>4, <3>2, <5>1
        <5> QED
          BY <1>7, <2>6, <5>2
      <4>2. CASE w + 7 * best # x
        <5>1. w \in D /\ StreakIn(D, w, best + 1)
          BY <1>3, <1>7, <1>8, <3>2, <4>2
        <5> QED
          BY <1>6, <5>1
      <4> QED
        BY <4>1, <4>2
    <3>3. ASSUME NEW w \in E, StreakIn(E, w, best) PROVE bestStart <= w
      <4>1. CASE w + 7 * (best - 1) = x
        BY <1>3, <1>7, <1>10, <4>1
      <4>2. CASE w + 7 * (best - 1) # x
        <5>1. w \in D /\ StreakIn(D, w, best)
          BY <1>3, <1>7, <1>8, <3>3, <4>2
        <5> QED
          BY <1>6, <5>1
      <4> QED
        BY <4>1, <4>2
    <3>4. Figured(E, x, current + 1, currentStart, best, bestStart)
      <4>1. /\ currentStart \in E /\ bestStart \in E /\ current + 1 \in 1..best
            /\ currentStart + 7 * ((current + 1) - 1) = x
        BY <1>6, <1>7, <2>3, <2>6
      <4> HIDE DEF E, x
      <4> QED
        BY <1>11, <2>2, <2>4, <3>2, <3>3, <4>1 DEF Figured
    <3>5. best \in 1..i
      BY <1>2, <1>6
    <3> QED
      BY <1>1, <1>2, <1>4, <1>5, <1>6, <1>12, <2>1, <3>1, <3>4, <3>5 DEF ScanInv, DedupInv, Done
  <2> QED
    BY <1>7, <2>5, <2>6
<1>14. CASE x - m # 7
  <2>1. /\ current' = 1 /\ currentStart' = x
        /\ best' = best /\ bestStart' = bestStart
    BY <1>7, <1>14 DEF Scan
  <2>2. StreakIn(E, x, 1)
    BY <1>3, StreakOfOne
  <2>3. ASSUME NEW w \in E, NEW n \in Nat \ {0}, StreakIn(E, w, n), w + 7 * (n - 1) = x
        PROVE  n <= 1
    BY <1>3, <1>7, <1>8, <1>14, <2>3
  <2>4. ASSUME NEW w \in E, StreakIn(E, w, best + 1) PROVE FALSE
    <3>1. best + 1 \in Nat \ {0} /\ best + 1 > 1
      BY <1>7
    <3>2. w \in D /\ StreakIn(D, w, best + 1)
      BY <1>3, <1>7, <1>8, <1>14, <2>4, <3>1
    <3> QED
      BY <1>6, <3>2
  <2>5. ASSUME NEW w \in E, StreakIn(E, w, best) PROVE bestStart <= w
    <3>1. CASE w = x
      BY <1>3, <1>7, <1>6, <3>1
    <3>2. CASE w # x
      <4>1. w \in D /\ StreakIn(D, w, best)
        BY <1>3, <1>7, <1>8, <1>14, <2>5, <3>2
      <4> QED
        BY <1>6, <4>1
    <3> QED
      BY <3>1, <3>2
  <2>6. Figured(E, x, 1, x, best, bestStart)
    <3>1. x \in E /\ bestStart \in E /\ 1 \in 1..best /\ x + 7 * (1 - 1) = x
      BY <1>3, <1>6, <1>7
    <3> HIDE DEF E, x
    <3> QED
      BY <1>11, <2>2, <2>3, <2>4, <2>5, <3>1 DEF Figured
  <2>7. best \in 1..i
    BY <1>2, <1>6
  <2> QED
    BY <1>1, <1>2, <1>4, <1>5, <1>6, <1>12, <2>1, <2>6, <2>7 DEF ScanInv, DedupInv, Done
<1> QED
  BY <1>13, <1>14

LEMMA EndKeeps == ASSUME SInv, EndScan PROVE SInv'
<1> USE DEF SInv
<1>1. Shape' /\ DedupInv'
  BY DEF EndScan, Shape, Increasing, DedupInv
<1>2. ScanInv'
  BY DEF EndScan, ScanInv, Seen, Kept, Figures
<1>3. Done'
  BY DEF EndScan, ScanInv, Shape, Done
<1> QED
  BY <1>1, <1>2, <1>3

LEMMA StutterKeeps == ASSUME SInv, UNCHANGED vars PROVE SInv'
<1>1. UNCHANGED <<input, weeks, kept, loop, i, best, bestStart, current, currentStart>>
  BY DEF vars
<1>2. Seen' = Seen /\ Kept' = Kept
  BY <1>1 DEF Seen, Kept
<1>3. Shape' /\ Done' /\ DedupInv'
  <2>1. Shape'
    BY <1>1 DEF SInv, Shape, Increasing, Sorted
  <2>2. Done'
    BY <1>1 DEF SInv, Done
  <2>3. DedupInv'
    BY <1>1, <1>2 DEF SInv, DedupInv
  <2> QED
    BY <2>1, <2>2, <2>3
<1>4. ScanInv'
  BY <1>1, <1>2 DEF SInv, ScanInv
<1> QED
  BY <1>3, <1>4 DEF SInv

LEMMA SInvHolds == Spec => []SInv
<1>1. SInv /\ [Next]_vars => SInv'
  BY KeepKeeps, DropKeeps, BeginKeeps, ScanKeeps, EndKeeps, StutterKeeps DEF Next
<1> QED
  BY <1>1, InitEstablishes, PTL DEF Spec

--------------------------------------------------------------------------------
\* The types of the loops' variables.
THEOREM ScanTypes == Spec => []TypeOK
<1>1. ASSUME SInv PROVE TypeOK
  <2>1. weeks \in [1..Len(input) -> WeekStarts] /\ Len(input) \in Nat
    BY <1>1, LenProperties DEF SInv, Shape
  <2>2. input[1] \in WeekStarts
    BY <1>1, ElementOfSeq DEF SInv, Shape
  <2>3. CASE loop = "dedup"
    BY <1>1, <2>1, <2>2, <2>3 DEF SInv, Shape, DedupInv, TypeOK
  <2>4. CASE loop # "dedup"
    <3>1. Seen \subseteq WeekStarts
      BY <1>1, <2>4, ElementOfSeq DEF SInv, Shape, ScanInv, Seen
    <3> QED
      BY <1>1, <2>1, <2>4, <3>1 DEF SInv, Shape, ScanInv, Figured, TypeOK
  <2> QED
    BY <2>3, <2>4
<1> QED
  BY <1>1, SInvHolds, PTL

(***************************************************************************)
(* The first loop loses no day although it overwrites the slice it reads:  *)
(* what it has kept is strictly increasing and, with what it has still to  *)
(* read, has every day of the input.                                       *)
(***************************************************************************)
DedupKeepsDays ==
  /\ \A a, b \in 1..kept : a < b => weeks[a] < weeks[b]
  /\ Days(input) = {weeks[k] : k \in 1..kept} \cup
                   (IF loop = "dedup" THEN {weeks[k] : k \in i..Len(weeks)} ELSE {})

\* DedupKeepsDays, for every sorted slice.
THEOREM DedupLosesNoDay == Spec => []DedupKeepsDays
<1>1. ASSUME SInv PROVE DedupKeepsDays
  <2>1. \A a, b \in 1..kept : a < b => weeks[a] < weeks[b]
    BY <1>1 DEF SInv, Shape, Increasing
  <2>2. CASE loop = "dedup"
    <3>1. /\ Kept = {input[k] : k \in 1..(i - 1)} /\ i \in 1..(Len(input) + 1)
          /\ \A k \in i..Len(input) : weeks[k] = input[k]
          /\ Len(weeks) = Len(input) /\ Len(input) \in Nat
      BY <1>1, <2>2 DEF SInv, Shape, DedupInv
    <3>2. {weeks[k] : k \in i..Len(weeks)} = {input[k] : k \in i..Len(input)}
      BY <3>1
    <3>3. Days(input) = {input[k] : k \in 1..(i - 1)} \cup {input[k] : k \in i..Len(input)}
      BY <3>1 DEF Days
    <3> QED
      BY <2>1, <2>2, <3>1, <3>2, <3>3 DEF DedupKeepsDays, Kept
  <2>3. CASE loop # "dedup"
    BY <1>1, <2>1, <2>3 DEF SInv, ScanInv, Kept, DedupKeepsDays
  <2> QED
    BY <2>2, <2>3
<1> QED
  BY <1>1, SInvHolds, PTL

\* LongestStreakFound, for every sorted slice, whatever weekdays its weeks begin on.
THEOREM LongestStreak == Spec => []LongestStreakFound
<1>1. ASSUME SInv PROVE LongestStreakFound
  <2> SUFFICES ASSUME loop = "done" PROVE LongestStreakFound
    BY DEF LongestStreakFound
  <2>1. i = kept + 1 /\ kept \in Nat
    BY <1>1 DEF SInv, Shape, Done
  <2>2. Seen = Days(input)
    BY <1>1, <2>1 DEF SInv, ScanInv, Seen, Kept
  <2>3. \A w, n : IsStreak(w, n) <=> StreakIn(Days(input), w, n)
    BY DEF IsStreak, StreakIn
  <2> QED
    BY <1>1, <2>2, <2>3 DEF SInv, ScanInv, Figured, LongestStreakFound
<1> QED
  BY <1>1, SInvHolds, PTL

================================================================================
