------------------------------- MODULE StreakScan ------------------------------
(***************************************************************************)
(* longestWeeklyStreak (internal/leaderboard/service.go): one pass over    *)
(* the sorted week starts of a user removes repeated days, in place, while *)
(* it still reads the slice it writes to; a second finds the longest run   *)
(* of weeks seven days apart and where it began.                           *)
(*                                                                         *)
(* A week start is its day number: week_start is read back from the        *)
(* database as a UTC midnight, so seven days are always 7 * 24 hours.      *)
(***************************************************************************)
EXTENDS Integers, Sequences, SequencesExt

CONSTANTS
  WeekStarts,  \* week starts that occur
  MaxWeeks     \* bound: check-ins of the user

ASSUME ScanAssumption ==
  /\ WeekStarts \subseteq Nat
  /\ MaxWeeks \in Nat \ {0}

VARIABLES
  input,  \* history: the sorted slice the loops begin with
  weeks,  \* the slice; dedup is its prefix
  kept,   \* len(dedup)
  loop,   \* "dedup", "scan" or "done"
  i,      \* loop variable, counted from 1
  best, bestStart, current, currentStart

vars == <<input, weeks, kept, loop, i, best, bestStart, current, currentStart>>

Figures == <<best, bestStart, current, currentStart>>

TypeOK ==
  /\ weeks \in [1..Len(input) -> WeekStarts]
  /\ kept \in 1..Len(input)
  /\ loop \in {"dedup", "scan", "done"}
  /\ i \in 2..(Len(input) + 1)
  /\ best \in 1..Len(input)
  /\ current \in 1..Len(input)
  /\ {bestStart, currentStart} \subseteq WeekStarts

Sorted(s) == \A a, b \in 1..Len(s) : a < b => s[a] <= s[b]

\* The sorted slice of a user with at least one check-in.
Init ==
  /\ input \in {s \in BoundedSeq(WeekStarts, MaxWeeks) : s # <<>> /\ Sorted(s)}
  /\ weeks = input
  /\ kept = 1
  /\ loop = "dedup"
  /\ i = 2
  /\ best = 1
  /\ bestStart = input[1]
  /\ current = 1
  /\ currentStart = input[1]

--------------------------------------------------------------------------------
\* First loop, a day not seen before: append writes into the same slice.
KeepNewDay ==
  /\ loop = "dedup"
  /\ i <= Len(weeks)
  /\ weeks[i] # weeks[i - 1]
  /\ weeks' = [weeks EXCEPT ![kept + 1] = weeks[i]]
  /\ kept' = kept + 1
  /\ i' = i + 1
  /\ UNCHANGED <<input, loop, Figures>>

DropRepeatedDay ==
  /\ loop = "dedup"
  /\ i <= Len(weeks)
  /\ weeks[i] = weeks[i - 1]
  /\ i' = i + 1
  /\ UNCHANGED <<input, weeks, kept, loop, Figures>>

\* Variant for mutation: the second loop begins with the first week.
BeginScanAtFirst ==
  /\ loop = "dedup"
  /\ i > Len(weeks)
  /\ loop' = "scan"
  /\ i' = 1
  /\ UNCHANGED <<input, weeks, kept, Figures>>

BeginScan ==
  /\ loop = "dedup"
  /\ i > Len(weeks)
  /\ loop' = "scan"
  /\ i' = 2
  /\ UNCHANGED <<input, weeks, kept, Figures>>

\* Variant for mutation: a new run keeps the start of the old one.
ScanLateStart ==
  LET length == IF weeks[i] - weeks[i - 1] = 7 THEN current + 1 ELSE 1
  IN  /\ loop = "scan"
      /\ i <= kept
      /\ current' = length
      /\ best' = IF length > best THEN length ELSE best
      /\ bestStart' = IF length > best THEN currentStart ELSE bestStart
      /\ i' = i + 1
      /\ UNCHANGED <<input, weeks, kept, loop, currentStart>>

\* Second loop: extend the current run or begin a new one, then compare.
Scan ==
  LET extends == weeks[i] - weeks[i - 1] = 7
      length  == IF extends THEN current + 1 ELSE 1
      start   == IF extends THEN currentStart ELSE weeks[i]
  IN  /\ loop = "scan"
      /\ i <= kept
      /\ current' = length
      /\ currentStart' = start
      /\ best' = IF length > best THEN length ELSE best
      /\ bestStart' = IF length > best THEN start ELSE bestStart
      /\ i' = i + 1
      /\ UNCHANGED <<input, weeks, kept, loop>>

EndScan ==
  /\ loop = "scan"
  /\ i > kept
  /\ loop' = "done"
  /\ UNCHANGED <<input, weeks, kept, i, Figures>>

Next == KeepNewDay \/ DropRepeatedDay \/ BeginScan \/ Scan \/ EndScan

Spec == Init /\ [][Next]_vars

--------------------------------------------------------------------------------
Days(s) == {s[k] : k \in 1..Len(s)}

\* Has the user checked in on n weeks in a row, the first beginning on w?
\* A week that began on another weekday in between ends a streak.
IsStreak(w, n) ==
  LET last == w + 7 * (n - 1)
  IN  {d \in Days(input) : w <= d /\ d <= last} = {w + 7 * k : k \in 0..(n - 1)}

(***************************************************************************)
(* The figures shown on the leaderboard: "best" is the length of a longest *)
(* streak, "bestStart" the first day such a streak began on.               *)
(***************************************************************************)
LongestStreakFound ==
  loop = "done" =>
    /\ IsStreak(bestStart, best)
    /\ \A w \in Days(input) : ~IsStreak(w, best + 1)
    /\ \A w \in Days(input) : IsStreak(w, best) => bestStart <= w

================================================================================
