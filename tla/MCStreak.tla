------------------------------- MODULE MCStreak --------------------------------
(***************************************************************************)
(* An instance of StreakScan for TLC: weeks in a row, and two that do not  *)
(* lie seven days from the others, as after a change of DAY_OF_WEEK.       *)
(***************************************************************************)
EXTENDS StreakScan

WeeksAndStrays == {0, 7, 9, 14, 21, 28, 30}

================================================================================
