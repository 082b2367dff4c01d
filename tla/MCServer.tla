-------------------------------- MODULE MCServer -------------------------------
(***************************************************************************)
(* Instances of WeeklyNetServer for TLC.  Day 0 is a Sunday.               *)
(***************************************************************************)
EXTENDS ServerInvariant, TLC

CONSTANTS p1, p2, u1, none, old, new

\* Two packets of one user; the old rules find no check-in in the second.
SecondUnderNewRules ==
  old :> (p1 :> u1 @@ p2 :> none) @@ new :> (p1 :> u1 @@ p2 :> u1)

\* A packet that is a check-in and one that is not.
OneCheckinOneAmbient == [k \in Rules |-> p1 :> u1 @@ p2 :> none]

\* A Sunday and the Monday after it, two weeks in a row.
TwoWeeks == {0, 1, 7, 8}

\* Three Mondays and the day after each.
ThreeMondays == {1, 2, 8, 9, 15, 16}

Monday == {1}
SundayOrMonday == {0, 1}

================================================================================
