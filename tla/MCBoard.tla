-------------------------------- MODULE MCBoard --------------------------------
(***************************************************************************)
(* An instance of WeekBoard for TLC: one user whose two transmissions are  *)
(* heard in two regions by two observers and handled by two goroutines.    *)
(* Day 1 is a Monday.                                                      *)
(***************************************************************************)
EXTENDS WeekBoard, TLC

CONSTANTS p1, p2, u1, none

SameUser == [k \in Rules |-> p1 :> u1 @@ p2 :> u1]

TwoMondays == {1, 2, 8, 9}

Monday == {1}

Symmetry ==
  Permutations(Packets) \cup Permutations(Workers) \cup
  Permutations(Regions) \cup Permutations(Observers)

================================================================================
