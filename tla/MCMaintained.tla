----------------------------- MODULE MCMaintained ------------------------------
(***************************************************************************)
(* Instances of MaintainedServer for TLC.  Day 1 is a Monday.              *)
(***************************************************************************)
EXTENDS MaintainedServer, TLC

CONSTANTS p1, p2, u1, none, old, new

\* Two packets, each of them a check-in under one of the two rules only.
OneUnderEachRules ==
  old :> (p1 :> u1 @@ p2 :> none) @@ new :> (p1 :> none @@ p2 :> u1)

\* The packets change places with the rules they are check-ins under.
Symmetry == {p1 :> p2 @@ p2 :> p1 @@ old :> new @@ new :> old}

\* One packet, a check-in.
OneCheckin == [k \in Rules |-> p1 :> u1]

\* Two Mondays.
TwoMondays == {1, 8}

\* A Monday, and the Sunday and the Monday a week later.
MondayThenSundayMonday == {1, 7, 8}

Monday == {1}
SundayOrMonday == {0, 1}

================================================================================
