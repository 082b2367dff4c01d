------------------------------- MODULE MCRequests ------------------------------
(***************************************************************************)
(* An instance of LeaderboardRequests for TLC: two users, two requests at  *)
(* a time, and three week starts, one of them between the other two.       *)
(***************************************************************************)
EXTENDS LeaderboardRequests, TLC

CONSTANTS r1, r2

TwoRequests == {r1, r2}
Symmetry == Permutations(TwoRequests)

================================================================================
