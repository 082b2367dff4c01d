----------------------------- MODULE CheckinBoard ------------------------------
(***************************************************************************)
(* What the server promises about check-ins, whatever the ingest service,  *)
(* the retention loop and restarts do: a user is credited at most once a   *)
(* week, a packet credits at most one user and week, the first credit of a *)
(* week stands, and no credit is ever taken back.                          *)
(***************************************************************************)
CONSTANTS Weeks, Users, Packets

VARIABLE board   \* the credits given so far

Credit == [week: Weeks, user: Users, hash: Packets]

\* Neither the user's week nor the packet has been used by a credit.
Free(c) == \A b \in board : b.hash # c.hash /\ (b.week # c.week \/ b.user # c.user)

Init == board = {}

Give(c) == Free(c) /\ board' = board \cup {c}

Next == \E c \in Credit : Give(c)

Spec == Init /\ [][Next]_board

================================================================================
