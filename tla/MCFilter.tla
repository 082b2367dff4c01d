-------------------------------- MODULE MCFilter -------------------------------
(***************************************************************************)
(* An instance of LeaderboardFilter for TLC: two users, a text for one of  *)
(* them and the empty text.                                                *)
(***************************************************************************)
EXTENDS LeaderboardFilter

CONSTANTS avery, blake

AveryOrAll == [q \in {"", "a"} |-> IF q = "a" THEN {avery} ELSE {avery, blake}]

================================================================================
