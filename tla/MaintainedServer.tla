--------------------------- MODULE MaintainedServer ----------------------------
(***************************************************************************)
(* The server and the restore command on one database.  Nothing stops an   *)
(* operator from running the command while the server is up, and neither   *)
(* process knows of the other.                                             *)
(***************************************************************************)
EXTENDS WeekBoard, RestoreTool

CONSTANT MaxRestores   \* bound: runs of the command

ASSUME MaintainedAssumption == MaxRestores \in Nat

VARIABLE restores      \* runs so far

maintainedVars == <<vars, restore, restores>>

MaintainedTypeOK ==
  /\ TypeOK
  /\ RestoreTypeOK
  /\ restores \in 0..MaxRestores

MaintainedInit ==
  /\ Init
  /\ RestoreInit
  /\ restores = 0

\* make restore-checkin-packets, with the configuration of that moment.
RunCommand ==
  /\ restores < MaxRestores
  /\ restores' = restores + 1
  /\ \E target \in CheckinDays, config \in Rules : StartRestore(today, target, config)
  /\ UNCHANGED <<handlers, abandoned, prune, today, dayOfWeek, rules, up, exits>>

CommandStep ==
  /\ restore # Stopped
  /\ RestoreStep
  /\ UNCHANGED <<handlers, abandoned, prune, today, dayOfWeek, rules, up, exits, restores>>

\* The context of the command lasts two minutes: one midnight at most passes.
ServerStep ==
  /\ Next
  /\ restore # Stopped => today' - restore.began <= 1
  /\ UNCHANGED <<restore, restores>>

MaintainedNext == ServerStep \/ RunCommand \/ CommandStep

MaintainedSpec == MaintainedInit /\ [][MaintainedNext]_maintainedVars

--------------------------------------------------------------------------------
(***************************************************************************)
(* What the command has passed over is linked: every row its cursor has    *)
(* returned that qualifies under the rules of the command ("using current  *)
(* parsing/decryption rules", README.md:79) and is still stored has a link *)
(* to the user they name, unless the command counted it as a failure.      *)
(***************************************************************************)
RestoredRowsLinked ==
  restore # Stopped =>
    \A r \in restore.done \cap rawPackets :
      Qualifies(r, restore) /\ r \notin restore.failed =>
        LinkRow(r.day, Candidate[restore.rules][r.hash], r.hash) \in checkinPackets

(***************************************************************************)
(* The cursor of the command may return a row that has been pruned and     *)
(* received again since, on another day.  That makes the week of a link    *)
(* wrong and nothing else: links name packets that are stored and a user   *)
(* some rules find in them, and every check-in agrees with its packet in   *)
(* all that CreditMatchesPacket asks for, whatever rules the command had.  *)
(***************************************************************************)
OnlyLinkWeeksGoStale ==
  /\ \A l \in checkinPackets : Stored(l.hash) /\ l.user \in NamedBy(l.hash)
  /\ \A c \in checkins : \E r \in rawPackets :
       /\ r.hash = c.hash /\ r.day = c.date /\ r.iata = c.iata
       /\ c.week = c.date /\ r.user = c.user

(***************************************************************************)
(* Check-ins survive the command beside the server: no step removes one,   *)
(* its link or its raw packet.                                             *)
(***************************************************************************)
KeepsCheckins ==
  \A c \in checkins :
    /\ c \in checkins'
    /\ LinkRow(c.week, c.user, c.hash) \in checkinPackets'
    /\ \A r \in rawPackets : r.hash = c.hash => r \in rawPackets'

CheckinsKept == [][KeepsCheckins]_maintainedVars

\* The observers that heard the very packet of a check-in.
HeardBy(c) == {o.observer : o \in {q \in observations : q.hash = c.hash}}

(***************************************************************************)
(* Nor does a page lose a check-in.  A link that goes with its packet can  *)
(* take the observers of that packet, and the regions it was heard in,     *)
(* from a tile; but the tile stays, unfiltered and under the region of the *)
(* check-in, and so do the observers of the check-in's own packet.         *)
(***************************************************************************)
PagesKeepCheckins ==
  \A c \in checkins : \A filter \in SUBSET Regions :
    filter = {} \/ c.iata \in filter =>
      \E row \in ListCheckinsByWeek(filter, c.week)' :
        row.id = c.id /\ HeardBy(c) \subseteq row.observers

CheckinsStayOnPages == [][PagesKeepCheckins]_maintainedVars

(***************************************************************************)
(* "Checkins and linked rows are always kept" (README.md:82), read of the  *)
(* two processes together.                                                 *)
(***************************************************************************)
LinkedRowsAlwaysKept == [][KeepsLinkedRows]_maintainedVars

================================================================================
