---------------------------- MODULE ServerInvariant ----------------------------
(***************************************************************************)
(* The inductive invariant of WeeklyNetServer.  It says why a retention    *)
(* pass with a stale snapshot deletes nothing that matters: a packet gets  *)
(* its link only from a call that is at most six days old, and such a      *)
(* packet lies inside the retained weeks of any pass begun until today.    *)
(***************************************************************************)
EXTENDS WeeklyNetServer

\* UNIQUE(packet_hash) and PRIMARY KEY AUTOINCREMENT of raw_packets.
RawKeys ==
  /\ \A r \in rawPackets : 0 < r.id /\ r.id <= rawSeq
  /\ \A r, s \in rawPackets : r.id = s.id \/ r.hash = s.hash => r = s

\* UNIQUE(week_start, username) of checkins.
OneCheckinPerWeek ==
  \A c, d \in checkins : c.week = d.week /\ c.user = d.user => c = d

\* The week of a credit began on a day the clock has shown.
CheckinWeeks == \A c \in checkins : c.week \in Days

\* A call in flight began on a check-in day less than a week ago.
CallsRecent ==
  \A w \in Workers : handlers[w] # Idle =>
    /\ handlers[w].day \in Days
    /\ handlers[w].day <= today
    /\ today - handlers[w].day <= MaxHandlerDays
    /\ IsWeekday(handlers[w].day, dayOfWeek)

\* Only the call that stored a check-in packet links it, and it does so
\* before it stores the check-in.
CallsInOrder ==
  \A w \in Workers :
    /\ handlers[w].pc \in {"link", "checkin"} => Crediting(handlers[w])
    /\ handlers[w].pc = "checkin" =>
         LinkRow(handlers[w].day, handlers[w].user, handlers[w].packet)
           \in checkinPackets

\* What the retention pass relies on.
PassSafe ==
  /\ prune # Asleep => prune.now <= today
  /\ prune.pc = "protect" => prune.lastId = 0
  /\ prune.pc \in {"scan", "delete"} =>
       /\ prune.lastId <= rawSeq
       /\ \A r \in rawPackets : Linked(r.hash) => ShouldRetain(r, prune, dayOfWeek)
  /\ prune.pc = "delete" =>
       /\ \A i \in prune.pending : i <= rawSeq
       /\ \A r \in rawPackets : r.id \in prune.pending => ~ShouldRetain(r, prune, dayOfWeek)

\* A process that is down runs nothing.
DownIsQuiet ==
  ~up => prune = Asleep /\ \A w \in Workers : handlers[w] = Idle

IInv ==
  /\ TypeOK
  /\ RawKeys
  /\ OneCheckinPerWeek
  /\ CheckinWeeks
  /\ CheckinIsLinked
  /\ CreditMatchesPacket
  /\ NoSilentLoss
  /\ InFlightPacketStored
  /\ CallsRecent
  /\ CallsInOrder
  /\ PassSafe
  /\ CursorSkipsNothing
  /\ DownIsQuiet

================================================================================
