------------------------------ MODULE SQLiteStore ------------------------------
(***************************************************************************)
(* The SQLite database behind internal/storage: its tables and what each   *)
(* statement does to them.  A statement is one atomic auto-commit step;    *)
(* nothing groups two statements of an ingest or of a prune into one       *)
(* transaction.                                                            *)
(*                                                                         *)
(* A column is kept when some decision reads it.  The hash of a packet     *)
(* stands for its payload; topic, device key, payload and route types,     *)
(* message text, display name and the created_at/received_at stamps are    *)
(* left out.  The field user of a raw row is no column: it records whom    *)
(* the call that stored the row found the packet to check in, for the      *)
(* properties alone, and no action reads it.                               *)
(***************************************************************************)
EXTENDS WeekCalendar

CONSTANTS
  Packets,    \* distinct packet payloads, identified by their hash
  Users,      \* normalized user names
  NoCandidate,  \* in the place of a user: the packet is no check-in
  Regions,    \* IATA codes of the topics
  Observers,  \* observer keys
  BusyBurst,  \* most "busy" answers one statement gets in a row
  IOErrors    \* may a statement fail for another reason?

ASSUME StoreAssumption ==
  /\ NoCandidate \notin Users
  /\ BusyBurst \in Nat
  /\ IOErrors \in BOOLEAN

VARIABLES
  rawPackets,     \* table raw_packets
  checkins,       \* table checkins
  observations,   \* table packet_observations
  checkinPackets, \* table checkin_packets
  rawSeq,         \* AUTOINCREMENT counter of raw_packets
  checkinSeq      \* AUTOINCREMENT counter of checkins

store == <<rawPackets, checkins, observations, checkinPackets, rawSeq, checkinSeq>>

RawRow      == [id: Nat, hash: Packets, iata: Regions, day: Nat,
                user: Users \cup {NoCandidate}]
CheckinRow  == [id: Nat, hash: Packets, user: Users, iata: Regions, date: Nat, week: Int]
Observation == [hash: Packets, observer: Observers]
Link        == [week: Int, user: Users, hash: Packets]

StoreTypeOK ==
  /\ rawPackets \subseteq RawRow
  /\ checkins \subseteq CheckinRow
  /\ observations \subseteq Observation
  /\ checkinPackets \subseteq Link
  /\ rawSeq \in Nat
  /\ checkinSeq \in Nat

\* A fresh database, right after the first Migrate.
StoreInit ==
  /\ rawPackets = {}
  /\ checkins = {}
  /\ observations = {}
  /\ checkinPackets = {}
  /\ rawSeq = 0
  /\ checkinSeq = 0

--------------------------------------------------------------------------------
\* Does raw_packets hold packet p?  Every foreign key refers to this.
Stored(p) == \E r \in rawPackets : r.hash = p

LinkRow(w, u, p) == [week |-> w, user |-> u, hash |-> p]

\* INSERT INTO raw_packets: UNIQUE(packet_hash) answers "not inserted".
InsertRawPacket(p, region, day, user) ==
  /\ \/ /\ Stored(p)
        /\ UNCHANGED <<rawPackets, rawSeq>>
     \/ /\ ~Stored(p)
        /\ rawSeq' = rawSeq + 1
        /\ rawPackets' = rawPackets \cup
             {[id |-> rawSeq + 1, hash |-> p, iata |-> region, day |-> day, user |-> user]}
  /\ UNCHANGED <<checkins, observations, checkinPackets, checkinSeq>>

\* INSERT INTO packet_observations; a repeated (packet, observer) is no error.
InsertPacketObservation(p, observer) ==
  /\ Stored(p)
  /\ observations' = observations \cup {[hash |-> p, observer |-> observer]}
  /\ UNCHANGED <<rawPackets, checkins, checkinPackets, rawSeq, checkinSeq>>

\* INSERT INTO checkin_packets ... ON CONFLICT DO NOTHING.
InsertCheckinPacket(week, user, p) ==
  /\ Stored(p)
  /\ checkinPackets' = checkinPackets \cup {LinkRow(week, user, p)}
  /\ UNCHANGED <<rawPackets, checkins, observations, rawSeq, checkinSeq>>

\* Variant for mutation: without UNIQUE(week_start, username).
CheckinConflictByPacket(week, user, p) == \E c \in checkins : c.hash = p

\* A check-in that UNIQUE(packet_hash) or UNIQUE(week_start, username) rejects.
CheckinConflict(week, user, p) ==
  \E c \in checkins : c.hash = p \/ (c.week = week /\ c.user = user)

\* INSERT INTO checkins ... ON CONFLICT DO NOTHING: the first check-in wins.
InsertCheckin(p, user, region, day, week) ==
  /\ \/ /\ CheckinConflict(week, user, p)
        /\ UNCHANGED <<checkins, checkinSeq>>
     \/ /\ ~CheckinConflict(week, user, p)
        /\ Stored(p)
        /\ checkinSeq' = checkinSeq + 1
        /\ checkins' = checkins \cup
             {[id |-> checkinSeq + 1, hash |-> p, user |-> user, iata |-> region,
               date |-> day, week |-> week]}
  /\ UNCHANGED <<rawPackets, observations, checkinPackets, rawSeq>>

\* DELETE FROM raw_packets WHERE id IN (ids), with its three ON DELETE CASCADEs.
DeleteRawPackets(ids) ==
  LET gone == {r.hash : r \in {s \in rawPackets : s.id \in ids}}
  IN  /\ rawPackets' = {r \in rawPackets : r.id \notin ids}
      /\ checkins' = {c \in checkins : c.hash \notin gone}
      /\ observations' = {o \in observations : o.hash \notin gone}
      /\ checkinPackets' = {l \in checkinPackets : l.hash \notin gone}
      /\ UNCHANGED <<rawSeq, checkinSeq>>

(***************************************************************************)
(* Migrate, run by every OpenSQLite: keep the oldest check-in of each      *)
(* user and week, then link every check-in to its own packet.  It is       *)
(* idempotent and runs before the server accepts anything, so the script   *)
(* is one step.                                                            *)
(***************************************************************************)
Migrate ==
  LET oldest == {c \in checkins :
                   \A d \in checkins : d.week = c.week /\ d.user = c.user => c.id <= d.id}
  IN  /\ checkins' = oldest
      /\ checkinPackets' = checkinPackets \cup {LinkRow(c.week, c.user, c.hash) : c \in oldest}
      /\ UNCHANGED <<rawPackets, observations, rawSeq, checkinSeq>>

\* Variant for mutation: the links are not asked.
ProtectedByCheckins == {c.hash : c \in checkins}

\* SELECT packet_hash FROM checkins UNION SELECT packet_hash FROM checkin_packets.
ProtectedPacketHashes ==
  {c.hash : c \in checkins} \cup {l.hash : l \in checkinPackets}

================================================================================
