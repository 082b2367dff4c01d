--------------------------- MODULE LeaderboardRequests --------------------------
(***************************************************************************)
(* Requests of the leaderboard (computeLeaderboard in                      *)
(* internal/web/server.go): each reads the check-ins, groups and ranks     *)
(* them (internal/leaderboard/service.go) and replaces the stored          *)
(* snapshots in one transaction, before it is answered.  Requests run side *)
(* by side with one another and with the ingest service, and end with the  *)
(* process.                                                                *)
(*                                                                         *)
(* The region filter and TRACK_FROM_DATE are left out (WeekBoard, Season), *)
(* as are display names; streaks are what StreakScan shows them to be.     *)
(***************************************************************************)
EXTENDS Integers, FiniteSets, SequencesExt

CONSTANTS
  Users,        \* users, numbered in the order of their names
  WeekStarts,   \* week starts that occur
  Requests,     \* requests the server may be busy with
  NoRequest,
  MaxCheckins,  \* bound: check-ins
  MaxFailures,  \* bound: reads that fail and snapshots that cannot be stored
  MaxExits      \* bound: times the process ends

ASSUME RequestsAssumption ==
  /\ Users \subseteq Nat
  /\ WeekStarts \subseteq Nat
  /\ NoRequest \notin Requests
  /\ {MaxCheckins, MaxFailures, MaxExits} \subseteq Nat

VARIABLES
  checkins,   \* rows of checkins, in the order of their ids
  snapshots,  \* rows of leaderboard_snapshots
  requests,   \* the requests under way
  writer,     \* the request whose transaction holds the write lock
  inserted,   \* what that transaction has inserted so far
  shown,      \* history: the highest total of each user in an answer
  failures, exits

vars == <<checkins, snapshots, requests, writer, inserted, shown, failures, exits>>

Checkin  == [week: WeekStarts, user: Users]
Entry    == [user: Users, total: Nat, streak: Nat]
Snapshot == [metric: {"most_checkins", "longest_streak"}, user: Users, value: Nat]

Idle == [pc |-> "idle"]

\* rows: what ListCheckinsSince returned; floor: the totals shown before it began.
Request ==
  {Idle} \cup
  [pc: {"list", "compute", "replace", "insert", "answer"}, rows: SUBSET Checkin,
   entries: Seq(Entry), todo: Seq(Entry), floor: [Users -> Nat]]

TypeOK ==
  /\ checkins \in Seq(Checkin)
  /\ snapshots \subseteq Snapshot
  /\ requests \in [Requests -> Request]
  /\ writer \in Requests \cup {NoRequest}
  /\ writer # NoRequest <=> \E r \in Requests : requests[r].pc = "insert"
  /\ inserted \subseteq Snapshot
  /\ shown \in [Users -> Nat]
  /\ failures \in Nat /\ exits \in Nat

Init ==
  /\ checkins = <<>>
  /\ snapshots = {}
  /\ requests = [r \in Requests |-> Idle]
  /\ writer = NoRequest
  /\ inserted = {}
  /\ shown = [u \in Users |-> 0]
  /\ failures = 0
  /\ exits = 0

--------------------------------------------------------------------------------
WeeksOf(u, rows) == {c.week : c \in {d \in rows : d.user = u}}

\* Are the weeks from w on n weeks in a row?  One that began on another weekday
\* in between, under another DAY_OF_WEEK, ends the row.
InARow(weeks, w, n) ==
  {v \in weeks : w <= v /\ v <= w + 7 * (n - 1)} = {w + 7 * k : k \in 0..(n - 1)}

\* The longest run of weeks seven days apart.
LongestStreak(weeks) ==
  Max({n \in 1..Cardinality(weeks) : \E w \in weeks : InARow(weeks, w, n)})

EntryOf(u, rows) ==
  [user |-> u, total |-> Cardinality({c \in rows : c.user = u}),
   streak |-> LongestStreak(WeeksOf(u, rows))]

\* Compute, up to the order of its result.
Entries(rows) == {EntryOf(u, rows) : u \in {c.user : c \in rows}}

\* Variant for mutation: users with equal figures are left as they come.
LessWithoutName(a, b) == a.total > b.total \/ (a.total = b.total /\ a.streak > b.streak)

\* The comparison sort.Slice is given.
Less(a, b) ==
  \/ a.total > b.total
  \/ a.total = b.total /\ a.streak > b.streak
  \/ a.total = b.total /\ a.streak = b.streak /\ a.user < b.user

\* Every order sort.Slice may return, from a map that is read in any order.
Rankings(entries) ==
  {s \in SetToSeqs(entries) : \A i, j \in DOMAIN s : i < j => ~Less(s[j], s[i])}

\* The two rows stored for an entry.
SnapshotsOf(e) ==
  {[metric |-> "most_checkins", user |-> e.user, value |-> e.total],
   [metric |-> "longest_streak", user |-> e.user, value |-> e.streak]}

--------------------------------------------------------------------------------
\* The ingest service stores a check-in.
InsertCheckin(c) ==
  /\ Len(checkins) < MaxCheckins
  /\ c \notin ToSet(checkins)
  /\ checkins' = Append(checkins, c)
  /\ UNCHANGED <<snapshots, requests, writer, inserted, shown, failures, exits>>

Goto(r, pc) == requests' = [requests EXCEPT ![r].pc = pc]

\* GET /leaderboard or GET /api/leaderboard
Arrive(r) ==
  /\ requests[r] = Idle
  /\ requests' = [requests EXCEPT ![r] =
       [pc |-> "list", rows |-> {}, entries |-> <<>>, todo |-> <<>>, floor |-> shown]]
  /\ UNCHANGED <<checkins, snapshots, writer, inserted, shown, failures, exits>>

\* Variant for mutation: the page is taken from the snapshots, once there are any.
ListSnapshots(r) ==
  /\ requests[r].pc = "list"
  /\ \E rows \in SUBSET ToSet(checkins) :
       /\ snapshots = UNION {SnapshotsOf(e) : e \in Entries(rows)}
       /\ requests' = [requests EXCEPT
            ![r].rows = IF snapshots = {} THEN ToSet(checkins) ELSE rows, ![r].pc = "compute"]
  /\ UNCHANGED <<checkins, snapshots, writer, inserted, shown, failures, exits>>

\* ListCheckinsSince
List(r) ==
  /\ requests[r].pc = "list"
  /\ requests' = [requests EXCEPT ![r].rows = ToSet(checkins), ![r].pc = "compute"]
  /\ UNCHANGED <<checkins, snapshots, writer, inserted, shown, failures, exits>>

Compute(r) ==
  /\ requests[r].pc = "compute"
  /\ \E ranking \in Rankings(Entries(requests[r].rows)) :
       requests' = [requests EXCEPT ![r].entries = ranking, ![r].todo = ranking,
                                    ![r].pc = "replace"]
  /\ UNCHANGED <<checkins, snapshots, writer, inserted, shown, failures, exits>>

\* ReplaceLeaderboardSnapshots: the DELETE waits for the write lock.
DeleteAll(r) ==
  /\ requests[r].pc = "replace"
  /\ writer = NoRequest
  /\ writer' = r
  /\ inserted' = {}
  /\ Goto(r, "insert")
  /\ UNCHANGED <<checkins, snapshots, shown, failures, exits>>

\* Both rows of the next entry; nobody else sees the first without the second.
InsertEntry(r) ==
  /\ requests[r].pc = "insert"
  /\ requests[r].todo # <<>>
  /\ inserted' = inserted \cup SnapshotsOf(Head(requests[r].todo))
  /\ requests' = [requests EXCEPT ![r].todo = Tail(@)]
  /\ UNCHANGED <<checkins, snapshots, writer, shown, failures, exits>>

\* Variant for mutation: the lock is kept.
CommitKeepsLock(r) ==
  /\ requests[r].pc = "insert"
  /\ requests[r].todo = <<>>
  /\ snapshots' = inserted
  /\ inserted' = {}
  /\ Goto(r, "answer")
  /\ UNCHANGED <<checkins, writer, shown, failures, exits>>

Commit(r) ==
  /\ requests[r].pc = "insert"
  /\ requests[r].todo = <<>>
  /\ snapshots' = inserted
  /\ writer' = NoRequest
  /\ inserted' = {}
  /\ Goto(r, "answer")
  /\ UNCHANGED <<checkins, shown, failures, exits>>

\* Variant for mutation: what has been inserted is committed.
ReplaceFailsCommits(r) ==
  /\ requests[r].pc \in {"replace", "insert"}
  /\ failures < MaxFailures
  /\ failures' = failures + 1
  /\ snapshots' = IF writer = r THEN inserted ELSE snapshots
  /\ writer' = IF writer = r THEN NoRequest ELSE writer
  /\ inserted' = IF writer = r THEN {} ELSE inserted
  /\ Goto(r, "answer")
  /\ UNCHANGED <<checkins, shown, exits>>

\* A statement fails, or the lock is not got in time: rolled back and logged.
ReplaceFails(r) ==
  /\ requests[r].pc \in {"replace", "insert"}
  /\ failures < MaxFailures
  /\ failures' = failures + 1
  /\ writer' = IF writer = r THEN NoRequest ELSE writer
  /\ inserted' = IF writer = r THEN {} ELSE inserted
  /\ Goto(r, "answer")
  /\ UNCHANGED <<checkins, snapshots, shown, exits>>

TotalOf(u, entries) == Max({0} \cup {entries[i].total : i \in {j \in DOMAIN entries : entries[j].user = u}})

\* The page or the JSON is sent.
Answer(r) ==
  /\ requests[r].pc = "answer"
  /\ shown' = [u \in Users |-> Max({shown[u], TotalOf(u, requests[r].entries)})]
  /\ requests' = [requests EXCEPT ![r] = Idle]
  /\ UNCHANGED <<checkins, snapshots, writer, inserted, failures, exits>>

\* ListCheckinsSince fails: the answer is an error.
ListFails(r) ==
  /\ requests[r].pc = "list"
  /\ failures < MaxFailures
  /\ failures' = failures + 1
  /\ requests' = [requests EXCEPT ![r] = Idle]
  /\ UNCHANGED <<checkins, snapshots, writer, inserted, shown, exits>>

\* The process ends and is started again; SQLite rolls back.
Exit ==
  /\ exits < MaxExits
  /\ exits' = exits + 1
  /\ requests' = [r \in Requests |-> Idle]
  /\ writer' = NoRequest
  /\ inserted' = {}
  /\ UNCHANGED <<checkins, snapshots, shown, failures>>

Next ==
  \/ \E c \in Checkin : InsertCheckin(c)
  \/ \E r \in Requests :
       \/ Arrive(r) \/ List(r) \/ Compute(r)
       \/ DeleteAll(r) \/ InsertEntry(r) \/ Commit(r)
       \/ ReplaceFails(r) \/ ListFails(r) \/ Answer(r)
  \/ Exit

Spec == Init /\ [][Next]_vars

--------------------------------------------------------------------------------
(***************************************************************************)
(* The stored snapshots are those of one leaderboard, of the check-ins     *)
(* that were stored at some time: two requests never mix theirs, and       *)
(* neither a failed statement nor the end of the process leaves a part.    *)
(* (Which of two requests comes last is not determined: the older          *)
(* leaderboard may stay.)                                                  *)
(***************************************************************************)
SnapshotsAreOneLeaderboard ==
  \E rows \in {ToSet(p) : p \in Prefixes(checkins)} :
    snapshots = UNION {SnapshotsOf(e) : e \in Entries(rows)}

(***************************************************************************)
(* Users keep their places while nothing changes: two requests that read   *)
(* the same check-ins show the same order, although the users come out of  *)
(* a map in any order and the sort is not stable.                          *)
(***************************************************************************)
SameRowsSameRanking ==
  \A r, q \in Requests :
    /\ {requests[r].pc, requests[q].pc} \subseteq {"replace", "insert", "answer"}
    /\ requests[r].rows = requests[q].rows
    => requests[r].entries = requests[q].entries

(***************************************************************************)
(* A request made after an answer never shows anybody fewer check-ins than *)
(* that answer did, whichever of the requests under way stores its         *)
(* snapshots, also when storing fails and after a restart.                 *)
(***************************************************************************)
LaterAnswersKeepTotals ==
  \A r \in Requests : requests[r].pc = "answer" =>
    \A u \in Users : TotalOf(u, requests[r].entries) >= requests[r].floor[u]

================================================================================
