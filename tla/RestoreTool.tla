------------------------------ MODULE RestoreTool ------------------------------
(***************************************************************************)
(* The maintenance command restorecheckinpackets: RestoreCheckinPackets-   *)
(* FromRaw in internal/ingest/service.go, over the cursor of               *)
(* ForEachRawPacketForRestore.  It is a process of its own and links again *)
(* every stored packet that is a check-in under its own rules, which need  *)
(* not be those of the server, nor those the packet was stored under.      *)
(*                                                                         *)
(* The cursor is one SQLite read: it sees the rows stored when it began,   *)
(* however long the command takes, while each link is a write of its own.  *)
(***************************************************************************)
EXTENDS IngestService

VARIABLE restore   \* the run of the command, if one is under way

Stopped == [pc |-> "stopped"]

\* began: the day it was started; target and rules: the configuration as it
\* was loaded then; remaining: the rows the cursor has still to return; done: those it has;
\* failed: those counted under InsertLinkErrors.
Run == [pc: {"running"}, began: Nat, target: Weekdays, rules: Rules,
        remaining: SUBSET RawRow, done: SUBSET RawRow, failed: SUBSET RawRow]

RestoreTypeOK == restore \in Run \cup {Stopped}

RestoreInit == restore = Stopped

--------------------------------------------------------------------------------
\* Variant for mutation: every stored packet of the weekday is linked.
QualifiesByDay(r, run) == IsWeekday(r.day, run.target)

\* Is raw row r a check-in observed on the weekday of this run?
Qualifies(r, run) ==
  Candidate[run.rules][r.hash] # NoCandidate /\ IsWeekday(r.day, run.target)

\* Variant for mutation: the links are rebuilt from nothing.
StartRestoreFromNothing(now, target, config) ==
  /\ restore = Stopped
  /\ restore' = [pc |-> "running", began |-> now, target |-> target,
                 rules |-> config, remaining |-> rawPackets, done |-> {}, failed |-> {}]
  /\ checkinPackets' = {}
  /\ UNCHANGED <<rawPackets, checkins, observations, rawSeq, checkinSeq>>

\* The command has started, with the Migrate of its OpenSQLite behind it.
StartRestore(now, target, config) ==
  /\ restore = Stopped
  /\ restore' = [pc |-> "running", began |-> now, target |-> target,
                 rules |-> config, remaining |-> rawPackets, done |-> {}, failed |-> {}]
  /\ Migrate

\* The cursor returns its next row, oldest day first.
NextRow(r) ==
  /\ restore.pc = "running"
  /\ r \in restore.remaining
  /\ \A s \in restore.remaining : r.day <= s.day

Advance(r, failed) ==
  restore' = [restore EXCEPT !.remaining = @ \ {r}, !.done = @ \cup {r},
                             !.failed = @ \cup failed]

SkipRow(r) ==
  /\ NextRow(r)
  /\ ~Qualifies(r, restore)
  /\ Advance(r, {})
  /\ UNCHANGED store

RelinkRow(r) ==
  /\ NextRow(r)
  /\ Qualifies(r, restore)
  /\ InsertCheckinPacket(WeekStart(r.day, restore.target),
                         Candidate[restore.rules][r.hash], r.hash)
  /\ Advance(r, {})

\* Variant for mutation: a failed link is passed over and not counted.
RelinkFailsUncounted(r) ==
  /\ NextRow(r)
  /\ Qualifies(r, restore)
  /\ IOErrors \/ BusyBurst > 0 \/ ~Stored(r.hash)
  /\ Advance(r, {})
  /\ UNCHANGED store

\* A failed link is counted and passed over; here "busy" is not retried.
RelinkFails(r) ==
  /\ NextRow(r)
  /\ Qualifies(r, restore)
  /\ IOErrors \/ BusyBurst > 0 \/ ~Stored(r.hash)
  /\ Advance(r, {r})
  /\ UNCHANGED store

\* The cursor is exhausted, or the two minutes of the command are over.
EndRestore ==
  /\ restore.pc = "running"
  /\ restore.remaining = {} \/ IOErrors
  /\ restore' = Stopped
  /\ UNCHANGED store

RestoreStep ==
  \/ \E r \in restore.remaining : SkipRow(r) \/ RelinkRow(r) \/ RelinkFails(r)
  \/ EndRestore

================================================================================
