----------------------------- MODULE RawRetention ------------------------------
(***************************************************************************)
(* Raw packet retention (internal/storage/retention.go, PruneRawPackets):  *)
(* one pass snapshots the hashes that check-ins or links refer to, then    *)
(* scans raw_packets in id order, batch by batch, and deletes in chunks    *)
(* what is neither in that snapshot nor recent.  Every query and every     *)
(* chunk is a statement of its own, so the ingest service writes between   *)
(* them and the snapshot grows stale.                                      *)
(***************************************************************************)
EXTENDS SQLiteStore, FiniteSets

CONSTANTS
  RetainWeeks,       \* RAW_RETAIN_WEEKS
  BatchSize,         \* pruneScanBatchSize
  ChunkSize,         \* pruneDeleteChunk
  RetentionBusyMax   \* retentionBusyMax: a chunk is tried once more than that

ASSUME RetentionAssumption ==
  /\ RetainWeeks \in Nat
  /\ BatchSize \in Nat \ {0}
  /\ ChunkSize \in Nat \ {0}
  /\ RetentionBusyMax \in Nat

VARIABLE prune   \* the pass runOnce is in

Asleep == [pc |-> "sleep"]

\* now: local day the pass began on; pending: the ids left in toDelete.
Pass ==
  [pc: {"protect", "scan", "delete"}, now: Nat, protected: SUBSET Packets,
   lastId: Nat, pending: SUBSET Nat, attempt: Nat]

RetentionTypeOK == prune \in Pass \cup {Asleep}

RetentionInit == prune = Asleep

--------------------------------------------------------------------------------
\* The n smallest members of a finite set of ids.
Smallest(ids, n) == {i \in ids : Cardinality({j \in ids : j < i}) < n}

\* Variant for mutation: the cutoff week itself is not kept.
AmbientKeptAfterCutoff(d, now, target) ==
  /\ IsWeekday(d, target)
  /\ WeekStart(d, target) > CutoffWeekStart(now, RetainWeeks, target)

\* Is a packet observed on day d recent enough for a pass that began on "now"?
AmbientKept(d, now, target) ==
  /\ IsWeekday(d, target)
  /\ ~(WeekStart(d, target) < CutoffWeekStart(now, RetainWeeks, target))

ShouldRetain(r, pass, target) ==
  r.hash \in pass.protected \/ AmbientKept(r.day, pass.now, target)

\* Variant for mutation: a batch is not taken in id order.
BatchNewest(lastId) ==
  LET later == {r \in rawPackets : r.id > lastId}
  IN  {r \in later : Cardinality({s \in later : s.id > r.id}) < BatchSize}

\* scanRawPacketBatch.
Batch(lastId) ==
  LET ids == Smallest({r.id : r \in {s \in rawPackets : s.id > lastId}}, BatchSize)
  IN  {r \in rawPackets : r.id \in ids}

\* Variant for mutation: the protected hashes are never read.
StartPassUnprotected(now) ==
  /\ prune = Asleep
  /\ prune' = [pc |-> "scan", now |-> now, protected |-> {}, lastId |-> 0,
               pending |-> {}, attempt |-> 0]
  /\ UNCHANGED store

StartPass(now) ==
  /\ prune = Asleep
  /\ prune' = [pc |-> "protect", now |-> now, protected |-> {}, lastId |-> 0,
               pending |-> {}, attempt |-> 0]
  /\ UNCHANGED store

ReadProtected ==
  /\ prune.pc = "protect"
  /\ prune' = [prune EXCEPT !.pc = "scan", !.protected = ProtectedPacketHashes]
  /\ UNCHANGED store

(***************************************************************************)
(* The next batch.  The cursor moves past it only when it holds nothing to *)
(* delete; otherwise the batch is read again after the deletes.            *)
(***************************************************************************)
ScanBatch(target) ==
  LET rows    == Batch(prune.lastId)
      expired == {r \in rows : ~ShouldRetain(r, prune, target)}
  IN  /\ prune.pc = "scan"
      /\ \/ /\ rows = {}
            /\ prune' = Asleep
         \/ /\ rows # {}
            /\ expired = {}
            /\ \E last \in rows : /\ \A r \in rows : r.id <= last.id
                                  /\ prune' = [prune EXCEPT !.lastId = last.id]
         \/ /\ expired # {}
            /\ prune' = [prune EXCEPT !.pc = "delete", !.pending = {r.id : r \in expired},
                                      !.attempt = 0]
      /\ UNCHANGED store

DeleteChunk ==
  LET chunk == Smallest(prune.pending, ChunkSize)
      left  == prune.pending \ chunk
  IN  /\ prune.pc = "delete"
      /\ DeleteRawPackets(chunk)
      /\ prune' = [prune EXCEPT !.pc = IF left = {} THEN "scan" ELSE "delete",
                                !.pending = left, !.attempt = 0]

\* Only the deletes are retried.
RetryDelete ==
  /\ prune.pc = "delete"
  /\ prune.attempt < RetentionBusyMax
  /\ prune.attempt < BusyBurst
  /\ prune' = [prune EXCEPT !.attempt = @ + 1]
  /\ UNCHANGED store

\* Variant for mutation: a busy delete is not tried again.
PassFailsAtOnce ==
  /\ prune # Asleep
  /\ IOErrors \/ (prune.pc = "delete" /\ prune.attempt < BusyBurst)
  /\ prune' = Asleep
  /\ UNCHANGED store

\* A pass that fails stops where it is; the next tick begins a new one.
PassFails ==
  /\ prune # Asleep
  /\ \/ IOErrors
     \/ /\ prune.pc = "delete"
        /\ prune.attempt = RetentionBusyMax
        /\ prune.attempt < BusyBurst
  /\ prune' = Asleep
  /\ UNCHANGED store

PassStep(target) ==
  \/ ReadProtected
  \/ ScanBatch(target)
  \/ DeleteChunk
  \/ RetryDelete
  \/ PassFails

================================================================================
