----------------------------- MODULE IngestService -----------------------------
(***************************************************************************)
(* The ingest service (internal/ingest/service.go, HandleMessage): what a  *)
(* packet published by an observer does to the database.  A handler runs   *)
(* up to four statements, each retried while SQLite answers "busy"; other  *)
(* handlers, the retention loop and a process exit may come between any    *)
(* two of them.                                                            *)
(*                                                                         *)
(* Decoding and check-in extraction are functions of the payload and of    *)
(* the rules in force, the channel keys and the hashtag of the process, so *)
(* the constant Candidate gives their result.  A message that is refused   *)
(* before the first statement (wrong weekday, malformed topic, envelope or *)
(* packet) changes nothing and is no step.                                 *)
(***************************************************************************)
EXTENDS SQLiteStore

CONSTANTS
  Workers,            \* goroutines that run HandleMessage
  Rules,              \* settings of CHANNEL_KEYS and CHECKIN_HASHTAG ever in force
  Candidate,          \* Candidate[k][p]: whom p checks in under rules k, or NoCandidate
  BusyRetryAttempts   \* busyRetryAttempts: a statement is tried once more than that

ASSUME IngestAssumption ==
  /\ Rules # {}
  /\ Candidate \in [Rules -> [Packets -> Users \cup {NoCandidate}]]
  /\ BusyRetryAttempts \in Nat

VARIABLES
  handlers,   \* handlers[w]: the HandleMessage call worker w is in
  abandoned   \* history: stored packets whose crediting was cut short

Idle == [pc |-> "idle"]

\* pc names the statement the call executes next; user is whom the packet
\* checks in under the rules of the process, day the local day of observedAt,
\* attempt the number of busy answers so far.
Call ==
  [pc: {"raw", "observation", "link", "checkin"}, packet: Packets,
   user: Users \cup {NoCandidate}, iata: Regions, observer: Observers, day: Nat, inserted: BOOLEAN, attempt: Nat]

IngestTypeOK ==
  /\ handlers \in [Workers -> Call \cup {Idle}]
  /\ abandoned \subseteq Packets

IngestInit ==
  /\ handlers = [w \in Workers |-> Idle]
  /\ abandoned = {}

--------------------------------------------------------------------------------
\* Whom packet p checks in under some rules.
NamedBy(p) == {Candidate[k][p] : k \in Rules}

\* The call that must still credit the packet it has stored.
Crediting(h) ==
  /\ h.pc \in {"observation", "link", "checkin"}
  /\ h.inserted
  /\ h.user # NoCandidate

\* Worker w moves on to the statement pc with a fresh retry budget.
Continue(w, pc) == handlers' = [handlers EXCEPT ![w].pc = pc, ![w].attempt = 0]

Return(w) == handlers' = [handlers EXCEPT ![w] = Idle]

\* Variant for mutation: the check-in is stored without its link.
AfterObservationNoLink(w) ==
  \/ Crediting(handlers[w]) /\ Continue(w, "checkin")
  \/ ~Crediting(handlers[w]) /\ Return(w)

\* After the observation: only the call that stored a check-in packet goes on.
AfterObservation(w) ==
  \/ Crediting(handlers[w]) /\ Continue(w, "link")
  \/ ~Crediting(handlers[w]) /\ Return(w)

\* Variant for mutation: the retry loop ends one attempt early.
GivesUpEarly(h) ==
  IOErrors \/ (h.attempt + 1 >= BusyRetryAttempts /\ h.attempt < BusyBurst)

\* withBusyRetry gives up: an error that is not "busy", or one busy answer too many.
GivesUp(h) == IOErrors \/ (h.attempt = BusyRetryAttempts /\ h.attempt < BusyBurst)

\* Variant for mutation: no day-of-week guard.
ReceiveAnyDay(w, p, user, region, observer, now, target) ==
  /\ handlers[w] = Idle
  /\ handlers' = [handlers EXCEPT ![w] =
       [pc |-> "raw", packet |-> p, user |-> user, iata |-> region,
        observer |-> observer, day |-> now, inserted |-> FALSE, attempt |-> 0]]
  /\ UNCHANGED <<store, abandoned>>

\* A well-formed message is delivered; a retransmission is delivered again.
Receive(w, p, user, region, observer, now, target) ==
  /\ handlers[w] = Idle
  /\ IsWeekday(now, target)
  /\ handlers' = [handlers EXCEPT ![w] =
       [pc |-> "raw", packet |-> p, user |-> user, iata |-> region,
        observer |-> observer, day |-> now, inserted |-> FALSE, attempt |-> 0]]
  /\ UNCHANGED <<store, abandoned>>

\* Variant for mutation: a duplicate counts as inserted.
StoreRawDuplicateToo(w) ==
  LET h == handlers[w] IN
  /\ h.pc = "raw"
  /\ InsertRawPacket(h.packet, h.iata, h.day, h.user)
  /\ handlers' = [handlers EXCEPT ![w] =
       [h EXCEPT !.pc = "observation", !.inserted = TRUE, !.attempt = 0]]
  /\ abandoned' = abandoned \ {h.packet}

StoreRaw(w) ==
  LET h == handlers[w] IN
  /\ h.pc = "raw"
  /\ InsertRawPacket(h.packet, h.iata, h.day, h.user)
  /\ handlers' = [handlers EXCEPT ![w] =
       [h EXCEPT !.pc = "observation", !.inserted = ~Stored(h.packet), !.attempt = 0]]
  /\ abandoned' = IF Stored(h.packet) THEN abandoned ELSE abandoned \ {h.packet}

StoreObservation(w) ==
  LET h == handlers[w] IN
  /\ h.pc = "observation"
  /\ InsertPacketObservation(h.packet, h.observer)
  /\ AfterObservation(w)
  /\ UNCHANGED abandoned

StoreLink(w, target) ==
  LET h == handlers[w] IN
  /\ h.pc = "link"
  /\ InsertCheckinPacket(WeekStart(h.day, target), h.user, h.packet)
  /\ Continue(w, "checkin")
  /\ UNCHANGED abandoned

StoreCheckin(w, target) ==
  LET h == handlers[w] IN
  /\ h.pc = "checkin"
  /\ InsertCheckin(h.packet, h.user, h.iata, h.day, WeekStart(h.day, target))
  /\ Return(w)
  /\ UNCHANGED abandoned

--------------------------------------------------------------------------------
\* SQLite answers "busy" and the statement is to be tried again.
RetryBusy(w) ==
  LET h == handlers[w] IN
  /\ h # Idle
  /\ h.attempt < BusyRetryAttempts
  /\ h.attempt < BusyBurst
  /\ handlers' = [handlers EXCEPT ![w].attempt = h.attempt + 1]
  /\ UNCHANGED <<store, abandoned>>

RawFails(w) ==
  /\ handlers[w].pc = "raw"
  /\ GivesUp(handlers[w])
  /\ Return(w)
  /\ UNCHANGED <<store, abandoned>>

\* Variant for mutation: a failed observation ends the call.
ObservationFailsReturns(w) ==
  LET h == handlers[w] IN
  /\ h.pc = "observation"
  /\ GivesUp(h) \/ ~Stored(h.packet)
  /\ Return(w)
  /\ UNCHANGED <<store, abandoned>>

\* A failed observation is only logged; so is one whose raw packet was pruned.
ObservationFails(w) ==
  LET h == handlers[w] IN
  /\ h.pc = "observation"
  /\ GivesUp(h) \/ ~Stored(h.packet)
  /\ AfterObservation(w)
  /\ UNCHANGED <<store, abandoned>>

\* A failed link or check-in ends the call, and nothing takes it up again.
CreditFails(w) ==
  LET h == handlers[w] IN
  /\ h.pc \in {"link", "checkin"}
  /\ GivesUp(h) \/ ~Stored(h.packet)
  /\ Return(w)
  /\ abandoned' = abandoned \cup {h.packet}
  /\ UNCHANGED store

\* The process ends: every call is gone where it stands.
DropHandlers ==
  /\ handlers' = [w \in Workers |-> Idle]
  /\ abandoned' = abandoned \cup
       {handlers[w].packet : w \in {v \in Workers : Crediting(handlers[v])}}

\* One statement of worker w, whatever its outcome.
HandlerStep(w, target) ==
  \/ StoreRaw(w)
  \/ StoreObservation(w)
  \/ StoreLink(w, target)
  \/ StoreCheckin(w, target)
  \/ RetryBusy(w)
  \/ RawFails(w)
  \/ ObservationFails(w)
  \/ CreditFails(w)

================================================================================
