----------------------------- MODULE ServerProofs ------------------------------
(***************************************************************************)
(* The inductive invariant of WeeklyNetServer holds for every number of    *)
(* workers, packets, users and days and for every batch size and retry     *)
(* budget.  The promises of the server follow: no check-in is lost         *)
(* silently, retention deletes nothing that is linked, the check-ins       *)
(* implement CheckinBoard, and no page loses a tile.                       *)
(***************************************************************************)
EXTENDS WeekBoard, FiniteSetTheorems, TLAPS

(***************************************************************************)
(* WeekStartForWeekday returns the target weekday itself, at most six days *)
(* before the day it is asked about and never after it.                    *)
(***************************************************************************)
THEOREM WeekStartSound ==
  ASSUME NEW d \in Int, NEW target \in Weekdays
  PROVE  /\ WeekStart(d, target) \in Int
         /\ WeekStart(d, target) <= d
         /\ d - WeekStart(d, target) <= 6
         /\ IsWeekday(WeekStart(d, target), target)
  BY DEF WeekStart, IsWeekday, Weekday, Weekdays

\* A check-in day is the start of its own week.
THEOREM WeekStartOfCheckinDay ==
  ASSUME NEW d \in Int, NEW target \in Weekdays, IsWeekday(d, target)
  PROVE  WeekStart(d, target) = d
  BY DEF WeekStart, IsWeekday, Weekday, Weekdays

--------------------------------------------------------------------------------

\* The tables alone: what no step changes that leaves the store alone.
TablesSound ==
  /\ RawKeys
  /\ OneCheckinPerWeek
  /\ CheckinWeeks
  /\ CheckinIsLinked
  /\ CreditMatchesPacket

\* The retention pass and the tables.
PassSound == PassSafe /\ CursorSkipsNothing

\* The calls and the tables.
CallsSound ==
  /\ NoSilentLoss
  /\ InFlightPacketStored
  /\ CallsRecent
  /\ CallsInOrder

LEMMA IInvParts == IInv <=> TypeOK /\ TablesSound /\ CallsSound /\ PassSound /\ DownIsQuiet
  BY DEF IInv, TablesSound, CallsSound, PassSound

\* The days and weekdays of a state are numbers.
LEMMA DayTypes ==
  ASSUME TypeOK
  PROVE  /\ today \in Nat
         /\ dayOfWeek \in Weekdays
         /\ \A d \in Days : d \in Nat
  BY ServerAssumption DEF TypeOK

\* A worker that is not idle is in a call.
LEMMA CallTypes ==
  ASSUME TypeOK, NEW w \in Workers, handlers[w].pc # "idle"
  PROVE  handlers[w] \in Call
  BY DEF TypeOK, IngestTypeOK, Idle

LEMMA IdleIsIdle ==
  ASSUME TypeOK, NEW w \in Workers
  PROVE  /\ handlers[w].pc = "idle" <=> handlers[w] = Idle
         /\ handlers[w] = Idle => ~Crediting(handlers[w])
  BY DEF TypeOK, IngestTypeOK, Idle, Call, Crediting

(***************************************************************************)
(* What cutoffWeekStart and shouldRetainRawPacket come to together: a pass *)
(* that begins on "now" keeps, of the packets not protected, those of the  *)
(* check-in days less than RetainWeeks + 1 weeks ago, and no others.       *)
(***************************************************************************)
THEOREM AmbientKeptExactly ==
  ASSUME NEW d \in Nat, NEW now \in Nat, NEW target \in Weekdays
  PROVE  AmbientKept(d, now, target) <=>
           IsWeekday(d, target) /\ now - d < 7 * (RetainWeeks + 1)
<1> SUFFICES ASSUME IsWeekday(d, target)
             PROVE  AmbientKept(d, now, target) <=> now - d < 7 * (RetainWeeks + 1)
  BY DEF AmbientKept
<1> DEFINE start == WeekStart(now, target)
<1>1. AmbientKept(d, now, target) <=> ~(d < start - 7 * RetainWeeks)
  BY WeekStartOfCheckinDay DEF AmbientKept, CutoffWeekStart
<1>2. /\ start \in Int /\ start <= now /\ now - start <= 6
      /\ IsWeekday(start, target)
  BY WeekStartSound
<1>3. RetainWeeks \in Nat
  BY RetentionAssumption
<1>4. start % 7 = d % 7
  BY <1>2 DEF IsWeekday, Weekday
<1> HIDE DEF start
<1>5. ASSUME now - d < 7 * (RetainWeeks + 1) PROVE start - 7 * RetainWeeks <= d
  <2>1. start - 7 * RetainWeeks < d + 7
    BY <1>2, <1>3, <1>5
  <2> QED
    BY <1>2, <1>3, <1>4, <2>1
<1>6. ASSUME start - 7 * RetainWeeks <= d PROVE now - d < 7 * (RetainWeeks + 1)
  BY <1>2, <1>3, <1>6
<1> QED
  BY <1>1, <1>2, <1>3, <1>5, <1>6

(***************************************************************************)
(* A packet observed on a check-in day less than a week before a pass      *)
(* began, or after it began, is inside the weeks that pass retains.        *)
(***************************************************************************)
LEMMA RecentIsKept ==
  ASSUME NEW d \in Nat, NEW now \in Nat, NEW target \in Weekdays,
         IsWeekday(d, target), now - d <= 6
  PROVE  AmbientKept(d, now, target)
<1>1. now - d < 7 * (RetainWeeks + 1)
  BY RetentionAssumption
<1> QED
  BY <1>1, AmbientKeptExactly

\* The server starts in the invariant: nothing stored, nothing in flight.
THEOREM InitInvariant == Init => IInv
<1> SUFFICES ASSUME Init PROVE IInv
  OBVIOUS
<1> USE DEF Init, StoreInit, IngestInit, RetentionInit
<1>1. TypeOK
  BY ServerAssumption, IngestAssumption DEF TypeOK, StoreTypeOK, IngestTypeOK, RetentionTypeOK
<1>2. TablesSound
  BY DEF TablesSound, RawKeys, OneCheckinPerWeek, CheckinWeeks, CheckinIsLinked,
     CreditMatchesPacket
<1>3. CallsSound
  BY DEF CallsSound, NoSilentLoss, InFlightPacketStored, CallsRecent, CallsInOrder, Idle,
     Crediting
<1>4. PassSound
  BY DEF PassSound, PassSafe, CursorSkipsNothing, Asleep
<1>5. DownIsQuiet
  BY DEF DownIsQuiet
<1> QED
  BY <1>1, <1>2, <1>3, <1>4, <1>5, IInvParts

--------------------------------------------------------------------------------
LEMMA TablesUnchanged == TablesSound /\ UNCHANGED store => TablesSound'
  BY DEF TablesSound, RawKeys, OneCheckinPerWeek, CheckinWeeks, CheckinIsLinked,
     CreditMatchesPacket, store

\* Without a write and without a move of its own, a pass stays sound as days pass.
LEMMA PassUnchanged ==
  ASSUME TypeOK, PassSound, UNCHANGED <<store, prune, dayOfWeek>>,
         today' \in Nat, today <= today'
  PROVE  PassSound'
<1>1. today \in Nat /\ (prune # Asleep => prune.now \in Nat)
  BY DayTypes DEF TypeOK, RetentionTypeOK, Pass, Asleep
<1> QED
  BY <1>1 DEF PassSound, PassSafe, CursorSkipsNothing, ShouldRetain, Linked, store

\* v is about to credit now what it was about to credit before.
SameCredit(v) ==
  /\ Crediting(handlers[v])
  /\ handlers'[v].packet = handlers[v].packet
  /\ handlers'[v].day = handlers[v].day
  /\ handlers'[v].iata = handlers[v].iata
  /\ handlers'[v].user = handlers[v].user

LEMMA InFlightUnchanged ==
  ASSUME InFlightPacketStored, rawPackets \subseteq rawPackets',
         \A v \in Workers : Crediting(handlers'[v]) => SameCredit(v)
  PROVE  InFlightPacketStored'
<1> SUFFICES ASSUME NEW v \in Workers, Crediting(handlers'[v])
             PROVE  \E r \in rawPackets' :
                      /\ r.hash = handlers'[v].packet
                      /\ r.day = handlers'[v].day
                      /\ r.iata = handlers'[v].iata
                      /\ r.user = handlers'[v].user
  BY DEF InFlightPacketStored
<1>1. SameCredit(v)
  OBVIOUS
<1>2. PICK r \in rawPackets : /\ r.hash = handlers[v].packet
                              /\ r.day = handlers[v].day
                              /\ r.iata = handlers[v].iata
                              /\ r.user = handlers[v].user
  BY <1>1 DEF InFlightPacketStored, SameCredit
<1> QED
  BY <1>1, <1>2 DEF SameCredit

\* Nothing is lost while every call in flight stays so, is recorded as
\* abandoned, or has settled its packet.
LEMMA LossUnchanged ==
  ASSUME NoSilentLoss, rawPackets' \subseteq rawPackets, checkins \subseteq checkins',
         checkinPackets \subseteq checkinPackets', abandoned \subseteq abandoned',
         \A v \in Workers : Crediting(handlers[v]) =>
           \/ Crediting(handlers'[v]) /\ handlers'[v].packet = handlers[v].packet
           \/ handlers[v].packet \in abandoned'
           \/ \A r \in rawPackets : r.hash = handlers[v].packet => Settled(r)'
  PROVE  NoSilentLoss'
<1> SUFFICES ASSUME NEW r \in rawPackets, r.user # NoCandidate
             PROVE  InFlight(r.hash)' \/ r.hash \in abandoned' \/ Settled(r)'
  BY DEF NoSilentLoss
<1>1. CASE InFlight(r.hash)
  BY <1>1 DEF InFlight
<1>2. CASE r.hash \in abandoned
  BY <1>2
<1>3. CASE Settled(r)
  BY <1>3 DEF Settled
<1> QED
  BY <1>1, <1>2, <1>3 DEF NoSilentLoss

LEMMA DeliverPreserves ==
  ASSUME IInv, NEW w \in Workers, Deliver(w)
  PROVE  IInv'
<1> PICK p \in Packets, region \in Regions, observer \in Observers :
      Receive(w, p, Candidate[rules][p], region, observer, today, dayOfWeek)
  BY DEF Deliver
<1> DEFINE call == [pc |-> "raw", packet |-> p, user |-> Candidate[rules][p],
                    iata |-> region, observer |-> observer, day |-> today,
                    inserted |-> FALSE, attempt |-> 0]
<1>1. /\ TypeOK /\ TablesSound /\ CallsSound /\ PassSound /\ DownIsQuiet
      /\ UNCHANGED <<store, abandoned, prune, today, dayOfWeek, rules, up, exits>>
      /\ handlers[w] = Idle
      /\ handlers' = [handlers EXCEPT ![w] = call]
      /\ up
      /\ IsWeekday(today, dayOfWeek)
  BY IInvParts DEF Deliver, Receive
<1>2. today \in Nat /\ today \in Days
  BY <1>1, DayTypes DEF TypeOK
<1>3. call \in Call
  BY <1>1, <1>2, IngestAssumption DEF Call, TypeOK
<1>4. TypeOK'
  BY <1>1, <1>3 DEF TypeOK, IngestTypeOK, StoreTypeOK, RetentionTypeOK, store
<1>5. /\ handlers'[w] = call
      /\ \A v \in Workers : v # w => handlers'[v] = handlers[v]
  BY <1>1 DEF TypeOK, IngestTypeOK
<1>6. \A v \in Workers :
        /\ Crediting(handlers'[v]) <=> Crediting(handlers[v])
        /\ Crediting(handlers'[v]) => SameCredit(v)
  BY <1>1, <1>5, IdleIsIdle DEF Crediting, SameCredit
<1>7. NoSilentLoss'
  BY <1>1, <1>6, LossUnchanged DEF CallsSound, InFlight, SameCredit, store
<1>8. InFlightPacketStored'
  BY <1>1, <1>6, InFlightUnchanged DEF CallsSound, store
<1>9. CallsRecent'
  <2>1. today - today <= MaxHandlerDays
    BY <1>2, ServerAssumption
  <2> QED
    BY <1>1, <1>2, <1>5, <2>1 DEF CallsSound, CallsRecent
<1>10. CallsInOrder'
  BY <1>1, <1>5, <1>6 DEF CallsSound, CallsInOrder, store
<1>11. PassSound'
  BY <1>1, <1>2, PassUnchanged
<1>12. DownIsQuiet'
  BY <1>1 DEF DownIsQuiet
<1> QED
  BY <1>1, <1>4, <1>7, <1>8, <1>9, <1>10, <1>11, <1>12, TablesUnchanged, IInvParts
     DEF IInv, TablesSound, CallsSound, PassSound

--------------------------------------------------------------------------------
LEMMA ContinueEffect ==
  ASSUME TypeOK, NEW w \in Workers, handlers[w] # Idle,
         NEW pc \in {"raw", "observation", "link", "checkin"}, Continue(w, pc)
  PROVE  /\ handlers' \in [Workers -> Call \cup {Idle}]
         /\ handlers'[w].pc = pc
         /\ handlers'[w] # Idle
         /\ handlers'[w].packet = handlers[w].packet
         /\ handlers'[w].iata = handlers[w].iata
         /\ handlers'[w].user = handlers[w].user
         /\ handlers'[w].day = handlers[w].day
         /\ handlers'[w].inserted = handlers[w].inserted
         /\ \A v \in Workers : v # w => handlers'[v] = handlers[v]
<1> DEFINE next == [handlers[w] EXCEPT !.pc = pc, !.attempt = 0]
<1>1. handlers \in [Workers -> Call \cup {Idle}] /\ handlers[w] \in Call
  BY DEF TypeOK, IngestTypeOK
<1>2. /\ next \in Call
      /\ next.pc = pc
      /\ next.packet = handlers[w].packet
      /\ next.iata = handlers[w].iata
      /\ next.user = handlers[w].user
      /\ next.day = handlers[w].day
      /\ next.inserted = handlers[w].inserted
  BY <1>1 DEF Call
<1>3. handlers' = [handlers EXCEPT ![w] = next]
  BY <1>1 DEF Continue, Call
<1>4. next # Idle
  BY <1>2 DEF Idle
<1> HIDE DEF next
<1> QED
  BY <1>1, <1>2, <1>3, <1>4

LEMMA ReturnEffect ==
  ASSUME TypeOK, NEW w \in Workers, Return(w)
  PROVE  /\ handlers' \in [Workers -> Call \cup {Idle}]
         /\ handlers'[w] = Idle
         /\ \A v \in Workers : v # w => handlers'[v] = handlers[v]
  BY DEF TypeOK, IngestTypeOK, Return

(***************************************************************************)
(* A step of a call that changes no table but packet_observations, begins  *)
(* no credit, and records as abandoned each credit it drops.               *)
(***************************************************************************)
QuietCallStep ==
  /\ UNCHANGED <<rawPackets, checkins, checkinPackets, rawSeq, checkinSeq>>
  /\ observations \subseteq observations' /\ observations' \subseteq Observation
  /\ handlers' \in [Workers -> Call \cup {Idle}]
  /\ abandoned \subseteq abandoned' /\ abandoned' \subseteq Packets
  /\ \A v \in Workers : handlers'[v] # Idle =>
       /\ handlers[v] # Idle /\ handlers'[v].day = handlers[v].day
       /\ handlers'[v].packet = handlers[v].packet /\ handlers'[v].user = handlers[v].user
  /\ \A v \in Workers : Crediting(handlers'[v]) => SameCredit(v)
  /\ \A v \in Workers : Crediting(handlers[v]) =>
       \/ Crediting(handlers'[v]) /\ handlers'[v].packet = handlers[v].packet
       \/ handlers[v].packet \in abandoned'
  /\ \A v \in Workers : handlers'[v].pc \in {"link", "checkin"} => Crediting(handlers'[v])
  /\ \A v \in Workers : handlers'[v].pc = "checkin" =>
       handlers[v].pc = "checkin" /\ SameCredit(v)

LEMMA CallStepPreserves ==
  ASSUME IInv, up, QuietCallStep, UNCHANGED <<prune, today, dayOfWeek, rules, up, exits>>
  PROVE  IInv'
<1> USE DEF QuietCallStep
<1>1. TypeOK /\ TablesSound /\ CallsSound /\ PassSound /\ DownIsQuiet
  BY IInvParts
<1>2. TypeOK'
  BY <1>1 DEF TypeOK, StoreTypeOK, IngestTypeOK, RetentionTypeOK
<1>3. TablesSound'
  BY <1>1 DEF TablesSound, RawKeys, OneCheckinPerWeek, CheckinWeeks, CheckinIsLinked,
     CreditMatchesPacket
<1>4. NoSilentLoss'
  BY <1>1, LossUnchanged DEF CallsSound
<1>5. InFlightPacketStored'
  BY <1>1, InFlightUnchanged DEF CallsSound
<1>6. CallsRecent'
  BY <1>1 DEF CallsSound, CallsRecent
<1>7. CallsInOrder'
  BY <1>1 DEF CallsSound, CallsInOrder, SameCredit
<1>8. PassSound'
  BY <1>1 DEF PassSound, PassSafe, CursorSkipsNothing, ShouldRetain, Linked
<1>9. DownIsQuiet'
  BY DEF DownIsQuiet
<1> QED
  BY <1>2, <1>3, <1>4, <1>5, <1>6, <1>7, <1>8, <1>9
     DEF IInv, TablesSound, CallsSound, PassSound

LEMMA AfterObservationIsQuiet ==
  ASSUME TypeOK, CallsInOrder, NEW w \in Workers, handlers[w].pc = "observation",
         AfterObservation(w),
         UNCHANGED <<rawPackets, checkins, checkinPackets, rawSeq, checkinSeq, abandoned>>,
         observations \subseteq observations', observations' \subseteq Observation
  PROVE  QuietCallStep
<1>1. abandoned' \subseteq Packets
  BY DEF TypeOK, IngestTypeOK
<1>2. handlers[w] # Idle
  BY DEF Idle
<1>3. CASE Crediting(handlers[w]) /\ Continue(w, "link")
  <2>1. Crediting(handlers'[w])
    BY <1>2, <1>3, ContinueEffect DEF Crediting
  <2> QED
    BY <1>1, <1>2, <1>3, <2>1, ContinueEffect DEF QuietCallStep, CallsInOrder, SameCredit
<1>4. CASE ~Crediting(handlers[w]) /\ Return(w)
  <2>1. ~Crediting(handlers'[w]) /\ handlers'[w].pc = "idle"
    BY <1>4, ReturnEffect DEF Crediting, Idle
  <2> QED
    BY <1>1, <1>4, <2>1, ReturnEffect DEF QuietCallStep, CallsInOrder, SameCredit
<1> QED
  BY <1>3, <1>4 DEF AfterObservation

LEMMA StoreObservationIsQuiet ==
  ASSUME TypeOK, CallsInOrder, NEW w \in Workers, StoreObservation(w)
  PROVE  QuietCallStep
<1>1. handlers[w].pc = "observation"
  BY DEF StoreObservation
<1>2. handlers[w].packet \in Packets /\ handlers[w].observer \in Observers
  BY <1>1, CallTypes DEF Call
<1>3. observations \subseteq observations' /\ observations' \subseteq Observation
  BY <1>1, <1>2 DEF StoreObservation, InsertPacketObservation, TypeOK, StoreTypeOK, Observation
<1> QED
  BY <1>1, <1>3, AfterObservationIsQuiet DEF StoreObservation, InsertPacketObservation

LEMMA ObservationFailsIsQuiet ==
  ASSUME TypeOK, CallsInOrder, NEW w \in Workers, ObservationFails(w)
  PROVE  QuietCallStep
<1>1. observations \subseteq Observation
  BY DEF TypeOK, StoreTypeOK
<1> QED
  BY <1>1, AfterObservationIsQuiet DEF ObservationFails, store

LEMMA RawFailsIsQuiet ==
  ASSUME TypeOK, CallsInOrder, NEW w \in Workers, RawFails(w)
  PROVE  QuietCallStep
<1>1. abandoned \subseteq Packets /\ observations \subseteq Observation
  BY DEF TypeOK, IngestTypeOK, StoreTypeOK
<1>2. Return(w) /\ ~Crediting(handlers[w])
  BY DEF RawFails, Crediting
<1>3. ~Crediting(handlers'[w]) /\ handlers'[w].pc = "idle"
  BY <1>2, ReturnEffect DEF Crediting, Idle
<1> QED
  BY <1>1, <1>2, <1>3, ReturnEffect DEF QuietCallStep, RawFails, CallsInOrder, SameCredit, store

LEMMA CreditFailsIsQuiet ==
  ASSUME TypeOK, CallsInOrder, NEW w \in Workers, CreditFails(w)
  PROVE  QuietCallStep
<1>1. abandoned \subseteq Packets /\ observations \subseteq Observation
  BY DEF TypeOK, IngestTypeOK, StoreTypeOK
<1>2. Return(w) /\ handlers[w].packet \in Packets
  BY CallTypes DEF CreditFails, Call
<1>3. ~Crediting(handlers'[w]) /\ handlers'[w].pc = "idle"
  BY <1>2, ReturnEffect DEF Crediting, Idle
<1>4. /\ abandoned' = abandoned \cup {handlers[w].packet}
      /\ UNCHANGED store
  BY DEF CreditFails
<1> QED
  BY <1>1, <1>2, <1>3, <1>4, ReturnEffect DEF QuietCallStep, CallsInOrder, SameCredit, store

LEMMA RetryBusyIsQuiet ==
  ASSUME TypeOK, CallsInOrder, NEW w \in Workers, RetryBusy(w)
  PROVE  QuietCallStep
<1> DEFINE next == [handlers[w] EXCEPT !.attempt = @ + 1]
<1>1. abandoned \subseteq Packets /\ observations \subseteq Observation
  BY DEF TypeOK, IngestTypeOK, StoreTypeOK
<1>2. handlers[w] \in Call /\ handlers[w] # Idle
  BY DEF RetryBusy, TypeOK, IngestTypeOK
<1>3. /\ next \in Call
      /\ next.pc = handlers[w].pc
      /\ next.packet = handlers[w].packet
      /\ next.iata = handlers[w].iata
      /\ next.user = handlers[w].user
      /\ next.day = handlers[w].day
      /\ next.inserted = handlers[w].inserted
  BY <1>2 DEF Call
<1>4. handlers' = [handlers EXCEPT ![w] = next]
  BY <1>2 DEF RetryBusy
<1>5. Crediting(handlers[w]) <=> Crediting(next)
  BY <1>3 DEF Crediting
<1> HIDE DEF next
<1>6. /\ handlers' \in [Workers -> Call \cup {Idle}]
      /\ handlers'[w] = next
      /\ \A v \in Workers : v # w => handlers'[v] = handlers[v]
  BY <1>3, <1>4 DEF TypeOK, IngestTypeOK
<1> QED
  BY <1>1, <1>2, <1>3, <1>5, <1>6 DEF QuietCallStep, RetryBusy, CallsInOrder, SameCredit, store

\* Receiving a stored packet again begins no credit.
LEMMA DuplicateIsQuiet ==
  ASSUME TypeOK, CallsInOrder, NEW w \in Workers, StoreRaw(w), Stored(handlers[w].packet)
  PROVE  QuietCallStep
<1> DEFINE h == handlers[w]
           next == [h EXCEPT !.pc = "observation", !.inserted = ~Stored(h.packet), !.attempt = 0]
<1>1. /\ h.pc = "raw"
      /\ handlers' = [handlers EXCEPT ![w] = next]
      /\ UNCHANGED <<store, abandoned>>
  BY DEF StoreRaw, InsertRawPacket, store
<1>2. h \in Call /\ h # Idle /\ ~Crediting(h)
  BY <1>1, CallTypes DEF Idle, Crediting
<1>3. /\ next \in Call
      /\ next.pc = "observation"
      /\ next.day = h.day /\ next.packet = h.packet /\ next.user = h.user
      /\ ~next.inserted
  BY <1>2 DEF Call
<1>4. ~Crediting(next)
  BY <1>3 DEF Crediting
<1>5. /\ handlers \in [Workers -> Call \cup {Idle}]
      /\ abandoned \subseteq Packets
      /\ observations \subseteq Observation
  BY DEF TypeOK, IngestTypeOK, StoreTypeOK
<1> HIDE DEF next
<1>6. /\ handlers' \in [Workers -> Call \cup {Idle}]
      /\ handlers'[w] = next
      /\ \A v \in Workers : v # w => handlers'[v] = handlers[v]
  BY <1>1, <1>3, <1>5
<1> QED
  BY <1>1, <1>2, <1>3, <1>4, <1>5, <1>6 DEF QuietCallStep, CallsInOrder, SameCredit, store

\* The steps of a call that write neither a packet, nor a link, nor a check-in.
LEMMA QuietSteps ==
  ASSUME TypeOK, CallsInOrder, NEW w \in Workers, HandlerStep(w, dayOfWeek)
  PROVE  \/ QuietCallStep
         \/ StoreRaw(w) /\ ~Stored(handlers[w].packet)
         \/ StoreLink(w, dayOfWeek)
         \/ StoreCheckin(w, dayOfWeek)
  BY StoreObservationIsQuiet, ObservationFailsIsQuiet, RawFailsIsQuiet, CreditFailsIsQuiet,
     RetryBusyIsQuiet, DuplicateIsQuiet DEF HandlerStep

\* A call that is about to credit refers to a stored packet of its own day.
LEMMA CreditingCall ==
  ASSUME TypeOK, CallsRecent, InFlightPacketStored,
         NEW w \in Workers, Crediting(handlers[w])
  PROVE  /\ handlers[w] \in Call
         /\ handlers[w] # Idle
         /\ handlers[w].user \in Users
         /\ handlers[w].day \in Days /\ handlers[w].day \in Nat
         /\ dayOfWeek \in Weekdays
         /\ WeekStart(handlers[w].day, dayOfWeek) = handlers[w].day
         /\ \E r \in rawPackets : /\ r.hash = handlers[w].packet
                                 /\ r.day = handlers[w].day
                                 /\ r.iata = handlers[w].iata
                                 /\ r.user = handlers[w].user
<1>1. handlers[w].pc # "idle"
  BY DEF Crediting
<1>2. handlers[w] \in Call /\ handlers[w] # Idle
  BY <1>1, CallTypes DEF Idle
<1>3. handlers[w].user \in Users
  BY <1>2 DEF Call, Crediting
<1>4. /\ handlers[w].day \in Days /\ handlers[w].day \in Nat /\ dayOfWeek \in Weekdays
      /\ IsWeekday(handlers[w].day, dayOfWeek)
  BY <1>2, DayTypes DEF CallsRecent
<1>5. WeekStart(handlers[w].day, dayOfWeek) = handlers[w].day
  BY <1>4, WeekStartOfCheckinDay
<1> QED
  BY <1>2, <1>3, <1>4, <1>5 DEF InFlightPacketStored

(***************************************************************************)
(* Each write of a call, taken alone, loses no packet.  These lemmas ask   *)
(* little of the links already stored, so they also serve where another    *)
(* process writes links.                                                   *)
(***************************************************************************)
LEMMA StoreRawLosesNothing ==
  ASSUME TypeOK, NoSilentLoss, NEW w \in Workers, StoreRaw(w), ~Stored(handlers[w].packet)
  PROVE  NoSilentLoss'
<1> DEFINE h == handlers[w]
           next == [h EXCEPT !.pc = "observation", !.inserted = ~Stored(h.packet), !.attempt = 0]
           row == [id |-> rawSeq + 1, hash |-> h.packet, iata |-> h.iata, day |-> h.day,
                   user |-> h.user]
<1>1. /\ h.pc = "raw" /\ ~Stored(h.packet)
      /\ handlers' = [handlers EXCEPT ![w] = next]
      /\ checkins' = checkins /\ checkinPackets' = checkinPackets
      /\ rawPackets' = rawPackets \cup {row}
      /\ abandoned' = abandoned \ {h.packet}
  BY DEF StoreRaw, InsertRawPacket
<1>2. h \in Call /\ ~Crediting(h)
  BY <1>1, CallTypes DEF Crediting
<1>3. /\ next.pc = "observation" /\ next.packet = h.packet /\ next.inserted
      /\ row.hash = h.packet /\ row.user = next.user
  BY <1>1, <1>2 DEF Call
<1>4. handlers'[w] = next /\ \A v \in Workers : v # w => handlers'[v] = handlers[v]
  BY <1>1 DEF TypeOK, IngestTypeOK
<1> HIDE DEF next, row, h
<1> SUFFICES ASSUME NEW r \in rawPackets', r.user # NoCandidate
             PROVE  InFlight(r.hash)' \/ r.hash \in abandoned' \/ Settled(r)'
  BY DEF NoSilentLoss
<1>5. CASE r = row
  BY <1>3, <1>4, <1>5 DEF InFlight, Crediting
<1>6. CASE r \in rawPackets
  <2>1. r.hash # h.packet
    BY <1>1, <1>6 DEF Stored
  <2>2. CASE InFlight(r.hash)
    BY <1>2, <1>4, <2>2 DEF InFlight, h
  <2>3. CASE r.hash \in abandoned
    BY <1>1, <2>1, <2>3
  <2>4. CASE Settled(r)
    BY <1>1, <2>4 DEF Settled
  <2> QED
    BY <1>6, <2>2, <2>3, <2>4 DEF NoSilentLoss
<1> QED
  BY <1>1, <1>5, <1>6

LEMMA StoreLinkLosesNothing ==
  ASSUME TypeOK, CallsInOrder, NoSilentLoss, NEW w \in Workers, StoreLink(w, dayOfWeek)
  PROVE  NoSilentLoss'
<1>1. /\ handlers[w].pc = "link" /\ Crediting(handlers[w]) /\ handlers[w] # Idle
      /\ rawPackets' = rawPackets /\ checkins' = checkins /\ abandoned' = abandoned
      /\ checkinPackets \subseteq checkinPackets'
      /\ Continue(w, "checkin")
  BY DEF StoreLink, InsertCheckinPacket, CallsInOrder, Idle
<1>2. /\ handlers'[w].pc = "checkin" /\ handlers'[w].packet = handlers[w].packet
      /\ handlers'[w].inserted = handlers[w].inserted /\ handlers'[w].user = handlers[w].user
      /\ \A v \in Workers : v # w => handlers'[v] = handlers[v]
  BY <1>1, ContinueEffect
<1>3. \A v \in Workers : Crediting(handlers[v]) =>
        Crediting(handlers'[v]) /\ handlers'[v].packet = handlers[v].packet
  BY <1>1, <1>2 DEF Crediting
<1> QED
  BY <1>1, <1>3, LossUnchanged

\* The last write of a call settles its packet, also when the credit of the
\* week is taken.
LEMMA StoreCheckinSettles ==
  ASSUME TypeOK, RawKeys, CallsRecent, CallsInOrder, InFlightPacketStored,
         \A c \in checkins : \E r \in rawPackets :
           r.hash = c.hash /\ r.day = c.week /\ r.user = c.user,
         NEW w \in Workers, StoreCheckin(w, dayOfWeek)
  PROVE  \A r \in rawPackets : r.hash = handlers[w].packet => Settled(r)'
<1> DEFINE h == handlers[w]
           user == h.user
           row == [id |-> checkinSeq + 1, hash |-> h.packet, user |-> user, iata |-> h.iata,
                   date |-> h.day, week |-> h.day]
<1>1. Crediting(h) /\ LinkRow(h.day, user, h.packet) \in checkinPackets
  BY DEF StoreCheckin, CallsInOrder
<1>2. WeekStart(h.day, dayOfWeek) = h.day
  BY <1>1, CreditingCall
<1>3. PICK s \in rawPackets : s.hash = h.packet /\ s.day = h.day /\ s.user = h.user
  BY <1>1, CreditingCall
<1>4. \A r \in rawPackets : r.hash = h.packet => r = s
  BY <1>3 DEF RawKeys
<1>5. /\ checkinPackets' = checkinPackets
      /\ \/ CheckinConflict(h.day, user, h.packet) /\ checkins' = checkins
         \/ checkins' = checkins \cup {row}
  BY <1>2 DEF StoreCheckin, InsertCheckin
<1>6. row.week = h.day /\ row.user = user
  OBVIOUS
<1>7. \E c \in checkins' : c.week = h.day /\ c.user = user
  <2>1. CASE CheckinConflict(h.day, user, h.packet) /\ checkins' = checkins
    <3>1. PICK c \in checkins : c.hash = h.packet \/ (c.week = h.day /\ c.user = user)
      BY <2>1 DEF CheckinConflict
    <3>2. c.week = h.day /\ c.user = user
      BY <1>3, <1>4, <3>1
    <3> QED
      BY <2>1, <3>2
  <2> HIDE DEF row
  <2>2. CASE checkins' = checkins \cup {row}
    BY <1>6, <2>2
  <2> QED
    BY <1>5, <2>1, <2>2
<1> HIDE DEF row, user, h
<1>8. Settled(s)'
  BY <1>1, <1>3, <1>5, <1>7 DEF Settled, user
<1> QED
  BY <1>4, <1>8 DEF h

LEMMA StoreCheckinLosesNothing ==
  ASSUME TypeOK, RawKeys, CallsRecent, CallsInOrder, InFlightPacketStored, NoSilentLoss,
         \A c \in checkins : \E r \in rawPackets :
           r.hash = c.hash /\ r.day = c.week /\ r.user = c.user,
         NEW w \in Workers, StoreCheckin(w, dayOfWeek)
  PROVE  NoSilentLoss'
<1>1. /\ rawPackets' = rawPackets /\ checkinPackets' = checkinPackets
      /\ checkins \subseteq checkins' /\ abandoned' = abandoned
      /\ handlers[w].pc = "checkin" /\ Return(w)
  BY DEF StoreCheckin, InsertCheckin
<1>2. \A v \in Workers : v # w => handlers'[v] = handlers[v]
  BY <1>1, ReturnEffect DEF Idle
<1>3. \A r \in rawPackets : r.hash = handlers[w].packet => Settled(r)'
  BY StoreCheckinSettles
<1> QED
  BY <1>1, <1>2, <1>3, LossUnchanged

LEMMA StoreLinkPreserves ==
  ASSUME IInv, up, NEW w \in Workers, StoreLink(w, dayOfWeek),
         UNCHANGED <<prune, today, dayOfWeek, rules, up, exits>>
  PROVE  IInv'
<1> DEFINE h == handlers[w]
           link == LinkRow(h.day, h.user, h.packet)
<1>1. /\ TypeOK /\ TablesSound /\ CallsSound /\ PassSound /\ DownIsQuiet
      /\ h.pc = "link"
      /\ Crediting(h)
  BY IInvParts DEF StoreLink, CallsSound, CallsInOrder
<1>2. /\ h \in Call /\ h # Idle
      /\ h.user \in Users
      /\ h.day \in Days /\ h.day \in Nat
      /\ dayOfWeek \in Weekdays
      /\ WeekStart(h.day, dayOfWeek) = h.day
  BY <1>1, CreditingCall DEF CallsSound
<1>3. PICK r \in rawPackets : /\ r.hash = h.packet /\ r.day = h.day
                              /\ r.iata = h.iata /\ r.user = h.user
  BY <1>1, CreditingCall DEF CallsSound
<1>4. /\ checkinPackets' = checkinPackets \cup {link}
      /\ UNCHANGED <<rawPackets, checkins, observations, rawSeq, checkinSeq, abandoned>>
      /\ Continue(w, "checkin")
  BY <1>2 DEF StoreLink, InsertCheckinPacket
<1>5. /\ handlers' \in [Workers -> Call \cup {Idle}]
      /\ handlers'[w].pc = "checkin"
      /\ handlers'[w] # Idle
      /\ handlers'[w].packet = h.packet
      /\ handlers'[w].iata = h.iata
      /\ handlers'[w].user = h.user
      /\ handlers'[w].day = h.day
      /\ handlers'[w].inserted = h.inserted
      /\ \A v \in Workers : v # w => handlers'[v] = handlers[v]
  BY <1>1, <1>2, <1>4, ContinueEffect
<1>6. Crediting(handlers'[w])
  BY <1>1, <1>5 DEF Crediting
<1>7. link \in Link
  BY <1>2 DEF LinkRow, Link, Call
<1>8. link.week = h.day /\ link.user = h.user /\ link.hash = h.packet
  BY DEF LinkRow
<1> HIDE DEF link, h
<1>9. TypeOK'
  BY <1>1, <1>4, <1>5, <1>7 DEF TypeOK, StoreTypeOK, IngestTypeOK, RetentionTypeOK
<1>10. TablesSound'
  <2>1. CreditMatchesPacket'
    BY <1>1, <1>3, <1>4, <1>8 DEF TablesSound, CreditMatchesPacket
  <2> QED
    BY <1>1, <1>4, <2>1 DEF TablesSound, RawKeys, OneCheckinPerWeek, CheckinWeeks, CheckinIsLinked
<1>11. \A v \in Workers : Crediting(handlers'[v]) => SameCredit(v)
  BY <1>1, <1>5 DEF SameCredit, h
<1>12. NoSilentLoss' /\ InFlightPacketStored'
  BY <1>1, <1>4, <1>11, StoreLinkLosesNothing, InFlightUnchanged DEF CallsSound
<1>13. CallsRecent'
  BY <1>1, <1>2, <1>5 DEF CallsSound, CallsRecent, h
<1>14. CallsInOrder'
  BY <1>1, <1>4, <1>5, <1>6 DEF CallsSound, CallsInOrder, link, h
<1>15. PassSound'
  <2>1. \A s \in rawPackets : s.hash = h.packet => s = r
    BY <1>1, <1>3 DEF TablesSound, RawKeys
  <2>2. ASSUME prune # Asleep PROVE AmbientKept(h.day, prune.now, dayOfWeek)
    <3>1. prune.now \in Nat /\ prune.now <= today /\ today \in Nat
      BY <1>1, <2>2, DayTypes DEF TypeOK, RetentionTypeOK, Pass, PassSound, PassSafe
    <3>2. today - h.day <= 6 /\ IsWeekday(h.day, dayOfWeek)
      BY <1>1, <1>2, <3>1, ServerAssumption DEF CallsSound, CallsRecent, h
    <3> QED
      BY <1>2, <3>1, <3>2, RecentIsKept
  <2>3. prune.pc \in {"scan", "delete"} => ShouldRetain(r, prune, dayOfWeek)
    BY <1>3, <2>2 DEF ShouldRetain, Asleep
  <2>4. \A s \in rawPackets : Linked(s.hash)' => Linked(s.hash) \/ s = r
    BY <1>4, <1>8, <2>1 DEF Linked
  <2>5. PassSafe'
    BY <1>1, <1>4, <2>3, <2>4 DEF PassSound, PassSafe, ShouldRetain
  <2> QED
    BY <1>1, <1>4, <2>5 DEF PassSound, CursorSkipsNothing, ShouldRetain
<1>16. DownIsQuiet'
  BY DEF DownIsQuiet
<1> QED
  BY <1>9, <1>10, <1>12, <1>13, <1>14, <1>15, <1>16
     DEF IInv, TablesSound, CallsSound, PassSound

LEMMA StoreCheckinPreserves ==
  ASSUME IInv, up, NEW w \in Workers, StoreCheckin(w, dayOfWeek),
         UNCHANGED <<prune, today, dayOfWeek, rules, up, exits>>
  PROVE  IInv'
<1> DEFINE h == handlers[w]
           user == h.user
           row == [id |-> checkinSeq + 1, hash |-> h.packet, user |-> user, iata |-> h.iata,
                   date |-> h.day, week |-> h.day]
<1>1. /\ TypeOK /\ TablesSound /\ CallsSound /\ PassSound /\ DownIsQuiet
      /\ h.pc = "checkin"
      /\ Crediting(h)
      /\ LinkRow(h.day, user, h.packet) \in checkinPackets
  BY IInvParts DEF StoreCheckin, CallsSound, CallsInOrder
<1>2. /\ h \in Call /\ h # Idle
      /\ user \in Users
      /\ h.day \in Days /\ h.day \in Nat
      /\ WeekStart(h.day, dayOfWeek) = h.day
  BY <1>1, CreditingCall DEF CallsSound
<1>3. PICK r \in rawPackets : /\ r.hash = h.packet /\ r.day = h.day
                              /\ r.iata = h.iata /\ r.user = h.user
  BY <1>1, CreditingCall DEF CallsSound
<1>4. /\ UNCHANGED <<rawPackets, observations, checkinPackets, rawSeq, abandoned>>
      /\ Return(w)
  BY DEF StoreCheckin, InsertCheckin
<1>5. \/ /\ CheckinConflict(h.day, user, h.packet)
         /\ UNCHANGED <<checkins, checkinSeq>>
      \/ /\ ~CheckinConflict(h.day, user, h.packet)
         /\ checkinSeq' = checkinSeq + 1
         /\ checkins' = checkins \cup {row}
  BY <1>2 DEF StoreCheckin, InsertCheckin
<1>6. /\ handlers' \in [Workers -> Call \cup {Idle}]
      /\ handlers'[w] = Idle
      /\ \A v \in Workers : v # w => handlers'[v] = handlers[v]
  BY <1>1, <1>4, ReturnEffect
<1>7. ~Crediting(handlers'[w]) /\ handlers'[w].pc = "idle"
  BY <1>6 DEF Crediting, Idle
<1>8. checkinSeq \in Nat /\ row \in CheckinRow
  BY <1>1, <1>2 DEF CheckinRow, Call, TypeOK, StoreTypeOK
<1>9. /\ row.hash = h.packet /\ row.user = user /\ row.week = h.day
       /\ row.date = h.day /\ row.iata = h.iata
  OBVIOUS
<1> HIDE DEF row, user, h
<1>10. TypeOK'
  BY <1>1, <1>4, <1>5, <1>6, <1>8 DEF TypeOK, StoreTypeOK, IngestTypeOK, RetentionTypeOK
<1>11. TablesSound'
  <2>1. CASE checkins' = checkins
    BY <1>1, <1>4, <2>1 DEF TablesSound, RawKeys, OneCheckinPerWeek, CheckinWeeks,
       CheckinIsLinked, CreditMatchesPacket
  <2>2. CASE checkins' = checkins \cup {row} /\ ~CheckinConflict(h.day, user, h.packet)
    <3>1. OneCheckinPerWeek'
      BY <1>1, <1>9, <2>2 DEF TablesSound, OneCheckinPerWeek, CheckinConflict
    <3>2. CheckinWeeks'
      BY <1>1, <1>2, <1>9, <2>2 DEF TablesSound, CheckinWeeks
    <3>3. CheckinIsLinked'
      BY <1>1, <1>4, <1>9, <2>2 DEF TablesSound, CheckinIsLinked
    <3>4. CreditMatchesPacket'
      BY <1>1, <1>3, <1>4, <1>9, <2>2 DEF TablesSound, CreditMatchesPacket, user
    <3> QED
      BY <1>1, <1>4, <3>1, <3>2, <3>3, <3>4 DEF TablesSound, RawKeys
  <2> QED
    BY <1>5, <2>1, <2>2
<1>12. \A c \in checkins : \E s \in rawPackets :
         s.hash = c.hash /\ s.day = c.week /\ s.user = c.user
  BY <1>1 DEF TablesSound, CreditMatchesPacket
<1>13. NoSilentLoss'
  BY <1>1, <1>12, StoreCheckinLosesNothing DEF TablesSound, CallsSound
<1>14. InFlightPacketStored'
  BY <1>1, <1>4, <1>6, <1>7, InFlightUnchanged DEF CallsSound, SameCredit
<1>15. CallsRecent' /\ CallsInOrder'
  BY <1>1, <1>4, <1>6, <1>7 DEF CallsSound, CallsRecent, CallsInOrder
<1>16. PassSound'
  BY <1>1, <1>4 DEF PassSound, PassSafe, CursorSkipsNothing, ShouldRetain, Linked
<1>17. DownIsQuiet'
  BY DEF DownIsQuiet
<1> QED
  BY <1>10, <1>11, <1>13, <1>14, <1>15, <1>16, <1>17
     DEF IInv, TablesSound, CallsSound, PassSound

LEMMA StoreRawPreserves ==
  ASSUME IInv, up, NEW w \in Workers, StoreRaw(w), ~Stored(handlers[w].packet),
         UNCHANGED <<prune, today, dayOfWeek, rules, up, exits>>
  PROVE  IInv'
<1> DEFINE h == handlers[w]
           next == [h EXCEPT !.pc = "observation", !.inserted = ~Stored(h.packet), !.attempt = 0]
           row == [id |-> rawSeq + 1, hash |-> h.packet, iata |-> h.iata, day |-> h.day,
                   user |-> h.user]
<1>1. /\ TypeOK /\ TablesSound /\ CallsSound /\ PassSound /\ DownIsQuiet
      /\ h.pc = "raw"
      /\ handlers' = [handlers EXCEPT ![w] = next]
      /\ UNCHANGED <<checkins, observations, checkinPackets, checkinSeq>>
  BY IInvParts DEF StoreRaw, InsertRawPacket
<1>2. h \in Call /\ h # Idle
  BY <1>1, CallTypes DEF Idle
<1>3. /\ next \in Call
      /\ next.pc = "observation"
      /\ next.packet = h.packet /\ next.iata = h.iata /\ next.day = h.day
      /\ next.user = h.user
  BY <1>2 DEF Call
<1>4. next # Idle
  BY <1>3 DEF Idle
<1>5. /\ handlers \in [Workers -> Call \cup {Idle}]
      /\ abandoned \subseteq Packets
      /\ observations \subseteq Observation
  BY <1>1 DEF TypeOK, IngestTypeOK, StoreTypeOK
<1>6. /\ row.id = rawSeq + 1 /\ row.hash = h.packet /\ row.iata = h.iata /\ row.day = h.day
      /\ row.user = h.user
      /\ rawSeq \in Nat
      /\ row \in RawRow
  BY <1>1, <1>2 DEF RawRow, Call, TypeOK, StoreTypeOK
<1>7. /\ rawSeq' = rawSeq + 1
      /\ rawPackets' = rawPackets \cup {row}
      /\ abandoned' = abandoned \ {h.packet}
  BY DEF StoreRaw, InsertRawPacket
<1> HIDE DEF next, row
<1>8. /\ handlers' \in [Workers -> Call \cup {Idle}]
      /\ handlers'[w] = next
      /\ \A v \in Workers : v # w => handlers'[v] = handlers[v]
  BY <1>1, <1>3, <1>5
<1>9. \A r \in rawPackets : r.hash # h.packet /\ r.id \in Nat /\ r.id <= rawSeq
  BY <1>1 DEF Stored, TablesSound, RawKeys, TypeOK, StoreTypeOK, RawRow
<1>10. \A l \in checkinPackets : l.hash # h.packet
  BY <1>1, <1>9 DEF TablesSound, CreditMatchesPacket
<1>11. TypeOK'
  BY <1>1, <1>5, <1>6, <1>8, <1>7 DEF TypeOK, StoreTypeOK, IngestTypeOK, RetentionTypeOK
<1>12. RawKeys'
  <2>1. \A r \in rawPackets' : 0 < r.id /\ r.id <= rawSeq'
    BY <1>1, <1>6, <1>7, <1>9 DEF TablesSound, RawKeys
  <2>2. \A r, s \in rawPackets' : r.id = s.id \/ r.hash = s.hash => r = s
    BY <1>1, <1>6, <1>7, <1>9 DEF TablesSound, RawKeys
  <2> QED
    BY <2>1, <2>2 DEF RawKeys
<1>13. CreditMatchesPacket'
  BY <1>1, <1>7 DEF TablesSound, CreditMatchesPacket
<1>14. TablesSound'
  BY <1>1, <1>7, <1>12, <1>13 DEF TablesSound, OneCheckinPerWeek, CheckinWeeks, CheckinIsLinked
<1>15. NoSilentLoss'
  BY <1>1, StoreRawLosesNothing DEF CallsSound
<1>16. InFlightPacketStored'
  <2> SUFFICES ASSUME NEW v \in Workers, Crediting(handlers'[v])
               PROVE  \E r \in rawPackets' :
                        /\ r.hash = handlers'[v].packet
                        /\ r.day = handlers'[v].day
                        /\ r.iata = handlers'[v].iata
                        /\ r.user = handlers'[v].user
    BY DEF InFlightPacketStored
  <2>1. CASE v = w
    BY <1>3, <1>6, <1>8, <1>7, <2>1
  <2>2. CASE v # w
    BY <1>1, <1>8, <1>7, <2>2 DEF CallsSound, InFlightPacketStored
  <2> QED
    BY <2>1, <2>2
<1>17. CallsRecent' /\ CallsInOrder'
  BY <1>1, <1>2, <1>3, <1>4, <1>8 DEF CallsSound, CallsRecent, CallsInOrder
<1>18. PassSound'
  <2>1. ~Linked(row.hash)
    BY <1>6, <1>10 DEF Linked
  <2>2. prune # Asleep => prune \in Pass
    BY <1>1 DEF TypeOK, RetentionTypeOK
  <2>3. PassSafe'
    <3>1. /\ prune # Asleep => prune.now <= today
          /\ prune.pc = "protect" => prune.lastId = 0
      BY <1>1 DEF PassSound, PassSafe
    <3>2. ASSUME prune.pc \in {"scan", "delete"}
          PROVE  /\ prune.lastId <= rawSeq'
                 /\ \A r \in rawPackets' : Linked(r.hash) => ShouldRetain(r, prune, dayOfWeek)
      BY <1>1, <1>6, <1>7, <2>1, <2>2, <3>2 DEF PassSound, PassSafe, Pass, Asleep
    <3>3. ASSUME prune.pc = "delete"
          PROVE  /\ \A i \in prune.pending : i <= rawSeq'
                 /\ \A r \in rawPackets' : r.id \in prune.pending =>
                                             ~ShouldRetain(r, prune, dayOfWeek)
      <4>1. prune.pending \subseteq Nat
        BY <2>2, <3>3 DEF Pass, Asleep
      <4>2. \A i \in prune.pending : i <= rawSeq /\ i # row.id
        BY <1>1, <1>6, <3>3, <4>1 DEF PassSound, PassSafe
      <4> QED
        BY <1>1, <1>6, <1>7, <3>3, <4>1, <4>2 DEF PassSound, PassSafe
    <3> QED
      BY <1>1, <3>1, <3>2, <3>3 DEF PassSafe, Linked, ShouldRetain
  <2>4. CursorSkipsNothing'
    <3>1. prune.pc \in {"scan", "delete"} => ~(row.id <= prune.lastId)
      BY <1>1, <1>6, <2>2 DEF PassSound, PassSafe, Pass, Asleep
    <3> QED
      BY <1>1, <1>7, <3>1 DEF PassSound, CursorSkipsNothing, ShouldRetain
  <2> QED
    BY <2>3, <2>4 DEF PassSound
<1>19. DownIsQuiet'
  BY DEF DownIsQuiet
<1> QED
  BY <1>11, <1>14, <1>15, <1>16, <1>17, <1>18, <1>19
     DEF IInv, TablesSound, CallsSound, PassSound

--------------------------------------------------------------------------------
\* A step of the pass that writes no table keeps the invariant if it keeps
\* what concerns the pass.
LEMMA PassStepPreserves ==
  ASSUME IInv, up, UNCHANGED <<store, handlers, abandoned, today, dayOfWeek, rules, up, exits>>,
         RetentionTypeOK', PassSound'
  PROVE  IInv'
<1>1. TypeOK /\ TablesSound /\ CallsSound
  BY IInvParts
<1>2. TypeOK'
  BY <1>1 DEF TypeOK, StoreTypeOK, IngestTypeOK, store
<1>3. TablesSound'
  BY <1>1, TablesUnchanged
<1>4. NoSilentLoss' /\ InFlightPacketStored'
  BY <1>1 DEF CallsSound, NoSilentLoss, InFlightPacketStored, InFlight, Settled, store
<1>5. CallsRecent' /\ CallsInOrder'
  BY <1>1 DEF CallsSound, CallsRecent, CallsInOrder, store
<1>6. DownIsQuiet'
  BY DEF DownIsQuiet
<1> QED
  BY <1>2, <1>3, <1>4, <1>5, <1>6 DEF IInv, TablesSound, CallsSound, PassSound

LEMMA BeginPrunePreserves ==
  ASSUME IInv, BeginPrune
  PROVE  IInv'
<1> DEFINE pass == [pc |-> "protect", now |-> today, protected |-> {}, lastId |-> 0,
                    pending |-> {}, attempt |-> 0]
<1>1. today \in Nat /\ prune' = pass
  BY DayTypes DEF IInv, BeginPrune, StartPass
<1>2. pass \in Pass /\ pass.pc = "protect" /\ pass.now = today
  BY <1>1 DEF Pass
<1> HIDE DEF pass
<1>3. RetentionTypeOK'
  BY <1>1, <1>2 DEF RetentionTypeOK
<1>4. PassSound'
  BY <1>1, <1>2 DEF PassSound, PassSafe, CursorSkipsNothing, BeginPrune, StartPass
<1> QED
  BY <1>3, <1>4, PassStepPreserves DEF BeginPrune, StartPass

\* The ids a batch is made of are the smallest: it leaves none out below one it takes.
LEMMA SmallestDownward ==
  ASSUME NEW ids, ids \subseteq Nat, IsFiniteSet(ids), NEW n \in Nat,
         NEW i \in Smallest(ids, n), NEW j \in ids, j <= i
  PROVE  j \in Smallest(ids, n)
<1> DEFINE below(k) == {m \in ids : m < k}
<1>1. below(j) \subseteq below(i)
  <2> SUFFICES ASSUME NEW m \in ids, m < j PROVE m < i
    OBVIOUS
  <2>1. i \in Nat /\ j \in Nat /\ m \in Nat
    BY DEF Smallest
  <2> QED BY <2>1
<1>2. IsFiniteSet(below(i)) /\ IsFiniteSet(below(j))
  BY FS_Subset
<1>3. Cardinality(below(j)) <= Cardinality(below(i))
  BY <1>1, <1>2, FS_Subset
<1>4. Cardinality(below(j)) \in Nat /\ Cardinality(below(i)) \in Nat
  BY <1>2, FS_CardinalityType
<1>5. Cardinality(below(i)) < n
  BY DEF Smallest
<1>6. Cardinality(below(j)) < n
  <2> HIDE DEF below
  <2> QED BY <1>3, <1>4, <1>5
<1> QED
  BY <1>6 DEF Smallest

\* A batch holds every row between the cursor and its last row.
LEMMA BatchIsComplete ==
  ASSUME IInv, NEW lastId \in Nat, NEW last \in Batch(lastId),
         NEW r \in rawPackets, r.id > lastId, r.id <= last.id
  PROVE  r \in Batch(lastId)
<1> DEFINE rows == {s \in rawPackets : s.id > lastId}
           ids == {s.id : s \in rows}
<1>1. /\ rawPackets \subseteq RawRow /\ rawSeq \in Nat
      /\ \A s \in rawPackets : 0 < s.id /\ s.id <= rawSeq
  BY DEF IInv, TypeOK, StoreTypeOK, RawKeys
<1>2. ids \subseteq 1..rawSeq
  BY <1>1 DEF RawRow
<1>3. IsFiniteSet(ids)
  <2> HIDE DEF ids
  <2>1. IsFiniteSet(1..rawSeq)
    BY <1>1, FS_Interval
  <2> QED BY <1>2, <2>1, FS_Subset
<1>4. ids \subseteq Nat
  BY <1>1 DEF RawRow
<1>5. r.id \in ids
  OBVIOUS
<1>6. last.id \in Smallest(ids, BatchSize)
  BY DEF Batch
<1>7. BatchSize \in Nat
  BY RetentionAssumption
<1>8. r.id \in Smallest(ids, BatchSize)
  <2> HIDE DEF ids
  <2> QED BY <1>3, <1>4, <1>5, <1>6, <1>7, SmallestDownward
<1> QED
  BY <1>8 DEF Batch

LEMMA ReadProtectedPreserves ==
  ASSUME IInv, up, ReadProtected,
         UNCHANGED <<handlers, abandoned, today, dayOfWeek, rules, up, exits>>
  PROVE  IInv'
<1> DEFINE next == [prune EXCEPT !.pc = "scan", !.protected = ProtectedPacketHashes]
<1>1. TypeOK /\ PassSound /\ prune \in Pass /\ prune' = next
  BY IInvParts DEF ReadProtected, TypeOK, RetentionTypeOK, Asleep
<1>2. ProtectedPacketHashes \subseteq Packets
  BY <1>1 DEF ProtectedPacketHashes, TypeOK, StoreTypeOK, CheckinRow, Link
<1>3. /\ next \in Pass
      /\ next.pc = "scan"
      /\ next.protected = ProtectedPacketHashes
      /\ next.now = prune.now
      /\ next.lastId = prune.lastId
      /\ next # Asleep
  BY <1>1, <1>2 DEF Pass, Asleep
<1>4. /\ prune.pc = "protect" /\ prune # Asleep
      /\ UNCHANGED store /\ UNCHANGED <<today, dayOfWeek>>
  BY DEF ReadProtected, Asleep
<1> HIDE DEF next
<1>5. RetentionTypeOK'
  BY <1>1, <1>3 DEF RetentionTypeOK
<1>6. PassSafe'
  <2>1. prune.lastId = 0 /\ prune.now <= today /\ rawSeq \in Nat
    BY <1>1, <1>4 DEF PassSound, PassSafe, TypeOK, StoreTypeOK
  <2>2. \A r \in rawPackets : Linked(r.hash) => r.hash \in ProtectedPacketHashes
    BY DEF Linked, ProtectedPacketHashes
  <2> QED
    BY <1>1, <1>3, <1>4, <2>1, <2>2 DEF PassSafe, ShouldRetain, Linked, store
<1>7. CursorSkipsNothing'
  <2>1. prune.lastId = 0 /\ \A r \in rawPackets : r.id \in Nat /\ 0 < r.id
    BY <1>1, <1>4 DEF PassSound, PassSafe, IInv, RawKeys, TypeOK, StoreTypeOK, RawRow
  <2> QED
    BY <1>1, <1>3, <1>4, <2>1 DEF CursorSkipsNothing, store
<1> QED
  BY <1>4, <1>5, <1>6, <1>7, PassStepPreserves DEF PassSound

LEMMA ScanBatchPreserves ==
  ASSUME IInv, up, ScanBatch(dayOfWeek),
         UNCHANGED <<handlers, abandoned, today, dayOfWeek, rules, up, exits>>
  PROVE  IInv'
<1> DEFINE rows == Batch(prune.lastId)
           expired == {r \in rows : ~ShouldRetain(r, prune, dayOfWeek)}
<1>1. /\ TypeOK /\ PassSound /\ prune.pc = "scan" /\ UNCHANGED store
      /\ UNCHANGED <<today, dayOfWeek>>
  BY IInvParts DEF ScanBatch
<1>2. prune \in Pass
  BY <1>1 DEF TypeOK, RetentionTypeOK, Asleep
<1>3. /\ rows \subseteq rawPackets /\ rawPackets \subseteq RawRow
      /\ \A r \in rawPackets : r.id \in Nat /\ r.id <= rawSeq
      /\ rawSeq \in Nat
  BY <1>1 DEF Batch, IInv, RawKeys, TypeOK, StoreTypeOK, RawRow
<1>4. CASE prune' = Asleep
  <2>1. RetentionTypeOK' /\ PassSound'
    BY <1>4 DEF RetentionTypeOK, PassSound, PassSafe, CursorSkipsNothing, Asleep
  <2> QED
    BY <1>1, <2>1, PassStepPreserves
<1>5. ASSUME rows # {}, expired = {}, NEW last \in rows,
             prune' = [prune EXCEPT !.lastId = last.id]
      PROVE  IInv'
  <2>1. /\ prune' \in Pass /\ prune' # Asleep
        /\ prune'.pc = "scan" /\ prune'.lastId = last.id
        /\ prune'.now = prune.now /\ prune'.protected = prune.protected
    BY <1>1, <1>2, <1>3, <1>5 DEF Pass, Asleep
  <2>2. \A r \in rawPackets : ShouldRetain(r, prune, dayOfWeek) =>
                              ShouldRetain(r, prune, dayOfWeek)'
    BY <1>1, <2>1 DEF ShouldRetain
  <2>3. PassSafe'
    BY <1>1, <1>2, <1>3, <1>5, <2>1, <2>2 DEF PassSound, PassSafe, Linked, store, Asleep
  <2>4. CursorSkipsNothing'
    <3> SUFFICES ASSUME NEW r \in rawPackets, r.id <= last.id
                 PROVE  ShouldRetain(r, prune, dayOfWeek)
      BY <1>1, <2>1, <2>2 DEF CursorSkipsNothing, store
    <3>1. prune.lastId \in Nat
      BY <1>2 DEF Pass
    <3>2. CASE r.id <= prune.lastId
      BY <1>1, <3>2 DEF PassSound, CursorSkipsNothing
    <3>3. CASE r.id > prune.lastId
      <4>1. r \in rows
        BY <1>5, <3>1, <3>3, BatchIsComplete
      <4> QED
        BY <1>5, <4>1
    <3> QED
      BY <1>3, <3>1, <3>2, <3>3
  <2>5. RetentionTypeOK'
    BY <2>1 DEF RetentionTypeOK
  <2> QED
    BY <1>1, <2>3, <2>4, <2>5, PassStepPreserves DEF PassSound
<1>6. ASSUME prune' = [prune EXCEPT !.pc = "delete", !.pending = {r.id : r \in expired},
                                    !.attempt = 0]
      PROVE  IInv'
  <2> DEFINE ids == {r.id : r \in expired}
  <2>1. ids \subseteq Nat /\ \A i \in ids : i <= rawSeq
    BY <1>3
  <2>2. \A r \in rawPackets : r.id \in ids => ~ShouldRetain(r, prune, dayOfWeek)
    BY <1>3 DEF IInv, RawKeys
  <2>3. prune' = [prune EXCEPT !.pc = "delete", !.pending = ids, !.attempt = 0]
    BY <1>6
  <2> HIDE DEF ids
  <2>4. /\ prune' \in Pass /\ prune' # Asleep
        /\ prune'.pc = "delete" /\ prune'.lastId = prune.lastId /\ prune'.pending = ids
        /\ prune'.now = prune.now /\ prune'.protected = prune.protected
    BY <1>2, <2>1, <2>3 DEF Pass, Asleep
  <2>5. \A r \in rawPackets : ShouldRetain(r, prune, dayOfWeek) <=>
                              ShouldRetain(r, prune, dayOfWeek)'
    BY <1>1, <2>4 DEF ShouldRetain
  <2>6. PassSafe'
    <3>1. /\ prune.now <= today /\ prune.lastId <= rawSeq
          /\ \A r \in rawPackets : Linked(r.hash) => ShouldRetain(r, prune, dayOfWeek)
      BY <1>1 DEF PassSound, PassSafe, Asleep
    <3>2. \A r \in rawPackets : Linked(r.hash)' <=> Linked(r.hash)
      BY <1>1 DEF Linked, store
    <3>3. rawPackets' = rawPackets /\ rawSeq' = rawSeq /\ today' = today
      BY <1>1 DEF store
    <3> QED
      BY <2>1, <2>2, <2>4, <2>5, <3>1, <3>2, <3>3 DEF PassSafe
  <2>7. CursorSkipsNothing'
    BY <1>1, <2>4, <2>5 DEF PassSound, CursorSkipsNothing, store
  <2>8. RetentionTypeOK'
    BY <2>4 DEF RetentionTypeOK
  <2> QED
    BY <1>1, <2>6, <2>7, <2>8, PassStepPreserves DEF PassSound
<1> QED
  BY <1>4, <1>5, <1>6 DEF ScanBatch

LEMMA RetryDeletePreserves ==
  ASSUME IInv, up, RetryDelete,
         UNCHANGED <<handlers, abandoned, today, dayOfWeek, rules, up, exits>>
  PROVE  IInv'
<1>1. TypeOK /\ PassSound /\ UNCHANGED store /\ UNCHANGED <<today, dayOfWeek>>
  BY IInvParts DEF RetryDelete
<1>2. prune \in Pass /\ prune.pc = "delete"
  BY <1>1 DEF RetryDelete, TypeOK, RetentionTypeOK, Asleep
<1>3. /\ prune' \in Pass /\ prune' # Asleep
      /\ prune'.pc = prune.pc /\ prune'.lastId = prune.lastId /\ prune'.pending = prune.pending
      /\ prune'.now = prune.now /\ prune'.protected = prune.protected
  BY <1>2 DEF RetryDelete, Pass, Asleep
<1>4. RetentionTypeOK'
  BY <1>3 DEF RetentionTypeOK
<1>5. \A r \in rawPackets : ShouldRetain(r, prune, dayOfWeek) <=>
                            ShouldRetain(r, prune, dayOfWeek)'
  BY <1>1, <1>3 DEF ShouldRetain
<1>6. /\ \A p : Linked(p)' <=> Linked(p)
      /\ rawPackets' = rawPackets /\ rawSeq' = rawSeq /\ today' = today
  BY <1>1 DEF Linked, store
<1>7. PassSafe'
  <2>1. /\ prune.now <= today /\ prune.lastId <= rawSeq
        /\ \A r \in rawPackets : Linked(r.hash) => ShouldRetain(r, prune, dayOfWeek)
        /\ \A i \in prune.pending : i <= rawSeq
        /\ \A r \in rawPackets : r.id \in prune.pending => ~ShouldRetain(r, prune, dayOfWeek)
    BY <1>1, <1>2 DEF PassSound, PassSafe, Asleep
  <2> QED
    BY <1>2, <1>3, <1>5, <1>6, <2>1 DEF PassSafe
<1>8. CursorSkipsNothing'
  BY <1>1, <1>3, <1>5, <1>6 DEF PassSound, CursorSkipsNothing
<1> QED
  BY <1>1, <1>4, <1>7, <1>8, PassStepPreserves DEF PassSound

LEMMA PassFailsPreserves ==
  ASSUME IInv, up, PassFails,
         UNCHANGED <<handlers, abandoned, today, dayOfWeek, rules, up, exits>>
  PROVE  IInv'
<1>1. prune' = Asleep /\ UNCHANGED store
  BY DEF PassFails
<1>2. RetentionTypeOK' /\ PassSound'
  BY <1>1 DEF RetentionTypeOK, PassSound, PassSafe, CursorSkipsNothing, Asleep
<1> QED
  BY <1>1, <1>2, PassStepPreserves

(***************************************************************************)
(* What a chunk deletes: no linked row, no check-in, no link and no packet *)
(* of a call in flight.                                                    *)
(***************************************************************************)
LEMMA DeleteChunkSpares ==
  ASSUME IInv, DeleteChunk
  PROVE  /\ rawPackets' \subseteq rawPackets
         /\ \A r \in rawPackets : ShouldRetain(r, prune, dayOfWeek) => r \in rawPackets'
         /\ \A r \in rawPackets : Linked(r.hash) => r \in rawPackets'
         /\ \A o \in observations : Linked(o.hash) => o \in observations'
         /\ \A w \in Workers, r \in rawPackets :
              Crediting(handlers[w]) /\ r.hash = handlers[w].packet => r \in rawPackets'
         /\ UNCHANGED <<checkins, checkinPackets, rawSeq, checkinSeq>>
<1> DEFINE chunk == Smallest(prune.pending, ChunkSize)
           gone == {r.hash : r \in {s \in rawPackets : s.id \in chunk}}
<1>1. /\ TypeOK /\ TablesSound /\ CallsSound /\ PassSound /\ prune.pc = "delete"
      /\ prune \in Pass /\ prune # Asleep
  BY IInvParts DEF DeleteChunk, TypeOK, RetentionTypeOK, Asleep
<1>2. chunk \subseteq prune.pending
  BY DEF Smallest
<1>3. /\ rawPackets' = {r \in rawPackets : r.id \notin chunk}
      /\ checkins' = {c \in checkins : c.hash \notin gone}
      /\ observations' = {o \in observations : o.hash \notin gone}
      /\ checkinPackets' = {l \in checkinPackets : l.hash \notin gone}
      /\ UNCHANGED <<rawSeq, checkinSeq>>
  BY DEF DeleteChunk, DeleteRawPackets
<1>4. \A r \in rawPackets : r.id \in chunk => ~ShouldRetain(r, prune, dayOfWeek)
  BY <1>1, <1>2 DEF PassSound, PassSafe
<1>5. \A r \in rawPackets : Linked(r.hash) => r.id \notin chunk
  BY <1>1, <1>4 DEF PassSound, PassSafe
<1>6. \A p \in gone : ~Linked(p)
  BY <1>5
<1> HIDE DEF chunk, gone
<1>7. checkinPackets' = checkinPackets
  BY <1>3, <1>6 DEF Linked
<1>8. checkins' = checkins
  BY <1>1, <1>3, <1>6 DEF Linked, LinkRow, TablesSound, CheckinIsLinked
<1>9. ASSUME NEW w \in Workers, NEW r \in rawPackets, Crediting(handlers[w]),
             r.hash = handlers[w].packet
      PROVE  r \in rawPackets'
  <2>1. PICK s \in rawPackets : s.hash = handlers[w].packet /\ s.day = handlers[w].day
    BY <1>1, <1>9, CreditingCall DEF CallsSound
  <2>2. r = s
    BY <1>1, <1>9, <2>1 DEF TablesSound, RawKeys
  <2>3. handlers[w] # Idle /\ handlers[w].day \in Nat /\ dayOfWeek \in Weekdays
    BY <1>1, <1>9, CreditingCall DEF CallsSound
  <2>4. /\ prune.now \in Nat /\ prune.now <= today /\ today \in Nat
    BY <1>1, DayTypes DEF Pass, PassSound, PassSafe
  <2>5. today - handlers[w].day <= 6 /\ IsWeekday(handlers[w].day, dayOfWeek)
    BY <1>1, <2>3, <2>4, ServerAssumption DEF CallsSound, CallsRecent
  <2>6. AmbientKept(r.day, prune.now, dayOfWeek)
    BY <2>1, <2>2, <2>3, <2>4, <2>5, RecentIsKept
  <2> QED
    BY <1>3, <1>4, <2>6 DEF ShouldRetain
<1> QED
  BY <1>3, <1>4, <1>5, <1>6, <1>7, <1>8, <1>9

LEMMA DeleteChunkPreserves ==
  ASSUME IInv, up, DeleteChunk,
         UNCHANGED <<handlers, abandoned, today, dayOfWeek, rules, up, exits>>
  PROVE  IInv'
<1> DEFINE left == prune.pending \ Smallest(prune.pending, ChunkSize)
<1>1. /\ TypeOK /\ TablesSound /\ CallsSound /\ PassSound /\ prune.pc = "delete"
      /\ prune \in Pass /\ prune # Asleep
  BY IInvParts DEF DeleteChunk, TypeOK, RetentionTypeOK, Asleep
<1>2. /\ rawPackets' \subseteq rawPackets
      /\ \A r \in rawPackets : Linked(r.hash) => r \in rawPackets'
      /\ \A w \in Workers, r \in rawPackets :
           Crediting(handlers[w]) /\ r.hash = handlers[w].packet => r \in rawPackets'
      /\ UNCHANGED <<checkins, checkinPackets, rawSeq, checkinSeq>>
  BY DeleteChunkSpares
<1>3. observations' \subseteq observations
  BY DEF DeleteChunk, DeleteRawPackets
<1>4. prune' = [prune EXCEPT !.pc = IF left = {} THEN "scan" ELSE "delete",
                             !.pending = left, !.attempt = 0]
  BY DEF DeleteChunk
<1>5. left \subseteq prune.pending /\ left \subseteq Nat
  BY <1>1 DEF Pass
<1> HIDE DEF left
<1>6. /\ prune' \in Pass /\ prune' # Asleep
      /\ prune'.pc \in {"scan", "delete"}
      /\ prune'.lastId = prune.lastId /\ prune'.pending = left
      /\ prune'.now = prune.now /\ prune'.protected = prune.protected
  BY <1>1, <1>4, <1>5 DEF Pass, Asleep
<1>7. TypeOK'
  BY <1>1, <1>2, <1>3, <1>6 DEF TypeOK, StoreTypeOK, IngestTypeOK, RetentionTypeOK
<1>8. \A p : Linked(p)' <=> Linked(p)
  BY <1>2 DEF Linked
<1>9. TablesSound'
  <2>1. \A l \in checkinPackets : \E r \in rawPackets' :
          r.hash = l.hash /\ r.day = l.week /\ r.user = l.user
    BY <1>1, <1>2 DEF TablesSound, CreditMatchesPacket, Linked
  <2>2. \A c \in checkins : \E r \in rawPackets' :
          /\ r.hash = c.hash /\ r.day = c.date /\ r.iata = c.iata
          /\ c.week = c.date /\ r.user = c.user
    <3> SUFFICES ASSUME NEW c \in checkins
                 PROVE  \E r \in rawPackets' :
                          /\ r.hash = c.hash /\ r.day = c.date /\ r.iata = c.iata
                          /\ c.week = c.date /\ r.user = c.user
      OBVIOUS
    <3>1. Linked(c.hash)
      BY <1>1 DEF TablesSound, CheckinIsLinked, Linked, LinkRow
    <3> QED
      BY <1>1, <1>2, <3>1 DEF TablesSound, CreditMatchesPacket
  <2>3. CreditMatchesPacket'
    BY <1>2, <2>1, <2>2 DEF CreditMatchesPacket
  <2>4. RawKeys'
    BY <1>1, <1>2 DEF TablesSound, RawKeys
  <2> QED
    BY <1>1, <1>2, <2>3, <2>4 DEF TablesSound, OneCheckinPerWeek, CheckinWeeks, CheckinIsLinked
<1>10. NoSilentLoss'
  BY <1>1, <1>2, LossUnchanged DEF CallsSound
<1>11. InFlightPacketStored'
  BY <1>1, <1>2 DEF CallsSound, InFlightPacketStored
<1>12. CallsRecent' /\ CallsInOrder'
  BY <1>1, <1>2 DEF CallsSound, CallsRecent, CallsInOrder
<1>13. \A r \in rawPackets : ShouldRetain(r, prune, dayOfWeek) <=>
                             ShouldRetain(r, prune, dayOfWeek)'
  BY <1>6 DEF ShouldRetain
<1>14. PassSafe'
  <2>1. /\ prune.now <= today /\ prune.lastId <= rawSeq
        /\ \A r \in rawPackets : Linked(r.hash) => ShouldRetain(r, prune, dayOfWeek)
        /\ \A i \in prune.pending : i <= rawSeq
        /\ \A r \in rawPackets : r.id \in prune.pending => ~ShouldRetain(r, prune, dayOfWeek)
    BY <1>1 DEF PassSound, PassSafe
  <2> QED
    BY <1>2, <1>5, <1>6, <1>8, <1>13, <2>1 DEF PassSafe
<1>15. CursorSkipsNothing'
  BY <1>1, <1>2, <1>6, <1>13 DEF PassSound, CursorSkipsNothing
<1>16. DownIsQuiet'
  BY DEF DownIsQuiet
<1> QED
  BY <1>7, <1>9, <1>10, <1>11, <1>12, <1>14, <1>15, <1>16
     DEF IInv, TablesSound, CallsSound, PassSound

--------------------------------------------------------------------------------
LEMMA TickPreserves ==
  ASSUME IInv, Tick
  PROVE  IInv'
<1>1. /\ TypeOK /\ TablesSound /\ CallsSound /\ PassSound /\ DownIsQuiet
      /\ today' \in Days /\ today < today'
      /\ UNCHANGED <<store, handlers, abandoned, prune, dayOfWeek, rules, up, exits>>
  BY IInvParts DEF Tick
<1>2. today \in Nat /\ today' \in Nat
  BY <1>1, DayTypes
<1>3. TypeOK'
  BY <1>1 DEF TypeOK, StoreTypeOK, IngestTypeOK, RetentionTypeOK, store
<1>4. TablesSound'
  BY <1>1, TablesUnchanged
<1>5. NoSilentLoss' /\ InFlightPacketStored' /\ CallsInOrder'
  BY <1>1 DEF CallsSound, NoSilentLoss, InFlightPacketStored, InFlight, Settled, CallsInOrder,
     store
<1>6. CallsRecent'
  <2> SUFFICES ASSUME NEW w \in Workers, handlers[w] # Idle
               PROVE  /\ handlers[w].day \in Days
                      /\ handlers[w].day <= today'
                      /\ today' - handlers[w].day <= MaxHandlerDays
                      /\ IsWeekday(handlers[w].day, dayOfWeek)
    BY <1>1 DEF CallsRecent
  <2>1. /\ handlers[w].day \in Days /\ handlers[w].day <= today
        /\ IsWeekday(handlers[w].day, dayOfWeek)
    BY <1>1 DEF CallsSound, CallsRecent
  <2>2. handlers[w].day \in Nat
    BY <1>1, <2>1, DayTypes
  <2> QED
    BY <1>1, <1>2, <2>1, <2>2 DEF Tick
<1>7. PassSound'
  BY <1>1, <1>2, PassUnchanged
<1>8. DownIsQuiet'
  BY <1>1 DEF DownIsQuiet
<1> QED
  BY <1>3, <1>4, <1>5, <1>6, <1>7, <1>8 DEF IInv, TablesSound, CallsSound, PassSound

LEMMA ExitPreserves ==
  ASSUME IInv, Exit
  PROVE  IInv'
<1>1. /\ TypeOK /\ TablesSound /\ CallsSound
      /\ UNCHANGED store /\ UNCHANGED <<today, dayOfWeek, rules>>
      /\ prune' = Asleep /\ up' = FALSE
  BY IInvParts DEF Exit
<1>2. /\ handlers' \in [Workers -> Call \cup {Idle}]
      /\ \A w \in Workers : handlers'[w] = Idle /\ handlers'[w].pc = "idle"
  BY DEF Exit, DropHandlers, Idle
<1>3. \A w \in Workers : Crediting(handlers[w]) => handlers[w].packet \in abandoned'
  BY DEF Exit, DropHandlers
<1>4. abandoned \subseteq abandoned' /\ abandoned' \subseteq Packets
  <2>1. \A w \in Workers : Crediting(handlers[w]) => handlers[w].packet \in Packets
    BY <1>1, CreditingCall DEF CallsSound, Call
  <2> QED
    BY <1>1, <2>1 DEF Exit, DropHandlers, TypeOK, IngestTypeOK
<1>5. exits' \in 0..MaxExits
  BY <1>1, ServerAssumption DEF Exit, TypeOK
<1>6. TypeOK'
  BY <1>1, <1>2, <1>4, <1>5 DEF TypeOK, StoreTypeOK, IngestTypeOK, RetentionTypeOK, store
<1>7. TablesSound'
  BY <1>1, TablesUnchanged
<1>8. NoSilentLoss'
  BY <1>1, <1>3, <1>4, LossUnchanged DEF CallsSound, store
<1>9. InFlightPacketStored' /\ CallsRecent' /\ CallsInOrder'
  BY <1>2 DEF InFlightPacketStored, CallsRecent, CallsInOrder, Crediting
<1>10. PassSound'
  BY <1>1 DEF PassSound, PassSafe, CursorSkipsNothing, Asleep
<1>11. DownIsQuiet'
  BY <1>1, <1>2 DEF DownIsQuiet
<1> QED
  BY <1>6, <1>7, <1>8, <1>9, <1>10, <1>11 DEF IInv, TablesSound, CallsSound, PassSound

(***************************************************************************)
(* Migrate finds nothing to clean up: HandleMessage has kept one check-in  *)
(* per user and week and has linked every check-in.                        *)
(***************************************************************************)
LEMMA MigrateIsIdle ==
  ASSUME TypeOK, OneCheckinPerWeek, CheckinIsLinked, Migrate
  PROVE  UNCHANGED store
<1> DEFINE oldest == {c \in checkins :
                        \A d \in checkins : d.week = c.week /\ d.user = c.user => c.id <= d.id}
<1>1. \A c \in checkins : c.id \in Nat
  BY DEF TypeOK, StoreTypeOK, CheckinRow
<1>2. ASSUME NEW c \in checkins, NEW d \in checkins, d.week = c.week, d.user = c.user
      PROVE  c.id <= d.id
  <2>1. c = d
    BY <1>1, <1>2 DEF OneCheckinPerWeek
  <2> QED
    BY <1>1, <2>1
<1>3. oldest = checkins
  BY <1>2
<1>4. {LinkRow(c.week, c.user, c.hash) : c \in checkins} \subseteq checkinPackets
  BY <1>1 DEF CheckinIsLinked
<1> QED
  BY <1>3, <1>4 DEF Migrate, store

LEMMA StartPreserves ==
  ASSUME IInv, Start
  PROVE  IInv'
<1>1. /\ TypeOK /\ TablesSound /\ CallsSound
      /\ UNCHANGED store
      /\ UNCHANGED <<handlers, abandoned, prune, today, exits>>
      /\ up' = TRUE
      /\ dayOfWeek' \in CheckinDays /\ rules' \in Rules
  BY IInvParts, MigrateIsIdle DEF Start, TablesSound
<1>2. prune = Asleep /\ \A w \in Workers : handlers[w] = Idle
  BY DEF IInv, DownIsQuiet, Start
<1>3. TypeOK'
  BY <1>1 DEF TypeOK, StoreTypeOK, IngestTypeOK, RetentionTypeOK, store
<1>4. TablesSound'
  BY <1>1, TablesUnchanged
<1>5. NoSilentLoss' /\ InFlightPacketStored' /\ CallsInOrder'
  BY <1>1 DEF CallsSound, NoSilentLoss, InFlightPacketStored, InFlight, Settled, CallsInOrder,
     store
<1>6. CallsRecent'
  BY <1>1, <1>2 DEF CallsRecent
<1>7. PassSound'
  BY <1>1, <1>2 DEF PassSound, PassSafe, CursorSkipsNothing, Asleep
<1>8. DownIsQuiet'
  BY <1>1 DEF DownIsQuiet
<1> QED
  BY <1>3, <1>4, <1>5, <1>6, <1>7, <1>8 DEF IInv, TablesSound, CallsSound, PassSound

LEMMA StutterPreserves == IInv /\ UNCHANGED vars => IInv'
<1> SUFFICES ASSUME IInv, UNCHANGED vars PROVE IInv'
  OBVIOUS
<1>1. /\ TypeOK /\ TablesSound /\ CallsSound /\ PassSound /\ DownIsQuiet
      /\ UNCHANGED <<store, handlers, abandoned, prune, today, dayOfWeek, rules, up, exits>>
  BY IInvParts DEF vars
<1>2. TypeOK'
  BY <1>1 DEF TypeOK, StoreTypeOK, IngestTypeOK, RetentionTypeOK, store
<1>3. TablesSound'
  BY <1>1, TablesUnchanged
<1>4. NoSilentLoss' /\ InFlightPacketStored' /\ CallsInOrder' /\ CallsRecent'
  BY <1>1 DEF CallsSound, NoSilentLoss, InFlightPacketStored, InFlight, Settled, CallsInOrder,
     CallsRecent, store
<1>5. PassSound'
  <2>1. today \in Nat /\ today' = today
    BY <1>1, DayTypes
  <2> QED
    BY <1>1, <2>1, PassUnchanged
<1>6. DownIsQuiet'
  BY <1>1 DEF DownIsQuiet
<1> QED
  BY <1>2, <1>3, <1>4, <1>5, <1>6 DEF IInv, TablesSound, CallsSound, PassSound

\* Every step keeps the invariant.
THEOREM StepInvariant == IInv /\ [Next]_vars => IInv'
<1> SUFFICES ASSUME IInv, [Next]_vars PROVE IInv'
  OBVIOUS
<1>1. ASSUME NEW w \in Workers, Deliver(w) PROVE IInv'
  BY <1>1, DeliverPreserves
<1>2. ASSUME NEW w \in Workers, Handle(w) PROVE IInv'
  <2>1. /\ up /\ HandlerStep(w, dayOfWeek)
        /\ UNCHANGED <<prune, today, dayOfWeek, rules, up, exits>>
    BY <1>2 DEF Handle
  <2>2. TypeOK /\ CallsInOrder
    BY DEF IInv
  <2> QED
    BY <2>1, <2>2, QuietSteps, CallStepPreserves, StoreRawPreserves, StoreLinkPreserves,
       StoreCheckinPreserves
<1>3. CASE BeginPrune
  BY <1>3, BeginPrunePreserves
<1>4. CASE PruneStep
  <2>1. /\ up /\ PassStep(dayOfWeek)
        /\ UNCHANGED <<handlers, abandoned, today, dayOfWeek, rules, up, exits>>
    BY <1>4 DEF PruneStep
  <2> QED
    BY <2>1, ReadProtectedPreserves, ScanBatchPreserves, DeleteChunkPreserves,
       RetryDeletePreserves, PassFailsPreserves DEF PassStep
<1>5. CASE Tick
  BY <1>5, TickPreserves
<1>6. CASE Exit
  BY <1>6, ExitPreserves
<1>7. CASE Start
  BY <1>7, StartPreserves
<1>8. CASE UNCHANGED vars
  BY <1>8, StutterPreserves
<1> QED
  BY <1>1, <1>2, <1>3, <1>4, <1>5, <1>6, <1>7, <1>8 DEF Next

\* The inductive invariant holds in every reachable state of the server.
THEOREM ServerInvariantHolds == Spec => []IInv
  BY InitInvariant, StepInvariant, PTL DEF Spec

--------------------------------------------------------------------------------
\* The type invariant, for every value of the constants.
THEOREM TypeCorrect == Spec => []TypeOK
<1>1. IInv => TypeOK
  BY DEF IInv
<1> QED
  BY <1>1, ServerInvariantHolds, PTL

\* No check-in packet is lost but by an error or an exit that cut its call short.
THEOREM NothingLostSilently == Spec => []NoSilentLoss
<1>1. IInv => NoSilentLoss
  BY DEF IInv
<1> QED
  BY <1>1, ServerInvariantHolds, PTL

\* The packet of a call in flight is never pruned under it.
THEOREM InFlightPacketsSafe == Spec => []InFlightPacketStored
<1>1. IInv => InFlightPacketStored
  BY DEF IInv
<1> QED
  BY <1>1, ServerInvariantHolds, PTL

\* Links, check-ins and raw packets always agree, and every check-in is linked.
THEOREM CreditsSound == Spec => [](CreditMatchesPacket /\ CheckinIsLinked)
<1>1. IInv => CreditMatchesPacket /\ CheckinIsLinked
  BY DEF IInv
<1> QED
  BY <1>1, ServerInvariantHolds, PTL

\* A check-in has the link of its own packet, whatever failed or ended between.
THEOREM CheckinsLinked == Spec => []CheckinIsLinked
<1>1. IInv => CheckinIsLinked
  BY DEF IInv
<1> QED
  BY <1>1, ServerInvariantHolds, PTL

\* A retention pass skips no row it has to delete.
THEOREM CursorSound == Spec => []CursorSkipsNothing
<1>1. IInv => CursorSkipsNothing
  BY DEF IInv
<1> QED
  BY <1>1, ServerInvariantHolds, PTL

--------------------------------------------------------------------------------
\* A handler only ever adds rows.
LEMMA HandlerAddsOnly ==
  ASSUME NEW w \in Workers, HandlerStep(w, dayOfWeek)
  PROVE  /\ rawPackets \subseteq rawPackets'
         /\ observations \subseteq observations'
         /\ checkinPackets \subseteq checkinPackets'
         /\ checkins \subseteq checkins'
<1>1. CASE StoreRaw(w)
  BY <1>1 DEF StoreRaw, InsertRawPacket
<1>2. CASE StoreObservation(w)
  BY <1>2 DEF StoreObservation, InsertPacketObservation
<1>3. CASE StoreLink(w, dayOfWeek)
  BY <1>3 DEF StoreLink, InsertCheckinPacket
<1>4. CASE StoreCheckin(w, dayOfWeek)
  BY <1>4 DEF StoreCheckin, InsertCheckin
<1>5. CASE UNCHANGED store
  BY <1>5 DEF store
<1> QED
  BY <1>1, <1>2, <1>3, <1>4, <1>5
     DEF HandlerStep, RetryBusy, RawFails, ObservationFails, CreditFails

\* Which steps write the tables at all.
LEMMA WritingSteps ==
  ASSUME TypeOK, OneCheckinPerWeek, CheckinIsLinked, [Next]_vars
  PROVE  \/ UNCHANGED store
         \/ \E w \in Workers : HandlerStep(w, dayOfWeek)
         \/ DeleteChunk
<1>1. ASSUME NEW w \in Workers, Deliver(w) PROVE UNCHANGED store
  BY <1>1 DEF Deliver, Receive
<1>2. ASSUME NEW w \in Workers, Handle(w) PROVE HandlerStep(w, dayOfWeek)
  BY <1>2 DEF Handle
<1>3. CASE PruneStep
  BY <1>3 DEF PruneStep, PassStep, ReadProtected, ScanBatch, RetryDelete, PassFails
<1>4. CASE BeginPrune \/ Tick \/ Exit \/ UNCHANGED vars
  BY <1>4 DEF BeginPrune, StartPass, Tick, Exit, vars, store
<1>5. CASE Start
  BY <1>5, MigrateIsIdle DEF Start
<1> QED
  BY <1>1, <1>2, <1>3, <1>4, <1>5 DEF Next

LEMMA StepKeepsLinkedRows == IInv /\ [Next]_vars => KeepsLinkedRows
<1> SUFFICES ASSUME IInv, [Next]_vars PROVE KeepsLinkedRows
  OBVIOUS
<1>1. CASE UNCHANGED store
  BY <1>1 DEF KeepsLinkedRows, store
<1>2. ASSUME NEW w \in Workers, HandlerStep(w, dayOfWeek) PROVE KeepsLinkedRows
  BY <1>2, HandlerAddsOnly DEF KeepsLinkedRows
<1>3. CASE DeleteChunk
  BY <1>3, DeleteChunkSpares DEF KeepsLinkedRows
<1> QED
  BY <1>1, <1>2, <1>3, WritingSteps DEF IInv

LEMMA StepKeepsRetainedWeeks == IInv /\ [Next]_vars => KeepsRetainedWeeks
<1> SUFFICES ASSUME IInv, [Next]_vars PROVE KeepsRetainedWeeks
  OBVIOUS
<1>1. CASE UNCHANGED store
  BY <1>1 DEF KeepsRetainedWeeks, store
<1>2. ASSUME NEW w \in Workers, HandlerStep(w, dayOfWeek) PROVE KeepsRetainedWeeks
  BY <1>2, HandlerAddsOnly DEF KeepsRetainedWeeks
<1>3. CASE DeleteChunk
  <2> SUFFICES ASSUME NEW r \in rawPackets, OfRetainedWeeks(r)
               PROVE  ShouldRetain(r, prune, dayOfWeek)
    BY <1>3, DeleteChunkSpares DEF KeepsRetainedWeeks
  <2>1. /\ TypeOK /\ PassSafe /\ prune \in Pass /\ prune # Asleep
    BY <1>3 DEF IInv, DeleteChunk, TypeOK, RetentionTypeOK, Asleep
  <2>2. /\ r.day \in Nat /\ today \in Nat /\ dayOfWeek \in Weekdays
        /\ prune.now \in Nat /\ prune.now <= today
    BY <2>1, DayTypes DEF TypeOK, StoreTypeOK, RawRow, Pass, PassSafe
  <2>3. prune.now - r.day < 7 * (RetainWeeks + 1)
    BY <2>2, RetentionAssumption DEF OfRetainedWeeks
  <2> QED
    BY <2>2, <2>3, AmbientKeptExactly DEF OfRetainedWeeks, ShouldRetain
<1> QED
  BY <1>1, <1>2, <1>3, WritingSteps DEF IInv

(***************************************************************************)
(* Retention never removes a packet of the weeks it is to retain, also not *)
(* when days pass between the start of the pass and the delete.            *)
(***************************************************************************)
THEOREM RetentionKeepsRetainedWeeks == Spec => RetainedWeeksKept
<1>1. IInv /\ [Next]_vars => [KeepsRetainedWeeks]_vars
  BY StepKeepsRetainedWeeks
<1> QED
  BY <1>1, ServerInvariantHolds, PTL DEF Spec, RetainedWeeksKept

(***************************************************************************)
(* Retention never removes a check-in, a link, a linked raw packet or one  *)
(* of its observations, although its snapshot may be arbitrarily old.      *)
(***************************************************************************)
THEOREM RetentionKeepsLinkedRows == Spec => LinkedRowsKept
<1>1. IInv /\ [Next]_vars => [KeepsLinkedRows]_vars
  BY StepKeepsLinkedRows
<1> QED
  BY <1>1, ServerInvariantHolds, PTL DEF Spec, LinkedRowsKept

--------------------------------------------------------------------------------
LEMMA CheckinGivesCredit ==
  ASSUME TypeOK, CallsRecent, CallsInOrder, InFlightPacketStored,
         NEW w \in Workers, StoreCheckin(w, dayOfWeek)
  PROVE  [Board!Next]_Credits
<1> DEFINE h == handlers[w]
           user == h.user
           row == [id |-> checkinSeq + 1, hash |-> h.packet, user |-> user, iata |-> h.iata,
                   date |-> h.day, week |-> h.day]
           credit == [week |-> h.day, user |-> user, hash |-> h.packet]
<1>1. Crediting(h)
  BY DEF CallsInOrder, StoreCheckin
<1>2. /\ h \in Call /\ user \in Users /\ h.day \in Days
      /\ WeekStart(h.day, dayOfWeek) = h.day
  BY <1>1, CreditingCall
<1>3. CASE checkins' = checkins
  BY <1>3 DEF Credits
<1>4. CASE /\ ~CheckinConflict(h.day, user, h.packet)
           /\ checkins' = checkins \cup {row}
  <2>1. Credits' = Credits \cup {credit}
    <3> DEFINE shown(c) == [week |-> c.week, user |-> c.user, hash |-> c.hash]
    <3>1. shown(row) = credit
      OBVIOUS
    <3>2. /\ Credits = {shown(c) : c \in checkins}
          /\ Credits' = {shown(c) : c \in checkins'}
      BY DEF Credits
    <3> HIDE DEF shown, row, credit
    <3> QED
      BY <1>4, <3>1, <3>2
  <2>2. credit \in Board!Credit
    BY <1>2 DEF Board!Credit, Call
  <2>3. Board!Free(credit)
    BY <1>4 DEF Board!Free, Credits, CheckinConflict
  <2> HIDE DEF credit
  <2> QED
    BY <2>1, <2>2, <2>3 DEF Board!Next, Board!Give
<1> QED
  BY <1>2, <1>3, <1>4 DEF StoreCheckin, InsertCheckin

\* A call gives a credit by its last write and leaves the board alone otherwise.
LEMMA CallRefinesBoard ==
  ASSUME TypeOK, CallsRecent, CallsInOrder, InFlightPacketStored,
         NEW w \in Workers, HandlerStep(w, dayOfWeek)
  PROVE  [Board!Next]_Credits
<1>1. CASE StoreCheckin(w, dayOfWeek)
  BY <1>1, CheckinGivesCredit
<1>2. CASE checkins' = checkins
  BY <1>2 DEF Credits
<1> QED
  BY <1>1, <1>2
     DEF HandlerStep, StoreRaw, InsertRawPacket, StoreObservation, InsertPacketObservation,
         StoreLink, InsertCheckinPacket, RetryBusy, RawFails, ObservationFails, CreditFails,
         store

LEMMA StepRefinesBoard == IInv /\ [Next]_vars => [Board!Next]_Credits
<1> SUFFICES ASSUME IInv, [Next]_vars PROVE [Board!Next]_Credits
  OBVIOUS
<1>1. CASE UNCHANGED store
  BY <1>1 DEF Credits, store
<1>2. ASSUME NEW w \in Workers, HandlerStep(w, dayOfWeek) PROVE [Board!Next]_Credits
  BY <1>2, CallRefinesBoard DEF IInv
<1>3. CASE DeleteChunk
  BY <1>3, DeleteChunkSpares DEF Credits
<1> QED
  BY <1>1, <1>2, <1>3, WritingSteps DEF IInv

(***************************************************************************)
(* The server implements the abstract board: at most one credit per user   *)
(* and week and per packet, the first one stands, none is withdrawn.       *)
(***************************************************************************)
THEOREM ImplementsBoard == Spec => BoardSpec
<1>1. Init => Board!Init
  BY DEF Init, StoreInit, Board!Init, Credits
<1> QED
  BY <1>1, StepRefinesBoard, ServerInvariantHolds, PTL DEF Spec, BoardSpec, Board!Spec

--------------------------------------------------------------------------------
\* In a state of the invariant a check-in shows under the region it came from.
LEMMA RegionOfCheckin == IInv => OwnRegionShowsCheckin
<1> SUFFICES ASSUME IInv,
                    NEW c \in checkins, NEW filter \in SUBSET Regions, c.iata \in filter
             PROVE  \E row \in ListCheckinsByWeek(filter, c.week) : row.id = c.id
  BY DEF OwnRegionShowsCheckin
<1> DEFINE link == LinkRow(c.week, c.user, c.hash)
<1>1. link \in checkinPackets
  BY DEF IInv, CheckinIsLinked
<1>2. link.week = c.week /\ link.user = c.user /\ link.hash = c.hash
  BY DEF LinkRow
<1>3. link \in Transmissions(c)
  BY <1>1, <1>2 DEF Transmissions
<1>4. PICK r \in rawPackets : r.hash = c.hash /\ r.iata = c.iata
  BY DEF IInv, CreditMatchesPacket
<1>5. InRegions(c, filter)
  BY <1>2, <1>3, <1>4 DEF InRegions
<1> DEFINE row == [id |-> c.id, user |-> c.user, observers |-> ObserversOf(c)]
<1>6. row \in ListCheckinsByWeek(filter, c.week)
  BY <1>5 DEF ListCheckinsByWeek
<1> QED
  BY <1>6

\* A step that keeps the linked rows keeps every row of every page.
LEMMA KeptRowsStayOnPages == KeepsLinkedRows => PagesKeepRows
<1> SUFFICES ASSUME KeepsLinkedRows,
                    NEW filter \in SUBSET Regions, NEW week \in Days,
                    NEW row \in ListCheckinsByWeek(filter, week)
             PROVE  \E next \in ListCheckinsByWeek(filter, week)' :
                      next.id = row.id /\ row.observers \subseteq next.observers
  BY DEF PagesKeepRows
<1>1. PICK c \in checkins :
        /\ c.week = week
        /\ InRegions(c, filter)
        /\ row = [id |-> c.id, user |-> c.user, observers |-> ObserversOf(c)]
  BY DEF ListCheckinsByWeek
<1> DEFINE next == [id |-> c.id, user |-> c.user, observers |-> ObserversOf(c)']
<1>2. c \in checkins'
  BY DEF KeepsLinkedRows
<1>3. Transmissions(c) \subseteq Transmissions(c)'
  BY DEF KeepsLinkedRows, Transmissions
<1>4. InRegions(c, filter)'
  <2>1. CASE filter = {}
    BY <2>1 DEF InRegions
  <2>2. CASE filter # {}
    <3>1. PICK l \in Transmissions(c), r \in rawPackets :
            r.hash = l.hash /\ r.iata \in filter
      BY <1>1, <2>2 DEF InRegions
    <3>2. Linked(r.hash)
      BY <3>1 DEF Linked, Transmissions
    <3>3. r \in rawPackets'
      BY <3>2 DEF KeepsLinkedRows
    <3> QED
      BY <1>3, <3>1, <3>3 DEF InRegions
  <2> QED
    BY <2>1, <2>2
<1>5. ObserversOf(c) \subseteq ObserversOf(c)'
  <2> SUFFICES ASSUME NEW name \in ObserversOf(c)
               PROVE  name \in ObserversOf(c)'
    OBVIOUS
  <2>1. PICK o \in observations, l \in Transmissions(c) :
          name = o.observer /\ l.hash = o.hash
    BY DEF ObserversOf
  <2>2. Linked(o.hash)
    BY <2>1 DEF Linked, Transmissions
  <2>3. o \in observations'
    BY <2>2 DEF KeepsLinkedRows
  <2> QED
    BY <1>3, <2>1, <2>3 DEF ObserversOf
<1>6. next \in ListCheckinsByWeek(filter, week)'
  BY <1>1, <1>2, <1>4 DEF ListCheckinsByWeek
<1> QED
  BY <1>1, <1>5, <1>6

--------------------------------------------------------------------------------
(***************************************************************************)
(* A filter that names the region a check-in was heard in shows it         *)
(* (ListCheckinsByWeek joins the links, HandleMessage stores the link      *)
(* before the check-in).                                                   *)
(***************************************************************************)
THEOREM OwnRegionAlwaysShows == Spec => []OwnRegionShowsCheckin
  BY ServerInvariantHolds, RegionOfCheckin, PTL

(***************************************************************************)
(* Whoever is on a page of the board stays on it, with all observers: the  *)
(* stale snapshot of PruneRawPackets never reaches a reader.               *)
(***************************************************************************)
THEOREM PagesOnlyGrow == Spec => BoardOnlyGrows
<1>1. [KeepsLinkedRows]_vars => [PagesKeepRows]_vars
  BY KeptRowsStayOnPages
<1> QED
  BY <1>1, RetentionKeepsLinkedRows, PTL DEF LinkedRowsKept, BoardOnlyGrows

================================================================================
