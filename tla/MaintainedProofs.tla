--------------------------- MODULE MaintainedProofs ----------------------------
(***************************************************************************)
(* The server and the restore command on one database, for every number of *)
(* runs, workers, packets and days.  The invariant of the server alone     *)
(* does not hold here (the command links rows a pass has already chosen to *)
(* delete), so this is a weaker one, about check-ins instead of links.     *)
(***************************************************************************)
EXTENDS MaintainedServer, ServerProofs

\* A pass keeps the packets of check-ins; it need not keep linked ones.
PassKeepsCheckins ==
  /\ prune # Asleep => prune.now <= today
  /\ prune.pc \in {"scan", "delete"} =>
       \A c \in checkins, r \in rawPackets :
         r.hash = c.hash => ShouldRetain(r, prune, dayOfWeek)
  /\ prune.pc = "delete" =>
       /\ \A i \in prune.pending : i <= rawSeq
       /\ \A r \in rawPackets : r.id \in prune.pending => ~ShouldRetain(r, prune, dayOfWeek)

MaintainedTables ==
  /\ RawKeys
  /\ OneCheckinPerWeek
  /\ CheckinIsLinked
  /\ OnlyLinkWeeksGoStale

\* A call in flight credits the user that some rules find in its packet.
CallsByRules ==
  \A w \in Workers : handlers[w] # Idle => handlers[w].user \in NamedBy(handlers[w].packet)

MaintainedCalls ==
  /\ InFlightPacketStored
  /\ CallsRecent
  /\ CallsInOrder
  /\ CallsByRules

\* What holds of the variables of the server.
ServerSound ==
  /\ TypeOK
  /\ MaintainedTables
  /\ MaintainedCalls
  /\ PassKeepsCheckins
  /\ DownIsQuiet

\* The rows of the cursor have been stored before.
RowsKnown ==
  restore # Stopped => \A r \in restore.done \cup restore.remaining : r.id <= rawSeq

\* What holds of a run of the command.
RestoreSound ==
  /\ RestoreTypeOK
  /\ restores \in 0..MaxRestores
  /\ RowsKnown
  /\ RestoredRowsLinked

MInv == ServerSound /\ RestoreSound

LEMMA InitEstablishes == MaintainedInit => MInv
<1> SUFFICES ASSUME MaintainedInit PROVE MInv
  OBVIOUS
<1> USE DEF MaintainedInit, Init, StoreInit, RestoreInit
<1>1. IInv
  BY InitInvariant
<1>2. TypeOK /\ MaintainedCalls /\ DownIsQuiet /\ RawKeys
  BY <1>1 DEF IInv, MaintainedCalls, CallsByRules, IngestInit
<1>3. MaintainedTables
  BY <1>2 DEF MaintainedTables, OneCheckinPerWeek, CheckinIsLinked, OnlyLinkWeeksGoStale
<1>4. PassKeepsCheckins
  BY DEF PassKeepsCheckins, RetentionInit, Asleep
<1>5. RestoreSound
  BY MaintainedAssumption DEF RestoreSound, RestoreTypeOK, RowsKnown, RestoredRowsLinked
<1> QED
  BY <1>2, <1>3, <1>4, <1>5 DEF MInv, ServerSound

--------------------------------------------------------------------------------
(***************************************************************************)
(* The tables stay sound when links of stored packets are added, whatever  *)
(* their week: a call and the command do no more than that.                *)
(***************************************************************************)
LEMMA LinksAdded ==
  ASSUME MaintainedTables, UNCHANGED <<rawPackets, checkins, rawSeq>>,
         checkinPackets \subseteq checkinPackets',
         \A l \in checkinPackets' \ checkinPackets : Stored(l.hash) /\ l.user \in NamedBy(l.hash)
  PROVE  MaintainedTables'
<1>1. RawKeys' /\ OneCheckinPerWeek' /\ CheckinIsLinked'
  BY DEF MaintainedTables, RawKeys, OneCheckinPerWeek, CheckinIsLinked
<1>2. OnlyLinkWeeksGoStale'
  BY DEF MaintainedTables, OnlyLinkWeeksGoStale, Stored
<1> QED
  BY <1>1, <1>2 DEF MaintainedTables

\* The pass does not look at links once it has its snapshot.
LEMMA PassUndisturbed ==
  ASSUME TypeOK, PassKeepsCheckins,
         UNCHANGED <<rawPackets, checkins, rawSeq, prune, dayOfWeek>>,
         today' \in Nat, today <= today'
  PROVE  PassKeepsCheckins'
<1>1. today \in Nat /\ (prune # Asleep => prune.now \in Nat)
  BY DayTypes DEF TypeOK, RetentionTypeOK, Pass, Asleep
<1> QED
  BY <1>1 DEF PassKeepsCheckins, ShouldRetain

LEMMA SameToday == TypeOK /\ UNCHANGED today => today' \in Nat /\ today <= today'
  BY DayTypes

LEMMA QuietCallKeeps ==
  ASSUME ServerSound, up, QuietCallStep, UNCHANGED <<prune, today, dayOfWeek, rules, up, exits>>
  PROVE  ServerSound'
<1> USE DEF QuietCallStep
<1>1. TypeOK /\ MaintainedTables /\ MaintainedCalls /\ PassKeepsCheckins
  BY DEF ServerSound
<1>2. TypeOK'
  BY <1>1 DEF TypeOK, StoreTypeOK, IngestTypeOK, RetentionTypeOK
<1>3. MaintainedTables'
  BY <1>1, LinksAdded
<1>4. InFlightPacketStored'
  BY <1>1, InFlightUnchanged DEF MaintainedCalls
<1>5. CallsRecent'
  BY <1>1 DEF MaintainedCalls, CallsRecent
<1>6. CallsInOrder'
  BY <1>1 DEF MaintainedCalls, CallsInOrder, SameCredit
<1>7. CallsByRules'
  BY <1>1 DEF MaintainedCalls, CallsByRules
<1>8. PassKeepsCheckins'
  BY <1>1, SameToday, PassUndisturbed
<1>9. DownIsQuiet'
  BY DEF DownIsQuiet
<1> QED
  BY <1>2, <1>3, <1>4, <1>5, <1>6, <1>7, <1>8, <1>9 DEF ServerSound, MaintainedCalls

LEMMA DeliverKeeps ==
  ASSUME ServerSound, NEW w \in Workers, Deliver(w)
  PROVE  ServerSound'
<1> PICK p \in Packets, region \in Regions, observer \in Observers :
      Receive(w, p, Candidate[rules][p], region, observer, today, dayOfWeek)
  BY DEF Deliver
<1> DEFINE call == [pc |-> "raw", packet |-> p, user |-> Candidate[rules][p],
                    iata |-> region, observer |-> observer, day |-> today,
                    inserted |-> FALSE, attempt |-> 0]
<1>1. /\ TypeOK /\ MaintainedTables /\ MaintainedCalls /\ PassKeepsCheckins
      /\ UNCHANGED <<store, abandoned, prune, today, dayOfWeek, rules, up, exits>>
      /\ handlers[w] = Idle
      /\ handlers' = [handlers EXCEPT ![w] = call]
      /\ up
      /\ IsWeekday(today, dayOfWeek)
  BY DEF ServerSound, Deliver, Receive
<1>2. today \in Nat /\ today \in Days
  BY <1>1, DayTypes DEF TypeOK
<1>3. call \in Call
  BY <1>1, <1>2, IngestAssumption DEF Call, TypeOK
<1>4. TypeOK'
  BY <1>1, <1>3 DEF TypeOK, IngestTypeOK, StoreTypeOK, RetentionTypeOK, store
<1>5. /\ handlers'[w] = call
      /\ \A v \in Workers : v # w => handlers'[v] = handlers[v]
  BY <1>1 DEF TypeOK, IngestTypeOK
<1>6. \A v \in Workers :
        /\ Crediting(handlers'[v]) <=> Crediting(handlers[v])
        /\ Crediting(handlers'[v]) => SameCredit(v)
  BY <1>1, <1>5, IdleIsIdle DEF Crediting, SameCredit
<1>7. InFlightPacketStored'
  BY <1>1, <1>6, InFlightUnchanged DEF MaintainedCalls, store
<1>8. CallsRecent'
  <2>1. today - today <= MaxHandlerDays
    BY <1>2, ServerAssumption
  <2> QED
    BY <1>1, <1>2, <1>5, <2>1 DEF MaintainedCalls, CallsRecent
<1>9. CallsInOrder'
  BY <1>1, <1>5, <1>6 DEF MaintainedCalls, CallsInOrder, store
<1>10. CallsByRules'
  BY <1>1, <1>5 DEF MaintainedCalls, CallsByRules, NamedBy, TypeOK
<1>11. MaintainedTables' /\ PassKeepsCheckins'
  BY <1>1, LinksAdded, SameToday, PassUndisturbed DEF store
<1>12. DownIsQuiet'
  BY <1>1 DEF DownIsQuiet
<1> QED
  BY <1>4, <1>7, <1>8, <1>9, <1>11, <1>12, <1>10 DEF ServerSound, MaintainedCalls

LEMMA StoreRawKeeps ==
  ASSUME ServerSound, up, NEW w \in Workers, StoreRaw(w), ~Stored(handlers[w].packet),
         UNCHANGED <<prune, today, dayOfWeek, rules, up, exits>>
  PROVE  ServerSound'
<1> DEFINE h == handlers[w]
           next == [h EXCEPT !.pc = "observation", !.inserted = ~Stored(h.packet), !.attempt = 0]
           row == [id |-> rawSeq + 1, hash |-> h.packet, iata |-> h.iata, day |-> h.day,
                   user |-> h.user]
<1>1. /\ TypeOK /\ MaintainedTables /\ MaintainedCalls /\ PassKeepsCheckins
      /\ h.pc = "raw"
      /\ handlers' = [handlers EXCEPT ![w] = next]
      /\ UNCHANGED <<checkins, observations, checkinPackets, checkinSeq>>
      /\ rawSeq' = rawSeq + 1
      /\ rawPackets' = rawPackets \cup {row}
      /\ abandoned' \subseteq abandoned
  BY DEF ServerSound, StoreRaw, InsertRawPacket
<1>2. h \in Call /\ h # Idle
  BY <1>1, CallTypes DEF Idle
<1>3. /\ next \in Call
      /\ next.pc = "observation"
      /\ next.packet = h.packet /\ next.iata = h.iata /\ next.day = h.day
      /\ next.user = h.user
  BY <1>2 DEF Call
<1>4. next # Idle
  BY <1>3 DEF Idle
<1>5. handlers \in [Workers -> Call \cup {Idle}]
  BY <1>1 DEF TypeOK, IngestTypeOK
<1>6. /\ row.id = rawSeq + 1 /\ row.hash = h.packet /\ row.iata = h.iata /\ row.day = h.day
      /\ row.user = h.user
      /\ rawSeq \in Nat
      /\ row \in RawRow
  BY <1>1, <1>2 DEF RawRow, Call, TypeOK, StoreTypeOK
<1> HIDE DEF next, row
<1>7. /\ handlers' \in [Workers -> Call \cup {Idle}]
      /\ handlers'[w] = next
      /\ \A v \in Workers : v # w => handlers'[v] = handlers[v]
  BY <1>1, <1>3, <1>5
<1>8. \A r \in rawPackets : r.hash # h.packet /\ r.id \in Nat /\ r.id <= rawSeq
  BY <1>1 DEF Stored, MaintainedTables, RawKeys, TypeOK, StoreTypeOK, RawRow
<1>9. TypeOK'
  BY <1>1, <1>6, <1>7 DEF TypeOK, StoreTypeOK, IngestTypeOK, RetentionTypeOK
<1>10. MaintainedTables'
  <2>1. \A r \in rawPackets' : 0 < r.id /\ r.id <= rawSeq'
    BY <1>1, <1>6, <1>8 DEF MaintainedTables, RawKeys
  <2>2. \A r, s \in rawPackets' : r.id = s.id \/ r.hash = s.hash => r = s
    BY <1>1, <1>6, <1>8 DEF MaintainedTables, RawKeys
  <2>3. RawKeys'
    BY <2>1, <2>2 DEF RawKeys
  <2>4. OnlyLinkWeeksGoStale'
    BY <1>1 DEF MaintainedTables, OnlyLinkWeeksGoStale, Stored
  <2> QED
    BY <1>1, <2>3, <2>4 DEF MaintainedTables, OneCheckinPerWeek, CheckinIsLinked
<1>11. InFlightPacketStored'
  <2> SUFFICES ASSUME NEW v \in Workers, Crediting(handlers'[v])
               PROVE  \E r \in rawPackets' :
                        /\ r.hash = handlers'[v].packet
                        /\ r.day = handlers'[v].day
                        /\ r.iata = handlers'[v].iata
                        /\ r.user = handlers'[v].user
    BY DEF InFlightPacketStored
  <2>1. CASE v = w
    BY <1>1, <1>3, <1>6, <1>7, <2>1
  <2>2. CASE v # w
    BY <1>1, <1>7, <2>2 DEF MaintainedCalls, InFlightPacketStored
  <2> QED
    BY <2>1, <2>2
<1>12. CallsRecent' /\ CallsInOrder' /\ CallsByRules'
  BY <1>1, <1>2, <1>3, <1>4, <1>7 DEF MaintainedCalls, CallsRecent, CallsInOrder, CallsByRules
<1>13. PassKeepsCheckins'
  <2>1. \A c \in checkins : c.hash # row.hash
    BY <1>1, <1>6, <1>8 DEF MaintainedTables, OnlyLinkWeeksGoStale
  <2>2. \A c \in checkins, r \in rawPackets' : r.hash = c.hash => r \in rawPackets
    BY <1>1, <2>1
  <2>3. ASSUME prune.pc = "delete"
        PROVE  /\ \A i \in prune.pending : i <= rawSeq'
               /\ \A r \in rawPackets' : r.id \in prune.pending =>
                                           ~ShouldRetain(r, prune, dayOfWeek)
    <3>1. prune.pending \subseteq Nat
      BY <1>1, <2>3 DEF TypeOK, RetentionTypeOK, Pass, Asleep
    <3>2. \A i \in prune.pending : i <= rawSeq /\ i # row.id
      BY <1>1, <1>6, <2>3, <3>1 DEF PassKeepsCheckins
    <3> QED
      BY <1>1, <1>6, <2>3, <3>1, <3>2 DEF PassKeepsCheckins
  <2> QED
    BY <1>1, <2>2, <2>3 DEF PassKeepsCheckins, ShouldRetain
<1>14. DownIsQuiet'
  BY DEF DownIsQuiet
<1> QED
  BY <1>9, <1>10, <1>11, <1>12, <1>13, <1>14 DEF ServerSound, MaintainedCalls

LEMMA StoreLinkKeeps ==
  ASSUME ServerSound, up, NEW w \in Workers, StoreLink(w, dayOfWeek),
         UNCHANGED <<prune, today, dayOfWeek, rules, up, exits>>
  PROVE  ServerSound'
<1> DEFINE h == handlers[w]
           link == LinkRow(h.day, h.user, h.packet)
<1>1. /\ TypeOK /\ MaintainedTables /\ MaintainedCalls /\ PassKeepsCheckins
      /\ h.pc = "link"
      /\ Crediting(h)
  BY DEF ServerSound, StoreLink, MaintainedCalls, CallsInOrder
<1>2. /\ h \in Call /\ h # Idle
      /\ h.user \in Users
      /\ h.day \in Days /\ h.day \in Nat
      /\ WeekStart(h.day, dayOfWeek) = h.day
  BY <1>1, CreditingCall DEF MaintainedCalls
<1>3. /\ checkinPackets' = checkinPackets \cup {link}
      /\ Stored(h.packet)
      /\ UNCHANGED <<rawPackets, checkins, observations, rawSeq, checkinSeq, abandoned>>
      /\ Continue(w, "checkin")
  BY <1>2 DEF StoreLink, InsertCheckinPacket
<1>4. /\ handlers' \in [Workers -> Call \cup {Idle}]
      /\ handlers'[w].pc = "checkin"
      /\ handlers'[w] # Idle
      /\ handlers'[w].packet = h.packet
      /\ handlers'[w].iata = h.iata
      /\ handlers'[w].user = h.user
      /\ handlers'[w].day = h.day
      /\ handlers'[w].inserted = h.inserted
      /\ \A v \in Workers : v # w => handlers'[v] = handlers[v]
  BY <1>1, <1>2, <1>3, ContinueEffect
<1>5. Crediting(handlers'[w])
  BY <1>1, <1>4 DEF Crediting
<1>6. link \in Link
  BY <1>2 DEF LinkRow, Link, Call
<1>7. link.user = h.user /\ link.hash = h.packet
  BY DEF LinkRow
<1> HIDE DEF link, h
<1>8. TypeOK'
  BY <1>1, <1>3, <1>4, <1>6 DEF TypeOK, StoreTypeOK, IngestTypeOK, RetentionTypeOK
<1>9. MaintainedTables'
  <2>1. link.user \in NamedBy(link.hash)
    BY <1>1, <1>2, <1>7 DEF MaintainedCalls, CallsByRules, h
  <2> QED
    BY <1>1, <1>3, <1>7, <2>1, LinksAdded
<1>10. InFlightPacketStored'
  <2>1. \A v \in Workers : Crediting(handlers'[v]) => SameCredit(v)
    BY <1>1, <1>4 DEF SameCredit, h
  <2> QED
    BY <1>1, <1>3, <2>1, InFlightUnchanged DEF MaintainedCalls
<1>11. CallsRecent' /\ CallsByRules'
  BY <1>1, <1>2, <1>4 DEF MaintainedCalls, CallsRecent, CallsByRules, h
<1>12. CallsInOrder'
  BY <1>1, <1>3, <1>4, <1>5 DEF MaintainedCalls, CallsInOrder, link, h
<1>13. PassKeepsCheckins'
  BY <1>1, <1>3, SameToday, PassUndisturbed
<1>14. DownIsQuiet'
  BY DEF DownIsQuiet
<1> QED
  BY <1>8, <1>9, <1>10, <1>11, <1>12, <1>13, <1>14 DEF ServerSound, MaintainedCalls

LEMMA StoreCheckinKeeps ==
  ASSUME ServerSound, up, NEW w \in Workers, StoreCheckin(w, dayOfWeek),
         UNCHANGED <<prune, today, dayOfWeek, rules, up, exits>>
  PROVE  ServerSound'
<1> DEFINE h == handlers[w]
           user == h.user
           row == [id |-> checkinSeq + 1, hash |-> h.packet, user |-> user, iata |-> h.iata,
                   date |-> h.day, week |-> h.day]
<1>1. /\ TypeOK /\ MaintainedTables /\ MaintainedCalls /\ PassKeepsCheckins
      /\ h.pc = "checkin"
      /\ Crediting(h)
      /\ LinkRow(h.day, user, h.packet) \in checkinPackets
  BY DEF ServerSound, StoreCheckin, MaintainedCalls, CallsInOrder
<1>2. /\ h \in Call /\ h # Idle
      /\ user \in Users
      /\ h.day \in Days /\ h.day \in Nat
      /\ dayOfWeek \in Weekdays
      /\ WeekStart(h.day, dayOfWeek) = h.day
  BY <1>1, CreditingCall DEF MaintainedCalls
<1>3. PICK r \in rawPackets : /\ r.hash = h.packet /\ r.day = h.day
                              /\ r.iata = h.iata /\ r.user = h.user
  BY <1>1, CreditingCall DEF MaintainedCalls
<1>4. /\ UNCHANGED <<rawPackets, observations, checkinPackets, rawSeq, abandoned>>
      /\ Return(w)
  BY DEF StoreCheckin, InsertCheckin
<1>5. \/ UNCHANGED <<checkins, checkinSeq>>
      \/ /\ ~CheckinConflict(h.day, user, h.packet)
         /\ checkinSeq' = checkinSeq + 1
         /\ checkins' = checkins \cup {row}
  BY <1>2 DEF StoreCheckin, InsertCheckin
<1>6. /\ handlers' \in [Workers -> Call \cup {Idle}]
      /\ handlers'[w] = Idle
      /\ \A v \in Workers : v # w => handlers'[v] = handlers[v]
  BY <1>1, <1>4, ReturnEffect
<1>7. ~Crediting(handlers'[w]) /\ handlers'[w].pc = "idle"
  BY <1>6 DEF Crediting, Idle
<1>8. checkinSeq \in Nat /\ row \in CheckinRow
  BY <1>1, <1>2 DEF CheckinRow, Call, TypeOK, StoreTypeOK
<1>9. \A s \in rawPackets : s.hash = h.packet => s = r
  BY <1>1, <1>3 DEF MaintainedTables, RawKeys
<1>10. /\ row.hash = h.packet /\ row.user = user /\ row.week = h.day
       /\ row.date = h.day /\ row.iata = h.iata
  OBVIOUS
<1> HIDE DEF row, user, h
<1>11. TypeOK'
  BY <1>1, <1>4, <1>5, <1>6, <1>8 DEF TypeOK, StoreTypeOK, IngestTypeOK, RetentionTypeOK
<1>12. InFlightPacketStored'
  BY <1>1, <1>4, <1>6, <1>7, InFlightUnchanged DEF MaintainedCalls, SameCredit
<1>13. CallsRecent' /\ CallsInOrder' /\ CallsByRules'
  BY <1>1, <1>4, <1>6, <1>7 DEF MaintainedCalls, CallsRecent, CallsInOrder, CallsByRules
<1>14. CASE checkins' = checkins
  <2>1. MaintainedTables'
    BY <1>1, <1>4, <1>14, LinksAdded
  <2>2. PassKeepsCheckins'
    BY <1>1, <1>4, <1>14, SameToday, PassUndisturbed
  <2> QED
    BY <1>11, <1>12, <1>13, <2>1, <2>2 DEF ServerSound, MaintainedCalls, DownIsQuiet
<1>15. CASE checkins' = checkins \cup {row} /\ ~CheckinConflict(h.day, user, h.packet)
  <2>1. OneCheckinPerWeek'
    BY <1>1, <1>10, <1>15 DEF MaintainedTables, OneCheckinPerWeek, CheckinConflict
  <2>2. CheckinIsLinked'
    BY <1>1, <1>4, <1>10, <1>15 DEF MaintainedTables, CheckinIsLinked
  <2>3. OnlyLinkWeeksGoStale'
    BY <1>1, <1>3, <1>4, <1>10, <1>15 DEF MaintainedTables, OnlyLinkWeeksGoStale, Stored, user
  <2>4. MaintainedTables'
    BY <1>1, <1>4, <2>1, <2>2, <2>3 DEF MaintainedTables, RawKeys
  <2>5. ASSUME prune # Asleep PROVE ShouldRetain(r, prune, dayOfWeek)
    <3>1. prune.now \in Nat /\ prune.now <= today /\ today \in Nat
      BY <1>1, <2>5, DayTypes DEF TypeOK, RetentionTypeOK, Pass, PassKeepsCheckins
    <3>2. today - h.day <= 6 /\ IsWeekday(h.day, dayOfWeek)
      BY <1>1, <1>2, <3>1, ServerAssumption DEF MaintainedCalls, CallsRecent, h
    <3> QED
      BY <1>2, <1>3, <3>1, <3>2, RecentIsKept DEF ShouldRetain
  <2>6. PassKeepsCheckins'
    <3>1. \A c \in checkins', s \in rawPackets :
            s.hash = c.hash => c \in checkins \/ s = r
      BY <1>9, <1>10, <1>15
    <3>2. prune.pc \in {"scan", "delete"} => prune # Asleep
      BY DEF Asleep
    <3> QED
      BY <1>1, <1>4, <2>5, <3>1, <3>2 DEF PassKeepsCheckins, ShouldRetain
  <2> QED
    BY <1>11, <1>12, <1>13, <2>4, <2>6 DEF ServerSound, MaintainedCalls, DownIsQuiet
<1> QED
  BY <1>5, <1>14, <1>15

--------------------------------------------------------------------------------
\* A step of the pass that writes no table.
LEMMA PassStepKeeps ==
  ASSUME ServerSound, up,
         UNCHANGED <<store, handlers, abandoned, today, dayOfWeek, rules, up, exits>>,
         RetentionTypeOK', PassKeepsCheckins'
  PROVE  ServerSound'
<1>1. TypeOK /\ MaintainedTables /\ MaintainedCalls
  BY DEF ServerSound
<1>2. TypeOK'
  BY <1>1 DEF TypeOK, StoreTypeOK, IngestTypeOK, store
<1>3. MaintainedTables'
  BY <1>1, LinksAdded DEF store
<1>4. MaintainedCalls'
  BY <1>1 DEF MaintainedCalls, InFlightPacketStored, CallsRecent, CallsInOrder, CallsByRules,
     store
<1>5. DownIsQuiet'
  BY DEF DownIsQuiet
<1> QED
  BY <1>2, <1>3, <1>4, <1>5 DEF ServerSound

LEMMA BeginPruneKeeps ==
  ASSUME ServerSound, BeginPrune
  PROVE  ServerSound'
<1> DEFINE pass == [pc |-> "protect", now |-> today, protected |-> {}, lastId |-> 0,
                    pending |-> {}, attempt |-> 0]
<1>1. today \in Nat /\ prune' = pass
  BY DayTypes DEF ServerSound, BeginPrune, StartPass
<1>2. pass \in Pass /\ pass.pc = "protect" /\ pass.now = today
  BY <1>1 DEF Pass
<1> HIDE DEF pass
<1>3. RetentionTypeOK'
  BY <1>1, <1>2 DEF RetentionTypeOK
<1>4. PassKeepsCheckins'
  BY <1>1, <1>2 DEF PassKeepsCheckins, BeginPrune, StartPass
<1> QED
  BY <1>3, <1>4, PassStepKeeps DEF BeginPrune, StartPass

LEMMA ReadProtectedKeeps ==
  ASSUME ServerSound, up, ReadProtected,
         UNCHANGED <<handlers, abandoned, today, dayOfWeek, rules, up, exits>>
  PROVE  ServerSound'
<1> DEFINE next == [prune EXCEPT !.pc = "scan", !.protected = ProtectedPacketHashes]
<1>1. /\ TypeOK /\ PassKeepsCheckins /\ prune \in Pass /\ prune # Asleep /\ prune' = next
      /\ UNCHANGED store
  BY DEF ServerSound, ReadProtected, TypeOK, RetentionTypeOK, Asleep
<1>2. ProtectedPacketHashes \subseteq Packets
  BY <1>1 DEF ProtectedPacketHashes, TypeOK, StoreTypeOK, CheckinRow, Link
<1>3. /\ next \in Pass
      /\ next.pc = "scan"
      /\ next.protected = ProtectedPacketHashes
      /\ next.now = prune.now
  BY <1>1, <1>2 DEF Pass
<1> HIDE DEF next
<1>4. RetentionTypeOK'
  BY <1>1, <1>3 DEF RetentionTypeOK
<1>5. \A c \in checkins : c.hash \in ProtectedPacketHashes
  BY DEF ProtectedPacketHashes
<1>6. PassKeepsCheckins'
  BY <1>1, <1>3, <1>5 DEF PassKeepsCheckins, ShouldRetain, store
<1> QED
  BY <1>1, <1>4, <1>6, PassStepKeeps

\* A pass that has its snapshot goes on with it.
LEMMA SamePassKeeps ==
  ASSUME ServerSound, up,
         UNCHANGED <<store, handlers, abandoned, today, dayOfWeek, rules, up, exits>>,
         prune.pc \in {"scan", "delete"}, prune' \in Pass,
         prune'.now = prune.now, prune'.protected = prune.protected,
         prune'.pc = "delete" => \A i \in prune'.pending :
           /\ i <= rawSeq
           /\ \A r \in rawPackets : r.id = i => ~ShouldRetain(r, prune, dayOfWeek)
  PROVE  ServerSound'
<1>1. PassKeepsCheckins /\ prune # Asleep
  BY DEF ServerSound, Asleep
<1>2. \A r \in rawPackets :
        ShouldRetain(r, prune, dayOfWeek)' <=> ShouldRetain(r, prune, dayOfWeek)
  BY DEF ShouldRetain
<1>3. PassKeepsCheckins'
  BY <1>1, <1>2 DEF PassKeepsCheckins, store
<1>4. RetentionTypeOK'
  BY DEF RetentionTypeOK
<1> QED
  BY <1>3, <1>4, PassStepKeeps

LEMMA PassEndsKeeps ==
  ASSUME ServerSound, up,
         UNCHANGED <<store, handlers, abandoned, today, dayOfWeek, rules, up, exits>>,
         prune' = Asleep
  PROVE  ServerSound'
<1>1. RetentionTypeOK' /\ PassKeepsCheckins'
  BY DEF RetentionTypeOK, PassKeepsCheckins, Asleep
<1> QED
  BY <1>1, PassStepKeeps

LEMMA ScanBatchKeeps ==
  ASSUME ServerSound, up, ScanBatch(dayOfWeek),
         UNCHANGED <<handlers, abandoned, today, dayOfWeek, rules, up, exits>>
  PROVE  ServerSound'
<1> DEFINE rows == Batch(prune.lastId)
           expired == {r \in rows : ~ShouldRetain(r, prune, dayOfWeek)}
           ids == {r.id : r \in expired}
<1>1. TypeOK /\ MaintainedTables /\ prune.pc = "scan" /\ UNCHANGED store
  BY DEF ServerSound, ScanBatch
<1>2. prune \in Pass
  BY <1>1 DEF TypeOK, RetentionTypeOK, Asleep
<1>3. /\ rows \subseteq rawPackets
      /\ \A r \in rawPackets : r.id \in Nat /\ r.id <= rawSeq
  BY <1>1 DEF Batch, MaintainedTables, RawKeys, TypeOK, StoreTypeOK, RawRow
<1>4. CASE prune' = Asleep
  BY <1>1, <1>4, PassEndsKeeps
<1>5. ASSUME NEW last \in rows, prune' = [prune EXCEPT !.lastId = last.id]
      PROVE  ServerSound'
  <2>1. /\ prune' \in Pass /\ prune'.pc = "scan"
        /\ prune'.now = prune.now /\ prune'.protected = prune.protected
    BY <1>1, <1>2, <1>3, <1>5 DEF Pass
  <2> QED
    BY <1>1, <2>1, SamePassKeeps
<1>6. ASSUME prune' = [prune EXCEPT !.pc = "delete", !.pending = ids, !.attempt = 0]
      PROVE  ServerSound'
  <2>1. ids \subseteq Nat /\ \A i \in ids : i <= rawSeq
    BY <1>3
  <2>2. \A r \in rawPackets : r.id \in ids => ~ShouldRetain(r, prune, dayOfWeek)
    BY <1>1, <1>3 DEF MaintainedTables, RawKeys
  <2> HIDE DEF ids
  <2>3. /\ prune' \in Pass /\ prune'.pc = "delete" /\ prune'.pending = ids
        /\ prune'.now = prune.now /\ prune'.protected = prune.protected
    BY <1>2, <1>6, <2>1 DEF Pass
  <2> QED
    BY <1>1, <2>1, <2>2, <2>3, SamePassKeeps
<1> QED
  BY <1>4, <1>5, <1>6 DEF ScanBatch

LEMMA RetryDeleteKeeps ==
  ASSUME ServerSound, up, RetryDelete,
         UNCHANGED <<handlers, abandoned, today, dayOfWeek, rules, up, exits>>
  PROVE  ServerSound'
<1>1. TypeOK /\ PassKeepsCheckins /\ UNCHANGED store /\ prune.pc = "delete"
  BY DEF ServerSound, RetryDelete
<1>2. prune \in Pass
  BY <1>1 DEF TypeOK, RetentionTypeOK, Asleep
<1>3. /\ prune' \in Pass /\ prune'.pending = prune.pending
      /\ prune'.now = prune.now /\ prune'.protected = prune.protected
  BY <1>2 DEF RetryDelete, Pass
<1> QED
  BY <1>1, <1>3, SamePassKeeps DEF PassKeepsCheckins

(***************************************************************************)
(* What a chunk deletes beside the command: no check-in, no packet of one, *)
(* no packet of a call in flight, and links only with their packet.        *)
(***************************************************************************)
LEMMA ChunkSparesCheckins ==
  ASSUME ServerSound, DeleteChunk
  PROVE  /\ rawPackets' \subseteq rawPackets
         /\ \A r \in rawPackets : ShouldRetain(r, prune, dayOfWeek) => r \in rawPackets'
         /\ \A c \in checkins, r \in rawPackets : r.hash = c.hash => r \in rawPackets'
         /\ \A w \in Workers, r \in rawPackets :
              Crediting(handlers[w]) /\ r.hash = handlers[w].packet => r \in rawPackets'
         /\ \A l \in checkinPackets' : l \in checkinPackets /\ Stored(l.hash)'
         /\ \A l \in checkinPackets, r \in rawPackets' : r.hash = l.hash => l \in checkinPackets'
         /\ observations' \subseteq observations
         /\ UNCHANGED <<checkins, rawSeq, checkinSeq>>
<1> DEFINE chunk == Smallest(prune.pending, ChunkSize)
           gone == {r.hash : r \in {s \in rawPackets : s.id \in chunk}}
<1>1. /\ TypeOK /\ MaintainedTables /\ MaintainedCalls /\ PassKeepsCheckins
      /\ prune.pc = "delete" /\ prune \in Pass /\ prune # Asleep
  BY DEF ServerSound, DeleteChunk, TypeOK, RetentionTypeOK, Asleep
<1>2. chunk \subseteq prune.pending
  BY DEF Smallest
<1>3. /\ rawPackets' = {r \in rawPackets : r.id \notin chunk}
      /\ checkins' = {c \in checkins : c.hash \notin gone}
      /\ observations' = {o \in observations : o.hash \notin gone}
      /\ checkinPackets' = {l \in checkinPackets : l.hash \notin gone}
      /\ UNCHANGED <<rawSeq, checkinSeq>>
  BY DEF DeleteChunk, DeleteRawPackets
<1>4. \A r \in rawPackets : r.id \in chunk => ~ShouldRetain(r, prune, dayOfWeek)
  BY <1>1, <1>2 DEF PassKeepsCheckins
<1>5. \A c \in checkins, r \in rawPackets : r.hash = c.hash => r.id \notin chunk
  BY <1>1, <1>4 DEF PassKeepsCheckins
<1>6. \A r \in rawPackets : r.hash \in gone <=> r.id \in chunk
  BY <1>1 DEF MaintainedTables, RawKeys
<1>7. \A c \in checkins : c.hash \notin gone
  BY <1>5
<1> HIDE DEF chunk, gone
<1>8. checkins' = checkins
  BY <1>3, <1>7
<1>9. \A l \in checkinPackets' : l \in checkinPackets /\ Stored(l.hash)'
  <2> SUFFICES ASSUME NEW l \in checkinPackets, l.hash \notin gone
               PROVE  \E r \in rawPackets' : r.hash = l.hash
    BY <1>3 DEF Stored
  <2>1. PICK r \in rawPackets : r.hash = l.hash
    BY <1>1 DEF MaintainedTables, OnlyLinkWeeksGoStale, Stored
  <2> QED
    BY <1>3, <1>6, <2>1
<1>10. ASSUME NEW w \in Workers, NEW r \in rawPackets, Crediting(handlers[w]),
              r.hash = handlers[w].packet
       PROVE  r \in rawPackets'
  <2>1. PICK s \in rawPackets : s.hash = handlers[w].packet /\ s.day = handlers[w].day
    BY <1>1, <1>10, CreditingCall DEF MaintainedCalls
  <2>2. r = s
    BY <1>1, <1>10, <2>1 DEF MaintainedTables, RawKeys
  <2>3. handlers[w] # Idle /\ handlers[w].day \in Nat /\ dayOfWeek \in Weekdays
    BY <1>1, <1>10, CreditingCall DEF MaintainedCalls
  <2>4. /\ prune.now \in Nat /\ prune.now <= today /\ today \in Nat
    BY <1>1, DayTypes DEF Pass, PassKeepsCheckins
  <2>5. today - handlers[w].day <= 6 /\ IsWeekday(handlers[w].day, dayOfWeek)
    BY <1>1, <2>3, <2>4, ServerAssumption DEF MaintainedCalls, CallsRecent
  <2>6. AmbientKept(r.day, prune.now, dayOfWeek)
    BY <2>1, <2>2, <2>3, <2>4, <2>5, RecentIsKept
  <2> QED
    BY <1>3, <1>4, <2>6 DEF ShouldRetain
<1> QED
  BY <1>3, <1>4, <1>5, <1>6, <1>8, <1>9, <1>10

LEMMA DeleteChunkKeeps ==
  ASSUME ServerSound, up, DeleteChunk,
         UNCHANGED <<handlers, abandoned, today, dayOfWeek, rules, up, exits>>
  PROVE  ServerSound'
<1> DEFINE left == prune.pending \ Smallest(prune.pending, ChunkSize)
<1>1. /\ TypeOK /\ MaintainedTables /\ MaintainedCalls /\ PassKeepsCheckins
      /\ prune.pc = "delete" /\ prune \in Pass /\ prune # Asleep
  BY DEF ServerSound, DeleteChunk, TypeOK, RetentionTypeOK, Asleep
<1>2. /\ rawPackets' \subseteq rawPackets
      /\ \A c \in checkins, r \in rawPackets : r.hash = c.hash => r \in rawPackets'
      /\ \A w \in Workers, r \in rawPackets :
           Crediting(handlers[w]) /\ r.hash = handlers[w].packet => r \in rawPackets'
      /\ \A l \in checkinPackets' : l \in checkinPackets /\ Stored(l.hash)'
      /\ \A l \in checkinPackets, r \in rawPackets' : r.hash = l.hash => l \in checkinPackets'
      /\ observations' \subseteq observations
      /\ UNCHANGED <<checkins, rawSeq, checkinSeq>>
  BY ChunkSparesCheckins
<1>3. prune' = [prune EXCEPT !.pc = IF left = {} THEN "scan" ELSE "delete",
                             !.pending = left, !.attempt = 0]
  BY DEF DeleteChunk
<1>4. left \subseteq prune.pending /\ left \subseteq Nat
  BY <1>1 DEF Pass
<1> HIDE DEF left
<1>5. /\ prune' \in Pass /\ prune' # Asleep
      /\ prune'.pc \in {"scan", "delete"} /\ prune'.pending = left
      /\ prune'.now = prune.now /\ prune'.protected = prune.protected
  BY <1>1, <1>3, <1>4 DEF Pass, Asleep
<1>6. TypeOK'
  BY <1>1, <1>2, <1>5 DEF TypeOK, StoreTypeOK, IngestTypeOK, RetentionTypeOK
<1>7. MaintainedTables'
  <2>1. RawKeys' /\ OneCheckinPerWeek'
    BY <1>1, <1>2 DEF MaintainedTables, RawKeys, OneCheckinPerWeek
  <2>2. \A c \in checkins : \E r \in rawPackets' :
          /\ r.hash = c.hash /\ r.day = c.date /\ r.iata = c.iata
          /\ c.week = c.date /\ r.user = c.user
    BY <1>1, <1>2 DEF MaintainedTables, OnlyLinkWeeksGoStale
  <2>3. OnlyLinkWeeksGoStale'
    BY <1>1, <1>2, <2>2 DEF MaintainedTables, OnlyLinkWeeksGoStale
  <2>4. CheckinIsLinked'
    BY <1>1, <1>2, <2>2 DEF MaintainedTables, CheckinIsLinked, LinkRow
  <2> QED
    BY <2>1, <2>3, <2>4 DEF MaintainedTables
<1>8. InFlightPacketStored'
  BY <1>1, <1>2 DEF MaintainedCalls, InFlightPacketStored
<1>9. CallsRecent' /\ CallsByRules'
  BY <1>1 DEF MaintainedCalls, CallsRecent, CallsByRules
<1>10. CallsInOrder'
  <2> SUFFICES ASSUME NEW w \in Workers, handlers[w].pc = "checkin"
               PROVE  LinkRow(handlers[w].day, handlers[w].user, handlers[w].packet)
                        \in checkinPackets'
    BY <1>1 DEF MaintainedCalls, CallsInOrder
  <2>1. Crediting(handlers[w])
    BY <1>1 DEF MaintainedCalls, CallsInOrder
  <2>2. PICK r \in rawPackets : r.hash = handlers[w].packet
    BY <1>1, <2>1 DEF MaintainedCalls, InFlightPacketStored
  <2> QED
    BY <1>1, <1>2, <2>1, <2>2 DEF MaintainedCalls, CallsInOrder, LinkRow
<1>11. PassKeepsCheckins'
  <2>1. \A r \in rawPackets : ShouldRetain(r, prune, dayOfWeek) <=>
                              ShouldRetain(r, prune, dayOfWeek)'
    BY <1>5 DEF ShouldRetain
  <2> QED
    BY <1>1, <1>2, <1>4, <1>5, <2>1 DEF PassKeepsCheckins
<1>12. DownIsQuiet'
  BY DEF DownIsQuiet
<1> QED
  BY <1>6, <1>7, <1>8, <1>9, <1>10, <1>11, <1>12 DEF ServerSound, MaintainedCalls

--------------------------------------------------------------------------------
LEMMA DayPasses ==
  ASSUME ServerSound, Tick
  PROVE  ServerSound'
<1>1. /\ TypeOK /\ MaintainedTables /\ MaintainedCalls /\ PassKeepsCheckins /\ DownIsQuiet
      /\ today' \in Days /\ today < today'
      /\ UNCHANGED <<store, handlers, abandoned, prune, dayOfWeek, rules, up, exits>>
  BY DEF ServerSound, Tick
<1>2. today \in Nat /\ today' \in Nat
  BY <1>1, DayTypes
<1>3. TypeOK'
  BY <1>1 DEF TypeOK, StoreTypeOK, IngestTypeOK, RetentionTypeOK, store
<1>4. MaintainedTables' /\ PassKeepsCheckins'
  BY <1>1, <1>2, LinksAdded, PassUndisturbed DEF store
<1>5. InFlightPacketStored' /\ CallsInOrder' /\ CallsByRules'
  BY <1>1 DEF MaintainedCalls, InFlightPacketStored, CallsInOrder, CallsByRules, store
<1>6. CallsRecent'
  <2> SUFFICES ASSUME NEW w \in Workers, handlers[w] # Idle
               PROVE  /\ handlers[w].day \in Days
                      /\ handlers[w].day <= today'
                      /\ today' - handlers[w].day <= MaxHandlerDays
                      /\ IsWeekday(handlers[w].day, dayOfWeek)
    BY <1>1 DEF CallsRecent
  <2>1. /\ handlers[w].day \in Days /\ handlers[w].day <= today
        /\ IsWeekday(handlers[w].day, dayOfWeek)
    BY <1>1 DEF MaintainedCalls, CallsRecent
  <2>2. handlers[w].day \in Nat
    BY <1>1, <2>1, DayTypes
  <2> QED
    BY <1>1, <1>2, <2>1, <2>2 DEF Tick
<1>7. DownIsQuiet'
  BY <1>1 DEF DownIsQuiet
<1> QED
  BY <1>3, <1>4, <1>5, <1>6, <1>7 DEF ServerSound, MaintainedCalls

LEMMA ExitKeeps ==
  ASSUME ServerSound, Exit
  PROVE  ServerSound'
<1>1. /\ TypeOK /\ MaintainedTables /\ MaintainedCalls
      /\ UNCHANGED store /\ UNCHANGED <<today, dayOfWeek, rules>>
      /\ prune' = Asleep /\ up' = FALSE
  BY DEF ServerSound, Exit
<1>2. /\ handlers' \in [Workers -> Call \cup {Idle}]
      /\ \A w \in Workers : handlers'[w] = Idle /\ handlers'[w].pc = "idle"
  BY DEF Exit, DropHandlers, Idle
<1>3. abandoned' \subseteq Packets
  <2>1. \A w \in Workers : Crediting(handlers[w]) => handlers[w].packet \in Packets
    BY <1>1, CreditingCall DEF MaintainedCalls, Call
  <2> QED
    BY <1>1, <2>1 DEF Exit, DropHandlers, TypeOK, IngestTypeOK
<1>4. exits' \in 0..MaxExits
  BY <1>1, ServerAssumption DEF Exit, TypeOK
<1>5. TypeOK'
  BY <1>1, <1>2, <1>3, <1>4 DEF TypeOK, StoreTypeOK, IngestTypeOK, RetentionTypeOK, store
<1>6. MaintainedTables'
  BY <1>1, LinksAdded DEF store
<1>7. MaintainedCalls' /\ PassKeepsCheckins' /\ DownIsQuiet'
  BY <1>1, <1>2 DEF MaintainedCalls, InFlightPacketStored, CallsRecent, CallsInOrder,
     CallsByRules, Crediting, PassKeepsCheckins, Asleep, DownIsQuiet
<1> QED
  BY <1>5, <1>6, <1>7 DEF ServerSound

LEMMA StartKeeps ==
  ASSUME ServerSound, Start
  PROVE  ServerSound'
<1>1. /\ TypeOK /\ MaintainedTables /\ MaintainedCalls
      /\ UNCHANGED store
      /\ UNCHANGED <<handlers, abandoned, prune, today, exits>>
      /\ up' = TRUE
      /\ dayOfWeek' \in CheckinDays /\ rules' \in Rules
  BY MigrateIsIdle DEF ServerSound, MaintainedTables, Start
<1>2. prune = Asleep /\ \A w \in Workers : handlers[w] = Idle
  BY DEF ServerSound, DownIsQuiet, Start
<1>3. TypeOK'
  BY <1>1 DEF TypeOK, StoreTypeOK, IngestTypeOK, RetentionTypeOK, store
<1>4. MaintainedTables'
  BY <1>1, LinksAdded DEF store
<1>5. InFlightPacketStored' /\ CallsInOrder' /\ CallsByRules'
  BY <1>1 DEF MaintainedCalls, InFlightPacketStored, CallsInOrder, CallsByRules, store
<1>6. CallsRecent' /\ PassKeepsCheckins' /\ DownIsQuiet'
  BY <1>1, <1>2 DEF CallsRecent, PassKeepsCheckins, Asleep, DownIsQuiet
<1> QED
  BY <1>3, <1>4, <1>5, <1>6 DEF ServerSound, MaintainedCalls

\* Every step of the server keeps what holds of the server.
LEMMA ServerKeeps ==
  ASSUME ServerSound, Next
  PROVE  ServerSound'
<1>1. ASSUME NEW w \in Workers, Deliver(w) PROVE ServerSound'
  BY <1>1, DeliverKeeps
<1>2. ASSUME NEW w \in Workers, Handle(w) PROVE ServerSound'
  <2>1. /\ up /\ HandlerStep(w, dayOfWeek)
        /\ UNCHANGED <<prune, today, dayOfWeek, rules, up, exits>>
    BY <1>2 DEF Handle
  <2>2. TypeOK /\ CallsInOrder
    BY DEF ServerSound, MaintainedCalls
  <2> QED
    BY <2>1, <2>2, QuietSteps, QuietCallKeeps, StoreRawKeeps, StoreLinkKeeps, StoreCheckinKeeps
<1>3. CASE BeginPrune
  BY <1>3, BeginPruneKeeps
<1>4. CASE PruneStep
  <2>1. /\ up /\ PassStep(dayOfWeek)
        /\ UNCHANGED <<handlers, abandoned, today, dayOfWeek, rules, up, exits>>
    BY <1>4 DEF PruneStep
  <2>2. CASE PassFails
    BY <2>1, <2>2, PassEndsKeeps DEF PassFails
  <2> QED
    BY <2>1, <2>2, ReadProtectedKeeps, ScanBatchKeeps, DeleteChunkKeeps, RetryDeleteKeeps
       DEF PassStep
<1>5. CASE Tick
  BY <1>5, DayPasses
<1>6. CASE Exit
  BY <1>6, ExitKeeps
<1>7. CASE Start
  BY <1>7, StartKeeps
<1> QED
  BY <1>1, <1>2, <1>3, <1>4, <1>5, <1>6, <1>7 DEF Next

--------------------------------------------------------------------------------
\* What the command does to the variables of the server: it adds links of
\* stored packets.
OnlyAddsLinks ==
  /\ UNCHANGED <<rawPackets, checkins, observations, rawSeq, checkinSeq>>
  /\ UNCHANGED <<handlers, abandoned, prune, today, dayOfWeek, rules, up, exits>>
  /\ checkinPackets \subseteq checkinPackets' /\ checkinPackets' \subseteq Link
  /\ \A l \in checkinPackets' \ checkinPackets : Stored(l.hash) /\ l.user \in NamedBy(l.hash)

LEMMA CommandKeepsServer ==
  ASSUME ServerSound, OnlyAddsLinks
  PROVE  ServerSound'
<1> USE DEF OnlyAddsLinks
<1>1. TypeOK /\ MaintainedTables /\ MaintainedCalls /\ PassKeepsCheckins /\ DownIsQuiet
  BY DEF ServerSound
<1>2. TypeOK'
  BY <1>1 DEF TypeOK, StoreTypeOK, IngestTypeOK, RetentionTypeOK
<1>3. MaintainedTables' /\ PassKeepsCheckins'
  BY <1>1, LinksAdded, SameToday, PassUndisturbed
<1>4. MaintainedCalls'
  BY <1>1 DEF MaintainedCalls, InFlightPacketStored, CallsRecent, CallsInOrder, CallsByRules
<1>5. DownIsQuiet'
  BY <1>1 DEF DownIsQuiet
<1> QED
  BY <1>2, <1>3, <1>4, <1>5 DEF ServerSound

(***************************************************************************)
(* A run is not disturbed by a step that stores packets under new ids only *)
(* and deletes a link with its packet only.                                *)
(***************************************************************************)
LEMMA RunUndisturbed ==
  ASSUME RestoreSound, UNCHANGED <<restore, restores>>,
         rawSeq \in Nat, rawSeq' \in Nat, rawSeq <= rawSeq',
         \A r \in rawPackets' : r \in rawPackets \/ r.id > rawSeq,
         \A l \in checkinPackets, r \in rawPackets' : r.hash = l.hash => l \in checkinPackets'
  PROVE  RestoreSound'
<1>1. /\ restore' = restore /\ restores' = restores
      /\ RestoreTypeOK /\ restores \in 0..MaxRestores /\ RowsKnown /\ RestoredRowsLinked
  BY DEF RestoreSound
<1>2. CASE restore = Stopped
  BY <1>1, <1>2 DEF RestoreSound, RestoreTypeOK, RowsKnown, RestoredRowsLinked
<1>3. CASE restore # Stopped
  <2>1. restore \in Run
    BY <1>1, <1>3 DEF RestoreTypeOK
  <2>2. \A r \in restore.done \cup restore.remaining : r.id \in Nat /\ r.id <= rawSeq
    BY <1>1, <1>3, <2>1 DEF Run, RawRow, RowsKnown
  <2>3. RowsKnown'
    BY <1>1, <2>2 DEF RowsKnown
  <2>4. RestoredRowsLinked'
    <3> SUFFICES ASSUME NEW r \in restore.done \cap rawPackets',
                        Qualifies(r, restore), r \notin restore.failed
                 PROVE  LinkRow(r.day, Candidate[restore.rules][r.hash], r.hash)
                          \in checkinPackets'
      BY <1>1 DEF RestoredRowsLinked, Qualifies
    <3>1. r \in rawPackets
      BY <2>2
    <3>2. LinkRow(r.day, Candidate[restore.rules][r.hash], r.hash) \in checkinPackets
      BY <1>1, <1>3, <3>1 DEF RestoredRowsLinked
    <3>3. LinkRow(r.day, Candidate[restore.rules][r.hash], r.hash).hash = r.hash
      BY DEF LinkRow
    <3> QED
      BY <3>2, <3>3
  <2> QED
    BY <1>1, <2>3, <2>4 DEF RestoreSound, RestoreTypeOK
<1> QED
  BY <1>2, <1>3

LEMMA ServerStepKeeps ==
  ASSUME MInv, ServerStep
  PROVE  MInv'
<1>1. /\ ServerSound /\ RestoreSound /\ Next /\ UNCHANGED <<restore, restores>>
      /\ TypeOK /\ OneCheckinPerWeek /\ CheckinIsLinked /\ rawSeq \in Nat
  BY DEF MInv, ServerStep, ServerSound, MaintainedTables, TypeOK, StoreTypeOK
<1>2. ServerSound'
  BY <1>1, ServerKeeps
<1>3. rawSeq' \in Nat
  BY <1>2 DEF ServerSound, TypeOK, StoreTypeOK
<1>4. CASE UNCHANGED store
  <2>1. /\ rawSeq <= rawSeq' /\ rawPackets' = rawPackets
        /\ checkinPackets' = checkinPackets
    BY <1>1, <1>4 DEF store
  <2>2. RestoreSound'
    BY <1>1, <1>3, <2>1, RunUndisturbed
  <2> QED
    BY <1>2, <2>2 DEF MInv
<1>5. ASSUME NEW w \in Workers, HandlerStep(w, dayOfWeek)
      PROVE  RestoreSound'
  <2>1. /\ rawSeq <= rawSeq'
        /\ \A r \in rawPackets' : r \in rawPackets \/ r.id > rawSeq
    BY <1>1, <1>5 DEF HandlerStep, StoreRaw, InsertRawPacket, StoreObservation,
       InsertPacketObservation, StoreLink, InsertCheckinPacket, StoreCheckin, InsertCheckin,
       RetryBusy, RawFails, ObservationFails, CreditFails, store
  <2>2. checkinPackets \subseteq checkinPackets'
    BY <1>5, HandlerAddsOnly
  <2> QED
    BY <1>1, <1>3, <2>1, <2>2, RunUndisturbed
<1>6. CASE DeleteChunk
  <2>1. /\ rawSeq' = rawSeq /\ rawPackets' \subseteq rawPackets
        /\ \A l \in checkinPackets, r \in rawPackets' : r.hash = l.hash => l \in checkinPackets'
    BY <1>1, <1>6, ChunkSparesCheckins
  <2>2. rawSeq <= rawSeq'
    BY <1>1, <2>1
  <2>3. RestoreSound'
    BY <1>1, <1>3, <2>1, <2>2, RunUndisturbed
  <2> QED
    BY <1>2, <2>3 DEF MInv
<1> QED
  BY <1>1, <1>2, <1>4, <1>5, <1>6, WritingSteps DEF MInv

LEMMA RunCommandKeeps ==
  ASSUME MInv, RunCommand
  PROVE  MInv' /\ OnlyAddsLinks
<1> PICK target \in CheckinDays, config \in Rules : StartRestore(today, target, config)
  BY DEF RunCommand
<1> DEFINE run == [pc |-> "running", began |-> today, target |-> target, rules |-> config,
                   remaining |-> rawPackets, done |-> {}, failed |-> {}]
<1>1. /\ ServerSound /\ TypeOK /\ MaintainedTables /\ restore' = run /\ Migrate
      /\ UNCHANGED <<handlers, abandoned, prune, today, dayOfWeek, rules, up, exits>>
      /\ restores \in 0..MaxRestores /\ restores < MaxRestores /\ restores' = restores + 1
  BY DEF MInv, ServerSound, RestoreSound, RunCommand, StartRestore
<1>2. UNCHANGED store
  BY <1>1, MigrateIsIdle DEF MaintainedTables
<1>3. OnlyAddsLinks
  BY <1>1, <1>2 DEF OnlyAddsLinks, store, TypeOK, StoreTypeOK
<1>4. run \in Run
  BY <1>1, DayTypes, ServerAssumption DEF Run, TypeOK, StoreTypeOK
<1>5. RestoreTypeOK' /\ RestoredRowsLinked'
  BY <1>1, <1>4 DEF RestoreTypeOK, RestoredRowsLinked
<1>6. RowsKnown'
  BY <1>1, <1>2 DEF RowsKnown, MaintainedTables, RawKeys, store
<1>7. restores' \in 0..MaxRestores
  BY <1>1, MaintainedAssumption
<1> QED
  BY <1>1, <1>3, <1>5, <1>6, <1>7, CommandKeepsServer DEF MInv, RestoreSound

\* The fields of a run whose cursor has returned r.
LEMMA AdvanceEffect ==
  ASSUME RestoreTypeOK, NEW r, NextRow(r), NEW failed \in SUBSET {r}, Advance(r, failed)
  PROVE  /\ restore \in Run /\ restore # Stopped
         /\ r \in RawRow /\ r \in restore.remaining
         /\ restore' \in Run /\ restore' # Stopped
         /\ restore'.target = restore.target /\ restore'.rules = restore.rules
         /\ restore'.remaining = restore.remaining \ {r}
         /\ restore'.done = restore.done \cup {r}
         /\ restore'.failed = restore.failed \cup failed
<1>1. restore \in Run /\ restore # Stopped
  BY DEF RestoreTypeOK, NextRow, Stopped
<1>2. r \in RawRow /\ r \in restore.remaining
  BY <1>1 DEF NextRow, Run
<1> QED
  BY <1>1, <1>2 DEF Advance, Run, Stopped

\* A row the cursor has returned is linked, is no check-in, or is counted as failed.
LEMMA RowDone ==
  ASSUME MInv, NEW r, NextRow(r), NEW failed \in SUBSET {r}, Advance(r, failed),
         OnlyAddsLinks, UNCHANGED restores,
         r \in rawPackets /\ Qualifies(r, restore) /\ r \notin failed =>
           LinkRow(r.day, Candidate[restore.rules][r.hash], r.hash) \in checkinPackets'
  PROVE  MInv'
<1>1. /\ ServerSound /\ RestoreTypeOK /\ RowsKnown /\ RestoredRowsLinked
      /\ restores \in 0..MaxRestores
  BY DEF MInv, RestoreSound
<1>2. /\ restore # Stopped
      /\ r \in restore.remaining
      /\ restore' \in Run /\ restore' # Stopped
      /\ restore'.target = restore.target /\ restore'.rules = restore.rules
      /\ restore'.remaining = restore.remaining \ {r}
      /\ restore'.done = restore.done \cup {r}
      /\ restore'.failed = restore.failed \cup failed
  BY <1>1, AdvanceEffect
<1>3. /\ rawPackets' = rawPackets /\ rawSeq' = rawSeq
      /\ checkinPackets \subseteq checkinPackets'
  BY DEF OnlyAddsLinks
<1>4. RowsKnown'
  BY <1>1, <1>2, <1>3 DEF RowsKnown
<1>5. RestoredRowsLinked'
  <2> SUFFICES ASSUME NEW s \in (restore.done \cup {r}) \cap rawPackets,
                      Qualifies(s, restore), s \notin restore.failed \cup failed
               PROVE  LinkRow(s.day, Candidate[restore.rules][s.hash], s.hash)
                        \in checkinPackets'
    BY <1>2, <1>3 DEF RestoredRowsLinked, Qualifies
  <2>1. CASE s = r
    BY <2>1
  <2>2. CASE s \in restore.done
    BY <1>1, <1>2, <1>3, <2>2 DEF RestoredRowsLinked
  <2> QED
    BY <2>1, <2>2
<1>6. RestoreTypeOK' /\ restores' \in 0..MaxRestores
  BY <1>1, <1>2 DEF RestoreTypeOK
<1> QED
  BY <1>1, <1>4, <1>5, <1>6, CommandKeepsServer DEF MInv, RestoreSound

LEMMA CommandStepKeeps ==
  ASSUME MInv, CommandStep
  PROVE  MInv' /\ OnlyAddsLinks
<1>1. /\ UNCHANGED <<handlers, abandoned, prune, today, dayOfWeek, rules, up, exits, restores>>
      /\ TypeOK /\ RestoreTypeOK /\ checkinPackets \subseteq Link
      /\ restores \in 0..MaxRestores
  BY DEF CommandStep, MInv, ServerSound, RestoreSound, TypeOK, StoreTypeOK
<1>2. ASSUME UNCHANGED store PROVE OnlyAddsLinks
  BY <1>1, <1>2 DEF OnlyAddsLinks, store
<1>3. ASSUME NEW r, SkipRow(r) PROVE MInv' /\ OnlyAddsLinks
  <2>1. NextRow(r) /\ ~Qualifies(r, restore) /\ Advance(r, {}) /\ UNCHANGED store
    BY <1>3 DEF SkipRow
  <2> QED
    BY <1>1, <1>2, <2>1, RowDone
<1>4. ASSUME NEW r, RelinkFails(r) PROVE MInv' /\ OnlyAddsLinks
  <2>1. NextRow(r) /\ Advance(r, {r}) /\ UNCHANGED store
    BY <1>4 DEF RelinkFails
  <2> QED
    BY <1>1, <1>2, <2>1, RowDone
<1>5. ASSUME NEW r, RelinkRow(r) PROVE MInv' /\ OnlyAddsLinks
  <2> DEFINE link == LinkRow(r.day, Candidate[restore.rules][r.hash], r.hash)
  <2>1. /\ NextRow(r) /\ Qualifies(r, restore) /\ Advance(r, {}) /\ Stored(r.hash)
        /\ checkinPackets' = checkinPackets \cup
             {LinkRow(WeekStart(r.day, restore.target), Candidate[restore.rules][r.hash], r.hash)}
        /\ UNCHANGED <<rawPackets, checkins, observations, rawSeq, checkinSeq>>
    BY <1>5 DEF RelinkRow, InsertCheckinPacket
  <2>2. restore \in Run /\ r \in RawRow
    BY <1>1, <2>1, AdvanceEffect
  <2>3. r.day \in Nat /\ restore.target \in Weekdays /\ IsWeekday(r.day, restore.target)
    BY <2>1, <2>2 DEF RawRow, Run, Qualifies
  <2>4. WeekStart(r.day, restore.target) = r.day
    BY <2>3, WeekStartOfCheckinDay
  <2>5. Candidate[restore.rules][r.hash] \in Users
    BY <2>1, <2>2, IngestAssumption DEF RawRow, Run, Qualifies
  <2>6. link \in Link /\ link.hash = r.hash /\ link.user = Candidate[restore.rules][r.hash]
    BY <2>2, <2>3, <2>5 DEF LinkRow, Link, RawRow
  <2>7. checkinPackets' = checkinPackets \cup {link}
    BY <2>1, <2>4
  <2> HIDE DEF link
  <2>8. OnlyAddsLinks
    <3>1. link.user \in NamedBy(link.hash)
      BY <2>2, <2>6 DEF NamedBy, Run
    <3> QED
      BY <1>1, <2>1, <2>6, <2>7, <3>1 DEF OnlyAddsLinks
  <2>9. link \in checkinPackets'
    BY <2>7
  <2> QED
    BY <1>1, <2>1, <2>8, <2>9, RowDone DEF link
<1>6. CASE EndRestore
  <2>1. restore' = Stopped /\ UNCHANGED store
    BY <1>6 DEF EndRestore
  <2>2. RestoreSound'
    BY <1>1, <2>1 DEF RestoreSound, RestoreTypeOK, RowsKnown, RestoredRowsLinked
  <2> QED
    BY <1>2, <2>1, <2>2, CommandKeepsServer DEF MInv
<1> QED
  BY <1>3, <1>4, <1>5, <1>6 DEF CommandStep, RestoreStep

LEMMA NothingKeeps ==
  ASSUME MInv, UNCHANGED maintainedVars
  PROVE  MInv' /\ OnlyAddsLinks
<1>1. /\ UNCHANGED <<store, handlers, abandoned, prune, today, dayOfWeek, rules, up, exits>>
      /\ UNCHANGED <<restore, restores>>
  BY DEF maintainedVars, vars
<1>2. /\ ServerSound /\ RestoreSound /\ rawSeq \in Nat /\ checkinPackets \subseteq Link
  BY DEF MInv, ServerSound, TypeOK, StoreTypeOK
<1>3. OnlyAddsLinks
  BY <1>1, <1>2 DEF OnlyAddsLinks, store
<1>4. RestoreSound'
  BY <1>1, <1>2, RunUndisturbed DEF store
<1> QED
  BY <1>2, <1>3, <1>4, CommandKeepsServer DEF MInv

\* Every step of the two processes keeps the invariant.
LEMMA MInvIsInductive == MInv /\ [MaintainedNext]_maintainedVars => MInv'
  BY ServerStepKeeps, RunCommandKeeps, CommandStepKeeps, NothingKeeps DEF MaintainedNext

LEMMA MInvHolds == MaintainedSpec => []MInv
  BY InitEstablishes, MInvIsInductive, PTL DEF MaintainedSpec

--------------------------------------------------------------------------------
\* The types of the server's and of the command's variables, whatever they do together.
THEOREM MaintainedTypes == MaintainedSpec => []MaintainedTypeOK
<1>1. MInv => MaintainedTypeOK
  BY DEF MInv, ServerSound, RestoreSound, MaintainedTypeOK
<1> QED
  BY <1>1, MInvHolds, PTL

(***************************************************************************)
(* Beside a live server the command links every check-in packet its cursor *)
(* returns and that is still stored (RestoreCheckinPacketsFromRaw), unless *)
(* it reports a failure.                                                   *)
(***************************************************************************)
THEOREM RestoreDoesItsWork == MaintainedSpec => []RestoredRowsLinked
<1>1. MInv => RestoredRowsLinked
  BY DEF MInv, RestoreSound
<1> QED
  BY <1>1, MInvHolds, PTL

\* The stale cursor of the command can make the week of a link wrong, and nothing else.
THEOREM OnlyWeeksGoStale == MaintainedSpec => []OnlyLinkWeeksGoStale
<1>1. MInv => OnlyLinkWeeksGoStale
  BY DEF MInv, ServerSound, MaintainedTables
<1> QED
  BY <1>1, MInvHolds, PTL

LEMMA StepKeepsCheckins == MInv /\ [MaintainedNext]_maintainedVars => KeepsCheckins
<1> SUFFICES ASSUME MInv, [MaintainedNext]_maintainedVars PROVE KeepsCheckins
  OBVIOUS
<1>1. /\ ServerSound /\ TypeOK /\ OneCheckinPerWeek /\ CheckinIsLinked /\ OnlyLinkWeeksGoStale
  BY DEF MInv, ServerSound, MaintainedTables
<1>2. ASSUME checkins \subseteq checkins', checkinPackets \subseteq checkinPackets',
             rawPackets \subseteq rawPackets'
      PROVE  KeepsCheckins
  BY <1>1, <1>2 DEF KeepsCheckins, CheckinIsLinked
<1>3. CASE ServerStep
  <2>1. Next
    BY <1>3 DEF ServerStep
  <2>2. CASE UNCHANGED store
    BY <1>2, <2>2 DEF store
  <2>3. ASSUME NEW w \in Workers, HandlerStep(w, dayOfWeek) PROVE KeepsCheckins
    BY <1>2, <2>3, HandlerAddsOnly
  <2>4. CASE DeleteChunk
    <3>1. /\ checkins' = checkins
          /\ \A c \in checkins, r \in rawPackets : r.hash = c.hash => r \in rawPackets'
          /\ \A l \in checkinPackets, r \in rawPackets' :
               r.hash = l.hash => l \in checkinPackets'
      BY <1>1, <2>4, ChunkSparesCheckins
    <3> SUFFICES ASSUME NEW c \in checkins
                 PROVE  LinkRow(c.week, c.user, c.hash) \in checkinPackets'
      BY <3>1 DEF KeepsCheckins
    <3>2. PICK r \in rawPackets : r.hash = c.hash
      BY <1>1 DEF OnlyLinkWeeksGoStale
    <3>3. /\ LinkRow(c.week, c.user, c.hash) \in checkinPackets
          /\ LinkRow(c.week, c.user, c.hash).hash = c.hash
      BY <1>1 DEF CheckinIsLinked, LinkRow
    <3> QED
      BY <3>1, <3>2, <3>3
  <2> QED
    BY <1>1, <2>1, <2>2, <2>3, <2>4, WritingSteps
<1>4. CASE OnlyAddsLinks
  BY <1>2, <1>4 DEF OnlyAddsLinks
<1> QED
  BY <1>3, <1>4, RunCommandKeeps, CommandStepKeeps, NothingKeeps DEF MaintainedNext

(***************************************************************************)
(* No step of either process removes a check-in, its link or its packet:   *)
(* only links the command adds can be lost (README.md:82).                 *)
(***************************************************************************)
THEOREM CheckinsSurvive == MaintainedSpec => CheckinsKept
<1>1. MInv /\ [MaintainedNext]_maintainedVars => [KeepsCheckins]_maintainedVars
  BY StepKeepsCheckins
<1> QED
  BY <1>1, MInvHolds, PTL DEF MaintainedSpec, CheckinsKept

--------------------------------------------------------------------------------
(***************************************************************************)
(* The command writes neither check-ins nor the calls, and a link goes     *)
(* only with its packet: no packet that is still stored loses its credit.  *)
(***************************************************************************)
LEMMA ChunkLosesNothing ==
  ASSUME ServerSound, NoSilentLoss, DeleteChunk, UNCHANGED <<handlers, abandoned>>
  PROVE  NoSilentLoss'
<1>1. /\ rawPackets' \subseteq rawPackets /\ checkins' = checkins
      /\ \A l \in checkinPackets, r \in rawPackets' : r.hash = l.hash => l \in checkinPackets'
  BY ChunkSparesCheckins
<1> SUFFICES ASSUME NEW r \in rawPackets', r.user # NoCandidate, Settled(r)
             PROVE  Settled(r)'
  BY <1>1 DEF NoSilentLoss, InFlight
<1>2. LinkRow(r.day, r.user, r.hash).hash = r.hash
  BY DEF LinkRow
<1> QED
  BY <1>1, <1>2 DEF Settled

LEMMA CallLosesNothing ==
  ASSUME ServerSound, NoSilentLoss, NEW w \in Workers, HandlerStep(w, dayOfWeek)
  PROVE  NoSilentLoss'
<1>1. /\ TypeOK /\ RawKeys /\ CallsRecent /\ CallsInOrder /\ InFlightPacketStored
      /\ \A c \in checkins : \E r \in rawPackets :
           r.hash = c.hash /\ r.day = c.week /\ r.user = c.user
  BY DEF ServerSound, MaintainedTables, MaintainedCalls, OnlyLinkWeeksGoStale
<1>2. CASE QuietCallStep
  BY <1>2, LossUnchanged DEF QuietCallStep
<1> QED
  BY <1>1, <1>2, QuietSteps, StoreRawLosesNothing, StoreLinkLosesNothing,
     StoreCheckinLosesNothing

\* The other steps of the server write no table; an exit records what it drops.
LEMMA IdleStepLosesNothing ==
  ASSUME ServerSound, NoSilentLoss, UNCHANGED store,
         \/ \E w \in Workers : Deliver(w)
         \/ Exit
         \/ UNCHANGED <<handlers, abandoned>>
  PROVE  NoSilentLoss'
<1>1. /\ TypeOK /\ rawPackets' = rawPackets /\ checkins' = checkins
      /\ checkinPackets' = checkinPackets
  BY DEF ServerSound, store
<1>2. ASSUME NEW w \in Workers, Deliver(w) PROVE NoSilentLoss'
  <2>1. /\ ~Crediting(handlers[w]) /\ abandoned' = abandoned
        /\ \A v \in Workers : v # w => handlers'[v] = handlers[v]
    BY <1>1, <1>2, IdleIsIdle DEF Deliver, Receive, TypeOK, IngestTypeOK
  <2> QED
    BY <1>1, <2>1, LossUnchanged
<1>3. CASE Exit
  <2>1. /\ abandoned \subseteq abandoned'
        /\ \A v \in Workers : Crediting(handlers[v]) => handlers[v].packet \in abandoned'
    BY <1>3 DEF Exit, DropHandlers
  <2> QED
    BY <1>1, <2>1, LossUnchanged
<1>4. CASE UNCHANGED <<handlers, abandoned>>
  BY <1>1, <1>4, LossUnchanged
<1> QED
  BY <1>2, <1>3, <1>4

LEMMA StepLosesNothing == MInv /\ NoSilentLoss /\ [MaintainedNext]_maintainedVars => NoSilentLoss'
<1> SUFFICES ASSUME MInv, NoSilentLoss, [MaintainedNext]_maintainedVars PROVE NoSilentLoss'
  OBVIOUS
<1>1. ServerSound /\ TypeOK /\ OneCheckinPerWeek /\ CheckinIsLinked
  BY DEF MInv, ServerSound, MaintainedTables
<1>2. CASE ServerStep
  <2>1. ASSUME NEW w \in Workers, Deliver(w) PROVE NoSilentLoss'
    BY <1>1, <2>1, IdleStepLosesNothing DEF Deliver, Receive
  <2>2. ASSUME NEW w \in Workers, Handle(w) PROVE NoSilentLoss'
    BY <1>1, <2>2, CallLosesNothing DEF Handle
  <2>3. CASE PruneStep
    BY <1>1, <2>3, IdleStepLosesNothing, ChunkLosesNothing
       DEF PruneStep, PassStep, ReadProtected, ScanBatch, RetryDelete, PassFails
  <2>4. CASE BeginPrune \/ Tick \/ Exit
    BY <1>1, <2>4, IdleStepLosesNothing DEF BeginPrune, StartPass, Tick, Exit
  <2>5. CASE Start
    BY <1>1, <2>5, MigrateIsIdle, IdleStepLosesNothing DEF Start
  <2> QED
    BY <1>2, <2>1, <2>2, <2>3, <2>4, <2>5 DEF ServerStep, Next
<1>3. CASE OnlyAddsLinks
  BY <1>3, LossUnchanged DEF OnlyAddsLinks
<1> QED
  BY <1>2, <1>3, RunCommandKeeps, CommandStepKeeps, NothingKeeps DEF MaintainedNext

(***************************************************************************)
(* The command costs nobody the credit of a packet: beside it too a stored *)
(* check-in packet is settled, about to be, or its call was cut short.     *)
(***************************************************************************)
THEOREM NothingLostBesideCommand == MaintainedSpec => []NoSilentLoss
<1>1. MaintainedInit => NoSilentLoss
  BY DEF MaintainedInit, Init, StoreInit, NoSilentLoss
<1> QED
  BY <1>1, StepLosesNothing, MInvHolds, PTL DEF MaintainedSpec

--------------------------------------------------------------------------------
LEMMA MaintainedStepRefinesBoard ==
  MInv /\ [MaintainedNext]_maintainedVars => [Board!Next]_Credits
<1> SUFFICES ASSUME MInv, [MaintainedNext]_maintainedVars PROVE [Board!Next]_Credits
  OBVIOUS
<1>1. /\ ServerSound /\ TypeOK /\ OneCheckinPerWeek /\ CheckinIsLinked
      /\ CallsRecent /\ CallsInOrder /\ InFlightPacketStored
  BY DEF MInv, ServerSound, MaintainedTables, MaintainedCalls
<1>2. CASE checkins' = checkins
  BY <1>2 DEF Credits
<1>3. CASE ServerStep
  <2>1. CASE UNCHANGED store
    BY <1>2, <2>1 DEF store
  <2>2. ASSUME NEW w \in Workers, HandlerStep(w, dayOfWeek) PROVE [Board!Next]_Credits
    BY <1>1, <2>2, CallRefinesBoard
  <2>3. CASE DeleteChunk
    BY <1>1, <1>2, <2>3, ChunkSparesCheckins
  <2> QED
    BY <1>1, <1>3, <2>1, <2>2, <2>3, WritingSteps DEF ServerStep
<1>4. CASE OnlyAddsLinks
  BY <1>2, <1>4 DEF OnlyAddsLinks
<1> QED
  BY <1>3, <1>4, RunCommandKeeps, CommandStepKeeps, NothingKeeps DEF MaintainedNext

(***************************************************************************)
(* The two processes together still implement the abstract board: links    *)
(* may come and go, a credit once given stands.                            *)
(***************************************************************************)
THEOREM MaintainedImplementsBoard == MaintainedSpec => BoardSpec
<1>1. MaintainedInit => Board!Init
  BY DEF MaintainedInit, Init, StoreInit, Board!Init, Credits
<1> QED
  BY <1>1, MaintainedStepRefinesBoard, MInvHolds, PTL DEF MaintainedSpec, BoardSpec, Board!Spec

--------------------------------------------------------------------------------
\* A check-in whose link is stored is on the pages its own packet qualifies for.
OwnPacketsShow ==
  \A c \in checkins : \A filter \in SUBSET Regions :
    /\ LinkRow(c.week, c.user, c.hash) \in checkinPackets
    /\ filter = {} \/ \E r \in rawPackets : r.hash = c.hash /\ r.iata \in filter
    => \E row \in ListCheckinsByWeek(filter, c.week) :
         row.id = c.id /\ HeardBy(c) \subseteq row.observers

LEMMA OwnPacketShows == OwnPacketsShow
<1> SUFFICES ASSUME NEW c \in checkins, NEW filter \in SUBSET Regions,
                    LinkRow(c.week, c.user, c.hash) \in checkinPackets,
                    filter = {} \/ \E r \in rawPackets : r.hash = c.hash /\ r.iata \in filter
             PROVE  \E row \in ListCheckinsByWeek(filter, c.week) :
                      row.id = c.id /\ HeardBy(c) \subseteq row.observers
  BY DEF OwnPacketsShow
<1> DEFINE link == LinkRow(c.week, c.user, c.hash)
           row == [id |-> c.id, user |-> c.user, observers |-> ObserversOf(c)]
<1>1. link \in Transmissions(c) /\ link.hash = c.hash
  BY DEF Transmissions, LinkRow
<1>2. InRegions(c, filter)
  BY <1>1 DEF InRegions
<1>3. HeardBy(c) \subseteq ObserversOf(c)
  BY <1>1 DEF HeardBy, ObserversOf
<1>4. row \in ListCheckinsByWeek(filter, c.week)
  BY <1>2 DEF ListCheckinsByWeek
<1> QED
  BY <1>3, <1>4

LEMMA OwnPacketShowsNext == OwnPacketsShow'
  BY OwnPacketShows, PTL

LEMMA ObserversKept ==
  ASSUME MInv, [MaintainedNext]_maintainedVars, NEW c \in checkins
  PROVE  HeardBy(c) \subseteq HeardBy(c)'
<1>1. /\ ServerSound /\ TypeOK /\ OneCheckinPerWeek /\ CheckinIsLinked
  BY DEF MInv, ServerSound, MaintainedTables
<1>2. CASE observations \subseteq observations'
  BY <1>2 DEF HeardBy
<1>3. CASE ServerStep
  <2>1. ASSUME NEW w \in Workers, HandlerStep(w, dayOfWeek) PROVE HeardBy(c) \subseteq HeardBy(c)'
    BY <1>2, <2>1, HandlerAddsOnly
  <2>2. CASE DeleteChunk
    <3>1. \A r \in rawPackets : r.hash = c.hash => r \in rawPackets'
      BY <1>1, <2>2, ChunkSparesCheckins
    <3>2. \A o \in observations : o.hash = c.hash => o \in observations'
      BY <2>2, <3>1 DEF DeleteChunk, DeleteRawPackets
    <3> QED
      BY <3>2 DEF HeardBy
  <2> QED
    BY <1>1, <1>2, <1>3, <2>1, <2>2, WritingSteps DEF ServerStep, store
<1>4. CASE OnlyAddsLinks
  BY <1>2, <1>4 DEF OnlyAddsLinks
<1> QED
  BY <1>3, <1>4, RunCommandKeeps, CommandStepKeeps, NothingKeeps DEF MaintainedNext

LEMMA StepKeepsPages == MInv /\ [MaintainedNext]_maintainedVars => PagesKeepCheckins
<1> SUFFICES ASSUME MInv, [MaintainedNext]_maintainedVars,
                    NEW c \in checkins, NEW filter \in SUBSET Regions,
                    filter = {} \/ c.iata \in filter
             PROVE  \E row \in ListCheckinsByWeek(filter, c.week)' :
                      row.id = c.id /\ HeardBy(c) \subseteq row.observers
  BY DEF PagesKeepCheckins
<1>1. /\ c \in checkins' /\ LinkRow(c.week, c.user, c.hash) \in checkinPackets'
  BY StepKeepsCheckins DEF KeepsCheckins
<1>2. PICK r \in rawPackets : r.hash = c.hash /\ r.iata = c.iata
  BY DEF MInv, ServerSound, MaintainedTables, OnlyLinkWeeksGoStale
<1>3. r \in rawPackets'
  BY <1>2, StepKeepsCheckins DEF KeepsCheckins
<1>4. filter = {} \/ \E s \in rawPackets' : s.hash = c.hash /\ s.iata \in filter
  BY <1>2, <1>3
<1>5. \E row \in ListCheckinsByWeek(filter, c.week)' :
        row.id = c.id /\ HeardBy(c)' \subseteq row.observers
  BY <1>1, <1>4, OwnPacketShowsNext DEF OwnPacketsShow
<1> QED
  BY <1>5, ObserversKept

(***************************************************************************)
(* Readers keep every check-in, beside the command too: on the unfiltered  *)
(* page and under its own region, with the observers of its own packet.    *)
(***************************************************************************)
THEOREM PagesKeepEveryCheckin == MaintainedSpec => CheckinsStayOnPages
<1>1. MInv /\ [MaintainedNext]_maintainedVars => [PagesKeepCheckins]_maintainedVars
  BY StepKeepsPages
<1> QED
  BY <1>1, MInvHolds, PTL DEF MaintainedSpec, CheckinsStayOnPages

================================================================================
