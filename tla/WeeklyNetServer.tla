---------------------------- MODULE WeeklyNetServer ----------------------------
(***************************************************************************)
(* The WeeklyNet server process (cmd/server/main.go): the ingest handlers  *)
(* and the retention loop share one database while days pass, and the      *)
(* process ends and starts again, possibly with another DAY_OF_WEEK and    *)
(* with other rules of what a check-in is.                                 *)
(***************************************************************************)
EXTENDS IngestService, RawRetention

CONSTANTS
  Days,            \* the local days the clock shows, in order
  CheckinDays,     \* the weekdays DAY_OF_WEEK is ever set to
  MaxHandlerDays,  \* a call is over before the clock has moved further than this
  MaxExits         \* bound: process exits

(***************************************************************************)
(* A call makes at most four statements, each tried at most 16 times with  *)
(* a busy timeout of 30 s: it is over within the day, far less than the    *)
(* week that would let retention take its packet for an expired one.       *)
(***************************************************************************)
ASSUME ServerAssumption ==
  /\ Days \subseteq Nat
  /\ Days # {}
  /\ CheckinDays \subseteq Weekdays
  /\ CheckinDays # {}
  /\ MaxHandlerDays \in 0..6
  /\ MaxExits \in Nat

VARIABLES
  today,      \* the local day time.Now() falls on
  dayOfWeek,  \* Config.DayOfWeek of the running process
  rules,      \* its channel keys and check-in hashtag
  up,         \* is the process running?
  exits       \* process exits so far

vars == <<store, handlers, abandoned, prune, today, dayOfWeek, rules, up, exits>>

TypeOK ==
  /\ StoreTypeOK
  /\ IngestTypeOK
  /\ RetentionTypeOK
  /\ today \in Days
  /\ dayOfWeek \in CheckinDays
  /\ rules \in Rules
  /\ up \in BOOLEAN
  /\ exits \in 0..MaxExits

Init ==
  /\ StoreInit
  /\ IngestInit
  /\ RetentionInit
  /\ today \in Days
  /\ dayOfWeek \in CheckinDays
  /\ rules \in Rules
  /\ up = TRUE
  /\ exits = 0

--------------------------------------------------------------------------------
\* The MQTT consumer hands a worker a message.
Deliver(w) ==
  /\ up
  /\ \E p \in Packets, region \in Regions, observer \in Observers :
       Receive(w, p, Candidate[rules][p], region, observer, today, dayOfWeek)
  /\ UNCHANGED <<prune, today, dayOfWeek, rules, up, exits>>

Handle(w) ==
  /\ up
  /\ HandlerStep(w, dayOfWeek)
  /\ UNCHANGED <<prune, today, dayOfWeek, rules, up, exits>>

\* The retention ticker fires while no pass is running.
BeginPrune ==
  /\ up
  /\ StartPass(today)
  /\ UNCHANGED <<handlers, abandoned, today, dayOfWeek, rules, up, exits>>

PruneStep ==
  /\ up
  /\ PassStep(dayOfWeek)
  /\ UNCHANGED <<handlers, abandoned, today, dayOfWeek, rules, up, exits>>

\* A later day begins; no call lives longer than MaxHandlerDays.
Tick ==
  /\ today' \in {d \in Days : d > today}
  /\ \A w \in Workers : handlers[w] # Idle => today' - handlers[w].day <= MaxHandlerDays
  /\ UNCHANGED <<store, handlers, abandoned, prune, dayOfWeek, rules, up, exits>>

(***************************************************************************)
(* The process ends: a crash, or a shutdown, which waits neither for the   *)
(* calls in flight nor for the retention pass it cancels.                  *)
(***************************************************************************)
Exit ==
  /\ up
  /\ exits < MaxExits
  /\ exits' = exits + 1
  /\ up' = FALSE
  /\ DropHandlers
  /\ prune' = Asleep
  /\ UNCHANGED <<store, today, dayOfWeek, rules>>

\* The process starts: config.Load, then OpenSQLite with its Migrate.
Start ==
  /\ ~up
  /\ up' = TRUE
  /\ dayOfWeek' \in CheckinDays
  /\ rules' \in Rules
  /\ Migrate
  /\ UNCHANGED <<handlers, abandoned, prune, today, exits>>

Next ==
  \/ \E w \in Workers : Deliver(w) \/ Handle(w)
  \/ BeginPrune
  \/ PruneStep
  \/ Tick
  \/ Exit
  \/ Start

Spec == Init /\ [][Next]_vars

(***************************************************************************)
(* A call in flight goes on (a goroutine), the ticker fires again and a    *)
(* pass goes on (the retention goroutine), the supervisor restarts the     *)
(* process (restart: unless-stopped).  Nothing makes messages come, days   *)
(* pass or the process end.                                                *)
(***************************************************************************)
Fairness ==
  /\ \A w \in Workers : WF_vars(Handle(w))
  /\ WF_vars(BeginPrune)
  /\ WF_vars(PruneStep)
  /\ WF_vars(Start)

FairSpec == Spec /\ Fairness

--------------------------------------------------------------------------------
Linked(p) == \E l \in checkinPackets : l.hash = p

InFlight(p) == \E w \in Workers : Crediting(handlers[w]) /\ handlers[w].packet = p

(***************************************************************************)
(* A check-in always has the link row of its own packet, so the region     *)
(* filter of the board, which goes through the links, finds it, and        *)
(* Migrate has nothing to repair: HandleMessage stores the link first.     *)
(***************************************************************************)
CheckinIsLinked ==
  \A c \in checkins : LinkRow(c.week, c.user, c.hash) \in checkinPackets

(***************************************************************************)
(* Links and check-ins agree with the packet they refer to: the week is    *)
(* the one the packet was first observed in, the user the one its text     *)
(* named then, the region the one it was first heard in.  A retransmission *)
(* in a later week or from another region changes none of them, also not   *)
(* after a restart with another DAY_OF_WEEK, or with keys or a hashtag     *)
(* under which the same payload checks in another user or none.            *)
(***************************************************************************)
CreditMatchesPacket ==
  /\ \A l \in checkinPackets : \E r \in rawPackets :
       r.hash = l.hash /\ r.day = l.week /\ r.user = l.user
  /\ \A c \in checkins : \E r \in rawPackets :
       /\ r.hash = c.hash /\ r.day = c.date /\ r.iata = c.iata
       /\ c.week = c.date /\ r.user = c.user

\* The packet of raw row r is linked and its user has the credit of that week.
Settled(r) ==
  /\ LinkRow(r.day, r.user, r.hash) \in checkinPackets
  /\ \E c \in checkins : c.week = r.day /\ c.user = r.user

(***************************************************************************)
(* A packet stored as a check-in has its link, and its user the credit of  *)
(* that week, or a call is still about to give them, or that call was cut  *)
(* short by an error or an exit.  Nothing else loses a check-in, also not  *)
(* a restart with rules under which it would be none.                      *)
(***************************************************************************)
NoSilentLoss ==
  \A r \in rawPackets :
    r.user # NoCandidate =>
      InFlight(r.hash) \/ r.hash \in abandoned \/ Settled(r)

(***************************************************************************)
(* The raw packet a call is about to link stays stored, although the       *)
(* retention pass that runs beside it took its snapshot of protected       *)
(* hashes before the link was there.                                       *)
(***************************************************************************)
InFlightPacketStored ==
  \A w \in Workers : Crediting(handlers[w]) =>
    \E r \in rawPackets :
      /\ r.hash = handlers[w].packet /\ r.day = handlers[w].day
      /\ r.iata = handlers[w].iata /\ r.user = handlers[w].user

(***************************************************************************)
(* The cursor of a retention pass never passes a row the pass would have   *)
(* to delete, whatever is inserted or deleted while the pass runs          *)
(* ("next batch must not skip rows", retention.go:75).                     *)
(***************************************************************************)
CursorSkipsNothing ==
  prune.pc \in {"scan", "delete"} =>
    \A r \in rawPackets : r.id <= prune.lastId => ShouldRetain(r, prune, dayOfWeek)

(***************************************************************************)
(* "Checkins and linked rows are always kept" (README.md:82): no step      *)
(* removes a check-in, a link, a raw packet with a link, or an observation *)
(* of such a packet.                                                       *)
(***************************************************************************)
KeepsLinkedRows ==
  /\ checkins \subseteq checkins'
  /\ checkinPackets \subseteq checkinPackets'
  /\ \A r \in rawPackets : Linked(r.hash) => r \in rawPackets'
  /\ \A o \in observations : Linked(o.hash) => o \in observations'

LinkedRowsKept == [][KeepsLinkedRows]_vars

\* A packet of a check-in day of this week or of the RetainWeeks weeks before it.
OfRetainedWeeks(r) == IsWeekday(r.day, dayOfWeek) /\ today - r.day < 7 * (RetainWeeks + 1)

(***************************************************************************)
(* "Ambient mesh traffic is trimmed to recent selected weekday"            *)
(* (README.md:82), counted in weeks before the day it is now: no step      *)
(* removes a packet of a retained week, linked or not, although the pass   *)
(* that deletes reckons from the day it began and midnight may pass.       *)
(***************************************************************************)
KeepsRetainedWeeks == \A r \in rawPackets : OfRetainedWeeks(r) => r \in rawPackets'

RetainedWeeksKept == [][KeepsRetainedWeeks]_vars

--------------------------------------------------------------------------------
\* The board a reader sees: the credits in the table checkins.
Credits == {[week |-> c.week, user |-> c.user, hash |-> c.hash] : c \in checkins}

Board == INSTANCE CheckinBoard WITH board <- Credits, Weeks <- Days

\* The server implements the abstract board: one credit per user and week,
\* one per packet, the first one stands, none is ever withdrawn.
BoardSpec == Board!Spec

(***************************************************************************)
(* When no statement fails for good and the process stays up, every stored *)
(* check-in packet ends up linked and its user credited for the week.      *)
(***************************************************************************)
CreditedEventually ==
  \A p \in Packets : InFlight(p) ~>
    \E l \in checkinPackets : /\ l.hash = p
                              /\ \E c \in checkins : c.week = l.week /\ c.user = l.user

\* Neither linked nor about to be, and outside the retained weeks of today.
Expired(p) ==
  /\ \E r \in rawPackets : r.hash = p /\ ~AmbientKept(r.day, today, dayOfWeek)
  /\ p \notin ProtectedPacketHashes

\* Ambient traffic does not pile up: an expired row is deleted some time.
ExpiredTrimmed == \A p \in Packets : Expired(p) ~> ~Stored(p)

================================================================================
