# WeeklyNet in TLA+

WeeklyNet credits the members of a radio mesh for checking in once a week. Observers publish
the packets they hear over MQTT; a Go server keeps them in SQLite, credits the sender when a
packet heard on the configured weekday is a check-in, trims old traffic, and shows a weekly
board and a leaderboard. This directory models that server, checks the models with TLC and
proves the most important results with TLAPS.

Paths are relative to the repository; `PROJECT.json` maps every definition to its lines, lists
the hazards with the properties that cover them, and names every run, mutant and theorem.

## 1. Inventory

| component | state | operations | talks to | hard behaviour |
|---|---|---|---|---|
| Calendar (`internal/checkins/service.go`, `mesh_weeks.go`) | none | weekday test, week start, week count | everyone | time zone, clock changes, changed `DAY_OF_WEEK` |
| SQLite store (`internal/storage/sqlite.go`) | `raw_packets`, `checkins`, `packet_observations`, `checkin_packets`, `leaderboard_snapshots` | four inserts, two listings, restore cursor, `Migrate`, snapshot replacement | ingest, retention, web, restore command | every statement is its own transaction; unique keys and cascades decide |
| Ingest service (`internal/ingest/service.go`) | the calls in flight | `HandleMessage`, `RestoreCheckinPacketsFromRaw`, `withBusyRetry` | MQTT consumer (callback), store | duplicates, failures and exits between statements, retries |
| Retention (`internal/storage/retention.go`, loop in `cmd/server/main.go`) | one pass: protected hashes, cursor, ids to delete | `PruneRawPackets` | store, beside ingest | stale snapshot, cursor, chunked deletes, retries |
| Restore command (`cmd/restorecheckinpackets`) | a read cursor | links stored check-in packets again | the same database, from another process | runs beside a live server on a stale read |
| Week page, check-in API (`internal/web/server.go`) | none | one SELECT per request | store | sees every intermediate state of ingest |
| Leaderboard (`internal/leaderboard`, `internal/web/server.go`) | `leaderboard_snapshots` | season length, ring, streaks, ranking, replace snapshots | store, calendar | clock changes, in-place slices, map order, racing requests |
| MQTT consumer (`internal/mqtt/consumer.go`, `connectMQTTWithRetry`) | registered topics | `Subscribe`, `Connect`, `OnConnect`, `buildMessage` | broker, ingest | reconnects racing with `Subscribe`, refused subscriptions |
| Packet decoder (`internal/meshcore/decode.go`) | none | `DecodePacket`, `HashPacket` | ingest, restore | offsets from a length byte of the sender |
| Check-in extraction (`internal/checkins/service.go`) | the channel keys | `ExtractFromPacket`: keys, then JSON, then text | ingest, restore | keys that share a hash byte, MACs of two bytes, order of fallbacks |
| Browser script (`web/static/app.js`) | search text, frames, timers, in-flight refresh | filter, fade out, poll | web server | timers and frames that outlive their query, overlapping polls |
| Configuration (`internal/config`) | none after the start | `Load`, `Validate`, `ChannelSecretKeys` | everyone | - |
| Logging, space report, replay, seed, backup script | - | I/O only | - | - |

What makes them correct: a user is credited at most once a week and a packet credits at most
one; the first credit stands and none is taken back; a credit is of the week the packet was
first heard in; a stored check-in is not lost except by a fault that cut its call short;
retention deletes nothing linked or about to be and skips nothing expired; pages never lose a
tile; season and streak figures are what a calendar would say; the stored leaderboard is one
leaderboard, and ranks do not change by themselves; every registered topic is subscribed on
every connection; a packet is read inside its bounds and completely, and the key that opens it
decides whom it checks in; the rows on the screen are those the search field asks for.

## 2. Modules

```
WeekCalendar ── SQLiteStore ─┬─ IngestService ─┬─ WeeklyNetServer ── ServerInvariant ── WeekBoard ── ServerProofs
                             └─ RawRetention ──┘        │
        IngestService ── RestoreTool ── MaintainedServer (with WeekBoard) ── MaintainedProofs (with ServerProofs)
CheckinBoard (abstract; INSTANCE in WeeklyNetServer)
WeekCalendar ── Season ── SeasonProofs    LeaderboardRequests ── RequestsProofs
StreakScan ── StreakProofs
MqttConsumer ── MqttProofs                PacketDecoder ── MessageIntake ── IntakeProofs
LeaderboardFilter ── FilterProofs
```

- **WeekCalendar**: an instant is its local day, numbered from a Sunday. `WeekStart` is
  `WeekStartForWeekday`, `CutoffWeekStart` the first lines of `PruneRawPackets`. `AddDate` moves
  by calendar days, so this needs no hours.
- **SQLiteStore**: the four tables as sets of records, keeping the columns some decision reads.
  One operator per statement; unique keys, foreign keys and `ON DELETE CASCADE` are part of the
  statement. `Migrate` is one step: it runs before the process accepts anything.
- **IngestService**: `handlers[w]` is the `HandleMessage` call worker `w` is in; `pc` names the
  statement it executes next. `StoreRaw`, `StoreObservation`, `StoreLink`, `StoreCheckin` are its
  four statements, `RetryBusy`, `RawFails`, `ObservationFails`, `CreditFails` their failures,
  `DropHandlers` the end of the process. `abandoned` is a history variable: stored check-in
  packets whose call was cut short. It decides nothing. The constant `Candidate` stands for
  decoding and extraction, a function of the payload and of the rules in force (`Rules`: settings of
  the channel keys and of `CHECKIN_HASHTAG`). `HandleMessage` extracts under the rules of its process,
  which cannot change during a call, so a call carries the `user` it found; `RawRow.user` records it
  with the packet, as history for the properties, and no step reads it.
- **RawRetention**: `prune` is the pass `runOnce` is in. `StartPass`, `ReadProtected`, `ScanBatch`,
  `DeleteChunk`, `RetryDelete`, `PassFails` follow `PruneRawPackets` and `deleteRawPacketIDs`.
- **WeeklyNetServer** composes the two over one store with the calendar (`Tick`), the end of the
  process (`Exit`) and its restart (`Start`, with any `DAY_OF_WEEK`, any rules, and `Migrate`).
- **CheckinBoard** is the promise: credits are only added, one per user and week and one per
  packet. `WeeklyNetServer!BoardSpec` instantiates it with `board <- Credits`.
- **ServerInvariant** holds the inductive invariant `IInv`.
- **WeekBoard**: what `ListCheckinsByWeek` returns in a state, for any region filter.
- **RestoreTool**, **MaintainedServer**: the command with its snapshot cursor, its own weekday and its
  own rules, and its composition with the server on one database. The `Migrate` with which the
  command starts is one step beside the server.
- **Season**: one user, one zone, a calendar that moves. Here a midnight is an instant in minutes,
  since the code counts weeks from elapsed time and clocks may change by less than an hour.
- **StreakScan**: the two loops of `longestWeeklyStreak`, step by step, over the slice they share.
- **LeaderboardRequests**: `computeLeaderboard` for several requests at a time, beside inserts of
  check-ins, failures and restarts. A request lists, groups and ranks (`Rankings`: every order the
  sort may return), and replaces the snapshots in a transaction, one entry at a time. The region filter
  and `TRACK_FROM_DATE` of the listing (sqlite.go:333-353) are left out: they fix the set of check-ins
  that counts, and the model starts from such a set.
- **MqttConsumer**: goroutines in `Subscribe` and `resubscribeAll` (`threads`), the connect loop
  (`retry`), and what they see of the client library and the broker, which are external.
- **PacketDecoder**: `DecodePacket` byte by byte. `stage` is what is read next, `offset` the bytes
  read, `packet` the fields; the parts of a packet are slices of the input, as in the code.
- **MessageIntake**: what happens to an MQTT message before the first statement: size limit, topic,
  envelope, decoder, channel keys one by one, JSON, text. `Content` says what each key decrypts and
  what the plain readings contain; `candidate` is what `IngestService` calls `Candidate`.
- **LeaderboardFilter**: the leaderboard page in one tab. Steps are event handlers, animation frames,
  timers, and the stages of a fetch; `gone`, `filteredOut` and `opacity` are the classes and the
  transition of a row. `overtaken` is a history variable: the two races `RowsFollowQuery` excepts.
  A page loaded with a query saved by the tab starts filtered: whether the browser paints
  before the script at the end of the body runs, so that rows fade instead of being clear at once, is left out.

Definitions commented "Variant for mutation" are faulty versions of the definition after them.
Each property is shown to fail when one of them takes that definition's place.

## 3. Runs

| run | question | bounds |
|---|---|---|
| `server_faults` | Are stored data consistent, is nothing lost or deleted wrongly, and are the retained weeks kept, when statements fail, the process ends anywhere and restarts with another weekday or other rules? | 2 packets of one user, one of them a check-in under the new rules only, Sundays and Mondays of two weeks, 1 exit, retention of 0 weeks, batch and chunk of 1 |
| `board` | Do two concurrent handlers beside retention keep the inductive invariant, the abstract board and every page? | 2 packets, 2 workers, 2 regions, 2 observers, a batch of 2 deleted in chunks of 1 |
| `server_liveness` | Is every stored check-in credited and every expired row trimmed, if no statement fails for good? | 1 check-in and 1 other packet, three weeks, 1 busy answer per statement, retry budgets of 1, retention of 1 week |
| `maintained_restore` | Does the restore command do its work beside the live server without harming check-ins or what readers see of them? | 2 packets, each a check-in under one of two rules, a Monday and the Sunday and Monday a week later, 1 run of the command with either weekday and either rules, so that a row can be pruned and stored again on another day under the cursor |
| `season` | Are season length and ring right when clocks change, and what may a full ring hide? | ten weeks, three start dates, three zones: an hour forward and back, half an hour back and forward, two hours forward |
| `streak` | Does the scan find the longest streak and its first day? | all sorted slices of up to 6 of 7 week starts, two of them off the seven-day grid |
| `leaderboard` | Is the stored leaderboard always one leaderboard, and do ranks and totals stay, when requests race, fail and end with the process? | 2 requests, 2 users, 3 week starts, one of them off the seven-day grid, 3 check-ins, 1 failure, 1 exit |
| `mqtt` | Is every topic subscribed, whatever the order of Subscribe, OnConnect and lost connections? | 2 topics, 2 connections, 1 refusal |
| `intake` | Is a packet read inside its bounds and completely, and does the key that opens it decide whom it checks in? | packets with every route, path sizes of 0 to 63 hops of 1 to 4 bytes, cut off anywhere; 3 keys in 3 orders, two of them with the same hash byte; every envelope |
| `filter` | Do the rows on the screen follow the search field, and do polls bring newcomers without undoing the filter? | 2 users, 2 queries typed up to 3 times, 2 requests under way, the tab hidden once, 1 failed refresh |
| `maintained_race`, `season_doc` | Does the code do what a document says? TLC finds that it does not (section 6). | |

**Why the bounds are enough.** Retention of 0 weeks is the most aggressive setting: whatever it may
delete, it deletes soonest. Two weeks show a packet that comes back in a later week; three let a
row expire with one retained week. Two packets of one user meet in both unique keys of
`checkins`; with a batch of 1 the cursor moves between them, with a batch of 2 they are deleted
in two chunks. Retry budgets of 0 or 1 keep the boundary (`attempt` at its limit) and shed the
repetition. One exit is enough for every state an exit can leave, since a process that is down
keeps nothing but the store. `board` uses symmetry of packets, workers, regions and
observers, all of them interchangeable there, and checks no liveness; in `maintained_restore` the
two packets may change places if the two rules do, which is its only symmetry; `leaderboard` uses symmetry of requests. In
`leaderboard` two users can tie in every figure, and two requests are what a transaction can mix.
In `intake` a hop count and a size are enough to go past the end of any packet of the instance, and
lengths stand at, below and above their limits, which are small. In `filter` two queries and two
frames apart make every order of query, frame, timer and transition of one row, and rows do not
influence one another. `MaxExits`, `MaxRestores`, `MaxConnects`, `MaxRefusals`, `MaxWeeks`, `LastDay`,
`BusyBurst`, `MaxCheckins`, `MaxFailures`, `MaxTyped` and `MaxHides` are bounds of the checking only;
each is named in its module.

**What one worker and two workers mean.** The client library calls the handler for one message
at a time, so one server is one worker. `board` and the proofs allow any number: two processes
on one database, as during a replaced deployment, are safe as well.

**Deadlock** is checked in all runs of the server and the command. `season`, `streak` and `mqtt` end:
the calendar reaches its last day, the function returns, and a consumer that has subscribed to
everything waits.

## 4. Assumptions and fairness

- *Calls are short* (`MaxHandlerDays`, at most 6). A call makes four statements, each tried at most
  16 times with a busy timeout of 30 s: about half an hour. The proofs need only that it is over
  before the week is. This is what makes retention safe, so it is an assumption of the model and
  not of a run.
- *The clock does not go back* past a midnight. The clocks of a zone differ by less than a day between
  any two dates (`Season`): no zone that changed sides of the date line.
- *Fairness of the server* (`Fairness`): a call in flight proceeds (goroutine), the ticker fires and
  a pass proceeds (retention goroutine), the process is restarted (`restart: unless-stopped`,
  docker-compose.yml:13). Not assumed: that messages come, days pass, or the process ends.
  `CreditedEventually` is checked without exits and without errors other than "busy": with
  them it is false, and `NoSilentLoss` says exactly when.
- *Fairness of the consumer*: goroutines run, the library keeps trying to connect
  (`SetAutoReconnect`, `SetConnectRetry`), the broker answers. Connections need not get lost.
- *Client library*: a subscription asked for on a closed connection fails at once; a lost
  connection fails the pending ones; the session is clean; `OnConnect` runs in its own goroutine.
- *SQLite*: a statement is atomic, a transaction that fails or whose process ends is rolled back,
  writers take turns, and foreign keys are on (`sqliteDSN`).
- *Fairness of the page* (`LeaderboardFilter!Fairness`): frames run while the tab is visible, the
  timer fires, the poll ticks while the tab is visible, and a fetch is settled. The last is the
  browser's doing: app.js sets no timeout. Not assumed: that anybody types, hides the tab or comes
  back to it, or that a refresh fails.
- *Sealed payloads* (`SealedOnce`): no two keys decrypt one payload to text. MACs of two bytes may
  verify by chance, and the model lets them.

## 5. Proofs

`ServerProofs` proves `Spec => []IInv` for all values of the constants, and from it every safety
property of `WeeklyNetServer` that the runs check. TLC checks `IInv`, of which `TypeOK` is a conjunct, in run `board`.

*Why the invariant is needed.* The property to prove is that a pass with a stale snapshot never
deletes a row that is or will be linked (`LinkedRowsKept`, `InFlightPacketStored`). Neither is
inductive. The argument is one of dates: a row gets a link only from the call that stored it
(`CallsInOrder`: a duplicate never links), that call is at most six days old and began on a
check-in day (`CallsRecent`), so the row lies in the current week, and a pass that began today
or earlier keeps the current week whatever its snapshot says (`PassSafe`, with
`AmbientKeptExactly`). `RawKeys` makes a row and its hash
name the same thing; `CreditMatchesPacket` ties a link's week to the day of its row, and
`DownIsQuiet` keeps all of it across a restart with another `DAY_OF_WEEK`: nothing in flight
survives one. A changed key or hashtag is covered the same way: a link names the user its packet was
extracted for when it was stored, and later rules never touch it. `PassSafe` also says that what is pending for deletion is not retained, which with
`rawSeq` growing only (AUTOINCREMENT) makes the cursor sound.

*Layout.* The steps of a call that write neither packets nor check-ins share one lemma (`QuietSteps`); each step that
writes has a lemma of its own, with one step per disturbed conjunct. Then `StepInvariant`. From it: `TypeCorrect`, `NothingLostSilently`, `InFlightPacketsSafe`, `CreditsSound`,
`CursorSound`, the action properties `RetentionKeepsLinkedRows` and `RetentionKeepsRetainedWeeks` (a pass may
be older than today, and an older cutoff keeps more), and `ImplementsBoard`: a `StoreCheckin` that
inserts is a `Give`, everything else stutters, because no step removes a check-in.

The last part of `ServerProofs` carries this to the reader: `OwnRegionAlwaysShows` (a filter that names a check-in's
region shows it, because its link is stored first) and `PagesOnlyGrow` (every page, under every
filter, keeps its tiles and their observers).

`MaintainedProofs` is about the server beside the restore command, where `IInv` fails: the command
links rows that a running pass has already chosen to delete (finding `maintained_race`). What
survives is `MInv`: a pass keeps the packets of check-ins, links name stored packets, the
command only adds links, and every row of its cursor has an id the table has handed out, so a
packet pruned and received again is another row. The command may run under other rules than the
server, so a link need not name the user its packet was stored with: `CallsByRules` says that each
call has its user from some rules, and a link names one of those. `MInv` gives `MaintainedTypes`, `RestoreDoesItsWork`,
`OnlyWeeksGoStale` and `CheckinsSurvive`, for any number of runs of the command.

Three promises of the server alone survive the command as well, although `IInv` does not.
`NothingLostBesideCommand`: a link goes only with its packet, so what is still stored stays settled.
`MaintainedImplementsBoard`: the two processes refine the same abstract board as the server, the
command's steps stuttering. `PagesKeepEveryCheckin` is what is left of `PagesOnlyGrow`: a tile can lose
the observers of another transmission with that transmission's link, but neither itself nor
the observers of its own packet. Run `maintained_restore` checks the third; the first two are checked for
the server alone and proved for both. The lemmas on one write of a call (`StoreRawLosesNothing`,
`StoreLinkLosesNothing`, `StoreCheckinLosesNothing`, `CallRefinesBoard`) ask only what both
invariants give, and both proofs cite them.

`FilterProofs` (invariant `FInv`) shows that a row is shown wrongly only while its frame is due or
if it lost one of the two races counted in `overtaken` (`FilteredRows`), and that a refresh neither
replaces a page by an older one nor touches the query (`RefreshesGoForward`). The invariant adds
where each wrong row waits (`WrongRowsAreKnown`), that there is one fetch at a time, and that an
answer holds a page not older than the one shown.

`MqttProofs` (`CInv`): while a connection is open, each topic asked for is subscribed, refused, or
still in the hands of a goroutine (`NoneLost`); goroutines that have not looked yet count as
well. `NoTopicLost` follows for any number of topics, connections and refusals.

`StreakProofs` (`SInv`): the longest streak is defined with sets of days, not by recursion, so the
two loops need no induction over the slice: the invariant says that the kept prefix is
increasing and has the days read so far (which is all that `DedupLosesNoDay` says: the removal
writes the slice it reads and loses nothing), that the current run is the longest ending at the last
day seen, and that the best is the longest among the days seen. `LongestStreak`
follows, for slices of any length.

`SeasonProofs` (`YInv`): midnights of one zone differ from a multiple of 24 hours by the shift of
its clocks, which is less than a day, so a truncated division is short by at most one week (`SeasonOffByOne`),
exact before the clocks go forward (`ExactCount`), and a user who checked in every week has a full ring
(`PerfectRing`). The converse is weaker: the cap at 100 can hide one missed week, never two, and none
while the clock stands no further forward than at the start (`FullRingMeaning`). This holds for every zone within
the assumption of section 4, start date and weekday.

`RequestsProofs` (`QInv`): a request has read the rows of some moment, its ranking is one of those
rows, and what its transaction has inserted and has left to insert make the snapshots of that
ranking, so whatever is committed is one leaderboard (`OneLeaderboard`). `Less` is a total order of
entries, and the place of an entry in any ranking is the number of entries before it: a
counting argument that needs no induction and gives `OneOrder`. Rows only grow, and with them the
totals (`TotalsNeverShrink`).

`IntakeProofs` (`DInv`, `KeyInv`): after each stage the bytes read so far are the encoding of the fields
filled in so far. So no stage reads outside a packet of any length (`DecoderStaysInside`), and
encoding what was decoded gives the packet back, byte for byte (`DecoderInverts`). The keys tried
so far do not open the payload, so the one that does is the first in the list (`KeysDecide`).
`ChannelSecretKeys` is defined without a fold, which the prover could not unfold: the place of a key is the
number of first occurrences up to its own. That ranking is a bijection onto an interval (`Ranks`),
so the result lists each configured key once (`KeysListed`), and with it the state is well typed
(`IntakeWellTyped`). Neither assumes anything of the configured lists.

*Only model-checked*: liveness (`CreditedEventually`, `ExpiredTrimmed`, `EventuallyListening`,
`EventuallyFiltered`, `NewcomersAppear`), which needs fairness and ENABLED. Every safety property of a
passing run is proved.

## 6. Disagreements between the code and its documents

- **A week lost to daylight saving** (`season_doc`). `CountWeeklyNetWeeksInclusive` truncates hours to
  days (`mesh_weeks.go:20`). After the clocks have gone forward the count is one too low until they
  go back; the default `TRACK_FROM_DATE` is in January. `SeasonOffByOneAtMost`, `ExactBeforeClocksGoForward` and
  `PerfectRingIsFull` bound the damage: never more than one week, never in a zone before its clocks
  go forward, and no full ring is lost, though one with a single missed
  week may be shown full (`FullRingHidesOneWeekAtMost`).
- **A linked row that is deleted** (`maintained_race`). README.md:82 says linked rows are always kept.
  The server alone keeps them (proved). A link that the restore command adds to an old packet
  while a retention pass runs is deleted with its packet.
- **RAW_RETAIN_WEEKS=0** (observed; no run). `retention.go:24` says that only linked rows are kept; rows
  of the current check-in week are kept too (`AmbientKeptExactly`). The proof shows that they must be: the margin of
  the current week is what saves a packet that is not linked yet (mutant `AmbientKeptAfterCutoff`).
- **The observer cap** (observed; no run). README.md:33 says that the limit caps observers from the
  envelope and from the topic. `ingest/service.go:264` takes the device of the topic before it knows
  the form of the payload, and cuts it only where the payload is not an envelope: an envelope
  without origin leaves the topic's device at its full length.

## 7. Not modelled

- *Configuration* other than the list of channel keys: read once at the start, one variable at a
  time. The values that matter are constants or choices of a restart: the weekday, the channel keys
  and the hashtag.
- *HTTP and pages*: methods, the week parameter, templates, headers, shutdown of the server. They
  keep no state; what a page shows is one SELECT, and that is modelled.
- *Cryptography, JSON and Unicode*: functions of the payload. Their results are part of a message
  in `MessageIntake`; that AES or a MAC is computed correctly is not shown.
- *`HashPacket`*: a packet is its hash everywhere. The code hashes the text as received, so a packet
  spelled with and without `0x` is two packets (hazard at `decode.go:149`).
- *Display names* of one user that differ between check-ins: which one the leaderboard shows.
- *Tooltips, caret and the slide of rows* in `app.js`: nothing reads them back.
- *`Close` of the MQTT consumer*: the process ends with it, and the store keeps all that matters.
- *Logging, the space report, models, replay, `devseed`, the backup script*: I/O or plain records
  without a shared state of their own.
