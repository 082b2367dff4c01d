--------------------------- MODULE LeaderboardFilter ---------------------------
(***************************************************************************)
(* The leaderboard page in one browser tab (web/static/app.js): the search *)
(* field that filters the rows, the fade-out that precedes taking a row    *)
(* out of the layout, and the poll that exchanges the whole page.          *)
(*                                                                         *)
(* JavaScript runs one callback at a time; a step is an event handler, the *)
(* callbacks of one animation frame, a timer, or one stage of a fetch.     *)
(* Frames run while the tab is visible only, and then before a timeout of  *)
(* 240 ms set earlier fires; in a hidden tab timeouts fire without them.   *)
(*                                                                         *)
(* Left out: aria-hidden, the "no names match" line and the caret, which   *)
(* nothing reads back, tooltips, and the slide of the remaining rows.      *)
(***************************************************************************)
EXTENDS Naturals

CONSTANTS
  Users,       \* who may be on the leaderboard
  Queries,     \* what may be typed into the search field
  EmptyQuery,
  Matching,    \* Matching[q]: users whose name contains q
  Fetches,     \* slots for requests of the page
  MaxTyped,    \* bound: changes of the search text
  MaxHides,    \* bound: times the tab is hidden
  MaxFailures  \* bound: refreshes that fail

ASSUME FilterAssumption ==
  /\ EmptyQuery \in Queries
  /\ Matching \in [Queries -> SUBSET Users]
  /\ Matching[EmptyQuery] = Users
  /\ {MaxTyped, MaxHides, MaxFailures} \subseteq Nat

VARIABLES
  entries,         \* users on the leaderboard the server computes
  page,            \* users with a row on the page
  filteredOut,     \* rows with class board-row--filtered-out
  gone,            \* rows with class board-row--gone
  opacity,         \* how opaque a row is drawn
  input,           \* value of the search field
  saved,           \* sessionStorage[LEADERBOARD_FILTER_KEY]
  showing,         \* rows whose class filtered-out the next frame removes
  commitFrame,     \* leaderboardGoneFlipRaf
  commitTimer,     \* leaderboardGoneCommitTimer
  visible,         \* document.visibilityState
  refreshInFlight,
  fetches,         \* the requests of refreshMainInPlace
  overtaken,       \* history: rows whose frame came after a query or a timeout
  typed, hides, failures

rows    == <<page, filteredOut, gone, opacity>>
field   == <<input, saved>>
pending == <<showing, commitFrame, commitTimer>>
refresh == <<refreshInFlight, fetches>>
bounds  == <<typed, hides, failures>>
vars    == <<entries, rows, field, pending, visible, refresh, overtaken, bounds>>

NoFetch == [pc |-> "none"]
Fetch   == {NoFetch} \cup [pc: {"sent"}] \cup [pc: {"answered"}, rows: SUBSET Users]

\* The flag tells the next tick whether a request is on its way.
FlagSaysInFlight == refreshInFlight = (\E f \in Fetches : fetches[f] # NoFetch)

(***************************************************************************)
(* A row is "faint" when its opacity is below 0.05 but still in transition *)
(* and "clear" when no transition is left.  The timer is "due" once a      *)
(* frame has run since it was set.                                         *)
(***************************************************************************)
TypeOK ==
  /\ page \subseteq entries
  /\ entries \subseteq Users
  /\ {filteredOut, gone, showing, overtaken} \subseteq SUBSET page
  /\ opacity \in [Users -> {"opaque", "faint", "clear"}]
  /\ {input, saved} \subseteq Queries
  /\ commitFrame \in BOOLEAN
  /\ commitTimer \in {"off", "set", "due"}
  /\ visible \in BOOLEAN
  /\ fetches \in [Fetches -> Fetch]
  /\ FlagSaysInFlight
  /\ {typed, hides, failures} \subseteq Nat

Matches(u) == u \in Matching[input]

\* How opaque the rows are when they are drawn for the first time.
FirstDrawn(q) == [u \in Users |-> IF u \in Matching[q] THEN "opaque" ELSE "clear"]

--------------------------------------------------------------------------------
(***************************************************************************)
(* wireLeaderboardSearch on fresh rows: the saved text q is put into the   *)
(* field and applied before the rows are drawn for the first time, so a    *)
(* row filtered out has no transition.                                     *)
(***************************************************************************)
WirePage(users, q) ==
  /\ page' = users
  /\ filteredOut' = users \ Matching[q]
  /\ gone' = {}
  /\ opacity' = FirstDrawn(q)
  /\ input' = q
  /\ saved' = q
  /\ showing' = users \cap Matching[q]
  /\ commitFrame' = FALSE
  /\ commitTimer' = "set"
  /\ overtaken' = {}

\* The page has been loaded; the session may hold a text from an earlier visit.
Init ==
  /\ entries \in SUBSET Users
  /\ page = entries
  /\ saved \in Queries
  /\ input = saved
  /\ filteredOut = page \ Matching[saved]
  /\ gone = {}
  /\ opacity = FirstDrawn(saved)
  /\ showing = page \cap Matching[saved]
  /\ commitFrame = FALSE
  /\ commitTimer = "set"
  /\ visible = TRUE
  /\ refreshInFlight = FALSE
  /\ fetches = [f \in Fetches |-> NoFetch]
  /\ overtaken = {}
  /\ typed = 0 /\ hides = 0 /\ failures = 0

\* Variant for mutation: the timer of the last query is not cancelled.
ApplyKeepsTimer(q) ==
  /\ saved' = q
  /\ gone' = gone \ Matching[q]
  /\ showing' = showing \cup (page \cap Matching[q])
  /\ filteredOut' = filteredOut \cup (page \ Matching[q])
  /\ overtaken' = showing \ Matching[q]
  /\ commitFrame' = FALSE
  /\ commitTimer' = IF commitTimer = "due" THEN "due" ELSE "set"

\* apply: rows that match return in the next frame, the others begin to fade.
Apply(q) ==
  /\ saved' = q
  /\ gone' = gone \ Matching[q]
  /\ showing' = showing \cup (page \cap Matching[q])
  /\ filteredOut' = filteredOut \cup (page \ Matching[q])
  /\ overtaken' = showing \ Matching[q]
  /\ commitFrame' = FALSE
  /\ commitTimer' = "set"

\* An input event of the search field.
Type(q) ==
  /\ visible
  /\ typed < MaxTyped
  /\ typed' = typed + 1
  /\ q # input
  /\ input' = q
  /\ Apply(q)
  /\ UNCHANGED <<entries, page, opacity, visible, refresh, hides, failures>>

\* commitLeaderboardGoneRowsWithFlip, with the rows that have the class then.
Commit(withClass) ==
  LET toRemove == {u \in withClass \ gone : opacity[u] # "opaque"}
  IN  /\ gone' = gone \cup toRemove
      /\ opacity' = [u \in Users |-> IF u \in toRemove THEN "clear" ELSE opacity[u]]

(***************************************************************************)
(* One animation frame.  Its callbacks run in the order they were queued:  *)
(* apply queues those that show rows and cancels the one that commits, so  *)
(* the latter comes last.                                                  *)
(***************************************************************************)
Frame ==
  /\ visible
  /\ showing # {} \/ commitFrame \/ commitTimer = "set"
  /\ filteredOut' = filteredOut \ showing
  /\ showing' = {}
  /\ IF commitFrame THEN Commit(filteredOut \ showing) ELSE UNCHANGED <<gone, opacity>>
  /\ commitFrame' = FALSE
  /\ commitTimer' = IF commitTimer = "set" THEN "due" ELSE commitTimer
  /\ UNCHANGED <<entries, page, field, visible, refresh, overtaken, bounds>>

\* The 240 ms are over.  In a hidden tab the frame may not have come before.
TimerFires ==
  /\ commitTimer = "due" \/ (commitTimer = "set" /\ ~visible)
  /\ Commit(filteredOut)
  /\ commitTimer' = "off"
  /\ overtaken' = IF visible THEN overtaken ELSE overtaken \cup (gone' \cap showing)
  /\ UNCHANGED <<entries, page, filteredOut, field, showing, commitFrame, visible, refresh, bounds>>

\* A row that is filtered out fades below 0.05, ...
FadeOut(u) ==
  /\ visible
  /\ u \in filteredOut \ gone
  /\ opacity[u] = "opaque"
  /\ opacity' = [opacity EXCEPT ![u] = "faint"]
  /\ UNCHANGED <<entries, page, filteredOut, gone, field, pending, visible, refresh, overtaken, bounds>>

\* ... and its transition ends: the event queues a commit for the next frame.
FadeEnd(u) ==
  /\ visible
  /\ u \in filteredOut \ gone
  /\ opacity[u] = "faint"
  /\ opacity' = [opacity EXCEPT ![u] = "clear"]
  /\ commitFrame' = TRUE
  /\ UNCHANGED <<entries, page, filteredOut, gone, field, showing, commitTimer, visible, refresh,
                 overtaken, bounds>>

\* A row that is shown again is drawn again.
FadeIn(u) ==
  /\ visible
  /\ u \in page \ (filteredOut \cup gone)
  /\ opacity[u] # "opaque"
  /\ opacity' = [opacity EXCEPT ![u] = "opaque"]
  /\ UNCHANGED <<entries, page, filteredOut, gone, field, pending, visible, refresh, overtaken, bounds>>

Hide ==
  /\ visible
  /\ hides < MaxHides
  /\ hides' = hides + 1
  /\ visible' = FALSE
  /\ UNCHANGED <<entries, rows, field, pending, refresh, overtaken, typed, failures>>

Reveal ==
  /\ ~visible
  /\ visible' = TRUE
  /\ UNCHANGED <<entries, rows, field, pending, refresh, overtaken, bounds>>

--------------------------------------------------------------------------------
\* A user's first check-in; no check-in is ever taken back.
NewEntry(u) ==
  /\ u \notin entries
  /\ entries' = entries \cup {u}
  /\ UNCHANGED <<rows, field, pending, visible, refresh, overtaken, bounds>>

\* Variant for mutation: a tick does not look whether a refresh is under way.
PollTickAlways(f) ==
  /\ visible
  /\ fetches[f] = NoFetch
  /\ refreshInFlight' = TRUE
  /\ fetches' = [fetches EXCEPT ![f] = [pc |-> "sent"]]
  /\ UNCHANGED <<entries, rows, field, pending, visible, overtaken, bounds>>

\* The poll interval is over.
PollTick(f) ==
  /\ visible
  /\ ~refreshInFlight
  /\ fetches[f] = NoFetch
  /\ refreshInFlight' = TRUE
  /\ fetches' = [fetches EXCEPT ![f] = [pc |-> "sent"]]
  /\ UNCHANGED <<entries, rows, field, pending, visible, overtaken, bounds>>

\* Variant for mutation: without "no-store" a cached page answers.
AnswerCached(f) ==
  /\ fetches[f].pc = "sent"
  /\ fetches' = [fetches EXCEPT ![f] = [pc |-> "answered", rows |-> page]]
  /\ UNCHANGED <<entries, rows, field, pending, visible, refreshInFlight, overtaken, bounds>>

\* The server renders the page it answers with.
Answer(f) ==
  /\ fetches[f].pc = "sent"
  /\ fetches' = [fetches EXCEPT ![f] = [pc |-> "answered", rows |-> entries]]
  /\ UNCHANGED <<entries, rows, field, pending, visible, refreshInFlight, overtaken, bounds>>

\* Variant for mutation: the new rows are wired, but the saved text not applied.
ReplacePageUnfiltered(f) ==
  /\ fetches[f].pc = "answered"
  /\ page' = fetches[f].rows
  /\ filteredOut' = {}
  /\ gone' = {}
  /\ opacity' = FirstDrawn(EmptyQuery)
  /\ showing' = {}
  /\ commitFrame' = FALSE
  /\ commitTimer' = "off"
  /\ overtaken' = {}
  /\ refreshInFlight' = FALSE
  /\ fetches' = [fetches EXCEPT ![f] = NoFetch]
  /\ UNCHANGED <<entries, field, visible, bounds>>

\* The answer arrives: timers are cleared, main.page is replaced, the new rows
\* are wired.  What was queued for the old rows finds them detached.
ReplacePage(f) ==
  /\ fetches[f].pc = "answered"
  /\ WirePage(fetches[f].rows, saved)
  /\ refreshInFlight' = FALSE
  /\ fetches' = [fetches EXCEPT ![f] = NoFetch]
  /\ UNCHANGED <<entries, visible, bounds>>

\* Variant for mutation: without "finally".
RefreshFailsForGood(f) ==
  /\ fetches[f] # NoFetch
  /\ failures < MaxFailures
  /\ failures' = failures + 1
  /\ fetches' = [fetches EXCEPT ![f] = NoFetch]
  /\ UNCHANGED <<entries, rows, field, pending, visible, refreshInFlight, overtaken, typed, hides>>

\* The fetch is rejected, the response is not ok, or it has no page.
RefreshFails(f) ==
  /\ fetches[f] # NoFetch
  /\ failures < MaxFailures
  /\ failures' = failures + 1
  /\ refreshInFlight' = FALSE
  /\ fetches' = [fetches EXCEPT ![f] = NoFetch]
  /\ UNCHANGED <<entries, rows, field, pending, visible, overtaken, typed, hides>>

Settle(f) == Answer(f) \/ ReplacePage(f) \/ RefreshFails(f)

Next ==
  \/ \E q \in Queries : Type(q)
  \/ Frame \/ TimerFires
  \/ \E u \in Users : FadeOut(u) \/ FadeEnd(u) \/ FadeIn(u) \/ NewEntry(u)
  \/ Hide \/ Reveal
  \/ \E f \in Fetches : PollTick(f) \/ Settle(f)

Spec == Init /\ [][Next]_vars

(***************************************************************************)
(* Polling is switched on, every fetch is answered or rejected some time,  *)
(* and the browser runs frames and timers.  Nobody has to type, to hide    *)
(* the tab or to come back to it.                                          *)
(***************************************************************************)
Fairness ==
  /\ WF_vars(Frame)
  /\ WF_vars(TimerFires)
  /\ WF_vars(\E f \in Fetches : PollTick(f))
  /\ \A f \in Fetches : WF_vars(Settle(f))

FairSpec == Spec /\ Fairness

--------------------------------------------------------------------------------
Shown(u) == u \notin filteredOut \cup gone

(***************************************************************************)
(* Once its frame has run, a row is shown if and only if it matches the    *)
(* text in the field.  There are two exceptions: a query typed before the  *)
(* frame of the last one hides a row and the frame shows it again, and in  *)
(* a tab hidden before the frame the timeout takes out a row that was to   *)
(* be shown.  No other order of queries, frames, transitions, timeouts and *)
(* refreshes makes a row wrong.                                            *)
(***************************************************************************)
RowsFollowQuery ==
  \A u \in page \ (showing \cup overtaken) : Shown(u) <=> Matches(u)

(***************************************************************************)
(* A refresh keeps the text in the search field and never brings back an   *)
(* older leaderboard, although answers are applied when they arrive.       *)
(***************************************************************************)
RefreshKeepsQueryAndRows ==
  [][page \subseteq page' /\ (input' = input \/ typed' # typed)]_vars

(***************************************************************************)
(* A row that is wrong does not stay wrong: a reader who stops typing sees *)
(* in the end exactly the rows that match, because the poll builds the     *)
(* page anew.                                                              *)
(***************************************************************************)
EventuallyFiltered == <>[](visible => \A u \in page : Shown(u) <=> Matches(u))

\* Who is new on the leaderboard gets a row, also after refreshes that failed.
NewcomersAppear == \A u \in Users : u \in entries ~> (u \in page \/ ~visible)

================================================================================
