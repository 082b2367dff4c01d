------------------------------ MODULE FilterProofs ------------------------------
(***************************************************************************)
(* Proofs about LeaderboardFilter: which rows are shown, and what a        *)
(* refresh does to the page, for every set of users, queries and fetches   *)
(* and without the bounds of the model-checked instance.                   *)
(***************************************************************************)
EXTENDS LeaderboardFilter, TLAPS

\* A fetch that has been answered holds the rows of a page not older than the shown one.
AnswersAreNew ==
  \A f \in Fetches : fetches[f].pc = "answered" =>
    page \subseteq fetches[f].rows /\ fetches[f].rows \subseteq entries

OneFetch ==
  \A f, g \in Fetches : fetches[f] # NoFetch /\ fetches[g] # NoFetch => f = g

\* A row that is wrong waits for its frame or has been overtaken.
WrongRowsAreKnown ==
  \A u \in page :
    /\ Matches(u) /\ u \in filteredOut => u \in showing
    /\ Matches(u) /\ u \in gone => u \in overtaken
    /\ ~Matches(u) /\ u \notin filteredOut => u \in overtaken
    /\ ~Matches(u) /\ u \in showing => u \in overtaken

\* The timeout comes after the frame, if the tab is visible.
FrameFirst == showing # {} => commitTimer # "due"

FInv ==
  /\ TypeOK
  /\ OneFetch
  /\ AnswersAreNew
  /\ input = saved
  /\ WrongRowsAreKnown
  /\ FrameFirst

LEMMA InitEstablishes == Init => FInv
<1> SUFFICES ASSUME Init PROVE FInv
  OBVIOUS
<1>1. saved \in Queries /\ Matching[saved] \subseteq Users
  BY FilterAssumption DEF Init
<1>2. TypeOK
  <2>1. fetches \in [Fetches -> Fetch]
    BY DEF Init, Fetch
  <2>2. FlagSaysInFlight
    BY Zenon DEF Init, FlagSaysInFlight
  <2>3. /\ {filteredOut, gone, showing, overtaken} \subseteq SUBSET page
        /\ page \subseteq entries /\ entries \subseteq Users
        /\ opacity \in [Users -> {"opaque", "faint", "clear"}]
        /\ {input, saved} \subseteq Queries
        /\ {typed, hides, failures} \subseteq Nat
        /\ commitTimer \in {"off", "set", "due"}
    BY <1>1 DEF Init, FirstDrawn
  <2>4. visible \in BOOLEAN /\ commitFrame \in BOOLEAN
    BY DEF Init
  <2> QED
    BY <2>1, <2>2, <2>3, <2>4 DEF TypeOK
<1>3. OneFetch /\ AnswersAreNew
  BY DEF Init, OneFetch, AnswersAreNew, NoFetch
<1>4. WrongRowsAreKnown /\ FrameFirst
  BY DEF Init, WrongRowsAreKnown, Matches, FrameFirst
<1> QED
  BY <1>2, <1>3, <1>4 DEF FInv, Init

\* A query: what matches is shown in the next frame, what does not is filtered out.
LEMMA TypeKeeps == ASSUME FInv, NEW q \in Queries, Type(q) PROVE FInv'
<1> USE DEF FInv, Type, Apply
<1>1. TypeOK'
  <2>1. FlagSaysInFlight'
    BY Zenon DEF TypeOK, refresh, FlagSaysInFlight
  <2>2. {filteredOut', gone', showing', overtaken'} \subseteq SUBSET page'
    BY DEF TypeOK
  <2>3. /\ {typed', hides', failures'} \subseteq Nat
        /\ {input', saved'} \subseteq Queries
        /\ commitTimer' \in {"off", "set", "due"}
        /\ page' \subseteq entries' /\ entries' \subseteq Users
        /\ opacity' \in [Users -> {"opaque", "faint", "clear"}]
        /\ fetches' \in [Fetches -> Fetch]
    BY DEF TypeOK, refresh
  <2>4. commitFrame' \in BOOLEAN /\ visible' \in BOOLEAN
    BY Zenon DEF TypeOK
  <2> QED
    BY <2>1, <2>2, <2>3, <2>4 DEF TypeOK
<1>2. OneFetch' /\ AnswersAreNew'
  BY DEF OneFetch, AnswersAreNew, refresh
<1>3. WrongRowsAreKnown'
  BY DEF WrongRowsAreKnown, Matches
<1>4. FrameFirst'
  BY DEF FrameFirst
<1> QED
  BY <1>1, <1>2, <1>3, <1>4

\* A commit takes rows out of the layout that have the class it is given.
LEMMA CommitTakes ==
  ASSUME TypeOK, NEW withClass \in SUBSET page, Commit(withClass)
  PROVE  /\ gone' \subseteq page /\ gone' \subseteq gone \cup withClass
         /\ opacity' \in [Users -> {"opaque", "faint", "clear"}]
  BY DEF TypeOK, Commit

LEMMA FrameKeeps == ASSUME FInv, Frame PROVE FInv'
<1> DEFINE left == filteredOut \ showing
<1>1. /\ gone' \subseteq page /\ gone' \subseteq gone \cup left
      /\ opacity' \in [Users -> {"opaque", "faint", "clear"}]
  <2>1. CASE commitFrame
    <3>1. Commit(left)
      BY <2>1 DEF Frame
    <3> QED
      BY <3>1, CommitTakes DEF FInv, TypeOK
  <2>2. CASE ~commitFrame
    BY <2>2 DEF Frame, FInv, TypeOK
  <2> QED
    BY <2>1, <2>2
<1>2. TypeOK'
  BY <1>1 DEF Frame, FInv, TypeOK, FlagSaysInFlight, field, refresh, bounds
<1>3. OneFetch' /\ AnswersAreNew' /\ input' = saved'
  BY DEF Frame, FInv, OneFetch, AnswersAreNew, field, refresh
<1>4. WrongRowsAreKnown'
  BY <1>1 DEF Frame, FInv, WrongRowsAreKnown, Matches, field
<1>5. FrameFirst'
  BY DEF Frame, FrameFirst
<1> QED
  BY <1>2, <1>3, <1>4, <1>5 DEF FInv

LEMMA TimerKeeps == ASSUME FInv, TimerFires PROVE FInv'
<1>1. /\ gone' \subseteq page /\ gone' \subseteq gone \cup filteredOut
      /\ opacity' \in [Users -> {"opaque", "faint", "clear"}]
  BY CommitTakes DEF TimerFires, FInv, TypeOK
<1>2. TypeOK'
  BY <1>1 DEF TimerFires, FInv, TypeOK, FlagSaysInFlight, field, refresh, bounds
<1>3. OneFetch' /\ AnswersAreNew' /\ input' = saved'
  BY DEF TimerFires, FInv, OneFetch, AnswersAreNew, field, refresh
<1>4. WrongRowsAreKnown'
  <2> SUFFICES ASSUME NEW u \in page, Matches(u), u \in gone'
               PROVE  u \in overtaken'
    BY DEF TimerFires, FInv, WrongRowsAreKnown, Matches, field
  <2>1. CASE u \in gone
    BY <2>1 DEF TimerFires, FInv, WrongRowsAreKnown
  <2>2. CASE u \in filteredOut
    <3>1. u \in showing
      BY <2>2 DEF FInv, WrongRowsAreKnown
    <3>2. ~visible
      BY <3>1 DEF TimerFires, FInv, FrameFirst
    <3> QED
      BY <3>1, <3>2 DEF TimerFires
  <2> QED
    BY <1>1, <2>1, <2>2
<1>5. FrameFirst'
  BY DEF TimerFires, FrameFirst
<1> QED
  BY <1>2, <1>3, <1>4, <1>5 DEF FInv

\* Fades and the visibility of the tab change no class.
LEMMA FadeKeeps ==
  ASSUME FInv, NEW u \in Users, FadeOut(u) \/ FadeEnd(u) \/ FadeIn(u)
  PROVE  FInv'
<1>1. TypeOK'
  BY DEF FInv, TypeOK, FlagSaysInFlight, FadeOut, FadeEnd, FadeIn, field, pending, refresh, bounds
<1>2. UNCHANGED <<entries, page, filteredOut, gone, field, showing, commitTimer, refresh, overtaken>>
  BY DEF FadeOut, FadeEnd, FadeIn, pending
<1> QED
  BY <1>1, <1>2
     DEF FInv, OneFetch, AnswersAreNew, WrongRowsAreKnown, Matches, FrameFirst, field, refresh

LEMMA VisibilityKeeps == ASSUME FInv, Hide \/ Reveal PROVE FInv'
<1>1. /\ UNCHANGED <<entries, rows, field, pending, refresh, overtaken, typed, failures>>
      /\ hides' \in Nat
  BY DEF Hide, Reveal, bounds, FInv, TypeOK
<1>2. TypeOK'
  <2>1. FlagSaysInFlight'
    BY <1>1, Zenon DEF FInv, TypeOK, refresh, FlagSaysInFlight
  <2>2. UNCHANGED <<entries, page, filteredOut, gone, opacity, input, saved, showing, commitFrame,
                    commitTimer, fetches, overtaken, typed, failures>>
    BY <1>1 DEF rows, field, pending, refresh
  <2>3. visible' \in BOOLEAN
    BY Zenon DEF Hide, Reveal
  <2>4. /\ page' \subseteq entries' /\ entries' \subseteq Users
        /\ {filteredOut', gone', showing', overtaken'} \subseteq SUBSET page'
        /\ opacity' \in [Users -> {"opaque", "faint", "clear"}]
        /\ {input', saved'} \subseteq Queries
        /\ commitFrame' \in BOOLEAN /\ commitTimer' \in {"off", "set", "due"}
        /\ fetches' \in [Fetches -> Fetch]
        /\ {typed', hides', failures'} \subseteq Nat
    BY <1>1, <2>2 DEF FInv, TypeOK
  <2> QED
    BY <2>1, <2>3, <2>4 DEF TypeOK
<1> QED
  BY <1>1, <1>2 DEF FInv, OneFetch, AnswersAreNew, WrongRowsAreKnown, Matches, FrameFirst,
                    rows, field, pending, refresh

LEMMA NewEntryKeeps == ASSUME FInv, NEW u \in Users, NewEntry(u) PROVE FInv'
<1>1. TypeOK'
  BY DEF FInv, TypeOK, FlagSaysInFlight, NewEntry, rows, field, pending, refresh, bounds
<1> QED
  BY <1>1 DEF FInv, OneFetch, AnswersAreNew, WrongRowsAreKnown, Matches, FrameFirst,
              NewEntry, rows, field, pending, refresh

LEMMA PollKeeps == ASSUME FInv, NEW f \in Fetches, PollTick(f) PROVE FInv'
<1>1. \A g \in Fetches : fetches[g] = NoFetch
  BY DEF PollTick, FInv, TypeOK, FlagSaysInFlight
<1>2. \A g \in Fetches : fetches'[g] = IF g = f THEN [pc |-> "sent"] ELSE NoFetch
  BY <1>1 DEF PollTick, FInv, TypeOK
<1>3. TypeOK'
  BY <1>2 DEF PollTick, FInv, TypeOK, FlagSaysInFlight, Fetch, NoFetch, rows, field, pending, bounds
<1>4. OneFetch' /\ AnswersAreNew'
  BY <1>2 DEF OneFetch, AnswersAreNew, NoFetch
<1> QED
  BY <1>3, <1>4 DEF FInv, PollTick, WrongRowsAreKnown, Matches, FrameFirst, rows, field, pending

LEMMA AnswerKeeps == ASSUME FInv, NEW f \in Fetches, Answer(f) PROVE FInv'
<1>1. \A g \in Fetches :
        fetches'[g] = IF g = f THEN [pc |-> "answered", rows |-> entries] ELSE fetches[g]
  BY DEF Answer, FInv, TypeOK
<1>2. fetches[f] # NoFetch
  BY DEF Answer, NoFetch
<1>3. fetches' \in [Fetches -> Fetch]
  BY DEF Answer, FInv, TypeOK, Fetch
<1>4. refreshInFlight' = (\E g \in Fetches : fetches'[g] # NoFetch)
  BY <1>1, <1>2 DEF Answer, FInv, TypeOK, FlagSaysInFlight, NoFetch
<1>5. TypeOK'
  BY <1>3, <1>4 DEF Answer, FInv, TypeOK, FlagSaysInFlight, rows, field, pending, bounds
<1>6. OneFetch' /\ AnswersAreNew'
  BY <1>1, <1>2 DEF Answer, FInv, TypeOK, OneFetch, AnswersAreNew, rows
<1> QED
  BY <1>5, <1>6 DEF FInv, Answer, WrongRowsAreKnown, Matches, FrameFirst, rows, field, pending

\* With one fetch at most, none is left once it is over.
LEMMA NoneLeft ==
  ASSUME FInv, NEW f \in Fetches, fetches[f] # NoFetch,
         fetches' = [fetches EXCEPT ![f] = NoFetch]
  PROVE  \A g \in Fetches : fetches'[g] = NoFetch
  BY DEF FInv, TypeOK, OneFetch

LEMMA ReplaceKeeps == ASSUME FInv, NEW f \in Fetches, ReplacePage(f) PROVE FInv'
<1>1. fetches[f] # NoFetch
  BY DEF ReplacePage, NoFetch
<1>2. \A g \in Fetches : fetches'[g] = NoFetch
  BY <1>1, NoneLeft DEF ReplacePage
<1>3. fetches[f].rows \subseteq entries /\ entries \subseteq Users
  BY DEF ReplacePage, FInv, AnswersAreNew, TypeOK
<1>4. TypeOK'
  <2>1. fetches' \in [Fetches -> Fetch]
    BY DEF ReplacePage, FInv, TypeOK, Fetch
  <2>2. saved \in Queries
    BY DEF FInv, TypeOK
  <2> QED
    BY <1>2, <1>3, <2>1, <2>2, FilterAssumption
       DEF ReplacePage, WirePage, FirstDrawn, FInv, TypeOK, FlagSaysInFlight, bounds
<1>5. OneFetch' /\ AnswersAreNew'
  BY <1>2 DEF OneFetch, AnswersAreNew, NoFetch
<1>6. WrongRowsAreKnown' /\ FrameFirst' /\ input' = saved'
  BY DEF ReplacePage, WirePage, WrongRowsAreKnown, Matches, FrameFirst
<1> QED
  BY <1>4, <1>5, <1>6 DEF FInv

LEMMA FailureKeeps == ASSUME FInv, NEW f \in Fetches, RefreshFails(f) PROVE FInv'
<1>1. \A g \in Fetches : fetches'[g] = NoFetch
  BY NoneLeft DEF RefreshFails
<1>2. fetches' \in [Fetches -> Fetch]
  BY DEF RefreshFails, FInv, TypeOK, Fetch
<1>3. TypeOK'
  <2>1. refreshInFlight' = (\E g \in Fetches : fetches'[g] # NoFetch)
    BY <1>1, Zenon DEF RefreshFails
  <2> QED
    BY <1>2, <2>1 DEF RefreshFails, FInv, TypeOK, FlagSaysInFlight, rows, field, pending
<1>4. OneFetch' /\ AnswersAreNew'
  BY <1>1 DEF OneFetch, AnswersAreNew, NoFetch
<1> QED
  BY <1>3, <1>4 DEF FInv, RefreshFails, WrongRowsAreKnown, Matches, FrameFirst, rows, field, pending

LEMMA StutterKeeps == ASSUME FInv, UNCHANGED vars PROVE FInv'
  BY DEF FInv, TypeOK, FlagSaysInFlight, OneFetch, AnswersAreNew, WrongRowsAreKnown, Matches, FrameFirst,
         vars, rows, field, pending, refresh, bounds

LEMMA FInvIsInductive == FInv /\ [Next]_vars => FInv'
<1> SUFFICES ASSUME FInv, [Next]_vars PROVE FInv'
  OBVIOUS
<1>1. CASE UNCHANGED vars
  BY <1>1, StutterKeeps
<1>2. ASSUME NEW q \in Queries, Type(q) PROVE FInv'
  BY <1>2, TypeKeeps
<1>3. CASE Frame
  BY <1>3, FrameKeeps
<1>4. CASE TimerFires
  BY <1>4, TimerKeeps
<1>5. ASSUME NEW u \in Users, FadeOut(u) \/ FadeEnd(u) \/ FadeIn(u) PROVE FInv'
  BY <1>5, FadeKeeps
<1>6. ASSUME NEW u \in Users, NewEntry(u) PROVE FInv'
  BY <1>6, NewEntryKeeps
<1>7. CASE Hide \/ Reveal
  BY <1>7, VisibilityKeeps
<1>8. ASSUME NEW f \in Fetches, PollTick(f) PROVE FInv'
  BY <1>8, PollKeeps
<1>9. ASSUME NEW f \in Fetches, Settle(f) PROVE FInv'
  BY <1>9, AnswerKeeps, ReplaceKeeps, FailureKeeps DEF Settle
<1> QED
  BY <1>1, <1>2, <1>3, <1>4, <1>5, <1>6, <1>7, <1>8, <1>9 DEF Next

LEMMA FInvHolds == Spec => []FInv
<1> QED
  BY InitEstablishes, FInvIsInductive, PTL DEF Spec

\* The types, and that a refresh is under way exactly while its flag is set.
THEOREM FilterTypes == Spec => []TypeOK
<1>1. FInv => TypeOK
  BY DEF FInv
<1> QED
  BY <1>1, FInvHolds, PTL

\* RowsFollowQuery, for every order of queries, frames, timeouts and refreshes.
THEOREM FilteredRows == Spec => []RowsFollowQuery
<1>1. FInv => RowsFollowQuery
  BY DEF FInv, WrongRowsAreKnown, RowsFollowQuery, Shown
<1> QED
  BY <1>1, FInvHolds, PTL

\* A step that refreshes the page keeps the rows, one that does not keeps the page.
LEMMA PageKeepsRows ==
  ASSUME FInv, Next PROVE page \subseteq page' /\ (input' = input \/ typed' # typed)
<1>1. ASSUME NEW q \in Queries, Type(q) PROVE page' = page /\ typed' # typed
  BY <1>1 DEF Type, FInv, TypeOK
<1>2. ASSUME NEW f \in Fetches, ReplacePage(f) PROVE page \subseteq page' /\ input' = input
  BY <1>2 DEF ReplacePage, WirePage, FInv, AnswersAreNew
<1>3. ASSUME NEW f \in Fetches, PollTick(f) \/ Answer(f) \/ RefreshFails(f)
      PROVE  page' = page /\ input' = input
  BY <1>3 DEF PollTick, Answer, RefreshFails, rows, field
<1>4. ASSUME NEW u \in Users, FadeOut(u) \/ FadeEnd(u) \/ FadeIn(u) \/ NewEntry(u)
      PROVE  page' = page /\ input' = input
  BY <1>4 DEF FadeOut, FadeEnd, FadeIn, NewEntry, rows, field
<1>5. CASE Frame \/ TimerFires \/ Hide \/ Reveal
  BY <1>5 DEF Frame, TimerFires, Hide, Reveal, rows, field
<1> QED
  BY <1>1, <1>2, <1>3, <1>4, <1>5 DEF Next, Settle

\* RefreshKeepsQueryAndRows, with any number of requests, failures and polls.
THEOREM RefreshesGoForward == Spec => RefreshKeepsQueryAndRows
<1>1. FInv /\ [Next]_vars => [page \subseteq page' /\ (input' = input \/ typed' # typed)]_vars
  BY PageKeepsRows
<1> QED
  BY <1>1, FInvHolds, PTL DEF Spec, RefreshKeepsQueryAndRows

================================================================================
