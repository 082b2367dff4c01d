---------------------------- MODULE RequestsProofs -----------------------------
(***************************************************************************)
(* Requests of the leaderboard, for any number of them, of users, weeks    *)
(* and check-ins, of failures and of ends of the process.                  *)
(***************************************************************************)
EXTENDS LeaderboardRequests, FiniteSetTheorems, SequenceTheorems, WellFoundedInduction,
        TLAPS

\* The sets of rows that the table has held at some time.
Known == {ToSet(p) : p \in Prefixes(checkins)}

RowsFor(entries) == UNION {SnapshotsOf(e) : e \in entries}

Count(u, rows) == Cardinality({c \in rows : c.user = u})

HasRows(r)    == requests[r].pc \in {"compute", "replace", "insert", "answer"}
HasEntries(r) == requests[r].pc \in {"replace", "insert", "answer"}

\* The writer is the one request that inserts.
InsertsAsWriter(r) == requests[r].pc = "insert" <=> writer = r

ReadIsKnown(r) == HasRows(r) => requests[r].rows \in Known

EntriesAreRanked(r) ==
  HasEntries(r) => requests[r].entries \in Rankings(Entries(requests[r].rows))

\* What has been inserted and what is left make one leaderboard.
TransactionSound(r) ==
  /\ requests[r].pc = "replace" => requests[r].todo = requests[r].entries
  /\ requests[r].pc = "insert" =>
       inserted \cup RowsFor(ToSet(requests[r].todo)) = RowsFor(Entries(requests[r].rows))

\* What had been shown when the request came is in the rows it reads.
FloorReached(r) ==
  \A u \in Users :
    /\ requests[r] # Idle => requests[r].floor[u] <= Count(u, ToSet(checkins))
    /\ HasRows(r) => requests[r].floor[u] <= Count(u, requests[r].rows)

RequestSound(r) ==
  /\ InsertsAsWriter(r)
  /\ ReadIsKnown(r)
  /\ EntriesAreRanked(r)
  /\ TransactionSound(r)
  /\ FloorReached(r)

\* No answer shows more check-ins than are stored.
ShownAreStored == \A u \in Users : shown[u] <= Count(u, ToSet(checkins))

QInv ==
  /\ TypeOK
  /\ \A r \in Requests : RequestSound(r)
  /\ SnapshotsAreOneLeaderboard
  /\ ShownAreStored

--------------------------------------------------------------------------------
(***************************************************************************)
(* Maxima of the sets that occur.                                          *)
(***************************************************************************)
LEMMA MaxIsUpperBound ==
  ASSUME NEW S, NEW m \in S, \A x \in S : m >= x
  PROVE  Max(S) \in S /\ \A x \in S : Max(S) >= x
  BY DEF Max

LEMMA MaxOfPair ==
  ASSUME NEW a \in Nat, NEW b \in Nat
  PROVE  /\ Max({a, b}) \in {a, b}
         /\ Max({a, b}) >= a /\ Max({a, b}) >= b
<1>1. CASE a >= b
  BY <1>1, MaxIsUpperBound
<1>2. CASE b >= a
  BY <1>2, MaxIsUpperBound
<1> QED
  BY <1>1, <1>2

LEMMA MaxExists ==
  ASSUME NEW k \in Nat, NEW S \in SUBSET (0..k), S # {}
  PROVE  Max(S) \in S
<1> DEFINE T == {k - n : n \in S}
<1>1. T \subseteq Nat /\ T # {}
  <2>1. \A n \in S : k - n \in Nat
    OBVIOUS
  <2> QED BY <2>1
<1>2. PICK x \in T : \A y \in T : ~ (<<y, x>> \in OpToRel(<, Nat))
  <2> HIDE DEF T
  <2> QED BY <1>1, NatLessThanWellFounded, WFMin
<1>3. \A y \in T : ~ (y < x)
  BY <1>1, <1>2 DEF OpToRel
<1>4. PICK m \in S : x = k - m
  OBVIOUS
<1>5. \A n \in S : m >= n
  <2> TAKE n \in S
  <2>1. ~ (k - n < x)
    BY <1>3
  <2>2. n \in 0..k /\ m \in 0..k
    BY <1>4
  <2> QED BY <1>4, <2>1, <2>2
<1> QED
  BY <1>5, MaxIsUpperBound

--------------------------------------------------------------------------------
(***************************************************************************)
(* The entries of a finite set of rows: one for each user, well typed.     *)
(***************************************************************************)
LEMMA WeeksFinite ==
  ASSUME NEW u, NEW rows \in SUBSET Checkin, IsFiniteSet(rows)
  PROVE  /\ IsFiniteSet({d \in rows : d.user = u})
         /\ IsFiniteSet(WeeksOf(u, rows))
<1> DEFINE own == {d \in rows : d.user = u}
           f == [c \in own |-> c.week]
<1>1. IsFiniteSet(own)
  BY FS_Subset
<1>2. f \in Surjection(own, WeeksOf(u, rows))
  BY DEF Surjection, WeeksOf
<1> QED
  BY <1>1, <1>2, FS_Surjection

LEMMA LongestStreakType ==
  ASSUME NEW weeks \in SUBSET Nat, IsFiniteSet(weeks), weeks # {}
  PROVE  LongestStreak(weeks) \in Nat
<1> DEFINE n == Cardinality(weeks)
           runs == {m \in 1..n : \E w \in weeks : InARow(weeks, w, m)}
<1>1. n \in Nat /\ n # 0
  BY FS_EmptySet, FS_CardinalityType
<1>2. PICK w \in weeks : TRUE
  OBVIOUS
<1>3. InARow(weeks, w, 1)
  <2>1. {v \in weeks : w <= v /\ v <= w + 7 * (1 - 1)} = {w}
    <3>1. w + 7 * (1 - 1) = w /\ \A v \in weeks : w <= v /\ v <= w <=> v = w
      BY <1>2
    <3> QED
      BY <1>2, <3>1
  <2>2. {w + 7 * k : k \in 0..(1 - 1)} = {w}
    <3>1. 0..(1 - 1) = {0} /\ w + 7 * 0 = w
      BY <1>2
    <3> QED
      BY <3>1
  <2> QED
    BY <2>1, <2>2 DEF InARow
<1>4. 1 \in runs
  BY <1>1, <1>3
<1>5. Max(runs) \in runs
  <2>1. runs \in SUBSET (0..n)
    BY <1>1
  <2> HIDE DEF runs, n
  <2> QED BY <1>1, <1>4, <2>1, MaxExists
<1> QED
  BY <1>1, <1>5 DEF LongestStreak

LEMMA EntriesSound ==
  ASSUME NEW rows \in SUBSET Checkin, IsFiniteSet(rows)
  PROVE  /\ Entries(rows) \in SUBSET Entry
         /\ IsFiniteSet(Entries(rows))
         /\ \A a, b \in Entries(rows) : a.user = b.user => a = b
         /\ \A a \in Entries(rows) : a.user \in Users /\ a.total = Count(a.user, rows)
         /\ \A u \in Users : Count(u, rows) \in Nat
         /\ \A u \in Users : Count(u, rows) = 0 \/ EntryOf(u, rows) \in Entries(rows)
<1> DEFINE named == {c.user : c \in rows}
<1>1. named \subseteq Users
  BY DEF Checkin
<1>2. \A u : Count(u, rows) \in Nat
  BY WeeksFinite, FS_CardinalityType DEF Count
<1>3. ASSUME NEW u \in named PROVE EntryOf(u, rows) \in Entry
  <2>1. WeeksOf(u, rows) \subseteq Nat /\ WeeksOf(u, rows) # {}
    BY <1>3, RequestsAssumption DEF WeeksOf, Checkin
  <2>2. LongestStreak(WeeksOf(u, rows)) \in Nat
    BY <2>1, WeeksFinite, LongestStreakType
  <2> QED
    BY <1>1, <1>2, <2>2 DEF EntryOf, Entry, Count
<1>4. Entries(rows) \in SUBSET Entry
  BY <1>3 DEF Entries
<1>5. IsFiniteSet(Entries(rows))
  <2> DEFINE f == [c \in rows |-> EntryOf(c.user, rows)]
  <2>1. f \in Surjection(rows, Entries(rows))
    <3>1. \A c \in rows : EntryOf(c.user, rows) \in Entries(rows)
      BY DEF Entries
    <3>2. f \in [rows -> Entries(rows)]
      BY <3>1
    <3>3. \A e \in Entries(rows) : \E c \in rows : f[c] = e
      BY DEF Entries
    <3> QED
      BY <3>2, <3>3 DEF Surjection
  <2> QED
    BY <2>1, FS_Surjection
<1>6. \A a \in Entries(rows) : a = EntryOf(a.user, rows) /\ a.user \in Users
  <2> TAKE a \in Entries(rows)
  <2>1. PICK u \in named : a = EntryOf(u, rows)
    BY DEF Entries
  <2>2. a.user = u
    BY <2>1 DEF EntryOf
  <2> QED
    BY <1>1, <2>1, <2>2
<1>7. \A a \in Entries(rows) : a.total = Count(a.user, rows)
  BY <1>6 DEF EntryOf, Count
<1>8. ASSUME NEW u \in Users, Count(u, rows) # 0
      PROVE  EntryOf(u, rows) \in Entries(rows)
  <2>1. {c \in rows : c.user = u} # {}
    BY <1>8, FS_EmptySet DEF Count
  <2> QED
    BY <2>1 DEF Entries
<1> QED
  BY <1>2, <1>4, <1>5, <1>6, <1>7, <1>8

--------------------------------------------------------------------------------
(***************************************************************************)
(* Less is a total order of entries with different users, so it leaves one *)
(* ranking: the place of an entry is the number of entries before it.      *)
(***************************************************************************)
LEMMA LessIsTotal ==
  ASSUME NEW a \in Entry, NEW b \in Entry
  PROVE  /\ ~Less(a, a)
         /\ a.user # b.user => Less(a, b) \/ Less(b, a)
<1>1. /\ a.user \in Nat /\ a.total \in Nat /\ a.streak \in Nat
      /\ b.user \in Nat /\ b.total \in Nat /\ b.streak \in Nat
  BY RequestsAssumption DEF Entry
<1> QED
  BY <1>1 DEF Less

LEMMA RankingIsComplete ==
  ASSUME NEW S, IsFiniteSet(S), NEW s \in Rankings(S)
  PROVE  /\ s \in Seq(S) /\ Len(s) = Cardinality(S) /\ DOMAIN s = 1..Cardinality(S)
         /\ ToSet(s) = S
         /\ \A i, j \in DOMAIN s : i # j => s[i] # s[j]
<1> DEFINE n == Cardinality(S)
<1>1. n \in Nat
  BY FS_CardinalityType
<1>2. s \in [1..n -> S] /\ \A i, j \in 1..n : i # j => s[i] # s[j]
  BY DEF Rankings, SetToSeqs
<1>3. s \in Injection(1..n, S)
  BY <1>2 DEF Injection, IsInjective
<1>4. Cardinality(1..n) = n
  BY <1>1, FS_Interval
<1>5. s \in Surjection(1..n, S)
  BY <1>3, <1>4, FS_Injection
<1>6. ToSet(s) = S
  BY <1>2, <1>5 DEF Surjection, ToSet
<1>7. s \in Seq(S) /\ Len(s) = n
  BY <1>1, <1>2, SeqDef
<1> QED
  BY <1>2, <1>6, <1>7

LEMMA PlaceIsCount ==
  ASSUME NEW S \in SUBSET Entry, IsFiniteSet(S), \A a, b \in S : a.user = b.user => a = b,
         NEW s \in Rankings(S), NEW i \in DOMAIN s
  PROVE  Cardinality({e \in S : Less(e, s[i])}) = i - 1
<1> DEFINE before == {e \in S : Less(e, s[i])}
           f == [j \in 1..(i - 1) |-> s[j]]
<1>1. /\ DOMAIN s = 1..Cardinality(S) /\ Cardinality(S) \in Nat /\ ToSet(s) = S
      /\ \A j \in DOMAIN s : s[j] \in S
      /\ \A j, k \in DOMAIN s : j # k => s[j] # s[k]
  BY RankingIsComplete, FS_CardinalityType DEF ToSet
<1>2. \A j, k \in DOMAIN s : j < k => ~Less(s[k], s[j])
  BY DEF Rankings
<1>3. ASSUME NEW j \in DOMAIN s PROVE Less(s[j], s[i]) <=> j < i
  <2>1. s[j] \in Entry /\ s[i] \in Entry
    BY <1>1
  <2>2. i \in Int /\ j \in Int
    BY <1>1
  <2>3. CASE j < i
    <3>1. s[j].user # s[i].user
      BY <1>1, <2>3, <2>2
    <3> QED BY <1>2, <2>1, <2>3, <3>1, LessIsTotal
  <2>4. CASE j = i
    BY <2>1, <2>2, <2>4, LessIsTotal
  <2>5. CASE i < j
    BY <1>2, <2>2, <2>5
  <2> QED
    BY <2>2, <2>3, <2>4, <2>5
<1>4. 1..(i - 1) \subseteq DOMAIN s /\ i \in Nat \ {0}
  BY <1>1
<1>5. f \in [1..(i - 1) -> before]
  BY <1>1, <1>3, <1>4
<1>6. \A e \in before : \E j \in 1..(i - 1) : f[j] = e
  <2> TAKE e \in before
  <2>1. PICK j \in DOMAIN s : s[j] = e
    BY <1>1 DEF ToSet
  <2>2. j \in 1..(i - 1)
    BY <1>1, <1>3, <2>1
  <2> QED
    BY <2>1, <2>2
<1>7. f \in Bijection(1..(i - 1), before)
  <2>1. \A j, k \in 1..(i - 1) : j # k => f[j] # f[k]
    BY <1>1, <1>4
  <2> HIDE DEF f, before
  <2> QED
    BY <1>5, <1>6, <2>1 DEF Bijection, Injection, Surjection, IsInjective
<1>8. IsFiniteSet(1..(i - 1)) /\ Cardinality(1..(i - 1)) = i - 1
  <2>1. 1 \in Int /\ i - 1 \in Int /\ (IF 1 > i - 1 THEN 0 ELSE (i - 1) - 1 + 1) = i - 1
    BY <1>4
  <2> QED
    BY <2>1, FS_Interval
<1> QED
  BY <1>7, <1>8, FS_Bijection DEF ExistsBijection

LEMMA OneRanking ==
  ASSUME NEW S \in SUBSET Entry, IsFiniteSet(S), \A a, b \in S : a.user = b.user => a = b,
         NEW s \in Rankings(S), NEW t \in Rankings(S)
  PROVE  s = t
<1>1. /\ s \in Seq(S) /\ t \in Seq(S) /\ Len(s) = Len(t)
      /\ DOMAIN s = 1..Len(s) /\ DOMAIN t = 1..Len(s)
      /\ ToSet(t) = S
  BY RankingIsComplete
<1>2. ASSUME NEW i \in 1..Len(s) PROVE s[i] = t[i]
  <2>1. s[i] \in S
    BY <1>1
  <2>2. PICK j \in 1..Len(s) : t[j] = s[i]
    BY <1>1, <2>1 DEF ToSet
  <2>3. i - 1 = j - 1
    <3>1. i \in DOMAIN s /\ j \in DOMAIN t
      BY <1>1
    <3>2. Cardinality({e \in S : Less(e, s[i])}) = i - 1
      BY <3>1, PlaceIsCount
    <3>3. Cardinality({e \in S : Less(e, t[j])}) = j - 1
      BY <3>1, PlaceIsCount
    <3> QED
      BY <2>2, <3>2, <3>3
  <2>4. i = j
    BY <1>1, <2>3
  <2> QED
    BY <2>2, <2>4
<1> QED
  BY <1>1, <1>2, SeqEqual

--------------------------------------------------------------------------------
(***************************************************************************)
(* The rows a request may have read.                                       *)
(***************************************************************************)
LEMMA ElementsFinite ==
  ASSUME NEW S, NEW s \in Seq(S)
  PROVE  IsFiniteSet(ToSet(s)) /\ ToSet(s) \in SUBSET S
<1>1. /\ Len(s) \in Nat /\ DOMAIN s = 1..Len(s) /\ s \in [1..Len(s) -> S]
  BY LenProperties
<1>2. s \in [1..Len(s) -> ToSet(s)]
  BY <1>1 DEF ToSet
<1>3. s \in Surjection(1..Len(s), ToSet(s))
  BY <1>1, <1>2 DEF Surjection, ToSet
<1>4. IsFiniteSet(1..Len(s))
  BY <1>1, FS_Interval
<1> QED
  BY <1>1, <1>3, <1>4, FS_Surjection DEF ToSet

LEMMA PrefixIsPart ==
  ASSUME checkins \in Seq(Checkin), NEW p \in Prefixes(checkins)
  PROVE  p \in Seq(Checkin) /\ ToSet(p) \subseteq ToSet(checkins)
<1>1. PICK l \in 0..Len(checkins) : p = SubSeq(checkins, 1, l)
  BY DEF Prefixes
<1>2. Len(checkins) \in Nat
  BY LenProperties
<1>3. /\ p \in Seq(Checkin) /\ Len(p) = l
      /\ \A i \in 1..l : p[i] = checkins[i]
  BY <1>1, <1>2
<1> QED
  BY <1>2, <1>3 DEF ToSet

LEMMA KnownSound ==
  ASSUME checkins \in Seq(Checkin)
  PROVE  /\ ToSet(checkins) \in Known
         /\ {} \in Known
         /\ \A rows \in Known : /\ rows \in SUBSET Checkin
                                /\ IsFiniteSet(rows)
                                /\ rows \subseteq ToSet(checkins)
<1>1. Len(checkins) \in Nat
  BY LenProperties
<1>2. SubSeq(checkins, 1, Len(checkins)) = checkins
  BY <1>1
<1>3. checkins \in Prefixes(checkins)
  <2>1. Len(checkins) \in 0..Len(checkins)
    BY <1>1
  <2> QED
    BY <1>2, <2>1 DEF Prefixes
<1>4. SubSeq(checkins, 1, 0) \in Prefixes(checkins) /\ ToSet(SubSeq(checkins, 1, 0)) = {}
  BY <1>1 DEF Prefixes, ToSet
<1> QED
  BY <1>3, <1>4, PrefixIsPart, ElementsFinite DEF Known

LEMMA KnownGrows ==
  ASSUME checkins \in Seq(Checkin), NEW c \in Checkin, checkins' = Append(checkins, c)
  PROVE  /\ Known \subseteq Known'
         /\ ToSet(checkins) \subseteq ToSet(checkins')
         /\ checkins' \in Seq(Checkin)
<1>1. /\ Len(checkins) \in Nat /\ checkins' \in Seq(Checkin)
      /\ Len(checkins') = Len(checkins) + 1
      /\ \A i \in 1..Len(checkins) : checkins'[i] = checkins[i]
  BY LenProperties
<1>2. ASSUME NEW l \in 0..Len(checkins)
      PROVE  SubSeq(checkins', 1, l) = SubSeq(checkins, 1, l)
  BY <1>1
<1>3. Prefixes(checkins) \subseteq Prefixes(checkins')
  BY <1>1, <1>2 DEF Prefixes
<1> QED
  BY <1>1, <1>3 DEF Known, ToSet

LEMMA CountGrows ==
  ASSUME NEW T \in SUBSET Checkin, IsFiniteSet(T), NEW S \in SUBSET T, NEW u
  PROVE  /\ Count(u, S) \in Nat /\ Count(u, T) \in Nat
         /\ Count(u, S) <= Count(u, T)
<1>1. {c \in T : c.user = u} \in SUBSET T /\ {c \in S : c.user = u} \in SUBSET {c \in T : c.user = u}
  OBVIOUS
<1>2. IsFiniteSet({c \in T : c.user = u})
  BY <1>1, FS_Subset
<1> QED
  BY <1>1, <1>2, FS_Subset, FS_CardinalityType DEF Count

\* A ranking shows each user's number of check-ins.
LEMMA TotalIsCount ==
  ASSUME NEW rows \in SUBSET Checkin, IsFiniteSet(rows),
         NEW s \in Rankings(Entries(rows)), NEW u \in Users
  PROVE  TotalOf(u, s) = Count(u, rows)
<1> DEFINE n == Count(u, rows)
           totals == {0} \cup {s[i].total : i \in {j \in DOMAIN s : s[j].user = u}}
<1>1. ToSet(s) = Entries(rows) /\ n \in Nat
  BY EntriesSound, RankingIsComplete
<1>2. \A x \in totals : x = 0 \/ x = n
  BY <1>1, EntriesSound DEF ToSet
<1>3. n \in totals
  <2>1. CASE n = 0
    BY <2>1
  <2>2. CASE n # 0
    <3>1. EntryOf(u, rows) \in ToSet(s)
      BY <1>1, <2>2, EntriesSound
    <3>2. PICK i \in DOMAIN s : s[i] = EntryOf(u, rows)
      BY <3>1 DEF ToSet
    <3> QED
      BY <3>2 DEF EntryOf, Count
  <2> QED
    BY <2>1, <2>2
<1>4. Max(totals) = n
  <2> HIDE DEF n, totals
  <2>1. \A x \in totals : n >= x
    BY <1>1, <1>2
  <2>2. Max(totals) \in totals /\ Max(totals) >= n
    BY <1>3, <2>1, MaxIsUpperBound
  <2> QED
    BY <1>1, <1>2, <2>2
<1> QED
  BY <1>4 DEF TotalOf

LEMMA SnapshotsKnown ==
  SnapshotsAreOneLeaderboard <=> \E rows \in Known : snapshots = RowsFor(Entries(rows))
  BY DEF SnapshotsAreOneLeaderboard, RowsFor, Known

--------------------------------------------------------------------------------
(***************************************************************************)
(* A step of one request leaves the others as they are.                    *)
(***************************************************************************)
StepOf(r) ==
  /\ checkins' = checkins
  /\ requests' \in [Requests -> Request]
  /\ \A q \in Requests : q # r => requests'[q] = requests[q]
  /\ \/ UNCHANGED <<writer, inserted>>
     \/ writer \in {NoRequest, r} /\ writer' \in {NoRequest, r}
  /\ inserted' \subseteq Snapshot
  /\ failures' \in Nat /\ exits' \in Nat

LEMMA OthersUndisturbed ==
  ASSUME QInv, NEW r \in Requests, StepOf(r), NEW q \in Requests, q # r
  PROVE  RequestSound(q)'
<1>1. RequestSound(q) /\ requests'[q] = requests[q] /\ Known' = Known /\ checkins' = checkins
  BY DEF QInv, StepOf, Known
<1>2. writer' = q <=> writer = q
  BY RequestsAssumption DEF StepOf
<1>3. requests[q].pc = "insert" => inserted' = inserted
  <2>1. requests[q].pc = "insert" => writer = q
    BY <1>1 DEF RequestSound, InsertsAsWriter
  <2> QED
    BY <2>1, RequestsAssumption DEF StepOf
<1>4. InsertsAsWriter(q)' /\ ReadIsKnown(q)' /\ EntriesAreRanked(q)'
  BY <1>1, <1>2 DEF RequestSound, InsertsAsWriter, ReadIsKnown, EntriesAreRanked, HasRows, HasEntries
<1>5. TransactionSound(q)'
  BY <1>1, <1>3 DEF RequestSound, TransactionSound
<1>6. FloorReached(q)'
  BY <1>1 DEF RequestSound, FloorReached, HasRows
<1> QED
  BY <1>4, <1>5, <1>6 DEF RequestSound

LEMMA StepPreserves ==
  ASSUME QInv, NEW r \in Requests, StepOf(r), RequestSound(r)', writer' \in Requests \cup {NoRequest},
         SnapshotsAreOneLeaderboard', snapshots' \subseteq Snapshot,
         ShownAreStored', shown' \in [Users -> Nat]
  PROVE  QInv'
<1>1. \A q \in Requests : RequestSound(q)'
  BY OthersUndisturbed
<1>2. writer' # NoRequest <=> \E q \in Requests : requests'[q].pc = "insert"
  BY <1>1, RequestsAssumption DEF RequestSound, InsertsAsWriter
<1>3. TypeOK'
  BY <1>2 DEF QInv, TypeOK, StepOf
<1> QED
  BY <1>1, <1>3 DEF QInv

\* The same for steps that neither commit nor answer.
LEMMA InnerStepPreserves ==
  ASSUME QInv, NEW r \in Requests, StepOf(r), RequestSound(r)', writer' \in Requests \cup {NoRequest},
         UNCHANGED <<snapshots, shown>>
  PROVE  QInv'
<1>1. SnapshotsAreOneLeaderboard' /\ ShownAreStored'
  BY DEF QInv, StepOf, SnapshotsAreOneLeaderboard, ShownAreStored
<1>2. snapshots' \subseteq Snapshot /\ shown' \in [Users -> Nat]
  BY DEF QInv, TypeOK
<1> QED
  BY <1>1, <1>2, StepPreserves

LEMMA RequestFields ==
  ASSUME NEW q \in Request, q.pc # "idle"
  PROVE  /\ q = [pc |-> q.pc, rows |-> q.rows, entries |-> q.entries, todo |-> q.todo,
                 floor |-> q.floor]
         /\ q.rows \in SUBSET Checkin /\ q.entries \in Seq(Entry) /\ q.todo \in Seq(Entry)
         /\ q.floor \in [Users -> Nat]
  BY DEF Request, Idle

\* An idle request promises nothing, once it holds no lock.
LEMMA IdleIsSound ==
  ASSUME NEW r, requests[r] = Idle, writer # r
  PROVE  RequestSound(r)
  BY DEF RequestSound, InsertsAsWriter, ReadIsKnown, EntriesAreRanked, TransactionSound,
         FloorReached, HasRows, HasEntries, Idle

--------------------------------------------------------------------------------
LEMMA InitEstablishes == Init => QInv
<1> SUFFICES ASSUME Init PROVE QInv
  OBVIOUS
<1> USE DEF Init
<1>1. checkins \in Seq(Checkin) /\ ToSet(checkins) = {}
  BY DEF ToSet
<1>2. \A r \in Requests : RequestSound(r)
  BY IdleIsSound, RequestsAssumption
<1>3. TypeOK
  BY <1>1, RequestsAssumption DEF TypeOK, Request, Idle
<1>4. SnapshotsAreOneLeaderboard
  <2>1. Entries({}) = {}
    BY DEF Entries
  <2>2. RowsFor({}) = {}
    BY DEF RowsFor
  <2> QED
    BY <1>1, <2>1, <2>2, KnownSound, SnapshotsKnown
<1>5. ShownAreStored
  <2>1. IsFiniteSet(ToSet(checkins)) /\ ToSet(checkins) \in SUBSET Checkin
    BY <1>1, ElementsFinite
  <2>2. \A u : Count(u, ToSet(checkins)) \in Nat
    BY <2>1, CountGrows
  <2> QED
    BY <2>2 DEF ShownAreStored
<1> QED
  BY <1>2, <1>3, <1>4, <1>5 DEF QInv

LEMMA InsertCheckinPreserves ==
  ASSUME QInv, NEW c \in Checkin, InsertCheckin(c)
  PROVE  QInv'
<1> USE DEF InsertCheckin
<1>1. TypeOK /\ checkins \in Seq(Checkin)
  BY DEF QInv, TypeOK
<1>2. /\ Known \subseteq Known' /\ ToSet(checkins) \subseteq ToSet(checkins')
      /\ checkins' \in Seq(Checkin)
  BY <1>1, KnownGrows
<1>3. \A u : Count(u, ToSet(checkins)) <= Count(u, ToSet(checkins'))
             /\ Count(u, ToSet(checkins)) \in Nat /\ Count(u, ToSet(checkins')) \in Nat
  <2>1. IsFiniteSet(ToSet(checkins')) /\ ToSet(checkins') \in SUBSET Checkin
    BY <1>2, ElementsFinite
  <2> QED
    BY <1>2, <2>1, CountGrows
<1>4. ASSUME NEW r \in Requests PROVE RequestSound(r)'
  <2>1. RequestSound(r)
    BY DEF QInv
  <2>2. FloorReached(r)'
    <3> SUFFICES ASSUME NEW u \in Users, requests[r] # Idle
                 PROVE  requests[r].floor[u] <= Count(u, ToSet(checkins'))
      BY <2>1 DEF RequestSound, FloorReached, HasRows
    <3>1. requests[r].floor[u] \in Nat
      BY <1>1 DEF TypeOK, Request
    <3> QED
      BY <1>3, <2>1, <3>1 DEF RequestSound, FloorReached
  <2> QED
    BY <1>2, <2>1, <2>2 DEF RequestSound, InsertsAsWriter, ReadIsKnown, EntriesAreRanked,
       TransactionSound, HasRows, HasEntries
<1>5. ShownAreStored'
  BY <1>1, <1>3 DEF QInv, ShownAreStored, TypeOK
<1>6. SnapshotsAreOneLeaderboard'
  BY <1>2 DEF QInv, SnapshotsAreOneLeaderboard, Known
<1>7. TypeOK'
  BY <1>1, <1>2 DEF TypeOK
<1> QED
  BY <1>4, <1>5, <1>6, <1>7 DEF QInv

LEMMA ArrivePreserves ==
  ASSUME QInv, NEW r \in Requests, Arrive(r)
  PROVE  QInv'
<1> USE DEF Arrive
<1>1. TypeOK /\ RequestSound(r)
  BY DEF QInv
<1>2. requests'[r] = [pc |-> "list", rows |-> {}, entries |-> <<>>, todo |-> <<>>, floor |-> shown]
  BY <1>1 DEF TypeOK
<1>3. requests'[r] \in Request
  BY <1>1, <1>2 DEF TypeOK, Request
<1>4. StepOf(r)
  BY <1>1, <1>3 DEF StepOf, TypeOK
<1>5. writer # r
  BY <1>1 DEF RequestSound, InsertsAsWriter, Idle
<1>6. FloorReached(r)'
  BY <1>2 DEF FloorReached, HasRows, QInv, ShownAreStored
<1>7. RequestSound(r)'
  BY <1>2, <1>5, <1>6 DEF RequestSound, InsertsAsWriter, ReadIsKnown, EntriesAreRanked,
     TransactionSound, HasRows, HasEntries
<1> QED
  BY <1>1, <1>4, <1>7, InnerStepPreserves DEF TypeOK

LEMMA ListPreserves ==
  ASSUME QInv, NEW r \in Requests, List(r)
  PROVE  QInv'
<1> USE DEF List
<1>1. TypeOK /\ RequestSound(r)
  BY DEF QInv
<1>2. requests[r] # Idle /\ requests[r] \in Request
  BY <1>1 DEF TypeOK, Idle
<1>3. requests'[r] = [pc |-> "compute", rows |-> ToSet(checkins), entries |-> requests[r].entries,
                      todo |-> requests[r].todo, floor |-> requests[r].floor]
  BY <1>1, <1>2, RequestFields DEF TypeOK
<1>4. ToSet(checkins) \in Known /\ ToSet(checkins) \in SUBSET Checkin
  BY <1>1, KnownSound DEF TypeOK
<1>5. /\ requests'[r] \in Request /\ requests'[r].pc = "compute"
      /\ requests'[r].rows = ToSet(checkins) /\ requests'[r].floor = requests[r].floor
  BY <1>2, <1>3, <1>4, RequestFields DEF Request
<1>6. StepOf(r)
  BY <1>1, <1>5 DEF StepOf, TypeOK
<1>7. writer # r
  BY <1>1 DEF RequestSound, InsertsAsWriter
<1>8. FloorReached(r)'
  BY <1>1, <1>2, <1>5 DEF RequestSound, FloorReached
<1>9. RequestSound(r)'
  <2>1. ReadIsKnown(r)'
    BY <1>4, <1>5 DEF ReadIsKnown, Known
  <2> QED
    BY <1>5, <1>7, <1>8, <2>1 DEF RequestSound, InsertsAsWriter, EntriesAreRanked,
       TransactionSound, HasEntries
<1> QED
  BY <1>1, <1>6, <1>9, InnerStepPreserves DEF TypeOK

LEMMA ComputePreserves ==
  ASSUME QInv, NEW r \in Requests, Compute(r)
  PROVE  QInv'
<1> USE DEF Compute
<1>1. TypeOK /\ RequestSound(r) /\ requests[r] \in Request
  BY DEF QInv, TypeOK
<1>2. PICK ranking \in Rankings(Entries(requests[r].rows)) :
        requests' = [requests EXCEPT ![r].entries = ranking, ![r].todo = ranking,
                                     ![r].pc = "replace"]
  OBVIOUS
<1>3. requests'[r] = [pc |-> "replace", rows |-> requests[r].rows, entries |-> ranking,
                      todo |-> ranking, floor |-> requests[r].floor]
  <2>1. requests[r] = [pc |-> requests[r].pc, rows |-> requests[r].rows,
                      entries |-> requests[r].entries, todo |-> requests[r].todo,
                      floor |-> requests[r].floor]
    BY <1>1, RequestFields
  <2> QED
    BY <1>1, <1>2, <2>1 DEF TypeOK
<1>4. requests[r].rows \in Known
  BY <1>1 DEF RequestSound, ReadIsKnown, HasRows
<1>5. ranking \in Seq(Entry)
  <2>1. IsFiniteSet(Entries(requests[r].rows)) /\ Entries(requests[r].rows) \subseteq Entry
    BY <1>1, <1>4, KnownSound, EntriesSound DEF TypeOK
  <2>2. ranking \in Seq(Entries(requests[r].rows))
    BY <2>1, RankingIsComplete
  <2> QED
    BY <2>1, <2>2, SeqMonotonic
<1>6. requests'[r] \in Request
  BY <1>1, <1>3, <1>5, RequestFields DEF Request
<1>7. StepOf(r)
  BY <1>1, <1>2, <1>6 DEF StepOf, TypeOK
<1>8. FloorReached(r)' /\ ReadIsKnown(r)'
  <2>1. requests[r] # Idle /\ HasRows(r)
    BY DEF Idle, HasRows
  <2>2. FloorReached(r)'
    BY <1>1, <1>3, <2>1 DEF RequestSound, FloorReached
  <2>3. ReadIsKnown(r)'
    <3>1. Known' = Known
      BY DEF Known
    <3>2. requests'[r].rows = requests[r].rows
      BY <1>3
    <3> QED
      BY <1>4, <3>1, <3>2 DEF ReadIsKnown
  <2> QED
    BY <2>2, <2>3
<1>9. RequestSound(r)'
  BY <1>1, <1>3, <1>8 DEF RequestSound, InsertsAsWriter, EntriesAreRanked, TransactionSound,
     HasEntries
<1> QED
  BY <1>1, <1>7, <1>9, InnerStepPreserves DEF TypeOK

\* A request that only moves on, keeping what it has read and ranked.
LEMMA MovesOn ==
  ASSUME QInv, NEW r \in Requests, HasEntries(r), NEW pc \in {"insert", "answer"}, Goto(r, pc)
  PROVE  /\ requests'[r] = [pc |-> pc, rows |-> requests[r].rows, entries |-> requests[r].entries,
                            todo |-> requests[r].todo, floor |-> requests[r].floor]
         /\ requests' \in [Requests -> Request]
         /\ \A q \in Requests : q # r => requests'[q] = requests[q]
         /\ checkins' = checkins => ReadIsKnown(r)' /\ EntriesAreRanked(r)' /\ FloorReached(r)'
<1>1. RequestSound(r) /\ requests[r] \in Request /\ requests \in [Requests -> Request]
  BY DEF QInv, TypeOK
<1>2. requests[r].pc # "idle" /\ HasRows(r) /\ requests[r] # Idle
  BY DEF HasEntries, HasRows, Idle
<1>3. requests'[r] = [pc |-> pc, rows |-> requests[r].rows, entries |-> requests[r].entries,
                      todo |-> requests[r].todo, floor |-> requests[r].floor]
  <2>1. requests[r] = [pc |-> requests[r].pc, rows |-> requests[r].rows,
                      entries |-> requests[r].entries, todo |-> requests[r].todo,
                      floor |-> requests[r].floor]
    BY <1>1, <1>2, RequestFields
  <2> QED
    BY <1>1, <2>1 DEF Goto
<1>4. requests'[r] \in Request
  BY <1>1, <1>2, <1>3, RequestFields DEF Request
<1>5. ASSUME checkins' = checkins PROVE ReadIsKnown(r)' /\ EntriesAreRanked(r)' /\ FloorReached(r)'
  BY <1>1, <1>2, <1>3, <1>5
     DEF RequestSound, ReadIsKnown, EntriesAreRanked, FloorReached, HasRows, Known
<1> QED
  BY <1>1, <1>3, <1>4, <1>5 DEF Goto

LEMMA DeleteAllPreserves ==
  ASSUME QInv, NEW r \in Requests, DeleteAll(r)
  PROVE  QInv'
<1> USE DEF DeleteAll
<1>1. TypeOK /\ RequestSound(r) /\ HasEntries(r)
  BY DEF QInv, HasEntries
<1>2. /\ StepOf(r)
      /\ requests'[r].pc = "insert" /\ requests'[r].rows = requests[r].rows
      /\ requests'[r].todo = requests[r].todo
      /\ ReadIsKnown(r)' /\ EntriesAreRanked(r)' /\ FloorReached(r)'
  <2>1. /\ requests'[r] = [pc |-> "insert", rows |-> requests[r].rows,
                            entries |-> requests[r].entries, todo |-> requests[r].todo,
                            floor |-> requests[r].floor]
        /\ requests' \in [Requests -> Request]
        /\ \A q \in Requests : q # r => requests'[q] = requests[q]
        /\ ReadIsKnown(r)' /\ EntriesAreRanked(r)' /\ FloorReached(r)'
    BY <1>1, MovesOn
  <2>2. StepOf(r)
    BY <1>1, <2>1 DEF StepOf, TypeOK
  <2> QED
    BY <2>1, <2>2
<1>3. TransactionSound(r)'
  <2>1. requests[r].todo \in Rankings(Entries(requests[r].rows))
    BY <1>1 DEF RequestSound, TransactionSound, EntriesAreRanked
  <2>2. IsFiniteSet(Entries(requests[r].rows))
    BY <1>1, KnownSound, EntriesSound DEF RequestSound, ReadIsKnown, HasRows, TypeOK
  <2>3. ToSet(requests[r].todo) = Entries(requests[r].rows)
    BY <2>1, <2>2, RankingIsComplete
  <2> QED
    BY <1>2, <2>3 DEF TransactionSound
<1>4. RequestSound(r)'
  BY <1>2, <1>3 DEF RequestSound, InsertsAsWriter
<1> QED
  BY <1>1, <1>2, <1>4, InnerStepPreserves DEF TypeOK

LEMMA InsertEntryPreserves ==
  ASSUME QInv, NEW r \in Requests, InsertEntry(r)
  PROVE  QInv'
<1> USE DEF InsertEntry
<1>1. /\ TypeOK /\ RequestSound(r) /\ requests[r] \in Request /\ writer = r
      /\ requests[r].todo \in Seq(Entry)
  BY RequestFields DEF QInv, TypeOK, RequestSound, InsertsAsWriter
<1>2. requests'[r] = [pc |-> "insert", rows |-> requests[r].rows, entries |-> requests[r].entries,
                      todo |-> Tail(requests[r].todo), floor |-> requests[r].floor]
  <2>1. requests[r] = [pc |-> requests[r].pc, rows |-> requests[r].rows,
                      entries |-> requests[r].entries, todo |-> requests[r].todo,
                      floor |-> requests[r].floor]
    BY <1>1, RequestFields
  <2> QED
    BY <1>1, <2>1 DEF TypeOK
<1>3. /\ Head(requests[r].todo) \in Entry /\ Tail(requests[r].todo) \in Seq(Entry)
      /\ ToSet(requests[r].todo) = {Head(requests[r].todo)} \cup ToSet(Tail(requests[r].todo))
  <2> DEFINE s == requests[r].todo
  <2>1. /\ Head(s) \in Entry /\ Tail(s) \in Seq(Entry) /\ Len(Tail(s)) = Len(s) - 1
        /\ Len(s) \in Nat \ {0} /\ DOMAIN s = 1..Len(s) /\ DOMAIN Tail(s) = 1..(Len(s) - 1)
        /\ \A i \in 1..(Len(s) - 1) : Tail(s)[i] = s[i + 1]
        /\ Head(s) = s[1]
    <3> HIDE DEF s
    <3> QED BY <1>1, HeadTailProperties, EmptySeq, LenProperties DEF s
  <2> HIDE DEF s
  <2>2. \A i \in DOMAIN s : i = 1 \/ (i - 1 \in DOMAIN Tail(s) /\ s[i] = Tail(s)[i - 1])
    BY <2>1
  <2>3. \A i \in DOMAIN Tail(s) : i + 1 \in DOMAIN s /\ s[i + 1] = Tail(s)[i]
    BY <2>1
  <2>4. 1 \in DOMAIN s
    BY <2>1
  <2>5. ToSet(s) = {Head(s)} \cup ToSet(Tail(s))
    <3>1. ASSUME NEW x \in ToSet(s) PROVE x \in {Head(s)} \cup ToSet(Tail(s))
      <4>1. PICK i \in DOMAIN s : x = s[i]
        BY DEF ToSet
      <4> QED
        BY <2>1, <2>2, <4>1 DEF ToSet
    <3>2. ASSUME NEW x \in ToSet(Tail(s)) PROVE x \in ToSet(s)
      <4>1. PICK i \in DOMAIN Tail(s) : x = Tail(s)[i]
        BY DEF ToSet
      <4> QED
        BY <2>3, <4>1 DEF ToSet
    <3>3. Head(s) \in ToSet(s)
      BY <2>1, <2>4 DEF ToSet
    <3> QED
      BY <3>1, <3>2, <3>3
  <2> QED
    BY <2>1, <2>5 DEF s
<1>4. requests'[r] \in Request
  BY <1>1, <1>2, <1>3, RequestFields DEF Request
<1>5. SnapshotsOf(Head(requests[r].todo)) \subseteq Snapshot
  BY <1>3 DEF SnapshotsOf, Snapshot, Entry
<1>6. StepOf(r)
  BY <1>1, <1>4, <1>5 DEF StepOf, TypeOK
<1>7. TransactionSound(r)'
  <2>1. RowsFor(ToSet(requests[r].todo)) =
          SnapshotsOf(Head(requests[r].todo)) \cup RowsFor(ToSet(Tail(requests[r].todo)))
    BY <1>3 DEF RowsFor
  <2> QED
    BY <1>1, <1>2, <2>1 DEF RequestSound, TransactionSound
<1>8. RequestSound(r)'
  BY <1>1, <1>2, <1>7 DEF RequestSound, InsertsAsWriter, ReadIsKnown, EntriesAreRanked,
     FloorReached, HasRows, HasEntries, Known, Idle
<1> QED
  BY <1>1, <1>6, <1>8, InnerStepPreserves DEF TypeOK

LEMMA CommitPreserves ==
  ASSUME QInv, NEW r \in Requests, Commit(r)
  PROVE  QInv'
<1> USE DEF Commit
<1>1. TypeOK /\ RequestSound(r) /\ HasEntries(r) /\ writer = r
  BY DEF QInv, HasEntries, RequestSound, InsertsAsWriter
<1>2. /\ StepOf(r)
      /\ requests'[r].pc = "answer"
      /\ ReadIsKnown(r)' /\ EntriesAreRanked(r)' /\ FloorReached(r)'
  <2>1. /\ requests'[r] = [pc |-> "answer", rows |-> requests[r].rows,
                            entries |-> requests[r].entries, todo |-> requests[r].todo,
                            floor |-> requests[r].floor]
        /\ requests' \in [Requests -> Request]
        /\ \A q \in Requests : q # r => requests'[q] = requests[q]
        /\ ReadIsKnown(r)' /\ EntriesAreRanked(r)' /\ FloorReached(r)'
    BY <1>1, MovesOn
  <2>2. StepOf(r)
    BY <1>1, <2>1 DEF StepOf, TypeOK
  <2> QED
    BY <2>1, <2>2
<1>3. RequestSound(r)'
  BY <1>2, RequestsAssumption DEF RequestSound, InsertsAsWriter, TransactionSound
<1>4. SnapshotsAreOneLeaderboard'
  <2>1. ToSet(<<>>) = {} /\ RowsFor({}) = {}
    BY DEF ToSet, RowsFor
  <2>2. snapshots' = RowsFor(Entries(requests[r].rows)) /\ requests[r].rows \in Known
    BY <1>1, <2>1 DEF RequestSound, TransactionSound, ReadIsKnown, HasRows
  <2> QED
    BY <2>2 DEF SnapshotsAreOneLeaderboard, RowsFor, Known
<1>5. ShownAreStored'
  BY DEF QInv, ShownAreStored
<1> QED
  BY <1>1, <1>2, <1>3, <1>4, <1>5, StepPreserves DEF TypeOK

LEMMA ReplaceFailsPreserves ==
  ASSUME QInv, NEW r \in Requests, ReplaceFails(r)
  PROVE  QInv'
<1> USE DEF ReplaceFails
<1>1. TypeOK /\ RequestSound(r) /\ HasEntries(r)
  BY DEF QInv, HasEntries
<1>2. /\ StepOf(r)
      /\ requests'[r].pc = "answer"
      /\ ReadIsKnown(r)' /\ EntriesAreRanked(r)' /\ FloorReached(r)'
  <2>1. /\ requests'[r] = [pc |-> "answer", rows |-> requests[r].rows,
                            entries |-> requests[r].entries, todo |-> requests[r].todo,
                            floor |-> requests[r].floor]
        /\ requests' \in [Requests -> Request]
        /\ \A q \in Requests : q # r => requests'[q] = requests[q]
        /\ ReadIsKnown(r)' /\ EntriesAreRanked(r)' /\ FloorReached(r)'
    BY <1>1, MovesOn
  <2>2. StepOf(r)
    BY <1>1, <2>1 DEF StepOf, TypeOK
  <2> QED
    BY <2>1, <2>2
<1>3. RequestSound(r)'
  BY <1>2, RequestsAssumption DEF RequestSound, InsertsAsWriter, TransactionSound
<1> QED
  BY <1>1, <1>2, <1>3, InnerStepPreserves DEF TypeOK

\* The answer ends a request, and its totals are those of the rows it has read.
LEMMA AnswerPreserves ==
  ASSUME QInv, NEW r \in Requests, Answer(r)
  PROVE  QInv'
<1> USE DEF Answer
<1>1. /\ TypeOK /\ RequestSound(r) /\ ShownAreStored /\ SnapshotsAreOneLeaderboard
      /\ requests[r].rows \in Known
      /\ requests[r].entries \in Rankings(Entries(requests[r].rows))
  BY DEF QInv, RequestSound, ReadIsKnown, EntriesAreRanked, HasRows, HasEntries
<1>2. requests'[r] = Idle /\ Idle \in Request /\ writer # r
  BY <1>1 DEF TypeOK, Request, RequestSound, InsertsAsWriter
<1>3. StepOf(r)
  BY <1>1, <1>2 DEF StepOf, TypeOK
<1>4. RequestSound(r)'
  BY <1>2, IdleIsSound DEF RequestSound, InsertsAsWriter, ReadIsKnown, EntriesAreRanked,
     TransactionSound, FloorReached, HasRows, HasEntries, Idle
<1>5. ASSUME NEW u \in Users
      PROVE  shown'[u] \in Nat /\ shown'[u] <= Count(u, ToSet(checkins))
  <2>1. /\ TotalOf(u, requests[r].entries) = Count(u, requests[r].rows)
        /\ Count(u, requests[r].rows) \in Nat /\ Count(u, ToSet(checkins)) \in Nat
        /\ Count(u, requests[r].rows) <= Count(u, ToSet(checkins))
    BY <1>1, KnownSound, TotalIsCount, CountGrows DEF TypeOK
  <2>2. shown[u] \in Nat /\ shown[u] <= Count(u, ToSet(checkins))
    BY <1>1 DEF TypeOK, ShownAreStored
  <2>3. shown'[u] = Max({shown[u], Count(u, requests[r].rows)})
    BY <2>1
  <2> QED
    BY <2>1, <2>2, <2>3, MaxOfPair
<1>6. ShownAreStored' /\ shown' \in [Users -> Nat]
  BY <1>5 DEF ShownAreStored
<1>7. SnapshotsAreOneLeaderboard'
  BY <1>1 DEF SnapshotsAreOneLeaderboard
<1> QED
  BY <1>1, <1>3, <1>4, <1>6, <1>7, StepPreserves DEF TypeOK

LEMMA ListFailsPreserves ==
  ASSUME QInv, NEW r \in Requests, ListFails(r)
  PROVE  QInv'
<1> USE DEF ListFails
<1>1. TypeOK /\ RequestSound(r)
  BY DEF QInv
<1>2. requests'[r] = Idle /\ Idle \in Request /\ writer # r
  BY <1>1 DEF TypeOK, Request, RequestSound, InsertsAsWriter
<1>3. StepOf(r)
  BY <1>1, <1>2 DEF StepOf, TypeOK
<1>4. RequestSound(r)'
  BY <1>2 DEF RequestSound, InsertsAsWriter, ReadIsKnown, EntriesAreRanked,
     TransactionSound, FloorReached, HasRows, HasEntries, Idle
<1> QED
  BY <1>1, <1>3, <1>4, InnerStepPreserves DEF TypeOK

LEMMA ExitPreserves ==
  ASSUME QInv, Exit
  PROVE  QInv'
<1> USE DEF Exit
<1>1. TypeOK /\ ShownAreStored /\ SnapshotsAreOneLeaderboard
  BY DEF QInv
<1>2. \A r \in Requests : requests'[r] = Idle /\ writer' # r
  BY RequestsAssumption
<1>3. \A r \in Requests : RequestSound(r)'
  BY <1>2 DEF RequestSound, InsertsAsWriter, ReadIsKnown, EntriesAreRanked,
     TransactionSound, FloorReached, HasRows, HasEntries, Idle
<1>4. TypeOK'
  BY <1>1, <1>2 DEF TypeOK, Request, Idle
<1>5. ShownAreStored' /\ SnapshotsAreOneLeaderboard'
  BY <1>1 DEF ShownAreStored, SnapshotsAreOneLeaderboard
<1> QED
  BY <1>3, <1>4, <1>5 DEF QInv

LEMMA QInvIsInductive == QInv /\ [Next]_vars => QInv'
<1> SUFFICES ASSUME QInv, [Next]_vars PROVE QInv'
  OBVIOUS
<1>1. CASE UNCHANGED vars
  BY <1>1 DEF QInv, TypeOK, RequestSound, InsertsAsWriter, ReadIsKnown, EntriesAreRanked,
     TransactionSound, FloorReached, HasRows, HasEntries, Known, vars,
     ShownAreStored, SnapshotsAreOneLeaderboard
<1>2. CASE Next
  BY <1>2, InsertCheckinPreserves, ArrivePreserves, ListPreserves, ComputePreserves,
     DeleteAllPreserves, InsertEntryPreserves, CommitPreserves, ReplaceFailsPreserves,
     ListFailsPreserves, AnswerPreserves, ExitPreserves DEF Next
<1> QED
  BY <1>1, <1>2

LEMMA QInvHolds == Spec => []QInv
  BY InitEstablishes, QInvIsInductive, PTL DEF Spec

--------------------------------------------------------------------------------
\* Every request, its ranking and the transaction stay well typed.
THEOREM RequestsTypes == Spec => []TypeOK
<1>1. QInv => TypeOK
  BY DEF QInv
<1> QED
  BY <1>1, QInvHolds, PTL

(***************************************************************************)
(* Whoever replaces the snapshots and however that ends, they are those of *)
(* one leaderboard (ReplaceLeaderboardSnapshots in storage/sqlite.go).     *)
(***************************************************************************)
THEOREM OneLeaderboard == Spec => []SnapshotsAreOneLeaderboard
<1>1. QInv => SnapshotsAreOneLeaderboard
  BY DEF QInv
<1> QED
  BY <1>1, QInvHolds, PTL

(***************************************************************************)
(* The rows determine the ranking: the comparison of Compute in            *)
(* leaderboard/service.go is a total order of the entries.                 *)
(***************************************************************************)
THEOREM OneOrder == Spec => []SameRowsSameRanking
<1>1. ASSUME QInv PROVE SameRowsSameRanking
  <2> SUFFICES ASSUME NEW r \in Requests, NEW q \in Requests, HasEntries(r), HasEntries(q),
                      requests[r].rows = requests[q].rows
               PROVE  requests[r].entries = requests[q].entries
    BY DEF SameRowsSameRanking, HasEntries
  <2> DEFINE rows == requests[r].rows
  <2>1. /\ rows \in Known /\ checkins \in Seq(Checkin)
        /\ requests[r].entries \in Rankings(Entries(rows))
        /\ requests[q].entries \in Rankings(Entries(rows))
    BY <1>1 DEF QInv, TypeOK, RequestSound, ReadIsKnown, EntriesAreRanked, HasRows, HasEntries
  <2>2. /\ Entries(rows) \in SUBSET Entry /\ IsFiniteSet(Entries(rows))
        /\ \A a, b \in Entries(rows) : a.user = b.user => a = b
    BY <2>1, KnownSound, EntriesSound
  <2> QED
    BY <2>1, <2>2, OneRanking
<1> QED
  BY <1>1, QInvHolds, PTL

\* No answer shows anybody fewer check-ins than one sent before it was asked for.
THEOREM TotalsNeverShrink == Spec => []LaterAnswersKeepTotals
<1>1. ASSUME QInv PROVE LaterAnswersKeepTotals
  <2> SUFFICES ASSUME NEW r \in Requests, requests[r].pc = "answer", NEW u \in Users
               PROVE  TotalOf(u, requests[r].entries) >= requests[r].floor[u]
    BY DEF LaterAnswersKeepTotals
  <2>1. /\ requests[r].rows \in Known /\ checkins \in Seq(Checkin)
        /\ requests[r].entries \in Rankings(Entries(requests[r].rows))
        /\ requests[r].floor[u] <= Count(u, requests[r].rows)
    BY <1>1 DEF QInv, TypeOK, RequestSound, ReadIsKnown, EntriesAreRanked, FloorReached,
       HasRows, HasEntries
  <2>2. TotalOf(u, requests[r].entries) = Count(u, requests[r].rows)
    BY <2>1, KnownSound, TotalIsCount
  <2> QED
    BY <2>1, <2>2
<1> QED
  BY <1>1, QInvHolds, PTL

================================================================================
