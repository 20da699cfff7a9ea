------------------------------ MODULE Reports ------------------------------
(***************************************************************************)
(* The usage reports: the key by paddock matrix, the daily series and the  *)
(* ranking of keys over a window of hour buckets, which the console's      *)
(* usage page and a caller of the admin API read one after the other,      *)
(* while the metering worker counts and paddocks are deleted.              *)
(*                                                                         *)
(* A bucket is the hour's number, a day HoursPerDay of them; the format of *)
(* `period' sorts as they do.  One org: every query filters on it first.   *)
(***************************************************************************)
EXTENDS Naturals, FiniteSets, FiniteSetsExt

CONSTANTS
    Keys, Paddocks,
    Dims, Headline,   \* meter dimensions, and the one the bars show
    Meters,           \* <<key, paddock, dim>>: what is metered
    All,              \* no filter on a key or a paddock
    Filters,          \* <<key, paddock>>: what the usage page is filtered by
    Nothing,          \* nothing asked, nothing read
    HoursPerDay,
    Ranges,           \* days of each range of the usage page
    FirstHour,        \* the hour it is when the model begins
    MaxHour, MaxWrites

ReportsAssumption ==
    /\ {HoursPerDay, FirstHour, MaxHour, MaxWrites} \subseteq Nat /\ HoursPerDay > 0
    /\ Ranges \subseteq Nat \ {0} /\ \A n \in Ranges : (n - 1) * HoursPerDay <= FirstHour
    /\ Meters \subseteq Keys \X Paddocks \X Dims
    /\ Filters \subseteq (Keys \cup {All}) \X (Paddocks \cup {All})
    /\ Headline \in Dims /\ All \notin Keys \cup Paddocks

Hours == 0..MaxHour
DayOf(hour) == hour \div HoursPerDay
Cells == {[key |-> m[1], paddock |-> m[2], dim |-> m[3], hour |-> h] : m \in Meters, h \in Hours}

VARIABLES
    now,         \* the current hour
    rollup,      \* [Cells -> usage_rollup.value; 0 is no row]
    asked,       \* the window and filters of the reports being read, or Nothing
    matrix,      \* [keys and paddocks with rows -> [Dims -> Nat]], or Nothing
    series,      \* [days with rows -> Nat] of the headline dimension, or Nothing
    ranking,     \* [the keys ranked -> Nat], or Nothing
    writes,
    version,     \* history: each report's `writes' when it was read
    totals       \* history: what the window has held since it was asked for

reportVars == <<now, rollup, asked, matrix, series, ranking, writes, version, totals>>

Unread == [matrix |-> 0, series |-> 0, ranking |-> 0]

Init ==
    /\ now = FirstHour
    /\ rollup = [c \in Cells |-> 0]
    /\ asked = Nothing /\ matrix = Nothing /\ series = Nothing /\ ranking = Nothing
    /\ writes = 0 /\ version = Unread /\ totals = {}

Total(cells) == MapThenSumSet(LAMBDA c : rollup[c], cells)

\* What a window is about: the days it names, up to the hour it was asked in
\* and from the one it begins with, when it was given by hours.
Meant(c, w) == /\ DayOf(c.hour) \in w.days /\ w.since <= c.hour /\ c.hour <= w.last
               /\ c.dim = Headline /\ w.key \in {All, c.key} /\ w.paddock \in {All, c.paddock}
Held(w) == MapThenSumSet(LAMBDA c : rollup'[c], {c \in Cells : Meant(c, w)})

----------------------------------------------------------------------------
(* resolveRange: from midnight of the first of n days to the hour it is;   *)
(* the days are today and those before it.                                 *)
DaysBack(n, hour) == {DayOf(hour) - i : i \in 0..(n - 1)}
\* Mutation: today is not among them.
DaysBefore(n, hour) == {DayOf(hour) - i : i \in 1..(n - 1)}
Days(n, hour) == DaysBack(n, hour)

MidnightOf(n, hour) == Min(DaysBack(n, hour)) * HoursPerDay
\* Mutation: the same hour, n days back.
SameHour(n, hour) == hour - (n * HoursPerDay)
From(n, hour) == MidnightOf(n, hour)

Window(since, first, last, days, key, paddock) ==
    [since |-> since, first |-> first, last |-> last, days |-> days, key |-> key, paddock |-> paddock]

Ask(w) ==
    /\ asked = Nothing
    /\ asked' = w /\ version' = Unread
    /\ UNCHANGED <<now, rollup, matrix, series, ranking, writes>>
    /\ totals' = {Held(w)}

OpenPage(n, key, paddock) == Ask(Window(0, From(n, now), now, Days(n, now), key, paddock))

\* A caller of the admin API names its own buckets, which must run forwards.
Query(first, last) ==
    /\ first <= last
    /\ Ask(Window(first, first, last, {DayOf(h) : h \in first..last}, All, All))

----------------------------------------------------------------------------
(* The queries, each a statement of its own: rows of the window by key and *)
(* paddock, by day, by key.                                                *)
Between(w) == {c \in Cells : w.first <= c.hour /\ c.hour <= w.last}
\* Mutation: without the upper bound.
Since(w) == {c \in Cells : w.first <= c.hour}
InSeries(w) == Between(w)

Matching(cells, w) ==
    {c \in cells : rollup[c] > 0 /\ w.key \in {All, c.key} /\ w.paddock \in {All, c.paddock}}

Read(report) == version' = [version EXCEPT ![report] = writes]

ReadMatrix ==
    /\ asked # Nothing /\ matrix = Nothing
    /\ LET found == Matching(Between(asked), asked)
       IN  matrix' = [pair \in {<<c.key, c.paddock>> : c \in found} |->
                         [d \in Dims |-> Total({c \in found : <<c.key, c.paddock>> = pair /\ c.dim = d})]]
    /\ Read("matrix")
    /\ UNCHANGED <<now, rollup, asked, series, ranking, writes, totals>>

ReadSeries ==
    /\ asked # Nothing /\ series = Nothing
    /\ LET found == {c \in Matching(InSeries(asked), asked) : c.dim = Headline}
       IN  series' = [day \in {DayOf(c.hour) : c \in found} |-> Total({c \in found : DayOf(c.hour) = day})]
    /\ Read("series")
    /\ UNCHANGED <<now, rollup, asked, matrix, ranking, writes, totals>>

\* The keys with the greatest sums, in any order among equals; it takes no filter.
ReadTopKeys(limit) ==
    /\ asked # Nothing /\ ranking = Nothing /\ asked.key = All /\ asked.paddock = All
    /\ LET found == {c \in Matching(Between(asked), asked) : c.dim = Headline}
           keys == {c.key : c \in found}
           of(k) == Total({c \in found : c.key = k})
       IN  \E top \in SUBSET keys :
               /\ Cardinality(top) = Min({limit, Cardinality(keys)})
               /\ \A k \in top, other \in keys \ top : of(k) >= of(other)
               /\ ranking' = [k \in top |-> of(k)]
    /\ Read("ranking")
    /\ UNCHANGED <<now, rollup, asked, matrix, series, writes, totals>>

Closed ==
    /\ asked # Nothing
    /\ asked' = Nothing /\ matrix' = Nothing /\ series' = Nothing /\ ranking' = Nothing
    /\ version' = Unread /\ totals' = {}
    /\ UNCHANGED <<now, rollup, writes>>

----------------------------------------------------------------------------
(* Meanwhile: the worker counts an event of this hour or a late one, a     *)
(* paddock goes and its rows with it, the hour passes.                     *)
Write ==
    /\ writes < MaxWrites /\ writes' = writes + 1
    /\ totals' = IF asked = Nothing THEN {} ELSE totals \cup {Held(asked)}
    /\ UNCHANGED <<now, asked, matrix, series, ranking, version>>

Count(c) == c.hour <= now /\ rollup' = [rollup EXCEPT ![c] = @ + 1] /\ Write
DeletePaddock(p) ==
    /\ \E c \in Cells : c.paddock = p /\ rollup[c] > 0
    /\ rollup' = [c \in Cells |-> IF c.paddock = p THEN 0 ELSE rollup[c]]
    /\ Write

HourPasses ==
    /\ now < MaxHour /\ now' = now + 1
    /\ UNCHANGED <<rollup, asked, matrix, series, ranking, writes, version, totals>>

Asking ==
    \/ \E n \in Ranges, filter \in Filters : OpenPage(n, filter[1], filter[2])
    \/ \E first, last \in Hours : Query(first, last)
Reading == ReadMatrix \/ ReadSeries \/ (\E limit \in 1..2 : ReadTopKeys(limit)) \/ Closed
Changing == (\E c \in Cells : Count(c)) \/ (\E p \in Paddocks : DeletePaddock(p)) \/ HourPasses

Next == Asking \/ Reading \/ Changing

Spec == Init /\ [][Next]_reportVars

----------------------------------------------------------------------------
TypeOK ==
    /\ now \in Hours /\ rollup \in [Cells -> Nat]
    /\ matrix # Nothing => DOMAIN matrix \subseteq Keys \X Paddocks
    /\ ranking # Nothing => DOMAIN ranking \subseteq Keys

\* The page's bars: every day of the range, those without rows empty.
Bar(day) == IF day \in DOMAIN series THEN series[day] ELSE 0
BarsTotal == MapThenSumSet(Bar, asked.days)
OfKey(k) == MapThenSumSet(LAMBDA pair : matrix[pair][Headline], {pair \in DOMAIN matrix : pair[1] = k})
MatrixTotal == MapThenSumSet(OfKey, Keys)

(* The reports of a window tell one story: the bars and the matrix each    *)
(* add up to what the days asked about held at a moment since they were    *)
(* asked for, none of them counts a day or an hour outside those days, and *)
(* reports read with no write between them agree, key by key.  resolveRange *)
(* names days and buckets in two ways; the queries and the page use both.  *)
ReportsAgree ==
    asked # Nothing =>
        /\ series # Nothing => BarsTotal \in totals /\ DOMAIN series \subseteq asked.days
        /\ matrix # Nothing => MatrixTotal \in totals
        /\ series # Nothing /\ matrix # Nothing /\ version.series = version.matrix =>
               BarsTotal = MatrixTotal
        /\ ranking # Nothing /\ matrix # Nothing /\ version.ranking = version.matrix =>
               \A k \in Keys : IF k \in DOMAIN ranking THEN ranking[k] = OfKey(k)
                               ELSE \A other \in DOMAIN ranking : ranking[other] >= OfKey(k)
=============================================================================
