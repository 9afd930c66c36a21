------------------------------- MODULE Rollup -------------------------------
(***************************************************************************)
(* The history tables: the deltas of each cycle, the daily and monthly     *)
(* buckets that rollupCycle recomputes in the cycle's own transaction, and *)
(* Compact, which maintenance runs to delete what has aged past retention  *)
(* (src/internal/store/history.go, maintain of src/cmd/foldingd/main.go).  *)
(*                                                                         *)
(* One kind of entity stands for both tables, and the project's buckets    *)
(* are summed over it.  Time is in whole units.                            *)
(***************************************************************************)
EXTENDS Integers, FiniteSets, Functions

CONSTANTS
  Ids,           \* team slots, or member ids
  DayLength,     \* the units of a day
  MonthLength,   \* the days of a month
  CompactAfter,  \* -compact-after
  KeepDaily,     \* -keep-daily, 0 to keep daily buckets for ever
  MaxLag,        \* how old a cycle is at most when it is ingested
  MaxNow         \* bound: the clock

ASSUME IdsAssumption == IsFiniteSet(Ids)
ASSUME LengthAssumption == DayLength \in Nat \ {0} /\ MonthLength \in Nat \ {0}
ASSUME RetentionAssumption ==
  /\ CompactAfter \in Nat /\ KeepDaily \in Nat /\ MaxLag \in Nat /\ MaxNow \in Nat

VARIABLES
  now,            \* the clock
  newest,         \* state.At, the newest cycle
  log,            \* history variable: every delta ever committed
  raw,            \* the deltas table, by entity and time
  daily, monthly, \* the rollups, by entity and bucket
  projectDaily, projectMonthly,
  floor           \* history variable: daily buckets before it were pruned

vars == <<now, newest, log, raw, daily, monthly, projectDaily, projectMonthly,
          floor>>

DayBucket(t) == t \div DayLength
MonthBucket(day) == day \div MonthLength

\* Mutant: INSERT OR IGNORE.
Upsert_Ignore(table, rows) ==
  [k \in DOMAIN table \cup DOMAIN rows |-> IF k \in DOMAIN table THEN table[k]
                                           ELSE rows[k]]

\* INSERT ... ON CONFLICT DO UPDATE.
Upsert(table, rows) ==
  [k \in DOMAIN table \cup DOMAIN rows |-> IF k \in DOMAIN rows THEN rows[k]
                                           ELSE table[k]]

\* SELECT id, bucket, SUM(..) .. WHERE key IN keys GROUP BY id.
SumByEntity(table, keys, bucket) ==
  LET rows == {k \in DOMAIN table : k[2] \in keys}
  IN [g \in {<<k[1], bucket>> : k \in rows} |->
        SumFunctionOnSet(table, {k \in rows : k[1] = g[1]})]

\* DELETE .. WHERE key < first.
DeleteBefore(table, first) == [k \in {x \in DOMAIN table : x[2] >= first} |-> table[k]]

DaysOf(month) == (month * MonthLength)..(month * MonthLength + MonthLength - 1)
TimesOf(day) == (day * DayLength)..(day * DayLength + DayLength - 1)

\* The project's buckets are keyed by the bucket alone, and have no row where
\* there was nothing to sum.
SumByBucket(table, buckets, bucket) ==
  LET rows == {k \in DOMAIN table : k[2] \in buckets}
  IN [b \in {bucket : k \in rows} |-> SumFunctionOnSet(table, rows)]

SumOfBuckets(table, buckets, bucket) ==
  LET rows == DOMAIN table \cap buckets
  IN [b \in {bucket : k \in rows} |-> SumFunctionOnSet(table, rows)]

\* Mutant: the month is summed from the raw deltas, which are compacted.
MonthlyRows_FromRaw(month) ==
  SumByEntity(raw', UNION {TimesOf(day) : day \in DaysOf(month)}, month)

MonthlyRows(month) == SumByEntity(daily', DaysOf(month), month)

\* rollupCycle, given the deltas with the cycle's own among them.
RollupCycle(t) ==
  LET day == DayBucket(t)
      month == MonthBucket(day)
  IN /\ daily' = Upsert(daily, SumByEntity(raw', TimesOf(day), day))
     /\ monthly' = Upsert(monthly, MonthlyRows(month))
     /\ projectDaily' = Upsert(projectDaily, SumByBucket(daily', {day}, day))
     /\ projectMonthly' =
          Upsert(projectMonthly, SumOfBuckets(projectDaily', DaysOf(month), month))

Init ==
  /\ now = 1
  /\ newest = 0
  /\ log = <<>> /\ raw = <<>>
  /\ daily = <<>> /\ monthly = <<>>
  /\ projectDaily = <<>> /\ projectMonthly = <<>>
  /\ floor = 0

\* The history half of WriteCycle.  Cycles come in time order, live or
\* replayed from an archive.
WriteCycle ==
  \E t \in (newest + 1)..now, moved \in SUBSET Ids :
    /\ t >= now - MaxLag
    /\ newest' = t
    /\ LET deltas == [k \in moved \X {t} |-> 1]
       IN /\ log' = Upsert(log, deltas)
          /\ raw' = Upsert(raw, deltas)
    /\ RollupCycle(t)
    /\ UNCHANGED <<now, floor>>

\* Mutant: the cutoff is not rounded down to the start of its day.
Cutoff_MidDay == now - CompactAfter

Cutoff == DayBucket(now - CompactAfter) * DayLength

\* One transaction, on whatever day maintenance comes to it.
Compact ==
  LET firstDaily == IF KeepDaily = 0 THEN 0 ELSE DayBucket(now - KeepDaily)
  IN /\ raw' = DeleteBefore(raw, Cutoff)
     /\ daily' = DeleteBefore(daily, firstDaily)
     /\ floor' = IF firstDaily > floor THEN firstDaily ELSE floor
     /\ UNCHANGED <<now, newest, log, monthly, projectDaily, projectMonthly>>

Tick ==
  /\ now < MaxNow
  /\ now' = now + 1
  /\ UNCHANGED <<newest, log, raw, daily, monthly, projectDaily,
                 projectMonthly, floor>>

Next == WriteCycle \/ Compact \/ Tick

Spec == Init /\ [][Next]_vars

-----------------------------------------------------------------------------
(* Properties. *)

\* The production of an entity over a set of times, from every delta there was.
Produced(ids, times) ==
  SumFunctionOnSet(log, {k \in DOMAIN log : k[1] \in ids /\ k[2] \in times})

Holds(table, key) == IF key \in DOMAIN table THEN table[key] ELSE 0

Days == 0..DayBucket(MaxNow)
Months == 0..MonthBucket(DayBucket(MaxNow))

MonthTimes(month) == UNION {TimesOf(day) : day \in DaysOf(month)}

\* A daily bucket that retention still keeps tells all of its day, whatever
\* compaction has deleted under it: "a partial day is never pruned out from
\* under the bucket that summarises it" (history.go:220-221).  It needs MaxLag to
\* be no more than CompactAfter (README, Disagreements).
DailyIsWhole ==
  \A id \in Ids, day \in Days :
    day >= floor => Holds(daily, <<id, day>>) = Produced({id}, TimesOf(day))

\* A month keeps all of its days after they are pruned: "Months already
\* written keep their values" (history.go:248-250).  It needs daily buckets to be
\* kept until no cycle falls into their month (README, Disagreements).
MonthlyIsWhole ==
  \A id \in Ids, month \in Months :
    Holds(monthly, <<id, month>>) = Produced({id}, MonthTimes(month))

\* The project's own buckets agree with the deltas of all the teams, and are
\* never pruned (history.go:559-566).
ProjectIsTheSumOfTeams ==
  /\ \A day \in Days : Holds(projectDaily, day) = Produced(Ids, TimesOf(day))
  /\ \A month \in Months :
       Holds(projectMonthly, month) = Produced(Ids, MonthTimes(month))
=============================================================================
